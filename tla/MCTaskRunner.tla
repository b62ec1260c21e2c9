---------------------------- MODULE MCTaskRunner ----------------------------
(***************************************************************************)
(* The instances of TaskRunner that TLC checks: long is cut into the       *)
(* segments x1 and x2, short is transcribed as one file.                   *)
(***************************************************************************)
EXTENDS TaskRunner, TLC

CONSTANTS long, short, x1, x2, s1, s2

MCTasks   == {long, short}
OnlyLong  == {long}
OnlyShort == {short}

MCSegs   == {x1, x2}
MCParent == [x \in MCSegs |-> long]
NoParent == [x \in {} |-> None]

(* Two servers of one slot each, or one server of two slots. *)
MCServers == {s1, s2}
MCCap     == [s \in MCServers |-> 1]
OneServer == {s1}
OneCap    == [s \in OneServer |-> 2]

MCGroups == {Tasks}

(* The segments are alike, and so are the servers. *)
MCSymmetry == {f @@ g : f \in Permutations(MCSegs), g \in Permutations(MCServers)}

=============================================================================
