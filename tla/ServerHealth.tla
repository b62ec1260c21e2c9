----------------------------- MODULE ServerHealth -----------------------------
(***************************************************************************)
(* The status of the ASR servers and its writers: the heartbeat, which     *)
(* walks over a list it has read, the administrator's requests, and        *)
(* benchmarks.  Each asks a server something and writes what it learned    *)
(* some time later.                                                        *)
(*                                                                         *)
(* An endpoint answers or not; asking by wss and then by ws is one         *)
(* question.                                                               *)
(***************************************************************************)
EXTENDS Integers, FiniteSets

CONSTANTS
    Nodes, Endpoints,
    MaxAdmin,         \* bound on updates, deletions, probe requests and benchmarks
    MaxFlips          \* bound on the changes of what answers

ASSUME HealthAssumption == MaxAdmin \in Nat /\ MaxFlips \in Nat

VARIABLES
    node,       \* the rows: [st, beat, enabled, at]; beat is the age of last_heartbeat
    answering,  \* the endpoints that answer
    round,      \* the heartbeat's round: [seen, left, got]
    probe,      \* the probe request: [of, read, got]
    admin, flips

healthVars == <<node, answering, round, probe, admin, flips>>

Absent  == [st |-> "absent", beat |-> "never", enabled |-> TRUE, at |-> "nowhere"]
Asleep  == [seen |-> [n \in Nodes |-> Absent], left |-> {}, got |-> << >>]
NoProbe == [of |-> {}, read |-> "absent", got |-> "nothing"]

Registered(n) == node[n].st # "absent"
Answer(e)     == IF e \in answering THEN "answer" ELSE "silence"
Result(got)   == IF got = "answer" THEN "ONLINE" ELSE "OFFLINE"

HealthInit ==
    /\ node = [n \in Nodes |-> Absent]
    /\ answering = Endpoints
    /\ round = Asleep /\ probe = NoProbe
    /\ admin = 0 /\ flips = 0

-----------------------------------------------------------------------------
(* The heartbeat. *)

BeginRound ==
    /\ round = Asleep
    /\ \E n \in Nodes : Registered(n) /\ node[n].enabled
    /\ round' = [seen |-> node, left |-> {n \in Nodes : Registered(n) /\ node[n].enabled}, got |-> << >>]
    /\ UNCHANGED <<node, answering, probe, admin, flips>>

(* A server is asked at the endpoint it had when the list was read. *)
Ask(n) ==
    /\ n \in round.left /\ round.got = << >>
    /\ round' = [round EXCEPT !.got = <<n, Answer(round.seen[n].at)>>]
    /\ UNCHANGED <<node, answering, probe, admin, flips>>

(* Mutant: a server that was never heard of is given time. *)
VerdictPatient(n, row) ==
    IF round.got = <<n, "answer">> THEN [row EXCEPT !.st = "ONLINE", !.beat = "recent"]
    ELSE IF round.seen[n].beat = "old" THEN [row EXCEPT !.st = "OFFLINE"]
    ELSE [row EXCEPT !.st = IF round.seen[n].st = "ONLINE" /\ round.seen[n].beat = "recent" THEN "DEGRADED" ELSE @]

(* The verdict rests on the status and the last heartbeat of the list. *)
Verdict(n, row) ==
    IF round.got = <<n, "answer">> THEN [row EXCEPT !.st = "ONLINE", !.beat = "recent"]
    ELSE IF round.seen[n].beat # "recent" THEN [row EXCEPT !.st = "OFFLINE"]
    ELSE [row EXCEPT !.st = IF round.seen[n].st = "ONLINE" THEN "DEGRADED" ELSE @]

Judge(n) ==
    /\ round.got \in {<<n, "answer">>, <<n, "silence">>}
    /\ node' = [node EXCEPT ![n] = Verdict(n, @)]
    /\ round' = IF round.left = {n} THEN Asleep ELSE [round EXCEPT !.left = @ \ {n}, !.got = << >>]
    /\ UNCHANGED <<answering, probe, admin, flips>>

(* heartbeat_timeout passes; what the list shows is no younger than the row. *)
Aged(row) == [row EXCEPT !.beat = IF @ = "recent" THEN "old" ELSE @]

HeartbeatAges(n) ==
    /\ node[n].beat = "recent"
    /\ round' = [round EXCEPT !.seen[n] = Aged(@)]
    /\ node' = [node EXCEPT ![n] = Aged(@)]
    /\ UNCHANGED <<answering, probe, admin, flips>>

ListAges(n) ==
    /\ round.seen[n].beat = "recent"
    /\ round' = [round EXCEPT !.seen[n] = Aged(@)]
    /\ UNCHANGED <<node, answering, probe, admin, flips>>

-----------------------------------------------------------------------------
(* Requests. *)

Register(n, e) ==
    /\ ~Registered(n)
    /\ node' = [node EXCEPT ![n] = [st |-> Result(Answer(e)), beat |-> "never", enabled |-> TRUE, at |-> e]]
    /\ UNCHANGED <<answering, round, probe, admin, flips>>

Administer(n) == Registered(n) /\ admin < MaxAdmin /\ admin' = admin + 1

UpdateServer(n) ==
    /\ Administer(n)
    /\ node' \in {[node EXCEPT ![n].enabled = ~@]} \cup {[node EXCEPT ![n].at = e] : e \in Endpoints}
    /\ UNCHANGED <<answering, round, probe, flips>>

BeginProbe(n) ==
    /\ probe = NoProbe /\ Administer(n)
    /\ probe' = [of |-> {n}, read |-> node[n].st, got |-> "nothing"]
    /\ UNCHANGED <<node, answering, round, flips>>

ProbeAnswers(n) ==
    /\ probe.of = {n} /\ probe.got = "nothing"
    /\ probe' = [probe EXCEPT !.got = Answer(node[n].at)]
    /\ UNCHANGED <<node, answering, round, admin, flips>>

(* The session writes the status only when it differs from the one it read. *)
EndProbe(n) ==
    /\ probe.of = {n} /\ probe.got # "nothing"
    /\ node' = [node EXCEPT ![n].st = IF Result(probe.got) = probe.read THEN @ ELSE Result(probe.got)]
    /\ probe' = NoProbe
    /\ UNCHANGED <<answering, round, admin, flips>>

(* A benchmark, begun some time ago, stores that the server was reached or not. *)
BenchmarkStores(n) ==
    /\ Administer(n)
    /\ \E st \in {"ONLINE", "OFFLINE"} : node' = [node EXCEPT ![n].st = st]
    /\ UNCHANGED <<answering, round, probe, flips>>

(* Of a server without tasks: the row is deleted, then the log line names an *)
(* undefined variable, and the session is rolled back.                       *)
DeleteServer(n) ==
    /\ Administer(n)
    /\ UNCHANGED <<node, answering, round, probe, flips>>

Flip(e) ==
    /\ flips < MaxFlips /\ flips' = flips + 1
    /\ answering' = IF e \in answering THEN answering \ {e} ELSE answering \cup {e}
    /\ UNCHANGED <<node, round, probe, admin>>

-----------------------------------------------------------------------------
HealthNext ==
    \/ BeginRound
    \/ \E n \in Nodes : \/ Ask(n) \/ Judge(n) \/ HeartbeatAges(n) \/ ListAges(n)
                        \/ UpdateServer(n) \/ BeginProbe(n) \/ ProbeAnswers(n) \/ EndProbe(n)
                        \/ BenchmarkStores(n) \/ DeleteServer(n)
                        \/ \E e \in Endpoints : Register(n, e)
    \/ \E e \in Endpoints : Flip(e)

(* The heartbeat's loop goes on, and time passes. *)
HealthFairness ==
    /\ WF_healthVars(BeginRound \/ \E n \in Nodes : Ask(n) \/ Judge(n))
    /\ \A n \in Nodes : WF_healthVars(HeartbeatAges(n))

HealthSpec == HealthInit /\ [][HealthNext]_healthVars /\ HealthFairness

-----------------------------------------------------------------------------
(* Properties. *)

(* Whatever benchmarks and requests wrote of a server that is registered and *)
(* enabled, and whatever list a round began with, in the end the server is    *)
(* ONLINE when it keeps answering, and OFFLINE when it keeps silent.          *)
StatusFollowsServer ==
    \A n \in Nodes :
        /\ <>[](Registered(n) /\ node[n].enabled /\ node[n].at \in answering) => <>[](node[n].st = "ONLINE")
        /\ <>[](Registered(n) /\ node[n].enabled /\ node[n].at \notin answering) => <>[](node[n].st = "OFFLINE")

=============================================================================
