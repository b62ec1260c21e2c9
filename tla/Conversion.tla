------------------------------ MODULE Conversion ------------------------------
(***************************************************************************)
(* One audio file made by ffmpeg: each call for it finds it, or makes it   *)
(* under a temporary name and moves it to its place.  Calls for a          *)
(* converted recording take turns, by a lock that calls for other files    *)
(* may drop from the table; calls for a piece of a recording do not.       *)
(*                                                                         *)
(* A process that dies leaves its temporary files behind, where no later   *)
(* call looks; recordings that are already as wanted need no call.         *)
(***************************************************************************)
EXTENDS Integers, FiniteSets, FiniteSetsExt

CONSTANTS
    Request,        \* calls of ensure_wav, ensure_canonical_wav or split_wav_segments
    MaxExits        \* bound on crashes of the process

ASSUME ConversionAssumption == IsFiniteSet(Request) /\ MaxExits \in Nat

VARIABLES
    sort,           \* what the file is: "recording" or "piece"
    audio,          \* what is at its place: "none", "part" or "whole"
    temp,           \* what each call has written under its temporary name
    call,           \* the calls: [pc, lock]
    lockOf,         \* its lock in _conversion_locks, 0 for none
    exits

conversionVars == <<sort, audio, temp, call, lockOf, exits>>

Unasked == [pc |-> "unasked", lock |-> 0]

ConversionInit ==
    /\ sort = "unknown" /\ audio = "none" /\ temp = [c \in Request |-> "none"]
    /\ call = [c \in Request |-> Unasked] /\ lockOf = 0 /\ exits = 0

(* A call that is over lets go of its lock. *)
Step(c, from, to) ==
    /\ call[c].pc = from
    /\ call' = [call EXCEPT ![c] = [pc |-> to, lock |-> IF to \in {"found", "failed"} THEN 0 ELSE @.lock]]

Holds(c) == call[c].pc \in {"look", "ffmpeg", "move"}
NewLock  == Min((1 .. Cardinality(Request) + 1) \ ({lockOf} \cup {call[c].lock : c \in Request}))

-----------------------------------------------------------------------------
(* split_wav_segments, and the others with _get_path_lock. *)
AskForPiece(c) ==
    /\ sort \in {"unknown", "piece"} /\ sort' = "piece" /\ Step(c, "unasked", "look")
    /\ UNCHANGED <<audio, temp, lockOf, exits>>

AskForRecording(c) ==
    /\ sort \in {"unknown", "recording"} /\ sort' = "recording"
    /\ call[c].pc = "unasked"
    /\ lockOf' = IF lockOf = 0 THEN NewLock ELSE lockOf
    /\ call' = [call EXCEPT ![c] = [pc |-> "wait", lock |-> lockOf']]
    /\ UNCHANGED <<audio, temp, exits>>

(* The table is full: locks nobody holds are dropped, waited for or not. *)
DropLock ==
    /\ lockOf # 0 /\ ~\E c \in Request : Holds(c) /\ call[c].lock = lockOf
    /\ lockOf' = 0
    /\ UNCHANGED <<sort, audio, temp, call, exits>>

TakeLock(c) ==
    /\ Step(c, "wait", "look") /\ ~\E d \in Request : Holds(d) /\ call[d].lock = call[c].lock
    /\ UNCHANGED <<sort, audio, temp, lockOf, exits>>

FindFile(c) ==
    /\ Step(c, "look", "found") /\ audio # "none"
    /\ UNCHANGED <<sort, audio, temp, lockOf, exits>>

(* Without ffmpeg, or without room for a temporary file, nothing is made. *)
BeginConvert(c) ==
    /\ audio = "none" /\ UNCHANGED <<sort, audio, lockOf, exits>>
    /\ \/ Step(c, "look", "ffmpeg") /\ temp' = [temp EXCEPT ![c] = "part"]
       \/ Step(c, "look", "failed") /\ UNCHANGED temp

FfmpegSucceeds(c) ==
    /\ Step(c, "ffmpeg", "move") /\ temp' = [temp EXCEPT ![c] = "whole"]
    /\ UNCHANGED <<sort, audio, lockOf, exits>>

(* Mutant: the exit code of ffmpeg is not looked at. *)
FailureIgnored(c) ==
    /\ Step(c, "ffmpeg", "move") /\ UNCHANGED <<sort, audio, temp, lockOf, exits>>

(* A bad exit code, an empty file, the time limit, or the call is canceled: *)
(* the temporary file is removed.                                           *)
FfmpegFails(c) ==
    /\ Step(c, "ffmpeg", "failed") /\ temp' = [temp EXCEPT ![c] = "none"]
    /\ UNCHANGED <<sort, audio, lockOf, exits>>

(* _replace_path_with_retry, over whatever is there; all its tries may fail. *)
MoveFile(c) ==
    /\ temp' = [temp EXCEPT ![c] = "none"] /\ UNCHANGED <<sort, lockOf, exits>>
    /\ \/ Step(c, "move", "found") /\ audio' = temp[c]
       \/ Step(c, "move", "failed") /\ UNCHANGED audio

(* Whoever had no answer asks the new process. *)
ProcessExits ==
    /\ exits < MaxExits /\ exits' = exits + 1
    /\ \E c \in Request : call[c].pc = "wait" \/ Holds(c)
    /\ call' = [c \in Request |-> IF call[c].pc = "found" THEN call[c] ELSE Unasked]
    /\ lockOf' = 0 /\ temp' = [c \in Request |-> "none"]
    /\ UNCHANGED <<sort, audio>>

ConversionNext ==
    \/ DropLock \/ ProcessExits
    \/ \E c \in Request : \/ AskForPiece(c) \/ AskForRecording(c) \/ TakeLock(c) \/ FindFile(c)
                          \/ BeginConvert(c) \/ FfmpegSucceeds(c) \/ FfmpegFails(c) \/ MoveFile(c)

ConversionSpec == ConversionInit /\ [][ConversionNext]_conversionVars

-----------------------------------------------------------------------------
(* Properties. *)

(* A file a call was given is whole, now and while others still convert the *)
(* same recording, having lost the lock, fail, or die with the process; and   *)
(* a call that is over leaves no temporary file.                              *)
FilesWhole ==
    \A c \in Request : /\ call[c].pc = "found" => audio = "whole"
                       /\ call[c].pc \in {"found", "failed"} => temp[c] = "none"

=============================================================================
