----------------------------- MODULE GroupQueue -----------------------------
(***************************************************************************)
(* What a topic with one partition is to the group that reads it, however  *)
(* many consumers come and go: one queue with one place in it.  The next   *)
(* record is handed out, and then either done with, or its acknowledgement *)
(* fails and it may or may not be handed out again.  No record is passed   *)
(* over, and none comes twice unless an acknowledgement has failed.        *)
(***************************************************************************)
EXTENDS Naturals, Sequences

CONSTANT Records

VARIABLES
    log,      \* the records of the topic
    done,     \* how many of them are done with
    out,      \* whether the next one is with a consumer
    handed,   \* how often each record was handed out
    failures  \* acknowledgements that failed

qvars == <<log, done, out, handed, failures>>

Init ==
    /\ log = << >>
    /\ done = 0
    /\ out = FALSE
    /\ handed = << >>
    /\ failures = 0

Put ==
    /\ \E record \in Records : log' = Append(log, record)
    /\ handed' = Append(handed, 0)
    /\ UNCHANGED <<done, out, failures>>

HandOut ==
    /\ ~ out
    /\ done < Len(log)
    /\ out' = TRUE
    /\ handed' = [handed EXCEPT ![done + 1] = @ + 1]
    /\ UNCHANGED <<log, done, failures>>

Acknowledge ==
    /\ out
    /\ out' = FALSE
    /\ done' = done + 1
    /\ UNCHANGED <<log, handed, failures>>

Fail ==
    /\ out
    /\ out' = FALSE
    /\ done' \in {done, done + 1}
    /\ failures' = failures + 1
    /\ UNCHANGED <<log, handed>>

Next == Put \/ HandOut \/ Acknowledge \/ Fail

Spec == Init /\ [][Next]_qvars
=============================================================================
