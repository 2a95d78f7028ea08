--------------------------- MODULE HandoffPromise ---------------------------
(***************************************************************************)
(* What the delivery path promises about handing an incident to an         *)
(* outside channel, with no calls, rows or posts in it: an attempt begins  *)
(* only while the operator's consent stands and no other attempt is        *)
(* running; a failed attempt may be repeated; a completed one never is;    *)
(* and a fault may strand a running attempt for good.                      *)
(***************************************************************************)
CONSTANTS Incidents, Channels

VARIABLES
    consent,   \* consent[i]: the stored decision says "allowed"
    handoff    \* handoff[t]: where the hand-off of target t stands

Targets == Incidents \X Channels
Stages  == {"open", "attempting", "done", "stranded"}

hvars == <<consent, handoff>>

Init ==
    /\ consent = [i \in Incidents |-> FALSE]
    /\ handoff = [t \in Targets |-> "open"]

\* The operator approves or rejects.
Decide(i) ==
    /\ \E b \in BOOLEAN : consent' = [consent EXCEPT ![i] = b]
    /\ UNCHANGED handoff

Move(t, from, to) ==
    /\ handoff[t] = from
    /\ handoff' = [handoff EXCEPT ![t] = to]
    /\ UNCHANGED consent

Begin(t)    == consent[t[1]] /\ Move(t, "open", "attempting")
Fail(t)     == Move(t, "attempting", "open")
Complete(t) == Move(t, "attempting", "done")

\* A fault strands running attempts (a process death: all of them), or one
\* that was just beginning; it is neither repeated nor shown as completed.
Strand(S) ==
    /\ \A t \in S : handoff[t] = "attempting" \/ (handoff[t] = "open" /\ consent[t[1]])
    /\ handoff' = [t \in Targets |-> IF t \in S THEN "stranded" ELSE handoff[t]]
    /\ UNCHANGED consent

Next ==
    \/ \E i \in Incidents : Decide(i)
    \/ \E t \in Targets : Begin(t) \/ Fail(t) \/ Complete(t)
    \/ \E S \in SUBSET Targets : Strand(S)

Spec == Init /\ [][Next]_hvars
=============================================================================
