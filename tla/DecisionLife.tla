---------------------------- MODULE DecisionLife ----------------------------
(***************************************************************************)
(* What every handler may do to a row of the decisions table, whoever it   *)
(* is: an assessment stores it once, waiting for the operator or blocked,  *)
(* and from then on only verdicts change its status.  An approval opens it *)
(* exactly when its plan is one that may be executed, which is settled     *)
(* when it is stored; a rejection always closes it; nothing takes it back  *)
(* to waiting, and nothing removes it.                                     *)
(***************************************************************************)
CONSTANT Rows

VARIABLES
    status,     \* status[i]: what the table says of row i, "absent" before it is stored
    executable  \* the stored rows whose plan an approval may open

lvars == <<status, executable>>

\* A process starts on whatever earlier ones have stored, none of it approved.
Init ==
    /\ status \in [Rows -> {"absent", "approval_required", "blocked"}]
    /\ executable \subseteq {i \in Rows : status[i] # "absent"}

Stored(i)    == status[i] # "absent"
Become(i, s) == status' = [status EXCEPT ![i] = s]

Store(i) ==
    /\ ~ Stored(i)
    /\ Become(i, "approval_required") \/ Become(i, "blocked")
    /\ executable' \in {executable, executable \cup {i}}

Approve(i) ==
    /\ Stored(i)
    /\ Become(i, IF i \in executable THEN "allowed" ELSE "blocked")
    /\ UNCHANGED executable

Reject(i) ==
    /\ Stored(i)
    /\ Become(i, "blocked")
    /\ UNCHANGED executable

Next == \E i \in Rows : Store(i) \/ Approve(i) \/ Reject(i)

Spec == Init /\ [][Next]_lvars
=============================================================================
