------------------------------ MODULE Resources ------------------------------
(***************************************************************************)
(* The inventory of exercise resources (app/storage/sqlite.py and the      *)
(* /api/resources endpoints) and the audit entries its handlers write.     *)
(*                                                                         *)
(* Each process runs one handler at a time, without a pause.  What a       *)
(* second process can come between are its separate reads and              *)
(* transactions: the status assign_resource reads before its first UPDATE  *)
(* opens the write transaction, and the audit entry after the commit.      *)
(***************************************************************************)
EXTENDS AuditChain

CONSTANTS
    Units,          \* ids of resources
    SeededIn,       \* units the seed lists as available
    SeededOut,      \* units the seed lists as deployed
    Incidents,      \* incidents that units are assigned to
    Demo,           \* "demo-incident", named by the seed only
    None,           \* NULL in assigned_incident_id
    MaxAssignments  \* bound: rows of resource_assignments

ASSUME ResourcesAssumption ==
    /\ SeededIn \subseteq Units /\ SeededOut \subseteq Units
    /\ SeededIn \cap SeededOut = {}
    /\ Demo \notin Incidents /\ None \notin Incidents
    /\ MaxAssignments \in Nat

VARIABLES
    unit,         \* resources table: status and incident of each unit
    assignments,  \* resource_assignments table, in the order of its ids
    checked,      \* volatile: units found assignable, not yet booked
    contested     \* history: units booked although no longer assignable

resourceVars == <<unit, assignments, checked, contested>>
vars == <<auditVars, resourceVars>>

Status == {"absent", "available", "staged", "deployed"}

Unit(status, incident) == [status |-> status, incident |-> incident]
Assignment(u, i, open) == [unit |-> u, incident |-> i, open |-> open]
Finding(p, u, i)       == [by |-> p, unit |-> u, incident |-> i]

TypeOK ==
    /\ AuditTypeOK
    /\ unit \in [Units -> [status : Status, incident : Incidents \cup {Demo, None}]]
    /\ assignments \in Seq([unit : Units, incident : Incidents, open : BOOLEAN])
    /\ checked \subseteq [by : Processes, unit : Units, incident : Incidents]
    /\ contested \subseteq Units

Init ==
    /\ AuditInit
    /\ unit = [u \in Units |-> Unit("absent", None)]
    /\ assignments = << >>
    /\ checked = {}
    /\ contested = {}

Free(p)       == Idle(p) /\ \A c \in checked : c.by # p
Exists(u)     == unit[u].status # "absent"
Assignable(u) == unit[u].status \in {"available", "staged"}

\* GET /api/resources: an empty table is seeded; only labels are migrated in a
\* table that has rows.
list_resources(p) ==
    /\ Free(p)
    /\ \A u \in Units : ~ Exists(u)
    /\ unit' = [u \in Units |->
                   CASE u \in SeededIn  -> Unit("available", None)
                     [] u \in SeededOut -> Unit("deployed", Demo)
                     [] OTHER           -> unit[u]]
    /\ UNCHANGED <<auditVars, assignments, checked, contested>>

\* Any status the caller gives; an id in use is an error that changes nothing.
create_resource(p, u, status) ==
    /\ Free(p)
    /\ ~ Exists(u)
    /\ unit' = [unit EXCEPT ![u] = Unit(status, None)]
    /\ Due(p)   \* the audit entry follows the commit
    /\ UNCHANGED <<assignments, checked, contested>>

\* The SELECT of assign_resource, outside the write transaction.
check_resource(p, u, i) ==
    /\ Free(p)
    /\ Assignable(u)
    /\ checked' = checked \cup {Finding(p, u, i)}
    /\ UNCHANGED <<auditVars, unit, assignments, contested>>

\* Its UPDATE and INSERT, in one transaction.
assign_resource(c) ==
    /\ Len(assignments) < MaxAssignments
    /\ checked' = checked \ {c}
    /\ unit' = [unit EXCEPT ![c.unit] = Unit("deployed", c.incident)]
    /\ assignments' = Append(assignments, Assignment(c.unit, c.incident, TRUE))
    /\ contested' = IF Assignable(c.unit) THEN contested ELSE contested \cup {c.unit}
    /\ Due(c.by)

\* The process dies, or the transaction fails, between the two.
GiveUp(c) ==
    /\ checked' = checked \ {c}
    /\ UNCHANGED <<auditVars, unit, assignments, contested>>

\* Mutant of Closed: the release leaves the unit's rows open.
LeftOpen(u) == assignments

Closed(u) ==
    [k \in DOMAIN assignments |->
        IF assignments[k].unit = u THEN Assignment(u, assignments[k].incident, FALSE)
        ELSE assignments[k]]

\* Whoever holds the unit.
release_resource(p, u) ==
    /\ Free(p)
    /\ Exists(u)
    /\ unit' = [unit EXCEPT ![u] = Unit("available", None)]
    /\ assignments' = Closed(u)
    /\ contested' = contested \ {u}
    /\ Due(p)
    /\ UNCHANGED checked

\* Any other handler that writes an audit entry.
OtherEntry(p) == Free(p) /\ Due(p) /\ UNCHANGED resourceVars

Handle(p) ==
    \/ list_resources(p)
    \/ \E u \in Units, s \in Status \ {"absent"} : create_resource(p, u, s)
    \/ \E u \in Units, i \in Incidents : check_resource(p, u, i)
    \/ \E u \in Units : release_resource(p, u)
    \/ OtherEntry(p)

Next ==
    \/ \E p \in Processes : Handle(p)
    \/ \E c \in checked : assign_resource(c) \/ GiveUp(c)
    \/ Appending /\ UNCHANGED resourceVars
    \/ Tamper /\ UNCHANGED resourceVars

Spec == Init /\ [][Next]_vars

-----------------------------------------------------------------------------
(* Safety.                                                                 *)

RowsOf(u) == {k \in DOMAIN assignments : assignments[k].unit = u}
OpenOf(u) == {k \in RowsOf(u) : assignments[k].open}

\* The table of units and the table of assignments agree on who holds a unit:
\* an open row is the only one and names the incident the unit is deployed to;
\* a unit deployed without one was so from the seed or its creation on.  This
\* breaks only where two processes booked one unit, until its release
\* (sqlite.py:391, sqlite.py:406).
HolderIsOnRecord ==
    \A u \in Units \ contested :
        /\ \A k \in OpenOf(u) :
               /\ OpenOf(u) = {k}
               /\ unit[u] = Unit("deployed", assignments[k].incident)
        /\ unit[u].status = "deployed" /\ OpenOf(u) = {}
               => RowsOf(u) = {} /\ unit[u].incident \in {Demo, None}
=============================================================================
