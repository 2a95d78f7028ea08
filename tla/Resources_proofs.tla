-------------------------- MODULE Resources_proofs --------------------------
(***************************************************************************)
(* Theorems about Resources, for any number of processes, units and        *)
(* incidents: its audit entries are a behaviour of AuditChain, so that     *)
(* module's theorems carry over; the two tables agree; and one process     *)
(* alone meets neither of the two races.                                   *)
(***************************************************************************)
EXTENDS Resources, AuditChain_proofs

\* A unit that is not in the table has no assignments.
UnknownUnits == \A u \in Units : ~ Exists(u) => RowsOf(u) = {}

UnitTypes ==
    /\ unit \in [Units -> [status : Status, incident : Incidents \cup {Demo, None}]]
    /\ assignments \in Seq([unit : Units, incident : Incidents, open : BOOLEAN])
    /\ checked \subseteq [by : Processes, unit : Units, incident : Incidents]
    /\ contested \subseteq Units

UnitInv == UnitTypes /\ UnknownUnits /\ HolderIsOnRecord


\* The rows of assignments, and of units, in a well typed state.
LEMMA UnitTables ==
    ASSUME UnitTypes
    PROVE  /\ Len(assignments) \in Nat
           /\ DOMAIN assignments = 1 .. Len(assignments)
           /\ \A k \in DOMAIN assignments :
                  /\ assignments[k].unit \in Units
                  /\ assignments[k].incident \in Incidents
                  /\ assignments[k].open \in BOOLEAN
<1>1. assignments \in Seq([unit : Units, incident : Incidents, open : BOOLEAN])
  BY DEF UnitTypes
<1>2. /\ Len(assignments) \in Nat
      /\ DOMAIN assignments = 1 .. Len(assignments)
      /\ \A k \in DOMAIN assignments :
             assignments[k] \in [unit : Units, incident : Incidents, open : BOOLEAN]
  BY <1>1, TableFacts
<1> QED
  BY <1>2

\* The fields of units and assignments.
LEMMA UnitFields ==
    /\ \A s, i : Unit(s, i).status = s /\ Unit(s, i).incident = i
    /\ \A s \in Status, i \in Incidents \cup {Demo, None} :
           Unit(s, i) \in [status : Status, incident : Incidents \cup {Demo, None}]
    /\ \A u, i : /\ Assignment(u, i, TRUE).unit = u
                 /\ Assignment(u, i, TRUE).incident = i
                 /\ Assignment(u, i, TRUE).open = TRUE
                 /\ Assignment(u, i, FALSE).unit = u
                 /\ Assignment(u, i, FALSE).incident = i
                 /\ Assignment(u, i, FALSE).open = FALSE
    /\ \A u \in Units, i \in Incidents, o \in BOOLEAN :
           Assignment(u, i, o) \in [unit : Units, incident : Incidents, open : BOOLEAN]
  BY DEF Unit, Assignment

\* What HolderIsOnRecord says of one unit.
Agrees(u) ==
    /\ \A k \in OpenOf(u) :
           /\ OpenOf(u) = {k}
           /\ unit[u] = Unit("deployed", assignments[k].incident)
    /\ unit[u].status = "deployed" /\ OpenOf(u) = {}
           => RowsOf(u) = {} /\ unit[u].incident \in {Demo, None}

\* Steps that leave the inventory alone, or only look at it.
LEMMA LookStep ==
    ASSUME UnitInv, UNCHANGED <<unit, assignments, contested>>,
           checked' \subseteq [by : Processes, unit : Units, incident : Incidents]
    PROVE  UnitInv'
<1>1. UnitTypes'
  BY DEF UnitInv, UnitTypes
<1>2. \A u \in Units : /\ RowsOf(u)' = RowsOf(u) /\ OpenOf(u)' = OpenOf(u)
                       /\ Exists(u)' <=> Exists(u)
  BY DEF RowsOf, OpenOf, Exists
<1>3. UnknownUnits'
  BY <1>2 DEF UnitInv, UnknownUnits
<1>4. HolderIsOnRecord'
  BY <1>2 DEF UnitInv, HolderIsOnRecord
<1> QED
  BY <1>1, <1>3, <1>4 DEF UnitInv

\* The seed fills an empty table.
LEMMA SeedStep ==
    ASSUME UnitInv, NEW p \in Processes, list_resources(p)
    PROVE  UnitInv'
<1>1. /\ \A u \in Units : ~ Exists(u)
      /\ UNCHANGED <<assignments, checked, contested>>
  BY DEF list_resources
<1>2. \A u \in Units : unit'[u] \in {Unit("available", None), Unit("deployed", Demo), unit[u]}
  BY DEF list_resources
<1>3. DOMAIN unit' = Units /\ unit' = [u \in Units |-> unit'[u]]
  BY DEF list_resources
<1>4. unit' \in [Units -> [status : Status, incident : Incidents \cup {Demo, None}]]
  <2>1. \A u \in Units : unit'[u] \in [status : Status, incident : Incidents \cup {Demo, None}]
    <3>1. /\ Unit("available", None) \in [status : Status, incident : Incidents \cup {Demo, None}]
          /\ Unit("deployed", Demo) \in [status : Status, incident : Incidents \cup {Demo, None}]
      BY UnitFields DEF Status
    <3> QED
      BY <1>2, <3>1 DEF UnitInv, UnitTypes
  <2> QED
    BY <1>3, <2>1
<1>5. \A u \in Units : RowsOf(u)' = {} /\ OpenOf(u)' = {}
  BY <1>1 DEF UnitInv, UnknownUnits, RowsOf, OpenOf
<1>6. UnknownUnits'
  BY <1>5 DEF UnknownUnits
<1>7. HolderIsOnRecord'
  <2> SUFFICES ASSUME NEW u \in Units, unit'[u].status = "deployed"
               PROVE  unit'[u].incident \in {Demo, None}
    BY <1>5 DEF HolderIsOnRecord
  <2>1. unit[u].status = "absent"
    BY <1>1 DEF Exists
  <2> QED
    BY <1>2, <2>1, UnitFields
<1>8. UnitTypes'
  BY <1>1, <1>4 DEF UnitInv, UnitTypes
<1> QED
  BY <1>6, <1>7, <1>8 DEF UnitInv

\* One unit changes: the invariant holds if the others keep their rows and this
\* one exists and agrees with its own.
LEMMA OneUnitStep ==
    ASSUME UnitInv, NEW u \in Units, NEW s \in Status, NEW i \in Incidents \cup {Demo, None},
           s # "absent",
           unit' = [unit EXCEPT ![u] = Unit(s, i)],
           assignments' \in Seq([unit : Units, incident : Incidents, open : BOOLEAN]),
           checked' \subseteq checked,
           contested' \subseteq Units,
           \A v \in Units : v # u => /\ RowsOf(v)' = RowsOf(v)
                                     /\ OpenOf(v)' = OpenOf(v)
                                     /\ v \in contested <=> v \in contested',
           \A v \in Units, k \in DOMAIN assignments : v # u /\ k \in RowsOf(v) =>
               assignments'[k].incident = assignments[k].incident,
           u \notin contested' => Agrees(u)'
    PROVE  UnitInv'
<1>1. \A v \in Units : unit'[v] = IF v = u THEN Unit(s, i) ELSE unit[v]
  BY DEF UnitInv, UnitTypes
<1>2. UnitTypes'
  BY UnitFields DEF UnitInv, UnitTypes
<1>3. UnknownUnits'
  <2> SUFFICES ASSUME NEW v \in Units, ~ Exists(v)' PROVE RowsOf(v)' = {}
    BY DEF UnknownUnits
  <2>1. v # u
    BY <1>1, UnitFields DEF Exists
  <2> QED
    BY <1>1, <2>1 DEF Exists, UnitInv, UnknownUnits
<1>4. HolderIsOnRecord'
  <2> SUFFICES ASSUME NEW v \in Units, v \notin contested' PROVE Agrees(v)'
    BY DEF HolderIsOnRecord, Agrees
  <2>1. CASE v = u
    BY <2>1
  <2>2. CASE v # u
    <3>1. Agrees(v)
      BY <2>2 DEF UnitInv, HolderIsOnRecord, Agrees
    <3>2. unit'[v] = unit[v] /\ RowsOf(v)' = RowsOf(v) /\ OpenOf(v)' = OpenOf(v)
      BY <1>1, <2>2
    <3>3. \A k \in OpenOf(v) : assignments'[k].incident = assignments[k].incident
      BY <2>2 DEF OpenOf, RowsOf
    <3> QED
      BY <3>1, <3>2, <3>3 DEF Agrees
  <2> QED
    BY <2>1, <2>2
<1> QED
  BY <1>2, <1>3, <1>4 DEF UnitInv

\* A created unit has no rows.
LEMMA CreateStep ==
    ASSUME UnitInv, NEW p \in Processes, NEW u \in Units, NEW s \in Status \ {"absent"},
           create_resource(p, u, s)
    PROVE  UnitInv'
<1>1. /\ unit' = [unit EXCEPT ![u] = Unit(s, None)]
      /\ UNCHANGED <<assignments, checked, contested>>
      /\ ~ Exists(u)
  BY DEF create_resource
<1>2. \A v \in Units : RowsOf(v)' = RowsOf(v) /\ OpenOf(v)' = OpenOf(v)
  BY <1>1 DEF RowsOf, OpenOf
<1>3. RowsOf(u) = {} /\ OpenOf(u) = {}
  BY <1>1 DEF UnitInv, UnknownUnits, OpenOf
<1>4. unit'[u].incident = None
  BY <1>1, UnitFields DEF UnitInv, UnitTypes
<1>5. Agrees(u)'
  BY <1>2, <1>3, <1>4 DEF Agrees
<1>6. /\ assignments' \in Seq([unit : Units, incident : Incidents, open : BOOLEAN])
      /\ checked' \subseteq checked /\ contested' \subseteq Units
      /\ None \in Incidents \cup {Demo, None}
  BY <1>1 DEF UnitInv, UnitTypes
<1> QED
  BY <1>1, <1>2, <1>5, <1>6, OneUnitStep

\* A unit booked while assignable has no other open row.
LEMMA AssignStep ==
    ASSUME UnitInv, NEW c \in checked, assign_resource(c)
    PROVE  UnitInv'
<1>1. PICK u \in Units, i \in Incidents, n \in Nat :
          c.unit = u /\ c.incident = i /\ n = Len(assignments) + 1
  BY UnitTables DEF UnitInv, UnitTypes
<1>2. /\ unit' = [unit EXCEPT ![u] = Unit("deployed", i)]
      /\ assignments' = Append(assignments, Assignment(u, i, TRUE))
      /\ checked' \subseteq checked
      /\ contested' = IF Assignable(u) THEN contested ELSE contested \cup {u}
  BY <1>1 DEF assign_resource
<1>3. /\ assignments' \in Seq([unit : Units, incident : Incidents, open : BOOLEAN])
      /\ DOMAIN assignments' = (DOMAIN assignments) \cup {n}
      /\ n \notin DOMAIN assignments
      /\ \A k \in DOMAIN assignments : assignments'[k] = assignments[k]
      /\ assignments'[n] = Assignment(u, i, TRUE)
  <2>1. Assignment(u, i, TRUE) \in [unit : Units, incident : Incidents, open : BOOLEAN]
    BY UnitFields
  <2>2. assignments \in Seq([unit : Units, incident : Incidents, open : BOOLEAN])
    BY DEF UnitInv, UnitTypes
  <2>3. Len(assignments) \in Nat /\ DOMAIN assignments = 1 .. Len(assignments)
    BY UnitTables DEF UnitInv
  <2>4. n \notin DOMAIN assignments
    BY <1>1, <2>3
  <2>5. assignments' = Append(assignments, Assignment(u, i, TRUE))
    BY <1>2
  <2> DEFINE x == Assignment(u, i, TRUE)
             S == [unit : Units, incident : Incidents, open : BOOLEAN]
  <2>6. x \in S /\ assignments \in Seq(S) /\ assignments' = Append(assignments, x)
    BY <2>1, <2>2, <2>5
  <2> HIDE DEF x, S
  <2>7. /\ assignments' \in Seq(S)
        /\ DOMAIN assignments' = (DOMAIN assignments) \cup {n}
        /\ \A k \in DOMAIN assignments : assignments'[k] = assignments[k]
        /\ assignments'[n] = x
    BY <1>1, <2>6, TableFacts
  <2> QED
    BY <2>4, <2>7 DEF x, S
<1>4. assignments'[n].unit = u /\ assignments'[n].incident = i /\ assignments'[n].open = TRUE
  <2>1. assignments'[n] = Assignment(u, i, TRUE)
    BY <1>3
  <2> QED
    BY <2>1 DEF Assignment
<1>5. \A v \in Units : v # u => RowsOf(v)' = RowsOf(v) /\ OpenOf(v)' = OpenOf(v)
  BY <1>3, <1>4 DEF RowsOf, OpenOf
<1>6. RowsOf(u)' = RowsOf(u) \cup {n} /\ OpenOf(u)' = OpenOf(u) \cup {n}
  BY <1>3, <1>4 DEF RowsOf, OpenOf
<1>7. unit'[u] = Unit("deployed", i)
  BY <1>2 DEF UnitInv, UnitTypes
<1>8. ASSUME u \notin contested' PROVE Agrees(u)'
  <2>1. Assignable(u) /\ u \notin contested
    BY <1>2, <1>8
  <2>2. OpenOf(u) = {}
    <3>1. \A k \in OpenOf(u) : unit[u] = Unit("deployed", assignments[k].incident)
      BY <2>1 DEF UnitInv, HolderIsOnRecord
    <3>2. unit[u].status # "deployed"
      BY <2>1 DEF Assignable
    <3> QED
      BY <3>1, <3>2, UnitFields
  <2>3. OpenOf(u)' = {n}
    BY <1>6, <2>2
  <2> QED
    BY <1>4, <1>7, <2>3 DEF Agrees
<1>9. /\ contested' \subseteq Units
      /\ \A v \in Units : v # u => (v \in contested <=> v \in contested')
      /\ i \in Incidents \cup {Demo, None}
      /\ "deployed" \in Status /\ "deployed" # "absent"
  BY <1>2 DEF UnitInv, UnitTypes, Status
<1>10. \A v \in Units, k \in DOMAIN assignments : v # u /\ k \in RowsOf(v) =>
           assignments'[k].incident = assignments[k].incident
  BY <1>3
<1> QED
  BY <1>2, <1>3, <1>5, <1>8, <1>9, <1>10, OneUnitStep

\* A released unit has no open row left.
LEMMA ReleaseStep ==
    ASSUME UnitInv, NEW p \in Processes, NEW u \in Units, release_resource(p, u)
    PROVE  UnitInv'
<1>1. /\ unit' = [unit EXCEPT ![u] = Unit("available", None)]
      /\ assignments' = Closed(u)
      /\ contested' = contested \ {u}
      /\ checked' = checked
  BY DEF release_resource
<1>2. /\ DOMAIN assignments' = DOMAIN assignments
      /\ \A k \in DOMAIN assignments :
             assignments'[k] = IF assignments[k].unit = u
                               THEN Assignment(u, assignments[k].incident, FALSE)
                               ELSE assignments[k]
  BY <1>1 DEF Closed
<1>3. \A k \in DOMAIN assignments :
          /\ assignments'[k].unit = assignments[k].unit
          /\ assignments'[k].incident = assignments[k].incident
          /\ assignments[k].unit = u => assignments'[k].open = FALSE
          /\ assignments[k].unit # u => assignments'[k] = assignments[k]
  <2> TAKE k \in DOMAIN assignments
  <2>1. CASE assignments[k].unit = u
    <3>1. assignments'[k] = Assignment(u, assignments[k].incident, FALSE)
      BY <1>2, <2>1
    <3> QED
      BY <2>1, <3>1 DEF Assignment
  <2>2. CASE assignments[k].unit # u
    BY <1>2, <2>2
  <2> QED
    BY <2>1, <2>2
<1>4. assignments' \in Seq([unit : Units, incident : Incidents, open : BOOLEAN])
  <2>1. /\ Len(assignments) \in Nat /\ DOMAIN assignments = 1 .. Len(assignments)
        /\ \A k \in DOMAIN assignments :
               assignments[k] \in [unit : Units, incident : Incidents, open : BOOLEAN]
               /\ assignments[k].incident \in Incidents
    BY UnitTables, TableFacts DEF UnitInv, UnitTypes
  <2>2. \A k \in DOMAIN assignments :
            assignments'[k] \in [unit : Units, incident : Incidents, open : BOOLEAN]
    <3> TAKE k \in DOMAIN assignments
    <3>1. CASE assignments[k].unit = u
      <4>1. assignments[k].incident \in Incidents
        BY <2>1
      <4>2. Assignment(u, assignments[k].incident, FALSE) \in
                [unit : Units, incident : Incidents, open : BOOLEAN]
        BY <4>1, UnitFields
      <4>3. assignments'[k] = Assignment(u, assignments[k].incident, FALSE)
        BY <1>2, <3>1
      <4> QED
        BY <4>2, <4>3
    <3>2. CASE assignments[k].unit # u
      BY <1>2, <2>1, <3>2
    <3> QED
      BY <3>1, <3>2
  <2>3. assignments' \in [1 .. Len(assignments) -> [unit : Units, incident : Incidents, open : BOOLEAN]]
    BY <1>1, <1>2, <2>1, <2>2 DEF Closed
  <2> QED
    BY <2>1, <2>3, FunctionIsSequence
<1>5. \A v \in Units : v # u => RowsOf(v)' = RowsOf(v) /\ OpenOf(v)' = OpenOf(v)
  BY <1>2, <1>3 DEF RowsOf, OpenOf
<1>6. OpenOf(u)' = {}
  BY <1>2, <1>3 DEF RowsOf, OpenOf
<1>7. unit'[u].status = "available"
  BY <1>1, UnitFields DEF UnitInv, UnitTypes
<1>8. Agrees(u)'
  BY <1>6, <1>7 DEF Agrees
<1>9. /\ contested' \subseteq Units /\ checked' \subseteq checked
      /\ \A v \in Units : v # u => (v \in contested <=> v \in contested')
      /\ None \in Incidents \cup {Demo, None}
      /\ "available" \in Status /\ "available" # "absent"
  BY <1>1 DEF UnitInv, UnitTypes, Status
<1>10. \A v \in Units, k \in DOMAIN assignments : v # u /\ k \in RowsOf(v) =>
           assignments'[k].incident = assignments[k].incident
  BY <1>3
<1> QED
  BY <1>1, <1>4, <1>5, <1>8, <1>9, <1>10, OneUnitStep

\* Every step of the inventory keeps its invariant.
THEOREM NextUnits == UnitInv /\ [Next]_vars => UnitInv'
<1> SUFFICES ASSUME UnitInv, [Next]_vars PROVE UnitInv'
  OBVIOUS
<1>1. CASE \E p \in Processes : Handle(p)
  <2> PICK p \in Processes : Handle(p)
    BY <1>1
  <2>1. CASE list_resources(p)
    BY <2>1, SeedStep
  <2>2. CASE \E u \in Units, s \in Status \ {"absent"} : create_resource(p, u, s)
    BY <2>2, CreateStep
  <2>3. CASE \E u \in Units, i \in Incidents : check_resource(p, u, i)
    <3> PICK u \in Units, i \in Incidents : check_resource(p, u, i)
      BY <2>3
    <3>1. Finding(p, u, i) \in [by : Processes, unit : Units, incident : Incidents]
      BY DEF Finding
    <3>2. checked' = checked \cup {Finding(p, u, i)} /\ UNCHANGED <<unit, assignments, contested>>
      BY DEF check_resource
    <3> QED
      BY <3>1, <3>2, LookStep DEF UnitInv, UnitTypes
  <2>4. CASE \E u \in Units : release_resource(p, u)
    BY <2>4, ReleaseStep
  <2>5. CASE OtherEntry(p)
    BY <2>5, LookStep DEF OtherEntry, resourceVars, UnitInv, UnitTypes
  <2> QED
    BY <2>1, <2>2, <2>3, <2>4, <2>5 DEF Handle
<1>2. CASE \E c \in checked : assign_resource(c)
  BY <1>2, AssignStep
<1>3. CASE \E c \in checked : GiveUp(c)
  BY <1>3, LookStep DEF GiveUp, UnitInv, UnitTypes
<1>4. CASE (Appending \/ Tamper) /\ UNCHANGED resourceVars
  BY <1>4, LookStep DEF resourceVars, UnitInv, UnitTypes
<1>5. CASE UNCHANGED vars
  BY <1>5, LookStep DEF vars, resourceVars, UnitInv, UnitTypes
<1> QED
  BY <1>1, <1>2, <1>3, <1>4, <1>5 DEF Next

\* The invariant of the inventory holds in every reachable state.
THEOREM UnitInvariant == Spec => []UnitInv
<1>1. Init => UnitInv
  <2> SUFFICES ASSUME Init PROVE UnitInv
    OBVIOUS
  <2>1. Unit("absent", None) \in [status : Status, incident : Incidents \cup {Demo, None}]
    BY UnitFields DEF Status
  <2>2. UnitTypes
    BY <2>1 DEF Init, UnitTypes
  <2>3. \A u \in Units : RowsOf(u) = {} /\ OpenOf(u) = {} /\ unit[u].status = "absent"
    BY UnitFields DEF Init, RowsOf, OpenOf
  <2> QED
    BY <2>2, <2>3 DEF UnitInv, UnknownUnits, HolderIsOnRecord
<1> QED
  BY <1>1, NextUnits, PTL DEF Spec

\* Units and assignments agree on who holds a unit, save for units two
\* processes booked at once.
THEOREM ResourcesHolder == Spec => []HolderIsOnRecord
<1>1. UnitInv => HolderIsOnRecord
  BY DEF UnitInv
<1> QED
  BY <1>1, UnitInvariant, PTL

\* The audit entries of the handlers are appends, due one at a time.
THEOREM ResourcesAudit == Spec => AuditSpec
<1>1. Init => AuditInit
  BY DEF Init
<1>2. UnitInv /\ [Next]_vars => [AuditNext]_auditVars
  <2> SUFFICES ASSUME UnitInv, [Next]_vars PROVE [AuditNext]_auditVars
    OBVIOUS
  <2>1. CASE \E p \in Processes : Handle(p)
    <3> PICK p \in Processes : Handle(p)
      BY <2>1
    <3>1. CASE list_resources(p) \/ \E u \in Units, i \in Incidents : check_resource(p, u, i)
      BY <3>1 DEF list_resources, check_resource
    <3>2. CASE \/ \E u \in Units, s \in Status \ {"absent"} : create_resource(p, u, s)
               \/ \E u \in Units : release_resource(p, u)
               \/ OtherEntry(p)
      BY <3>2 DEF create_resource, release_resource, OtherEntry, AuditNext
    <3> QED
      BY <3>1, <3>2 DEF Handle
  <2>2. CASE \E c \in checked : assign_resource(c) \/ GiveUp(c)
    <3> PICK c \in checked : assign_resource(c) \/ GiveUp(c)
      BY <2>2
    <3>1. CASE GiveUp(c)
      BY <3>1 DEF GiveUp
    <3>2. CASE assign_resource(c)
      <4>1. Due(c.by) /\ c.by \in Processes
        BY <3>2 DEF assign_resource, UnitInv, UnitTypes
      <4> QED
        BY <4>1 DEF AuditNext
    <3> QED
      BY <3>1, <3>2
  <2>3. CASE Appending \/ Tamper
    BY <2>3 DEF AuditNext
  <2>4. CASE UNCHANGED vars
    BY <2>4 DEF vars
  <2> QED
    BY <2>1, <2>2, <2>3, <2>4 DEF Next
<1> QED
  BY <1>1, <1>2, UnitInvariant, PTL DEF Spec, AuditSpec

\* The theorems of the log hold where these handlers write it.
THEOREM ResourcesAlarms == Spec => [](AlarmsNeedARace /\ EditIsReported)
  BY ResourcesAudit, AuditAlarms, AuditEdits, PTL

\* One process does one thing at a time, what it has checked stays assignable,
\* and no append is overtaken.
Alone ==
    /\ checked # {} => linked = {} /\ due = {}
    /\ linked # {} => due = {}
    /\ \A c, d \in checked : c = d
    /\ \A w, v \in linked : w = v
    /\ \A c \in checked : Assignable(c.unit)
    /\ \A w \in linked : w.late = FALSE
    /\ contested = {}
    /\ raced = {}

\* With a single process no unit is booked twice and no append is overtaken, so
\* the two exceptions of HolderIsOnRecord and AlarmsNeedARace are void.
THEOREM OneProcessRacesNot ==
    ASSUME NEW p, Processes = {p}
    PROVE  Spec => [](contested = {} /\ raced = {})
<1>1. Init => Alone
  BY DEF Init, AuditInit, Alone
<1>2. UnitInv /\ AuditInv /\ Alone /\ [Next]_vars => Alone'
  <2> SUFFICES ASSUME UnitInv, AuditInv, Alone, [Next]_vars PROVE Alone'
    OBVIOUS
  <2>1. \A c \in checked : c.by = p
    BY DEF UnitInv, UnitTypes
  <2>2. (\A w \in linked : w.by = p) /\ due \subseteq {p}
    BY DEF AuditInv, AuditTypeOK
  <2>3. Free(p) => checked = {} /\ linked = {} /\ due = {}
    BY <2>1, <2>2 DEF Free, Idle
  <2>4. ASSUME Handle(p) PROVE Alone'
    <3>1. Free(p) /\ raced' = raced /\ linked' = linked
      BY <2>4 DEF Handle, list_resources, create_resource, check_resource, release_resource,
                  OtherEntry, Due, auditVars
    <3>2. contested' \subseteq contested
      BY <2>4 DEF Handle, list_resources, create_resource, check_resource, release_resource,
                  OtherEntry, resourceVars
    <3>3. CASE \E u \in Units, i \in Incidents : check_resource(p, u, i)
      <4> PICK u \in Units, i \in Incidents : check_resource(p, u, i)
        BY <3>3
      <4>1. /\ checked' = {Finding(p, u, i)}
            /\ UNCHANGED <<unit, due>>
            /\ Assignable(u)
        BY <2>3, <3>1 DEF check_resource, auditVars
      <4>2. Finding(p, u, i).unit = u
        BY DEF Finding
      <4> QED
        BY <2>3, <3>1, <3>2, <4>1, <4>2 DEF Alone, Assignable
    <3>4. CASE ~ \E u \in Units, i \in Incidents : check_resource(p, u, i)
      <4>1. checked' = checked
        BY <2>4, <3>4 DEF Handle, list_resources, create_resource, release_resource,
                          OtherEntry, resourceVars
      <4> QED
        BY <2>3, <3>1, <3>2, <4>1 DEF Alone
    <3> QED
      BY <3>3, <3>4
  <2>5. ASSUME NEW c \in checked, assign_resource(c) \/ GiveUp(c) PROVE Alone'
    <3>1. checked' = {} /\ linked' = linked /\ linked = {} /\ raced' = raced
      BY <2>5 DEF Alone, assign_resource, GiveUp, Due, auditVars
    <3>2. contested' = contested
      BY <2>5 DEF Alone, assign_resource, GiveUp
    <3> QED
      BY <3>1, <3>2 DEF Alone
  <2>6. ASSUME Appending, UNCHANGED resourceVars PROVE Alone'
    <3>1. /\ due \cup linked # {}
          /\ checked = {} /\ checked' = {} /\ contested' = contested
      <4>1. CASE \E q \in Processes : Lose(q)
        <5>1. ~ Idle(p)
          BY <4>1 DEF Lose
        <5> QED
          BY <2>6, <5>1 DEF Idle, Alone, resourceVars
      <4>2. CASE \E q \in Processes, t \in Texts : Link(q, t)
        BY <2>6, <4>2 DEF Link, Alone, resourceVars
      <4>3. CASE \E w \in linked : Insert(w)
        BY <2>6, <4>3 DEF Alone, resourceVars
      <4> QED
        BY <2>6, <4>1, <4>2, <4>3 DEF Appending
    <3>2. CASE \E q \in Processes : Lose(q)
      <4>1. due' = {} /\ linked' = {} /\ raced' = raced
        BY <2>2, <3>2 DEF Lose
      <4> QED
        BY <3>1, <4>1 DEF Alone
    <3>3. CASE \E q \in Processes, t \in Texts : Link(q, t)
      <4> PICK q \in Processes, t \in Texts : Link(q, t)
        BY <3>3
      <4>1. due' = {} /\ linked = {} /\ raced' = raced
        BY <2>2 DEF Link, Alone
      <4>2. linked' = {Linked(q, t, LastHash, FALSE)}
        BY <4>1 DEF Link
      <4>3. Linked(q, t, LastHash, FALSE).late = FALSE
        BY DEF Linked
      <4> QED
        BY <3>1, <4>1, <4>2, <4>3 DEF Alone
    <3>4. CASE \E w \in linked : Insert(w)
      <4> PICK w \in linked : Insert(w)
        BY <3>4
      <4>1. linked \ {w} = {} /\ w.late = FALSE
        BY DEF Alone
      <4>2. linked' = {} /\ raced' = raced /\ due' = due
        BY <4>1 DEF Insert, Overtaken
      <4> QED
        BY <3>1, <4>2 DEF Alone
    <3> QED
      BY <2>6, <3>2, <3>3, <3>4 DEF Appending
  <2>7. ASSUME Tamper, UNCHANGED resourceVars PROVE Alone'
    <3>1. UNCHANGED <<due, linked, raced>>
      BY <2>7 DEF Tamper, Edit, Remove
    <3> QED
      BY <2>7, <3>1 DEF Alone, resourceVars, Assignable
  <2>8. CASE UNCHANGED vars
    BY <2>8 DEF vars, auditVars, resourceVars, Alone, Assignable
  <2> QED
    BY <2>4, <2>5, <2>6, <2>7, <2>8 DEF Next
<1>3. Alone => contested = {} /\ raced = {}
  BY DEF Alone
<1>4. Spec => []AuditInv
  BY ResourcesAudit, AuditInvariant, PTL
<1> QED
  BY <1>1, <1>2, <1>3, <1>4, UnitInvariant, PTL DEF Spec
=============================================================================
