\* Two processes, a unit of the seed and one that is created, two incidents,
\* three audit rows of which one may be changed, two assignments.
CONSTANTS
    p1 = p1
    p2 = p2
    t1 = t1
    t2 = t2
    i1 = i1
    i2 = i2
    Processes <- MCProcesses
    Texts <- MCTexts
    MaxRows = 3
    MaxEdits = 1
    Units = {u1, u2}
    SeededIn = {u1}
    SeededOut = {u2}
    Incidents <- MCIncidents
    Demo = demo
    None = none
    MaxAssignments = 2
SYMMETRY Symmetry
SPECIFICATION Spec
INVARIANTS
    AlarmsNeedARace
    EditIsReported
    HolderIsOnRecord
