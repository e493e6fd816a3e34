\* Two invocations side by side, four in all, over the one table of TABLES. In
\* the end all have stopped.
SPECIFICATION Spec
CONSTANTS
    Run = {r1, r2}
    TableCount = 1
    MaxVersion = 3
    MaxSecond = 3
    MaxStarts = 4
    Torn = Torn
    Absent = Absent
CHECK_DEADLOCK FALSE
SYMMETRY Symmetry
INVARIANTS
    TypeOK
    LoneRunOverwrites
    EmptiedIsBackedUp
