SPECIFICATION Spec
CONSTANTS
    j1 = j1  j2 = j2  j3 = j3  j4 = j4  j5 = j5  j6 = j6
    Jobs = {j1, j2, j3, j4, j5, j6}
    NoJob = NoJob
    Priority <- MCPriority
INVARIANTS
    TypeOK
    HeapOrder
PROPERTY ImplementsQueue
CHECK_DEADLOCK FALSE
