SPECIFICATION Spec
CONSTANTS
    ApiThreads = {"t1", "t2"}
INVARIANTS
    ReadersProtected
