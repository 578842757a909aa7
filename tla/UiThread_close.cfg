SPECIFICATION Spec
INVARIANTS
    WindowJoined
    CrashNeedsMissingWindow
    NoStaleClose
PROPERTIES
    StopReturns
