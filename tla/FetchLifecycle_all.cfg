SPECIFICATION Spec
CONSTANTS
    Resetters = {r1}
    Switchers = {s1, s2}
    Main = main
    Selections = {osu, titanic}
    Titanic = {titanic}
    DefaultSelection = osu
    NoSelection = none
    Failed = failed
CONSTRAINT MeetingsInShort
INVARIANTS
    TypeOK
    CrashNeedsOverlap
    SwitchesExclusive
    QuiescentPolling
PROPERTIES
    ImplementsService
    ServiceProgress
    ResetCompletes
    StopCompletes
    SelectionTakesEffect
