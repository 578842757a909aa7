SPECIFICATION Spec
CONSTANTS
    Configs <- MCConfigs
    DefaultConfig <- MCDefault
    Groups = {"tail"}
    Empty = empty
INVARIANTS
    TypeOK
    OneIdentity
    BaselineKeptUnlessCarried
    TitanicHasBaseline
