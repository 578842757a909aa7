SPECIFICATION ExportSpec
CONSTANTS
    Keys <- MCKeys
    MaxPoll = 1
    NoText = none
INVARIANTS
    ExportTypeOK
    ListInOrder
    DefaultOrderExports
