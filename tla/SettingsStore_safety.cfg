SPECIFICATION Spec
CONSTANTS
    Users = {u0, u1}
    Modes = {osu, taiko}
    DefaultUser = u0
    DefaultMode = osu
    Blank = blank
    Absent = absent
    Emptied = emptied
    Torn = torn
INVARIANTS
    TypeOK
    Durable
    ReadableUnlessCut
    SessionFollows
