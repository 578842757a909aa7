SPECIFICATION Spec
CONSTANTS
    Urls = {a, b}
    NoUrl = none
INVARIANTS
    TypeOK
    TextureFresh
PROPERTIES
    MarkTruthful
    MarkEnds
    PictureShown
