SPECIFICATION Spec
CONSTANTS
    Archive <- MCArchive
    Program = "program"
    Updaters = {u1, u2}
    Installed <- MCInstalled
    Releases <- MCReleases
\* A program cut by an updater that was killed never starts again.
CHECK_DEADLOCK FALSE
INVARIANTS
    StartedWhole
    NewProgramNewBefore
    CheckRight
