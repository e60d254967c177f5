SPECIFICATION FairSpec
CONSTANTS
    r1 = r1
    r2 = r2
    Run = {r1, r2}
    Ref = {"v1.0.0", "v1.0.0-rc.1"}
    Final = {"v1.0.0"}
    Commit = {"merged", "branch"}
    Main = {"merged"}
    MaxBuilds = 3
    None = None
INVARIANTS
    TypeOK
    ReleaseIsWhatWasChecked
PROPERTIES
    VersionTagNeverMoves
    ReleaseCanBeCompleted
CHECK_DEADLOCK FALSE
