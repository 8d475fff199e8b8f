\* One remote, two pool threads, two rclone processes at a time, one file per
\* mount: every pair of mount, unmount, removal and quit overlaps.
CONSTANTS
    Remotes = {r1}
    Procs = {1, 2}
    Files = {f1}
    Jobs = {j1, j2}
    None = None
SPECIFICATION FairSpec
INVARIANTS
    TypeOK
    ProcessesAccounted
    OnlyLateMountsSurvive
PROPERTIES
    UploadsFinishFirst
    EverythingEnds
