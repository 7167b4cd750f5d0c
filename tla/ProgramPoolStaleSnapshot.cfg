SPECIFICATION ExploredSpec
CONSTANTS
    Threads = {t1, t2}
    NoThread = NoThread
    NoFile = NoFile
    top = top
    lib = lib
    app = app
    leaf = leaf
    inc = inc
    bad = bad
    Files = {top, lib, app}
    Contents = {leaf, inc, bad}
    Includes <- MCIncludes
    Marked <- MCMarked
    Missing = bad
    MaxPrograms = 2
    Disks <- OnlyDisk2
    Edits <- MCEdits
SYMMETRY ThreadSymmetry
INVARIANTS SnapshotCurrent
