SPECIFICATION Spec
CONSTANTS
    Threads = {t1, t2}
    DirNames = {d1, d2, d3}
    FileNames = {f1, f2, f3}
    BLOCK_SIZE = 5
    MAX_FILES_IN_DIR = 2
    MAX_DIRS_IN_ROOT = 3
    DiskSizes = {5, 6}
    Payloads <- MCPayloads
    Offsets = {0, 1}
    MaxCalls = 5
SYMMETRY MCSymmetry
INVARIANTS TypeOK RootIntact LookupsAgree OneOwner
PROPERTIES FilesStay ImplementsFileStore
