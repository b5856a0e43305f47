SPECIFICATION Spec
CONSTANTS
    Requests = {r1, r2, r3}
    Repos = {repo1}
    Branches = {main}
    NoRequest = NoRequest
    NoRepo = NoRepo
    NoSha = NoSha
    NoInput = NoInput
    base = base
    left = left
    right = right
    merge = merge
    repo1 = repo1
    repo2 = repo2
    main = main
    Objects <- MCObjects
    Commits <- MCObjects
    Parents <- MCParents
    Ancestor <- MCAncestor
    Inputs <- AllInputs
    Disks <- AllDisks
SYMMETRY Symmetry
INVARIANTS
    TypeOK
    CreatedOnce
PROPERTIES
    RefinesRefStore
CHECK_DEADLOCK FALSE
