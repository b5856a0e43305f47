SPECIFICATION Spec
CONSTANTS
    Requests = {r1, r2}
    Repos = {repo1}
    Branches = {main}
    NoRequest = NoRequest
    NoRepo = NoRepo
    NoSha = NoSha
    NoInput = NoInput
    base = base
    left = left
    right = right
    merge = merge
    repo1 = repo1
    repo2 = repo2
    main = main
    Objects <- MCObjects
    Commits <- MCObjects
    Parents <- MCParents
    Ancestor <- MCAncestor
    Inputs <- PushInputs
    Disks <- OneDisk
SYMMETRY Symmetry
PROPERTIES
    RefusedIsNoFastForward
CHECK_DEADLOCK FALSE
