SPECIFICATION FairSpec
CONSTANTS
    Requests = {r1, r2, r3}
    Repos = {repo1, repo2}
    Branches = {main}
    NoRequest = NoRequest
    NoRepo = NoRepo
    NoSha = NoSha
    NoInput = NoInput
    base = base
    left = left
    right = right
    merge = merge
    repo1 = repo1
    repo2 = repo2
    main = main
    Objects <- MCObjects
    Commits <- MCObjects
    Parents <- MCParents
    Ancestor <- MCAncestor
    Inputs <- TwoRepoInputs
    Disks <- OneDisk
PROPERTIES
    EveryRequestAnswered
    RefinesRepoLock
CHECK_DEADLOCK FALSE
