SPECIFICATION Spec
CONSTANTS
    Paths = {1, 2}
    Awkward = {}
    CheckoutConverts = TRUE
    Commits <- MCCommits
    ParentOf <- MCParentOf
    TreeOf <- MCTreeOf
    Worlds <- MCWorlds
    Requests <- MCRequests
    Files <- MCFiles
    PolicyFile = 2
    Excluded = {1}
    MaxEdits = 2
INVARIANTS
    UnstagedBytesAreCommittable
CHECK_DEADLOCK FALSE
