\* Every action may fail, jobs die, catalogs change, are unlinked and linked again.
SPECIFICATION Spec
CONSTANTS
    Contents = {x, y}
    Catalogs = {c1, c2}
    MaxPayload = 2
    ChunkSize = 1
    ChunkLimit = 1
    RemoveOrphans = FALSE
    Fallible = {"create", "update", "delete"}
    LateAnswers = FALSE
    LinksMidJob = TRUE
    MaxVersion = 0
    MaxFailures = 1
    MaxCrashes = 1
    MaxOffers = 1
    MaxLinks = 1
INVARIANTS TypeOK NothingForgotten
PROPERTIES RequestsAreDue
SYMMETRY ContentSymmetry
