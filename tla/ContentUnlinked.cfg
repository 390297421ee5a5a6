\* A catalog changes and is unlinked; its contents are adopted by the other catalog or removed.
SPECIFICATION FairSpec
CONSTANTS
    Contents = {x, y}
    Catalogs = {c1, c2}
    MaxPayload = 9
    ChunkSize = 2
    ChunkLimit = 9
    RemoveOrphans = TRUE
    Fallible = {"update"}
    LateAnswers = FALSE
    LinksMidJob = FALSE
    MaxVersion = 1
    MaxFailures = 1
    MaxCrashes = 0
    MaxOffers = 1
    MaxLinks = 1
PROPERTY EventuallyInSync
