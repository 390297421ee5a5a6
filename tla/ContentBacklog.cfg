\* Work is truncated, cut off by the chunk limit, fails, in truth or not, or is lost with its job.
SPECIFICATION FairSpec
CONSTANTS
    Contents = {x, y}
    Catalogs = {c1}
    MaxPayload = 2
    ChunkSize = 1
    ChunkLimit = 1
    RemoveOrphans = FALSE
    Fallible = {"create", "update"}
    LateAnswers = TRUE
    LinksMidJob = FALSE
    MaxVersion = 1
    MaxFailures = 3
    MaxCrashes = 1
    MaxOffers = 0
    MaxLinks = 0
PROPERTY EventuallyInSync
