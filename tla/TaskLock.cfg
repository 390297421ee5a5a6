\* Two kinds of tasks, one of them locked for all configurations at once.
SPECIFICATION FairSpec
CONSTANTS
    Functions = {"transmit_content_metadata", "transmit_subsection_learner_data"}
    Configs = {c1, c2}
    None = None
    Workers = {w1, w2}
    Expiry = 2
    Overrun = FALSE
    MaxQueued = 2
    MaxDeaths = 2
INVARIANTS OnePerConfiguration LocksAreReleased
PROPERTY EveryConfigurationServed
