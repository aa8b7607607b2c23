\* The directory of MCGenerationDriver.cfg: is any language processed twice?
CONSTANTS
    Entries <- MCEntries
INIT MCInit
NEXT Next
INVARIANT ProcessedOnce
CHECK_DEADLOCK FALSE
