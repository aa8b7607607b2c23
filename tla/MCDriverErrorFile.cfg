\* The directory of MCGenerationDriver.cfg: does a failed language leave a file?
CONSTANTS
    Entries <- MCEntries
INIT MCInit
NEXT Next
INVARIANT ErrorLeavesNoFile
CHECK_DEADLOCK FALSE
