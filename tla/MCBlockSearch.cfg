SPECIFICATION FairSearchSpec
CONSTANTS
    Answers = {"expected", "other"}
    MaxBlock = 4
INVARIANTS
    ReturnsAStartBlock
    ReturnsTheFirst
    ForkIsRestored
PROPERTIES
    SearchEnds
CHECK_DEADLOCK FALSE
