SPECIFICATION Spec
CONSTANTS
    Parts = {"digits"}
INVARIANTS
    ShortestReadsBack
CHECK_DEADLOCK FALSE
