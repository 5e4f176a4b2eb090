CONSTANTS
    Rows = {1, 2, 3}
    Marks = {m1, m2}
    MaxLimit = 2
    Horizon = 1
SPECIFICATION Spec
INVARIANTS
    PagesDescend
    NothingSkipped
    ReadTimeIsAMark
\* Everything delivered, marked and listed.
CHECK_DEADLOCK FALSE
