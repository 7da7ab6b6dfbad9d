SPECIFICATION Spec
CONSTANTS
    a = a
    b = b
    Ids <- MCIds
    MaxPosts = 2
    MaxTime = 1
    DayLen = 1
SYMMETRY Symmetry
INVARIANTS RowsAreReal EachIntentOnce FormTellsTheTruth ConsoleIsTrue
CHECK_DEADLOCK FALSE
