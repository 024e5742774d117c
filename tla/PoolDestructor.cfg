\* The destructor may wait for ever.
SPECIFICATION FairSpec
CONSTANTS
    Worker = {w1, w2}
    Request = {r1}
    Main = main
    CanStop = TRUE
CHECK_DEADLOCK FALSE
PROPERTIES DestructorReturns
