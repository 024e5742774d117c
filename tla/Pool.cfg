\* Two workers, three requests, and the end of the process at any point.
SPECIFICATION FairSpec
CONSTANTS
    Worker = {w1, w2}
    Request = {r1, r2, r3}
    Main = main
    CanStop = TRUE
CHECK_DEADLOCK FALSE
INVARIANTS WorkIsNoticed RequestsHeldOnce NeverPopsEmpty
PROPERTIES ImplementsPool ImplementsFairPool
