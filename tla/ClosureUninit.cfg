\* The script of script/test/closure.as: a variable of two functions outside.
SPECIFICATION SSpec
CONSTANTS
    Flows = {}
    Scripts <- ClosureTest
    Uninit = {"str", "tt"}
    Names = {"create_closure", "closure_fn", "str", "tt", "ee", "log", "runInMicroQueue", "_"}
    Numbers = {"0", "1", "2", "-1"}
    Strings = {"s"}
INVARIANTS CapturesDeep
\* Scripts stop.
CHECK_DEADLOCK FALSE
