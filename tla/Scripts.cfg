\* The parser on short token flows, and scripts run from their tokens on.
SPECIFICATION SSpec
CONSTANTS
    Flows <- MCTokens
    Scripts <- MCScripts
    Uninit = {"a", "b", "c", "d", "o"}
    Names = {"x", "y", "f", "mk", "a", "b", "g", "u", "w", "tri", "c", "d", "e", "h", "i", "j", "obj", "k", "box", "o", "m",
             "get", "pick", "n", "q", "r", "arr", "z", "log", "runInMicroQueue", "_"}
    Numbers = {"0", "1", "2", "-1"}
    Strings = {"s"}
INVARIANTS OperatorsAreFolded StatementsAreWhole NeverPastTheEnd StaticScopes
PROPERTIES StatementsConsume
\* Statements end and scripts stop.
CHECK_DEADLOCK FALSE
