\* The prompt with everything: a request, a server, tasks, a timer, an include and
\* an uncaught exception.
SPECIFICATION Spec
CONSTANTS
    Fetch = {f1}
    Server = {s1}
    File = {file1}
    MaxTask = 2
    MaxTimer = 1
    MaxCross = 1
    MaxRaise = 1
    Ops = {"micro", "macro", "every", "once", "remove", "include", "fetch", "server"}
    Repl = TRUE
SYMMETRY Symmetric
INVARIANTS TasksInOrder RunsOnce PollTimerServesCustomers EventsHaveCustomers
PROPERTIES RequiredBeforeExit MicroBeforeMacro
