\* A script run with -exec: tasks, a once timer, a request, a server and an
\* included file.
SPECIFICATION FairSpec
CONSTANTS
    Fetch = {f1}
    Server = {s1}
    File = {file1}
    MaxTask = 1
    MaxTimer = 1
    MaxCross = 1
    MaxRaise = 0
    Ops = {"micro", "macro", "once", "remove", "fetch", "server", "include"}
    Repl = FALSE
PROPERTIES FetchAnswered QueuedFinishes MessagesDelivered Terminates
