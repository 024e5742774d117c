\* Two connections to one server, whose threads may get the same id; no peer resets.
SPECIFICATION Spec
CONSTANTS
    Listener = {l1}
    Conn = {c1, c2}
    Tid = {t1, t2}
    Fd = {3, 4, 5}
    MaxSend = 2
    Nul = {1}
    Losses = {"accept", "write", "raise"}
SYMMETRY Symmetric
INVARIANTS SocketsRecorded StreamKept AnswersInOrder
\* The process ends, or peers and connections are closed.
CHECK_DEADLOCK FALSE
