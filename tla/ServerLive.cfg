\* Two connections that send once, with failures other than short writes.
SPECIFICATION FairSpec
CONSTANTS
    Listener = {l1}
    Conn = {c1, c2}
    Tid = {t1, t2}
    Fd = {3, 4, 5}
    MaxSend = 1
    Nul = {1}
    Losses = {"accept", "reset", "raise"}
PROPERTIES CloseEndsThread BytesArrive
\* The process ends, or peers and connections are closed.
CHECK_DEADLOCK FALSE
