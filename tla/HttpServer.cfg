SPECIFICATION FairHttp
CONSTANTS
    Client = {s1, s2}
    Listener = {l}
    TimerFd = timer
    Chan = {c1, c2, c3, c4}
    Fd = {1, 2, 3}
    NodeNum = 2
    Arm = {{"IN"}, {"OUT"}}
    Codes = {"CONTINUE", "BREAK"}
    MaxBatch = 1
    NoChan = NoChan
    NoSock = NoSock
    NoFd = NoFd
    SSL = FALSE
PROPERTIES
    HandlerReturns
    SilentPeerClosed
CHECK_DEADLOCK FALSE
