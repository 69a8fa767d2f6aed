SPECIFICATION Http
CONSTANTS
    Client = {s1, s2}
    Listener = {l}
    TimerFd = timer
    Chan = {c1, c2, c3, c4}
    Fd = {1, 2, 3}
    NodeNum = 2
    Arm = {{}, {"IN"}, {"OUT"}, {"IN", "OUT"}}
    Codes = {"CONTINUE", "BREAK"}
    MaxBatch = 2
    NoChan = NoChan
    NoSock = NoSock
    NoFd = NoFd
    SSL = TRUE
SYMMETRY HttpSymmetry
PROPERTIES
    Loop
INVARIANTS
    HttpTypeOK
    ReuseQueueSound
    ConnectionsAccounted
    ReadHandleHasCase
    ArmedForOneEvent
CHECK_DEADLOCK FALSE
