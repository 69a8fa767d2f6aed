SPECIFICATION Loop
CONSTANTS
    Client = {s1, s2}
    Listener = {l}
    TimerFd = timer
    Chan = {c1, c2, c3, c4}
    Fd = {1, 2, 3, 4}
    NodeNum = 3
    Arm = {{}, {"IN"}}
    Codes = {"CONTINUE", "BREAK", "DROPWAITED"}
    MaxBatch = 2
    NoChan = NoChan
    NoSock = NoSock
    NoFd = NoFd
SYMMETRY LoopSymmetry
INVARIANTS
    TypeOK
    NoDanglingChannel
    ChannelMatchesSocket
    TimedOnce
    TimeoutAfterFullTurn
    NoChannelLeak
CHECK_DEADLOCK FALSE
