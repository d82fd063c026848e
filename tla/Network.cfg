CONSTANTS
    f1 = f1
    f2 = f2
    t1 = t1
    t2 = t2
    Files = {f1, f2}
    Popups = {t1, t2}
    Cards = {"a"}
    Frames <- EthFrames
    MaxQueue = 2
    Calm = TRUE
SPECIFICATION NetworkSpec
INVARIANTS UdpCorrect  IpCorrect EthCorrect NicCorrect ConfigCorrect
SYMMETRY Symmetry
CHECK_DEADLOCK FALSE
