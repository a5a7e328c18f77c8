SPECIFICATION FairSpec
CONSTANTS
    c1 = c1  c2 = c2  t1 = t1  t2 = t2
    Cid = {c1, c2}
    App = {t1}
    Kinds = {"Initial", "Token", "Data"}
    MaxPkts = 5
    SockCap = 2
    LogLevels = {"off"}
    IoResults = {"ok", "block"}
    QuicheErrs = FALSE
PROPERTY ReadsAllPackets
CHECK_DEADLOCK FALSE
