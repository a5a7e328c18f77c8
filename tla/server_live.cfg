SPECIFICATION FairSpec
CONSTANTS
    c1 = c1  c2 = c2  t1 = t1  t2 = t2
    Cid = {c1, c2}
    App = {t1}
    Kinds = {"Initial", "OldInitial", "Token", "Data", "Junk"}
    MaxPkts = 5
    SockCap = 2
    LogLevels = {"off"}
    IoResults = {"ok"}
    QuicheErrs = FALSE
PROPERTIES LoopProgress SilentConnectionsClose EveryConnectionAccepted ConnectionsGivenBack
CHECK_DEADLOCK FALSE
