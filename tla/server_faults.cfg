SPECIFICATION Spec
CONSTANTS
    c1 = c1  c2 = c2  t1 = t1  t2 = t2
    Cid = {c1, c2}
    App = {t1, t2}
    Kinds = {"Initial", "Token", "BadToken", "Data"}
    MaxPkts = 6
    SockCap = 2
    LogLevels = {"off", "debug"}
    IoResults = {"ok", "block", "fail"}
    QuicheErrs = TRUE
SYMMETRY Symmetry
INVARIANTS IInv LiveHandleNotCollected StatusCoversClients NoLostWake
PROPERTY Ownership
CHECK_DEADLOCK FALSE
