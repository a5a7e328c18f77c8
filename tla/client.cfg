SPECIFICATION FairSpec
CONSTANTS
    MaxPkts = 4
    SockCap = 2
    IoResults = {"ok", "block", "fail"}
    QuicheErrs = TRUE
INVARIANTS IInv NeverSleepsOverWork
PROPERTIES ImplementsLife LoopProgress CloseReturns ThreadEnds
CHECK_DEADLOCK FALSE
