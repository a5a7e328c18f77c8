SPECIFICATION FairSpec
CONSTANTS
    s1 = s1  s2 = s2
    Long = 3  Short = 1
    Stream = {s1, s2}
    MsgLen <- MCMsgLen
    Window = 2
    BufLen = 2
    Failures = TRUE
    CIntMod = 128
    UsizeMod = 4096
INVARIANTS IInv NothingVanishes ResultTells
PROPERTIES ImplementsPipe AcceptedIsRead WholeIfWoken
CHECK_DEADLOCK FALSE
