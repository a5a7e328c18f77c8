SPECIFICATION FairSpec
CONSTANTS
    s1 = s1  s2 = s2
    Long = 3  Short = 1
    Stream = {s1, s2}
    MsgLen <- MCMsgLen
    Window = 2
    BufLen = 2
    Failures = FALSE
    CIntMod = 128
    UsizeMod = 4096

PROPERTY WholeMessage
CHECK_DEADLOCK FALSE
