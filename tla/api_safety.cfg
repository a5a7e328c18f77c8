SPECIFICATION Spec
CONSTANTS
    MaxFd = 2
    MaxClients = 2
    Results = {"ok", "err", "panic"}
INVARIANTS IInv TablesAgree CloseJoinsItsThread CloseIsFinal
PROPERTIES ImplementsLife FdsNeverReused
CHECK_DEADLOCK FALSE
