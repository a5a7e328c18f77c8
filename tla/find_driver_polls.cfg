SPECIFICATION FairSpec
CONSTANTS
    Client = {c1, c2}
    Workers = 1
    Expiry = TRUE
PROPERTY ClientsEnd
CHECK_DEADLOCK FALSE
