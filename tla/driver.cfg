SPECIFICATION FairSpec
CONSTANTS
    Client = {c1, c2, c3}
    Workers = 1
    Expiry = TRUE
INVARIANTS IInv AnswerNotCutOff
PROPERTIES ImplementsExchange AllServed ServerThreadsEnd
CHECK_DEADLOCK FALSE
