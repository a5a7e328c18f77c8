\* handle_stream, handle_writable and recv_msg_loop on one connection.
SPECIFICATION FairSpec
CONSTANTS
    s1 = s1  s2 = s2
    r1 = r1  r2 = r2
    Stream = {s1, s2}
    Answers = {s1}
    BodyLen = 3
    Window = 2
    Failures = TRUE
    LogError = TRUE
    Caller = {r1, r2}
    StreamOf <- MCStreamOf
    Chan = 1
INVARIANTS IInv RestIsKept RetryIsSafe
PROPERTIES ImplementsSending RequestsAnswered ResponsesComplete
\* A thread may stop with the connection's mutex held, and what is left waits for it.
CHECK_DEADLOCK FALSE
