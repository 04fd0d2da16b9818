CONSTANTS
    c1 = c1
    c2 = c2
    t1 = t1
    t2 = t2
    NoToken = NoToken
    Conn <- MCConn
    Tokens <- MCTokens
    MaxDowns = 2

SPECIFICATION Spec

INVARIANT ListenFailureNotFatal

CHECK_DEADLOCK FALSE
