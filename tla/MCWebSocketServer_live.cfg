CONSTANTS
    c1 = c1
    c2 = c2
    t1 = t1
    t2 = t2
    NoToken = NoToken
    Conn <- MCConn
    Tokens <- MCTokens
    MaxDowns = 2

SPECIFICATION Spec

PROPERTY StopReturns
PROPERTY AuthorisedClientServed
\* The server against the abstract admission gate.
PROPERTY ImplementsAdmissionGate

\* After stop() has returned and no further relaunch is allowed, nothing
\* is left to do: the server is stopped for good.
CHECK_DEADLOCK FALSE
