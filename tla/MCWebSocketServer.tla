------------------------- MODULE MCWebSocketServer -------------------------
(* Model-checking instance of WebSocketServer: two connection handles, two *)
(* token strings plus the empty one, and up to MaxDowns process deaths.    *)
EXTENDS WebSocketServer, TLC

CONSTANTS c1, c2, t1, t2

MCConn == {c1, c2}
MCTokens == {t1, t2}

(* Handles and token strings are only compared for equality.             *)
MCSymmetry == Permutations(MCConn) \cup Permutations(MCTokens)

=============================================================================
