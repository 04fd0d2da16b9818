---------------------------- MODULE AdmissionGate ----------------------------
(***************************************************************************)
(* What the websocket control server promises, without threads, TLS or    *)
(* handshake stages: an access token is set once and then kept; a client  *)
(* presents a header; a session is admitted only for a client whose header *)
(* is the set token; sessions end one by one, or all at once when the    *)
(* process goes down.  WebSocketServer implements this specification      *)
(* (see Gate in WebSocketServer.tla).                                      *)
(***************************************************************************)
CONSTANTS Conn, Tokens, NoToken

VARIABLES
    persisted,   \* the access token in the configuration, or NoToken
    presented,   \* the token header each connection presented, or NoToken
    admitted     \* the connections with a session

gateVars == <<persisted, presented, admitted>>

GateInit ==
    /\ persisted \in Tokens \cup {NoToken}
    /\ presented = [c \in Conn |-> NoToken]
    /\ admitted = {}

(* The first token is chosen; it is never replaced.                       *)
SetToken ==
    /\ persisted = NoToken
    /\ \E t \in Tokens : persisted' = t
    /\ UNCHANGED <<presented, admitted>>

(* A connection without a session presents a header.                      *)
Present(c, h) ==
    /\ c \notin admitted
    /\ presented' = [presented EXCEPT ![c] = h]
    /\ UNCHANGED <<persisted, admitted>>

(* A session is admitted for a holder of the set token.                   *)
Admit(c) ==
    /\ c \notin admitted
    /\ persisted # NoToken
    /\ presented[c] = persisted
    /\ admitted' = admitted \cup {c}
    /\ UNCHANGED <<persisted, presented>>

Leave(c) ==
    /\ c \in admitted
    /\ admitted' = admitted \ {c}
    /\ UNCHANGED <<persisted, presented>>

(* The server goes down: every session and every pending header is gone,  *)
(* the token stays.                                                       *)
Restart ==
    /\ admitted' = {}
    /\ presented' = [c \in Conn |-> NoToken]
    /\ UNCHANGED persisted

GateNext ==
    \/ SetToken
    \/ \E c \in Conn : \/ \E h \in Tokens \cup {NoToken} : Present(c, h)
                       \/ Admit(c) \/ Leave(c)
    \/ Restart

GateSpec == GateInit /\ [][GateNext]_gateVars

=============================================================================
