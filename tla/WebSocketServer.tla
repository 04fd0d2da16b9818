--------------------------- MODULE WebSocketServer ---------------------------
(***************************************************************************)
(* The embedded secure control server of picotorrent                       *)
(* (src/src/client/ws/websocket_server.cpp).                               *)
(*                                                                         *)
(* Two threads share the server object: the application thread constructs *)
(* it, calls start() and stop(); the network thread spawned by start()    *)
(* runs run(): listen, start_accept and the io_service loop, in which     *)
(* every websocketpp callback (on_tls_init, on_validate, on_open,         *)
(* on_close) runs, serialised.  The configuration store (access token)    *)
(* and the certificate file outlive the process; everything else is      *)
(* lost when the process crashes or exits and is relaunched.              *)
(***************************************************************************)
EXTENDS Naturals

CONSTANTS
    Conn,        \* connection handles (websocketpp::connection_hdl)
    Tokens,      \* non-empty strings: generated tokens and client headers
    NoToken,     \* the empty string
    MaxDowns     \* bound on process lifetimes that end (crash, abort, exit)

ASSUME ConstantsAssumption ==
    /\ NoToken \notin Tokens
    /\ Tokens # {}
    /\ MaxDowns \in Nat

Header == Tokens \cup {NoToken}

VARIABLES
    cfgToken,     \* configuration: websocket_access_token (persistent)
    certFile,     \* the file at websocket_certificate_file (persistent)
    app,          \* application thread's view of the server object
    token,        \* websocket_server::configured_token_
    net,          \* network thread (bg_)
    ioStopped,    \* io_service::stop() has been called
    cstate,       \* websocketpp connection state of every handle
    hdr,          \* X-PicoTorrent-Token header sent on each handle
    connections,  \* websocket_server::connections_
    downs,        \* process lifetimes ended so far
    aborted       \* why processes ended in std::terminate: "listen", "certificate"

vars == <<cfgToken, certFile, app, token, net, ioStopped, cstate, hdr,
          connections, downs, aborted>>

AppStates  == {"none", "created", "running", "stopping", "stopped"}
NetStates  == {"none", "listen", "loop", "exited"}
CertStates == {"absent", "valid", "torn"}
(* accepted: TCP accepted, TLS handshake not done; tls: handshake done;   *)
(* validated: on_validate returned true; rejected, dropped: the attempt   *)
(* failed (no open, no close event).                                      *)
ConnStates == {"idle", "accepted", "tls", "validated", "open", "closed",
               "rejected", "dropped"}

AbortCauses == {"listen", "certificate"}

TypeOK ==
    /\ cfgToken \in Header
    /\ certFile \in CertStates
    /\ app \in AppStates
    \* configured_token_ is non-empty once the constructor has returned
    /\ token \in IF app = "none" THEN {NoToken} ELSE Tokens
    /\ net \in NetStates
    /\ ioStopped \in BOOLEAN
    /\ cstate \in [Conn -> ConnStates]
    /\ hdr \in [Conn -> Header]
    /\ connections \in SUBSET Conn
    /\ downs \in 0..MaxDowns
    /\ aborted \subseteq AbortCauses

-----------------------------------------------------------------------------
(* The volatile state of a process that has just been launched.           *)
FreshProcess ==
    /\ app' = "none"
    /\ token' = NoToken
    /\ net' = "none"
    /\ ioStopped' = FALSE
    /\ cstate' = [c \in Conn |-> "idle"]
    /\ hdr' = [c \in Conn |-> NoToken]
    /\ connections' = {}

(* A fresh install has no token and no certificate; an earlier run may    *)
(* have left both.                                                        *)
Init ==
    /\ cfgToken \in Header
    /\ certFile \in {"absent", "valid"}
    /\ app = "none"
    /\ token = NoToken
    /\ net = "none"
    /\ ioStopped = FALSE
    /\ cstate = [c \in Conn |-> "idle"]
    /\ hdr = [c \in Conn |-> NoToken]
    /\ connections = {}
    /\ downs = 0
    /\ aborted = {}

-----------------------------------------------------------------------------
(* Application thread.                                                    *)

(* Mutants of the constructor: the generate branch dropped; the token     *)
(* generated but not persisted.                                           *)
WebsocketServerNoGenerate ==
    /\ app = "none"
    /\ token' = cfgToken
    /\ app' = "created"
    /\ UNCHANGED <<cfgToken, certFile, net, ioStopped, cstate, hdr,
                   connections, downs, aborted>>

WebsocketServerNoPersist ==
    /\ app = "none"
    /\ \/ cfgToken # NoToken /\ token' = cfgToken
       \/ cfgToken = NoToken /\ \E t \in Tokens : token' = t
    /\ app' = "created"
    /\ UNCHANGED <<cfgToken, certFile, net, ioStopped, cstate, hdr,
                   connections, downs, aborted>>

(* websocket_server::websocket_server(): read the configured token; if it *)
(* is empty, generate DEFAULT_TOKEN_SIZE random characters and persist    *)
(* them.                                                                  *)
WebsocketServer ==
    /\ app = "none"
    /\ \/ /\ cfgToken # NoToken
          /\ token' = cfgToken
          /\ UNCHANGED cfgToken
       \/ /\ cfgToken = NoToken
          /\ \E t \in Tokens : token' = t /\ cfgToken' = t
    /\ app' = "created"
    /\ UNCHANGED <<certFile, net, ioStopped, cstate, hdr, connections,
                   downs, aborted>>

(* start(): spawn bg_ running run().                                      *)
Start ==
    /\ app = "created"
    /\ app' = "running"
    /\ net' = "listen"
    /\ UNCHANGED <<cfgToken, certFile, token, ioStopped, cstate, hdr,
                   connections, downs, aborted>>

(* Mutant: stop() joins without stopping the io_service.                 *)
StopSignalNoIoStop ==
    /\ app = "running"
    /\ app' = "stopping"
    /\ UNCHANGED <<cfgToken, certFile, token, net, ioStopped, cstate, hdr,
                   connections, downs, aborted>>

(* stop(), first statement: io_service::stop().                           *)
StopSignal ==
    /\ app = "running"
    /\ ioStopped' = TRUE
    /\ app' = "stopping"
    /\ UNCHANGED <<cfgToken, certFile, token, net, cstate, hdr, connections,
                   downs, aborted>>

(* stop(), second statement: bg_.join() returns once run() has returned.  *)
StopJoin ==
    /\ app = "stopping"
    /\ net = "exited"
    /\ app' = "stopped"
    /\ UNCHANGED <<cfgToken, certFile, token, net, ioStopped, cstate, hdr,
                   connections, downs, aborted>>

-----------------------------------------------------------------------------
(* Network thread: run().                                                 *)

(* listen(port) succeeds, and start_accept() creates the first pending    *)
(* connection, for which websocketpp calls on_tls_init: the certificate   *)
(* file is generated and written if it does not exist, then loaded.  The *)
(* thread enters srv_->run().                                             *)
Run ==
    /\ net = "listen"
    /\ certFile \in {"absent", "valid"}
    /\ certFile' = "valid"
    /\ net' = "loop"
    /\ UNCHANGED <<cfgToken, app, token, ioStopped, cstate, hdr,
                   connections, downs, aborted>>

(* The process dies in that on_tls_init after std::ofstream has created   *)
(* (truncated) the file and before co.write has completed.                *)
RunTornWrite ==
    /\ net = "listen"
    /\ certFile = "absent"
    /\ downs < MaxDowns
    /\ certFile' = "torn"
    /\ FreshProcess
    /\ downs' = downs + 1
    /\ UNCHANGED <<cfgToken, aborted>>

(* The file exists but is not a certificate: use_certificate_chain_file   *)
(* throws out of on_tls_init, start_accept() and run() on bg_, and        *)
(* std::terminate ends the process.  The file decides this, not the       *)
(* environment, so it is not counted against MaxDowns.                    *)
RunCertificateFails ==
    /\ net = "listen"
    /\ certFile = "torn"
    /\ FreshProcess
    /\ aborted' = aborted \cup {"certificate"}
    /\ UNCHANGED <<cfgToken, certFile, downs>>

(* listen(port) throws (the port is taken); the exception leaves the      *)
(* thread function and std::terminate ends the process.                   *)
RunListenFails ==
    /\ net = "listen"
    /\ downs < MaxDowns
    /\ FreshProcess
    /\ downs' = downs + 1
    /\ aborted' = aborted \cup {"listen"}
    /\ UNCHANGED <<cfgToken, certFile>>

(* srv_->run() returns once the io_service is stopped; bg_ ends.          *)
RunReturns ==
    /\ net = "loop"
    /\ ioStopped
    /\ net' = "exited"
    /\ UNCHANGED <<cfgToken, certFile, app, token, ioStopped, cstate, hdr,
                   connections, downs, aborted>>

(* The io_service dispatches handlers only while it has not been stopped. *)
Serving == net = "loop" /\ ~ioStopped

(* The acceptor accepts a TCP connection from a client that will send     *)
(* header h.                                                              *)
Accept(c, h) ==
    /\ Serving
    /\ cstate[c] = "idle"
    /\ cstate' = [cstate EXCEPT ![c] = "accepted"]
    /\ hdr' = [hdr EXCEPT ![c] = h]
    /\ UNCHANGED <<cfgToken, certFile, app, token, net, ioStopped,
                   connections, downs, aborted>>

(* The TLS handshake of c, with the context on_tls_init built for its     *)
(* pending connection when start_accept() created it.  That on_tls_init  *)
(* found the file Run left valid (nothing else writes it while the       *)
(* process lives), so it cannot fail.                                     *)
OnTlsInit(c) ==
    /\ Serving
    /\ cstate[c] = "accepted"
    /\ cstate' = [cstate EXCEPT ![c] = "tls"]
    /\ UNCHANGED <<cfgToken, certFile, app, token, net, ioStopped, hdr,
                   connections, downs, aborted>>

(* Mutant: the result of std::string::compare used as a boolean.         *)
OnValidateResultCompareAsBool(c) == hdr[c] # NoToken /\ token # hdr[c]

(* on_validate: reject an empty header, else compare with the token.      *)
OnValidateResult(c) == hdr[c] # NoToken /\ token = hdr[c]

OnValidate(c) ==
    /\ Serving
    /\ cstate[c] = "tls"
    /\ cstate' = [cstate EXCEPT ![c] = IF OnValidateResult(c) THEN "validated"
                                                              ELSE "rejected"]
    /\ UNCHANGED <<cfgToken, certFile, app, token, net, ioStopped, hdr,
                   connections, downs, aborted>>

(* on_open: connections_.insert(hdl).                                     *)
OnOpen(c) ==
    /\ Serving
    /\ cstate[c] = "validated"
    /\ cstate' = [cstate EXCEPT ![c] = "open"]
    /\ connections' = connections \cup {c}
    /\ UNCHANGED <<cfgToken, certFile, app, token, net, ioStopped, hdr,
                   downs, aborted>>

(* Mutant: on_close that leaves the handle in connections_.              *)
OnCloseNoErase(c) ==
    /\ Serving
    /\ cstate[c] = "open"
    /\ cstate' = [cstate EXCEPT ![c] = "closed"]
    /\ UNCHANGED <<cfgToken, certFile, app, token, net, ioStopped, hdr,
                   connections, downs, aborted>>

(* on_close: connections_.erase(hdl), when either side closes.            *)
OnClose(c) ==
    /\ Serving
    /\ cstate[c] = "open"
    /\ cstate' = [cstate EXCEPT ![c] = "closed"]
    /\ connections' = connections \ {c}
    /\ UNCHANGED <<cfgToken, certFile, app, token, net, ioStopped, hdr,
                   downs, aborted>>

(* The client goes away during the handshake: websocketpp calls the fail  *)
(* handler (none is set), never on_open nor on_close.                     *)
HandshakeDropped(c) ==
    /\ Serving
    /\ cstate[c] \in {"accepted", "tls", "validated"}
    /\ cstate' = [cstate EXCEPT ![c] = "dropped"]
    /\ UNCHANGED <<cfgToken, certFile, app, token, net, ioStopped, hdr,
                   connections, downs, aborted>>

-----------------------------------------------------------------------------
(* Environment: the process crashes, or exits after stop() returned, and  *)
(* is launched again.                                                     *)
Crash ==
    /\ app # "none"
    /\ downs < MaxDowns
    /\ FreshProcess
    /\ downs' = downs + 1
    /\ UNCHANGED <<cfgToken, certFile, aborted>>

NetworkThread ==
    \/ Run \/ RunTornWrite \/ RunCertificateFails \/ RunListenFails
    \/ RunReturns
    \/ \E c \in Conn :
          \/ \E h \in Header : Accept(c, h)
          \/ OnTlsInit(c)
          \/ OnValidate(c) \/ OnOpen(c) \/ OnClose(c) \/ HandshakeDropped(c)

Next ==
    \/ WebsocketServer \/ Start \/ StopSignal \/ StopJoin
    \/ NetworkThread
    \/ Crash

(* The network thread and a blocked join make progress; the clients, the  *)
(* application's calls and crashes need not happen.                       *)
Fairness ==
    /\ WF_vars(Run) /\ WF_vars(RunCertificateFails)
    /\ WF_vars(RunReturns) /\ WF_vars(StopJoin)
    /\ \A c \in Conn : /\ WF_vars(OnTlsInit(c))
                       /\ WF_vars(OnValidate(c))
                       /\ WF_vars(OnOpen(c))

Spec == Init /\ [][Next]_vars /\ Fairness

-----------------------------------------------------------------------------
(* Properties.                                                            *)

(* Every handle in connections_ passed on_validate with a non-empty       *)
(* X-PicoTorrent-Token header equal to the token persisted in the         *)
(* configuration, i.e. the one a remote client can be given: the         *)
(* constructor's generate-and-persist and on_validate's comparison        *)
(* together are the only gate into the session registry, across crashes. *)
AdmittedHoldPersistedToken ==
    \A c \in connections : hdr[c] # NoToken /\ hdr[c] = cfgToken

(* connections_ holds exactly the handles whose open event has fired and  *)
(* whose close event has not: on_open/on_close keep the registry in step  *)
(* with websocketpp's connection lifecycle, and no failed handshake       *)
(* enters it.                                                             *)
RegistryConsistent ==
    connections = {c \in Conn : cstate[c] = "open"}

(* The refinement mapping: the persisted token, the presented headers and *)
(* connections_ are the gate's token, headers and sessions.              *)
Gate == INSTANCE AdmissionGate
            WITH persisted <- cfgToken, presented <- hdr, admitted <- connections

(* The server keeps the promise of AdmissionGate: every step of the      *)
(* constructor, the network thread's handlers and the relaunches is a    *)
(* gate step or leaves the token, headers and registry alone; in         *)
(* particular on_open only ever registers a handle whose header was the   *)
(* persisted token when on_validate compared it.                          *)
ImplementsAdmissionGate == Gate!GateSpec

(* stop() returns: once io_service::stop() has been called, run() returns *)
(* and bg_.join() completes, unless the process dies first.               *)
StopReturns ==
    app = "stopping" ~> app \in {"stopped", "none"}

(* A client that presents the right token to a serving server is         *)
(* eventually opened, unless it goes away, the server is stopped, or the  *)
(* process dies (its handle is then idle again).                          *)
AuthorisedClientServed ==
    \A c \in Conn :
        (cstate[c] = "accepted" /\ hdr[c] = token)
            ~> (cstate[c] \in {"open", "closed", "dropped", "idle"} \/ ioStopped)

(* Spec 4.2: the certificate is written atomically, and only a corrupt    *)
(* file an administrator provided is a fatal startup error.  Every run   *)
(* starts with no file or a valid one, so no launch should be ended by    *)
(* std::terminate in on_tls_init on a certificate the server wrote itself. *)
OwnCertificateLoads ==
    "certificate" \notin aborted

(* Spec 7: failure to bind the listen port is reported to the owner and  *)
(* never takes down the host application.                                 *)
ListenFailureNotFatal ==
    "listen" \notin aborted

=============================================================================
