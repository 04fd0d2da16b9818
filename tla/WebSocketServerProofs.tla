---------------------- MODULE WebSocketServerProofs ----------------------
(***************************************************************************)
(* Proofs about WebSocketServer for every value of the constants: type    *)
(* correctness, and that only clients holding the persisted token ever    *)
(* enter the session registry.                                            *)
(***************************************************************************)
EXTENDS WebSocketServer, TLAPS

(* The strengthening of AdmittedHoldPersistedToken that is inductive.    *)
(*  - a constructed server's token is the persisted one (the constructor  *)
(*    persists what it generates, and nothing else writes the token);     *)
(*  - a handle past on_validate presented that token, non-empty;          *)
(*  - the registry is the set of open handles;                            *)
(*  - before construction, in a fresh process, no handle is in use, and   *)
(*    the network thread only exists once start() has been called.        *)
TokenIsPersisted == app # "none" => token = cfgToken

ValidatedHoldToken ==
    \A c \in Conn : cstate[c] \in {"validated", "open"} =>
                        hdr[c] # NoToken /\ hdr[c] = token

NothingBeforeConstruction ==
    app = "none" => \A c \in Conn : cstate[c] = "idle"

ThreadAfterConstruction ==
    net # "none" => app \in {"running", "stopping", "stopped"}

IInv ==
    /\ TypeOK
    /\ ThreadAfterConstruction
    /\ TokenIsPersisted
    /\ ValidatedHoldToken
    /\ RegistryConsistent
    /\ NothingBeforeConstruction

-----------------------------------------------------------------------------
(* Type correctness.                                                      *)

LEMMA InitTypeOK == Init => TypeOK
<1> SUFFICES ASSUME Init PROVE TypeOK
  OBVIOUS
<1>1. cstate \in [Conn -> ConnStates] /\ hdr \in [Conn -> Header]
  BY DEF Init, ConnStates, Header
<1>2. token \in IF app = "none" THEN {NoToken} ELSE Tokens
  BY DEF Init
<1>3. downs \in 0..MaxDowns
  BY ConstantsAssumption DEF Init
<1>4. QED
  BY <1>1, <1>2, <1>3 DEF Init, TypeOK, Header, AppStates, NetStates,
                         CertStates

(* A relaunched process is well typed whatever its persistent state.      *)
LEMMA FreshProcessTypeOK ==
  ASSUME TypeOK, FreshProcess,
         cfgToken' \in Header, certFile' \in CertStates,
         downs' \in 0..MaxDowns, aborted' \subseteq AbortCauses
  PROVE  TypeOK'
  BY DEF TypeOK, FreshProcess, AppStates, NetStates, ConnStates, Header

(* No step leaves the types, and configured_token_ is a non-empty token  *)
(* exactly while the server object exists.                                *)
LEMMA NextTypeOK == TypeOK /\ [Next]_vars => TypeOK'
<1> SUFFICES ASSUME TypeOK, [Next]_vars PROVE TypeOK'
  OBVIOUS
<1> USE ConstantsAssumption DEF TypeOK, Header, AppStates, NetStates,
                               CertStates, ConnStates, AbortCauses
<1>1. CASE WebsocketServer
  BY <1>1 DEF WebsocketServer
<1>2. CASE Start
  BY <1>2 DEF Start
<1>3. CASE StopSignal
  BY <1>3 DEF StopSignal
<1>4. CASE StopJoin
  BY <1>4 DEF StopJoin
<1>5. CASE Run
  BY <1>5 DEF Run
<1>12. CASE RunTornWrite
  <2>1. downs' \in 0..MaxDowns
    BY <1>12 DEF RunTornWrite
  <2>2. QED
    BY <1>12, <2>1, FreshProcessTypeOK DEF RunTornWrite
<1>13. CASE RunCertificateFails
  BY <1>13, FreshProcessTypeOK DEF RunCertificateFails
<1>6. CASE RunListenFails
  <2>1. downs' \in 0..MaxDowns
    BY <1>6 DEF RunListenFails
  <2>2. QED
    BY <1>6, <2>1, FreshProcessTypeOK DEF RunListenFails
<1>7. CASE RunReturns
  BY <1>7 DEF RunReturns
<1>8. CASE Crash
  <2>1. downs' \in 0..MaxDowns
    BY <1>8 DEF Crash
  <2>2. QED
    BY <1>8, <2>1, FreshProcessTypeOK DEF Crash
<1>9. ASSUME NEW c \in Conn,
             \/ \E h \in Header : Accept(c, h)
             \/ OnTlsInit(c)
             \/ OnValidate(c) \/ OnOpen(c) \/ OnClose(c)
             \/ HandshakeDropped(c)
      PROVE TypeOK'
  <2>1. CASE \E h \in Header : Accept(c, h)
    BY <2>1 DEF Accept
  <2>2. CASE OnTlsInit(c)
    BY <2>2 DEF OnTlsInit
  <2>4. CASE OnValidate(c)
    BY <2>4 DEF OnValidate
  <2>5. CASE OnOpen(c)
    BY <2>5 DEF OnOpen
  <2>6. CASE OnClose(c)
    BY <2>6 DEF OnClose
  <2>7. CASE HandshakeDropped(c)
    BY <2>7 DEF HandshakeDropped
  <2>8. QED
    BY <1>9, <2>1, <2>2, <2>4, <2>5, <2>6, <2>7
<1>10. CASE UNCHANGED vars
  BY <1>10 DEF vars
<1>11. QED
  BY <1>1, <1>2, <1>3, <1>4, <1>5, <1>6, <1>7, <1>8, <1>9, <1>10, <1>12,
     <1>13 DEF Next, NetworkThread

(* The server's state always has the types of TypeOK.                    *)
THEOREM TypeCorrect == Spec => []TypeOK
  BY InitTypeOK, NextTypeOK, PTL DEF Spec

-----------------------------------------------------------------------------
(* The admission gate.                                                    *)

LEMMA InitIInv == Init => IInv
  BY InitTypeOK DEF Init, IInv, ThreadAfterConstruction, TokenIsPersisted,
                    ValidatedHoldToken, RegistryConsistent,
                    NothingBeforeConstruction

(* The conjuncts other than TypeOK hold in any freshly launched process. *)
LEMMA FreshProcessIInv ==
  ASSUME FreshProcess
  PROVE  (ThreadAfterConstruction /\ TokenIsPersisted /\ ValidatedHoldToken
          /\ RegistryConsistent /\ NothingBeforeConstruction)'
  BY DEF FreshProcess, ThreadAfterConstruction, TokenIsPersisted,
         ValidatedHoldToken, RegistryConsistent, NothingBeforeConstruction

LEMMA NextIInv == IInv /\ [Next]_vars => IInv'
<1> SUFFICES ASSUME IInv, [Next]_vars PROVE IInv'
  OBVIOUS
<1>0. TypeOK'
  BY NextTypeOK DEF IInv
<1> USE DEF IInv, ThreadAfterConstruction, TokenIsPersisted,
            ValidatedHoldToken, RegistryConsistent, NothingBeforeConstruction
<1>1. CASE WebsocketServer
  BY <1>0, <1>1 DEF WebsocketServer
<1>2. CASE Start
  BY <1>0, <1>2 DEF Start
<1>3. CASE StopSignal
  BY <1>0, <1>3 DEF StopSignal
<1>4. CASE StopJoin
  BY <1>0, <1>4 DEF StopJoin
<1>5. CASE Run
  BY <1>0, <1>5 DEF Run
<1>12. CASE RunTornWrite \/ RunCertificateFails
  BY <1>0, <1>12, FreshProcessIInv DEF RunTornWrite, RunCertificateFails
<1>6. CASE RunListenFails
  BY <1>0, <1>6, FreshProcessIInv DEF RunListenFails
<1>7. CASE RunReturns
  BY <1>0, <1>7 DEF RunReturns
<1>8. CASE Crash
  BY <1>0, <1>8, FreshProcessIInv DEF Crash
<1>9. ASSUME NEW c \in Conn,
             \/ \E h \in Header : Accept(c, h)
             \/ OnTlsInit(c)
             \/ OnValidate(c) \/ OnOpen(c) \/ OnClose(c)
             \/ HandshakeDropped(c)
      PROVE IInv'
  <2> USE DEF TypeOK, Serving
  <2>1. CASE \E h \in Header : Accept(c, h)
    BY <1>0, <2>1 DEF Accept
  <2>2. CASE OnTlsInit(c)
    BY <1>0, <2>2 DEF OnTlsInit
  <2>4. CASE OnValidate(c)
    BY <1>0, <2>4 DEF OnValidate, OnValidateResult
  <2>5. CASE OnOpen(c)
    BY <1>0, <2>5 DEF OnOpen
  <2>6. CASE OnClose(c)
    BY <1>0, <2>6 DEF OnClose
  <2>7. CASE HandshakeDropped(c)
    BY <1>0, <2>7 DEF HandshakeDropped
  <2>8. QED
    BY <1>9, <2>1, <2>2, <2>4, <2>5, <2>6, <2>7
<1>10. CASE UNCHANGED vars
  BY <1>0, <1>10 DEF vars
<1>11. QED
  BY <1>1, <1>2, <1>3, <1>4, <1>5, <1>6, <1>7, <1>8, <1>9, <1>10, <1>12
     DEF Next, NetworkThread

(* Every handle in connections_ presented the non-empty token persisted  *)
(* in the configuration: on_validate is the only way into the registry,  *)
(* for every number of handles, tokens and relaunches.                    *)
THEOREM AdmittedTokenSafety == Spec => []AdmittedHoldPersistedToken
<1>1. IInv => AdmittedHoldPersistedToken
  BY DEF IInv, TypeOK, TokenIsPersisted, ValidatedHoldToken,
         RegistryConsistent, NothingBeforeConstruction,
         AdmittedHoldPersistedToken
<1>2. QED
  BY InitIInv, NextIInv, <1>1, PTL DEF Spec

(* connections_ is exactly the set of handles whose open event fired and *)
(* whose close event has not, across failed handshakes and relaunches.   *)
THEOREM RegistrySafety == Spec => []RegistryConsistent
<1>1. IInv => RegistryConsistent
  BY DEF IInv
<1>2. QED
  BY InitIInv, NextIInv, <1>1, PTL DEF Spec

-----------------------------------------------------------------------------
(* Refinement of the abstract admission gate.                             *)

LEMMA InitGate == Init => Gate!GateInit
  BY DEF Init, Gate!GateInit, Header

(* A step that leaves token, headers and registry alone is a gate stutter. *)
LEMMA GateStutter ==
  ASSUME UNCHANGED <<cfgToken, hdr, connections>>
  PROVE  [Gate!GateNext]_Gate!gateVars
  BY DEF Gate!gateVars

(* A relaunch is the gate's Restart.                                       *)
LEMMA FreshProcessGate ==
  ASSUME FreshProcess, UNCHANGED cfgToken
  PROVE  [Gate!GateNext]_Gate!gateVars
  <1>1. Gate!Restart
    BY DEF FreshProcess, Gate!Restart
  <1>2. QED
    BY <1>1 DEF Gate!GateNext

LEMMA NextGate == IInv /\ [Next]_vars => [Gate!GateNext]_Gate!gateVars
<1> SUFFICES ASSUME IInv, [Next]_vars PROVE [Gate!GateNext]_Gate!gateVars
  OBVIOUS
<1> USE DEF IInv
<1>1. CASE WebsocketServer
  <2>1. CASE cfgToken # NoToken
    BY <1>1, <2>1, GateStutter DEF WebsocketServer
  <2>2. CASE cfgToken = NoToken
    <3>1. Gate!SetToken
      BY <1>1, <2>2 DEF WebsocketServer, Gate!SetToken
    <3>2. QED
      BY <3>1 DEF Gate!GateNext
  <2>3. QED
    BY <2>1, <2>2
<1>2. CASE Start \/ StopSignal \/ StopJoin \/ Run \/ RunReturns
  BY <1>2, GateStutter DEF Start, StopSignal, StopJoin, Run, RunReturns
<1>3. CASE RunListenFails \/ Crash \/ RunTornWrite \/ RunCertificateFails
  BY <1>3, FreshProcessGate DEF RunListenFails, Crash, RunTornWrite,
                                RunCertificateFails
<1>4. ASSUME NEW c \in Conn,
             \/ \E h \in Header : Accept(c, h)
             \/ OnTlsInit(c)
             \/ OnValidate(c) \/ OnOpen(c) \/ OnClose(c)
             \/ HandshakeDropped(c)
      PROVE [Gate!GateNext]_Gate!gateVars
  <2>1. CASE \E h \in Header : Accept(c, h)
    <3>1. PICK h \in Header : Accept(c, h)
      BY <2>1
    <3>2. c \notin connections
      BY <3>1 DEF Accept, RegistryConsistent
    <3>3. Gate!Present(c, h)
      BY <3>1, <3>2 DEF Accept, Gate!Present
    <3>4. QED
      BY <3>3 DEF Gate!GateNext, Header
  <2>2. CASE OnTlsInit(c) \/ OnValidate(c) \/ HandshakeDropped(c)
    BY <2>2, GateStutter DEF OnTlsInit, OnValidate, HandshakeDropped
  <2>4. CASE OnOpen(c)
    <3>1. app # "none"
      BY <2>4 DEF OnOpen, Serving, ThreadAfterConstruction
    <3>2. hdr[c] # NoToken /\ hdr[c] = cfgToken
      BY <2>4, <3>1 DEF OnOpen, ValidatedHoldToken, TokenIsPersisted
    <3>3. c \notin connections
      BY <2>4 DEF OnOpen, RegistryConsistent
    <3>4. Gate!Admit(c)
      BY <2>4, <3>2, <3>3 DEF OnOpen, Gate!Admit
    <3>5. QED
      BY <3>4 DEF Gate!GateNext
  <2>5. CASE OnClose(c)
    <3>1. c \in connections
      BY <2>5 DEF OnClose, RegistryConsistent
    <3>2. Gate!Leave(c)
      BY <2>5, <3>1 DEF OnClose, Gate!Leave
    <3>3. QED
      BY <3>2 DEF Gate!GateNext
  <2>6. QED
    BY <1>4, <2>1, <2>2, <2>4, <2>5
<1>5. CASE UNCHANGED vars
  BY <1>5, GateStutter DEF vars
<1>6. QED
  BY <1>1, <1>2, <1>3, <1>4, <1>5 DEF Next, NetworkThread

(* The websocket server implements the admission gate: the persisted     *)
(* token, the presented headers and connections_ evolve only as the      *)
(* gate allows, for every number of handles, tokens and relaunches.      *)
THEOREM Refinement == Spec => ImplementsAdmissionGate
<1>1. Spec => []IInv
  BY InitIInv, NextIInv, PTL DEF Spec
<1>2. QED
  BY <1>1, InitGate, InitIInv, NextGate, PTL
     DEF Spec, ImplementsAdmissionGate, Gate!GateSpec

=============================================================================
