---------------------------- MODULE SingleInstance ----------------------------
(***************************************************************************)
(* What PicoTorrent's single-instance start-up promises, without command  *)
(* lines, mutex handles, migrations or IPC: one process at a time owns the *)
(* database; a process becomes the owner only when nobody is; and every   *)
(* HandleParams call, for the process's own command line or for one       *)
(* handed on by a later launch, runs in the current owner.  Application   *)
(* implements this specification (see SI in Application.tla).            *)
(***************************************************************************)
CONSTANTS Procs, NoProc

VARIABLES
    owner,   \* the process that owns the database, or NoProc
    calls    \* the HandleParams calls made: [by, from] pairs of processes

siVars == <<owner, calls>>

SIInit ==
    /\ owner = NoProc
    /\ calls = {}

(* A process takes the database when nobody owns it.                      *)
Claim(p) ==
    /\ owner = NoProc
    /\ owner' = p
    /\ UNCHANGED calls

(* The owner gives the database up.                                       *)
Release(p) ==
    /\ owner = p
    /\ owner' = NoProc
    /\ UNCHANGED calls

(* The owner handles the command line of process `from`.                  *)
Handle(p, from) ==
    /\ owner = p
    /\ calls' = calls \cup {[by |-> p, from |-> from]}
    /\ UNCHANGED owner

SINext ==
    \E p \in Procs :
        \/ Claim(p)
        \/ Release(p)
        \/ \E from \in Procs : Handle(p, from)

SISpec == SIInit /\ [][SINext]_siVars

=============================================================================
