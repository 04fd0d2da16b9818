--------------------------- MODULE ApplicationProofs ---------------------------
(***************************************************************************)
(* Proofs about Application for every set of processes, names and         *)
(* directories: type correctness, that at most one first instance is      *)
(* alive at a time, and that every HandleParams call opens the files the  *)
(* user named where the process was launched.                             *)
(***************************************************************************)
EXTENDS Application, FiniteSetTheorems, TLAPS

(* The strengthening that is inductive.                                   *)
(*  - a process has a role exactly once it has passed IsAnotherRunning;   *)
(*  - an alive first instance holds a handle on the mutex, so no later    *)
(*    process can find the mutex absent;                                  *)
(*  - m_options is what OnCmdLineParsed made of the process's own command *)
(*    line and directory, and every HandleParams call carries the options *)
(*    of its launching process.                                           *)
RoleAfterCheck ==
    \A p \in Procs : role[p] = "unknown" <=> pc[p] \in {"idle", "started", "parsed"}

PrimaryHoldsMutex == \A p \in Procs : AlivePrimary(p) => p \in holders

OnePrimary == \A p, q \in Procs : AlivePrimary(p) /\ AlivePrimary(q) => p = q

OptsParsed ==
    \A p \in Procs : pc[p] \notin {"idle", "started"} =>
                         opts[p] = CmdLineOptions(cmd[p], cwd[p])

HandledParsed ==
    \A h \in handled : /\ pc[h.from] \notin {"idle", "started"}
                       /\ h.files = opts[h.from].files
                       /\ h.magnets = opts[h.from].magnets

AInv ==
    /\ TypeOK
    /\ RoleAfterCheck
    /\ PrimaryHoldsMutex
    /\ OnePrimary
    /\ OptsParsed
    /\ HandledParsed

(* For the refinement of SingleInstance:                                  *)
(*  - only a first instance gets past its migrations;                     *)
(*  - the registered IPC server belongs to a first instance whose main    *)
(*    frame is up.                                                        *)
MigratedPrimary ==
    \A p \in Procs : pc[p] \in {"migrated", "running"} => role[p] = "primary"

ServerRunning ==
    server # NoProc => server \in Procs /\ pc[server] = "running"

SInv == AInv /\ MigratedPrimary /\ ServerRunning

-----------------------------------------------------------------------------
(* Type correctness.                                                      *)

(* What OnCmdLineParsed stores is a well-formed m_options.                *)
LEMMA CmdLineOptionsType ==
  ASSUME NEW args \in SUBSET Args, NEW dir \in Dirs
  PROVE  CmdLineOptions(args, dir) \in Options
  <1>1. \A a \in args : Absolute(a, dir) \in Paths
    BY DEF Args, Absolute, Paths
  <1>2. \A a \in args : a.n \in Names
    BY DEF Args
  <1>3. QED
    BY <1>1, <1>2 DEF CmdLineOptions, Options

LEMMA InitTypeOK == Init => TypeOK
  BY DEF Init, TypeOK, PcStates, NoOptions, Options

LEMMA NextTypeOK == TypeOK /\ [Next]_vars => TypeOK'
<1> SUFFICES ASSUME TypeOK, [Next]_vars PROVE TypeOK'
  OBVIOUS
<1> USE DEF TypeOK, PcStates
<1>1. ASSUME NEW p \in Procs, NEW args \in SUBSET Args,
             Cardinality(args) <= MaxArgs, Application(p, args)
      PROVE  TypeOK'
  BY <1>1 DEF Application
<1>2. ASSUME NEW p \in Procs, OnCmdLineParsed(p) PROVE TypeOK'
  BY <1>2, CmdLineOptionsType DEF OnCmdLineParsed
<1>3. ASSUME NEW p \in Procs, IsAnotherRunning(p) PROVE TypeOK'
  BY <1>3 DEF IsAnotherRunning
<1>4. ASSUME NEW p \in Procs, ActivateOtherInstance(p) PROVE TypeOK'
  BY <1>4 DEF ActivateOtherInstance, Options, Handled
<1>5. ASSUME NEW p \in Procs, Migrate(p) PROVE TypeOK'
  BY <1>5 DEF Migrate
<1>6. ASSUME NEW p \in Procs, CreateMainFrame(p) PROVE TypeOK'
  BY <1>6 DEF CreateMainFrame, Options, Handled
<1>7. ASSUME NEW p \in Procs, CloseMainFrame(p) PROVE TypeOK'
  BY <1>7 DEF CloseMainFrame
<1>8. ASSUME NEW p \in Procs, Exit(p) PROVE TypeOK'
  BY <1>8 DEF Exit
<1>9. CASE UNCHANGED vars
  BY <1>9 DEF vars
<1>10. QED
  BY <1>1, <1>2, <1>3, <1>4, <1>5, <1>6, <1>7, <1>8, <1>9 DEF Next

(* Every process's state always has the types of TypeOK.                 *)
THEOREM ApplicationTypeCorrect == Spec => []TypeOK
  BY InitTypeOK, NextTypeOK, PTL DEF Spec

-----------------------------------------------------------------------------
(* The inductive invariant.                                               *)

LEMMA InitAInv == Init => AInv
  BY InitTypeOK DEF Init, AInv, RoleAfterCheck, PrimaryHoldsMutex,
                    OnePrimary, OptsParsed, HandledParsed, AlivePrimary

LEMMA NextAInv == AInv /\ [Next]_vars => AInv'
<1> SUFFICES ASSUME AInv, [Next]_vars PROVE AInv'
  OBVIOUS
<1>0. TypeOK'
  BY NextTypeOK DEF AInv
<1> USE DEF AInv, TypeOK, RoleAfterCheck, PrimaryHoldsMutex, OnePrimary,
            OptsParsed, HandledParsed, AlivePrimary
<1>1. ASSUME NEW p \in Procs, NEW args \in SUBSET Args,
             Cardinality(args) <= MaxArgs, Application(p, args)
      PROVE  AInv'
  BY <1>0, <1>1 DEF Application
<1>2. ASSUME NEW p \in Procs, OnCmdLineParsed(p) PROVE AInv'
  BY <1>0, <1>2 DEF OnCmdLineParsed
<1>3. ASSUME NEW p \in Procs, IsAnotherRunning(p) PROVE AInv'
  <2>1. OnePrimary'
    <3>1. role[p] = "unknown"
      BY <1>3 DEF IsAnotherRunning
    <3>2. role'[p] = "primary" => \A q \in Procs : ~AlivePrimary(q)
      BY <1>3 DEF IsAnotherRunning
    <3>3. QED
      BY <1>3, <3>1, <3>2 DEF IsAnotherRunning
  <2>2. QED
    BY <1>0, <1>3, <2>1 DEF IsAnotherRunning
<1>4. ASSUME NEW p \in Procs, ActivateOtherInstance(p) PROVE AInv'
  BY <1>0, <1>4 DEF ActivateOtherInstance
<1>5. ASSUME NEW p \in Procs, Migrate(p) PROVE AInv'
  <2>1. /\ pc[p] = "checked" /\ role[p] = "primary"
        /\ UNCHANGED <<role, cmd, cwd, opts, holders, server, handled>>
    BY <1>5 DEF Migrate
  <2>2. CASE pc' = [pc EXCEPT ![p] = "migrated"]
    BY <1>0, <2>1, <2>2
  <2>3. CASE pc' = [pc EXCEPT ![p] = "leaving"]
    BY <1>0, <2>1, <2>3
  <2>4. QED
    BY <1>5, <2>2, <2>3 DEF Migrate
<1>6. ASSUME NEW p \in Procs, CreateMainFrame(p) PROVE AInv'
  BY <1>0, <1>6 DEF CreateMainFrame, AInv, TypeOK
<1>7. ASSUME NEW p \in Procs, CloseMainFrame(p) PROVE AInv'
  BY <1>0, <1>7 DEF CloseMainFrame
<1>8. ASSUME NEW p \in Procs, Exit(p) PROVE AInv'
  BY <1>0, <1>8 DEF Exit
<1>9. CASE UNCHANGED vars
  BY <1>9 DEF vars
<1>10. QED
  BY <1>1, <1>2, <1>3, <1>4, <1>5, <1>6, <1>7, <1>8, <1>9 DEF Next

LEMMA SpecAInv == Spec => []AInv
  BY InitAInv, NextAInv, PTL DEF Spec

(* The first instance is the only instance that opens the database: of   *)
(* all processes launched at once, at most one has found the             *)
(* single-instance mutex absent and not yet exited, because its handle   *)
(* stays open until ~Application, after the main frame has gone.         *)
THEOREM SingleOwner == Spec => []SingleDatabaseOwner
<1>1. AInv => SingleDatabaseOwner
  <2> SUFFICES ASSUME AInv PROVE SingleDatabaseOwner
    OBVIOUS
  <2> DEFINE S == {p \in Procs : role[p] = "primary" /\ pc[p] # "exited"}
  <2>1. CASE S = {}
    BY <2>1, FS_EmptySet DEF SingleDatabaseOwner
  <2>2. CASE S # {}
    <3>1. PICK x \in S : TRUE
      BY <2>2
    <3>2. S = {x}
      BY <3>1 DEF AInv, OnePrimary, AlivePrimary
    <3>3. Cardinality(S) = 1
      BY <3>2, FS_Singleton
    <3>4. QED
      BY <3>3 DEF SingleDatabaseOwner
  <2>3. QED
    BY <2>1, <2>2
<1>2. QED
  BY <1>1, SpecAInv, PTL

(* Every HandleParams call, in the launching process or in the running   *)
(* instance it handed its command line to, opens exactly the files the   *)
(* user named, read in the launching process's working directory, and    *)
(* gets exactly its magnet links: std::filesystem::absolute runs before   *)
(* the handoff.                                                           *)
THEOREM FilesResolved == Spec => []FilesResolvedAtLaunch
<1>1. AInv => FilesResolvedAtLaunch
  <2> SUFFICES ASSUME AInv, NEW h \in handled
               PROVE  /\ {Opened(f, h.by) : f \in h.files} =
                          {Meant(a, cwd[h.from]) : a \in {b \in cmd[h.from] : ~IsMagnet(b)}}
                      /\ h.magnets = {a.n : a \in {b \in cmd[h.from] : IsMagnet(b)}}
    BY DEF FilesResolvedAtLaunch
  <2>1. h.from \in Procs /\ h.by \in Procs
    BY DEF AInv, TypeOK, Handled
  <2>2. opts[h.from] = CmdLineOptions(cmd[h.from], cwd[h.from])
    BY <2>1 DEF AInv, HandledParsed, OptsParsed
  <2>3. h.files = {Absolute(a, cwd[h.from]) : a \in {b \in cmd[h.from] : ~IsMagnet(b)}}
    BY <2>2 DEF AInv, HandledParsed, CmdLineOptions
  <2>4. cwd[h.from] \in Dirs /\ cmd[h.from] \subseteq Args
    BY <2>1 DEF AInv, TypeOK
  <2>5. \A a \in cmd[h.from] : Opened(Absolute(a, cwd[h.from]), h.by)
                                 = Meant(a, cwd[h.from])
    BY <2>4, ApplicationAssumption DEF Opened, Absolute, Meant, Args
  <2>6. QED
    BY <2>2, <2>3, <2>5 DEF AInv, HandledParsed, CmdLineOptions
<1>2. QED
  BY <1>1, SpecAInv, PTL

-----------------------------------------------------------------------------
(* The refinement of SingleInstance.                                      *)

LEMMA InitSInv == Init => SInv
  BY InitAInv DEF Init, SInv, MigratedPrimary, ServerRunning

LEMMA NextSInv == SInv /\ [Next]_vars => SInv'
<1> SUFFICES ASSUME SInv, [Next]_vars PROVE SInv'
  OBVIOUS
<1>0. AInv'
  BY NextAInv DEF SInv
<1> USE DEF SInv, MigratedPrimary, ServerRunning
<1>1. ASSUME NEW p \in Procs, NEW args \in SUBSET Args,
             Cardinality(args) <= MaxArgs, Application(p, args)
      PROVE  SInv'
  BY <1>0, <1>1 DEF Application
<1>2. ASSUME NEW p \in Procs, OnCmdLineParsed(p) PROVE SInv'
  BY <1>0, <1>2 DEF OnCmdLineParsed
<1>3. ASSUME NEW p \in Procs, IsAnotherRunning(p) PROVE SInv'
  BY <1>0, <1>3 DEF IsAnotherRunning
<1>4. ASSUME NEW p \in Procs, ActivateOtherInstance(p) PROVE SInv'
  BY <1>0, <1>4 DEF ActivateOtherInstance
<1>5. ASSUME NEW p \in Procs, Migrate(p) PROVE SInv'
  <2>1. /\ pc[p] = "checked" /\ role[p] = "primary"
        /\ UNCHANGED <<role, cmd, cwd, opts, holders, server, handled>>
    BY <1>5 DEF Migrate
  <2>2. CASE pc' = [pc EXCEPT ![p] = "migrated"]
    BY <1>0, <2>1, <2>2 DEF AInv, TypeOK
  <2>3. CASE pc' = [pc EXCEPT ![p] = "leaving"]
    BY <1>0, <2>1, <2>3 DEF AInv, TypeOK
  <2>4. QED
    BY <1>5, <2>2, <2>3 DEF Migrate
<1>6. ASSUME NEW p \in Procs, CreateMainFrame(p) PROVE SInv'
  BY <1>0, <1>6 DEF CreateMainFrame, AInv, TypeOK
<1>7. ASSUME NEW p \in Procs, CloseMainFrame(p) PROVE SInv'
  BY <1>0, <1>7 DEF CloseMainFrame
<1>8. ASSUME NEW p \in Procs, Exit(p) PROVE SInv'
  BY <1>0, <1>8 DEF Exit
<1>9. CASE UNCHANGED vars
  BY <1>0, <1>9 DEF vars
<1>10. QED
  BY <1>1, <1>2, <1>3, <1>4, <1>5, <1>6, <1>7, <1>8, <1>9 DEF Next

LEMMA SpecSInv == Spec => []SInv
  BY InitSInv, NextSInv, PTL DEF Spec

(* The owner is the alive first instance, when there is one, and NoProc   *)
(* otherwise; in the state before a step and in the state after it.       *)
LEMMA OwnerIs ==
  ASSUME AInv, NEW p \in Procs, AlivePrimary(p) PROVE Owner = p
  BY DEF AInv, OnePrimary, Owner

LEMMA OwnerIsAfter ==
  ASSUME AInv', NEW p \in Procs, AlivePrimary(p)' PROVE Owner' = p
  BY DEF AInv, OnePrimary, Owner, AlivePrimary

LEMMA OwnerNone ==
  ASSUME \A q \in Procs : ~AlivePrimary(q) PROVE Owner = NoProc
  BY DEF Owner

LEMMA OwnerNoneAfter ==
  ASSUME \A q \in Procs : ~AlivePrimary(q)' PROVE Owner' = NoProc
  BY DEF Owner, AlivePrimary

(* A step that makes and ends no first instance keeps the owner.          *)
LEMMA OwnerStable ==
  ASSUME AInv, AInv', \A q \in Procs : AlivePrimary(q)' <=> AlivePrimary(q)
  PROVE  Owner' = Owner
  <1>1. CASE \E q \in Procs : AlivePrimary(q)
    BY <1>1, OwnerIs, OwnerIsAfter
  <1>2. CASE \A q \in Procs : ~AlivePrimary(q)
    BY <1>2, OwnerNone, OwnerNoneAfter
  <1>3. QED
    BY <1>1, <1>2

(* Adding a call to the HandleParams log adds its pair to the mapped     *)
(* calls.                                                                 *)
LEMMA PairsAdd ==
  ASSUME NEW H, NEW r
  PROVE  {[by |-> h.by, from |-> h.from] : h \in H \cup {r}} =
         {[by |-> h.by, from |-> h.from] : h \in H} \cup {[by |-> r.by, from |-> r.from]}
  OBVIOUS

(* Every step of start-up is a SingleInstance step or leaves the owner    *)
(* and the HandleParams calls alone.                                      *)
LEMMA NextRefines ==
  SInv /\ SInv' /\ [Next]_vars => [SI!SINext]_SI!siVars
<1> SUFFICES ASSUME SInv, SInv', [Next]_vars PROVE [SI!SINext]_SI!siVars
  OBVIOUS
<1>0. AInv /\ AInv'
  BY DEF SInv
<1> DEFINE Stutter == Owner' = Owner /\ Calls' = Calls
<1>s. Stutter => [SI!SINext]_SI!siVars
  BY DEF SI!siVars
<1> HIDE DEF Stutter
<1>1. ASSUME NEW p \in Procs, NEW args \in SUBSET Args,
             Cardinality(args) <= MaxArgs, Application(p, args)
      PROVE  [SI!SINext]_SI!siVars
  <2>1. \A q \in Procs : AlivePrimary(q)' <=> AlivePrimary(q)
    BY <1>0, <1>1 DEF Application, AInv, TypeOK, RoleAfterCheck, AlivePrimary
  <2>2. QED
    BY <1>0, <1>1, <2>1, <1>s, OwnerStable DEF Application, Calls, Stutter
<1>2. ASSUME NEW p \in Procs, OnCmdLineParsed(p) PROVE [SI!SINext]_SI!siVars
  <2>1. \A q \in Procs : AlivePrimary(q)' <=> AlivePrimary(q)
    BY <1>0, <1>2 DEF OnCmdLineParsed, AInv, TypeOK, RoleAfterCheck, AlivePrimary
  <2>2. QED
    BY <1>0, <1>2, <2>1, <1>s, OwnerStable DEF OnCmdLineParsed, Calls, Stutter
<1>3. ASSUME NEW p \in Procs, IsAnotherRunning(p) PROVE [SI!SINext]_SI!siVars
  <2>0. Calls' = Calls
    BY <1>3 DEF IsAnotherRunning, Calls
  <2>1. CASE holders = {}
    <3>1. Owner = NoProc
      BY <2>1, OwnerNone DEF SInv, AInv, PrimaryHoldsMutex
    <3>2. Owner' = p
      BY <1>0, <1>3, <2>1, OwnerIsAfter DEF IsAnotherRunning, AInv, TypeOK,
         AlivePrimary
    <3>3. QED
      BY <2>0, <3>1, <3>2 DEF SI!SINext, SI!Claim
  <2>2. CASE holders # {}
    <3>1. \A q \in Procs : AlivePrimary(q)' <=> AlivePrimary(q)
      BY <1>0, <1>3, <2>2 DEF IsAnotherRunning, AInv, TypeOK, RoleAfterCheck,
         AlivePrimary
    <3>2. QED
      BY <1>0, <2>0, <3>1, <1>s, OwnerStable DEF Stutter
  <2>3. QED
    BY <2>1, <2>2
<1>4. ASSUME NEW p \in Procs, ActivateOtherInstance(p) PROVE [SI!SINext]_SI!siVars
  <2>1. \A q \in Procs : AlivePrimary(q)' <=> AlivePrimary(q)
    BY <1>0, <1>4 DEF ActivateOtherInstance, AInv, TypeOK, AlivePrimary
  <2>2. Owner' = Owner
    BY <1>0, <2>1, OwnerStable
  <2>3. CASE server = NoProc
    BY <1>4, <2>2, <2>3, <1>s DEF ActivateOtherInstance, Calls, Stutter
  <2>4. CASE server # NoProc
    <3>1. server \in Procs /\ AlivePrimary(server)
      BY <2>4 DEF SInv, ServerRunning, MigratedPrimary, AlivePrimary
    <3>2. Owner = server
      BY <1>0, <3>1, OwnerIs
    <3>3. Calls' = Calls \cup {[by |-> server, from |-> p]}
      <4> DEFINE rec == [by |-> server, from |-> p, files |-> opts[p].files,
                         magnets |-> opts[p].magnets]
      <4>1. handled' = handled \cup {rec}
        BY <1>4, <2>4 DEF ActivateOtherInstance
      <4>2. {[by |-> h.by, from |-> h.from] : h \in handled \cup {rec}} =
              Calls \cup {[by |-> rec.by, from |-> rec.from]}
        BY PairsAdd DEF Calls
      <4>3. QED
        BY <4>1, <4>2 DEF Calls
    <3>4. QED
      BY <2>2, <3>1, <3>2, <3>3 DEF SI!SINext, SI!Handle
  <2>5. QED
    BY <2>3, <2>4
<1>5. ASSUME NEW p \in Procs, Migrate(p) PROVE [SI!SINext]_SI!siVars
  <2>1. \A q \in Procs : AlivePrimary(q)' <=> AlivePrimary(q)
    BY <1>0, <1>5 DEF Migrate, AInv, TypeOK, AlivePrimary
  <2>2. QED
    BY <1>0, <1>5, <2>1, <1>s, OwnerStable DEF Migrate, Calls, Stutter
<1>6. ASSUME NEW p \in Procs, CreateMainFrame(p) PROVE [SI!SINext]_SI!siVars
  <2>1. \A q \in Procs : AlivePrimary(q)' <=> AlivePrimary(q)
    BY <1>0, <1>6 DEF CreateMainFrame, AInv, TypeOK, AlivePrimary
  <2>2. Owner' = Owner /\ Owner = p
    BY <1>0, <1>6, <2>1, OwnerStable, OwnerIs
       DEF CreateMainFrame, SInv, MigratedPrimary, AlivePrimary
  <2>3. Calls' = Calls \cup {[by |-> p, from |-> p]}
    <3> DEFINE rec == [by |-> p, from |-> p, files |-> opts[p].files,
                       magnets |-> opts[p].magnets]
    <3>1. handled' = handled \cup {rec}
      BY <1>6 DEF CreateMainFrame
    <3>2. {[by |-> h.by, from |-> h.from] : h \in handled \cup {rec}} =
            Calls \cup {[by |-> rec.by, from |-> rec.from]}
      BY PairsAdd DEF Calls
    <3>3. QED
      BY <3>1, <3>2 DEF Calls
  <2>4. QED
    BY <2>2, <2>3 DEF SI!SINext, SI!Handle
<1>7. ASSUME NEW p \in Procs, CloseMainFrame(p) PROVE [SI!SINext]_SI!siVars
  <2>1. \A q \in Procs : AlivePrimary(q)' <=> AlivePrimary(q)
    BY <1>0, <1>7 DEF CloseMainFrame, AInv, TypeOK, AlivePrimary
  <2>2. QED
    BY <1>0, <1>7, <2>1, <1>s, OwnerStable DEF CloseMainFrame, Calls, Stutter
<1>8. ASSUME NEW p \in Procs, Exit(p) PROVE [SI!SINext]_SI!siVars
  <2>0. Calls' = Calls
    BY <1>8 DEF Exit, Calls
  <2>1. CASE role[p] = "primary"
    <3>1. Owner = p
      BY <1>0, <1>8, <2>1, OwnerIs DEF Exit, AlivePrimary
    <3>2. \A q \in Procs : ~AlivePrimary(q)'
      BY <1>0, <1>8, <2>1 DEF Exit, AInv, TypeOK, OnePrimary, AlivePrimary
    <3>3. Owner' = NoProc
      BY <3>2, OwnerNoneAfter
    <3>4. QED
      BY <2>0, <3>1, <3>3 DEF SI!SINext, SI!Release
  <2>2. CASE role[p] # "primary"
    <3>1. \A q \in Procs : AlivePrimary(q)' <=> AlivePrimary(q)
      BY <1>0, <1>8, <2>2 DEF Exit, AInv, TypeOK, AlivePrimary
    <3>2. QED
      BY <1>0, <2>0, <3>1, <1>s, OwnerStable DEF Stutter
  <2>3. QED
    BY <2>1, <2>2
<1>9. CASE UNCHANGED vars
  BY <1>9 DEF vars, SI!siVars, Owner, Calls, AlivePrimary
<1>10. QED
  BY <1>1, <1>2, <1>3, <1>4, <1>5, <1>6, <1>7, <1>8, <1>9 DEF Next

(* Start-up implements SingleInstance for every set of processes: no two  *)
(* processes ever own the database at once, ownership passes only through *)
(* an exit of the first instance, and every HandleParams call, including *)
(* one handed on by ActivateOtherInstance, runs in the current owner.    *)
THEOREM RefinesSingleInstance == Spec => ImplementsSingleInstance
<1>1. Init => SI!SIInit
  <2> SUFFICES ASSUME Init PROVE SI!SIInit
    OBVIOUS
  <2>1. \A q \in Procs : ~AlivePrimary(q)
    BY DEF Init, AlivePrimary
  <2>2. QED
    BY <2>1, OwnerNone DEF Init, SI!SIInit, Calls
<1>2. QED
  BY <1>1, NextRefines, SpecSInv, PTL DEF Spec, ImplementsSingleInstance, SI!SISpec

=============================================================================
