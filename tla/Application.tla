----------------------------- MODULE Application -----------------------------
(***************************************************************************)
(* Startup of PicoTorrent processes (src/src/picotorrent/application.cpp): *)
(* command-line classification, the single-instance check, the handoff of *)
(* the command line to an already running instance, and the start-up and *)
(* shut-down of the instance that owns the database and the main frame.   *)
(*                                                                         *)
(* Several processes are launched concurrently, each with its own command *)
(* line and working directory.  The single-instance checker is a named   *)
(* mutex (Windows): every checker that has called IsAnotherRunning holds  *)
(* a handle on it until the process exits, and IsAnotherRunning is TRUE   *)
(* when the mutex already existed.  The receiving end of the handoff (an  *)
(* IPC server registered by the main frame, which hands the payload to   *)
(* MainFrame::HandleParams) is outside src/ and modelled from the spec.   *)
(***************************************************************************)
EXTENDS Naturals, FiniteSets

CONSTANTS
    Procs,      \* processes launched
    Names,      \* file and magnet names
    Dirs,       \* directories: working directories and parents of absolute paths
    NoDir,      \* the directory of a path that is still relative
    NoProc,     \* no process
    MaxArgs     \* command-line parameters per launch

ASSUME ApplicationAssumption ==
    /\ NoDir \notin Dirs
    /\ NoProc \notin Procs
    /\ MaxArgs \in Nat

(* A command-line parameter: a magnet link, a relative or an absolute path. *)
Args ==
    [k : {"magnet", "rel"}, d : {NoDir}, n : Names] \cup
    [k : {"abs"}, d : Dirs, n : Names]

(* A path as handed on: a directory (NoDir while relative) and a name.   *)
Paths == [d : Dirs \cup {NoDir}, n : Names]

Options == [files : SUBSET Paths, magnets : SUBSET Names]

(* One call of MainFrame::HandleParams in process `by` with the options  *)
(* of the command line of process `from`.                                 *)
Handled == [by : Procs, from : Procs, files : SUBSET Paths, magnets : SUBSET Names]

VARIABLES
    pc,        \* where each process is in its life
    role,      \* what IsAnotherRunning told it: "unknown", "primary", "secondary"
    cmd,       \* its command-line parameters
    cwd,       \* its working directory
    opts,      \* m_options
    holders,   \* processes holding a handle on the single-instance mutex
    server,    \* the process whose IPC server "PicoTorrent" is registered
    handled    \* the HandleParams calls made so far

vars == <<pc, role, cmd, cwd, opts, holders, server, handled>>

PcStates == {"idle", "started", "parsed", "checked", "migrated", "running",
             "leaving", "exited"}

NoOptions == [files |-> {}, magnets |-> {}]

TypeOK ==
    /\ pc \in [Procs -> PcStates]
    /\ role \in [Procs -> {"unknown", "primary", "secondary"}]
    /\ cmd \in [Procs -> SUBSET Args]
    /\ cwd \in [Procs -> Dirs]
    /\ opts \in [Procs -> Options]
    /\ holders \subseteq Procs
    /\ server \in Procs \cup {NoProc}
    /\ handled \subseteq Handled

-----------------------------------------------------------------------------
(* arg.rfind("magnet:?xt", 0) == 0: the parameter starts with the magnet  *)
(* prefix.                                                                *)
IsMagnet(a) == a.k = "magnet"

(* std::filesystem::absolute(arg): a relative path is resolved against   *)
(* the working directory of the process that parses it.                   *)
Absolute(a, dir) ==
    [d |-> IF a.k = "abs" THEN a.d ELSE dir, n |-> a.n]

(* The loop of OnCmdLineParsed over the parameters, in directory dir.    *)
CmdLineOptions(args, dir) ==
    [files |-> {Absolute(a, dir) : a \in {b \in args : ~IsMagnet(b)}},
     magnets |-> {a.n : a \in {b \in args : IsMagnet(b)}}]

Init ==
    /\ pc = [p \in Procs |-> "idle"]
    /\ role = [p \in Procs |-> "unknown"]
    /\ cmd = [p \in Procs |-> {}]
    /\ cwd \in [Procs -> Dirs]
    /\ opts = [p \in Procs |-> NoOptions]
    /\ holders = {}
    /\ server = NoProc
    /\ handled = {}

(* The process is launched with its parameters; Application() creates   *)
(* the (not yet opened) single-instance checker.                          *)
Application(p, args) ==
    /\ pc[p] = "idle"
    /\ pc' = [pc EXCEPT ![p] = "started"]
    /\ cmd' = [cmd EXCEPT ![p] = args]
    /\ UNCHANGED <<role, cwd, opts, holders, server, handled>>

(* Mutant: the parameter string itself is pushed to m_options.files.     *)
OnCmdLineParsedRaw(p) ==
    /\ pc[p] = "started"
    /\ opts' = [opts EXCEPT ![p] =
                  [files |-> {b \in cmd[p] : ~IsMagnet(b)},
                   magnets |-> {a.n : a \in {b \in cmd[p] : IsMagnet(b)}}]]
    /\ pc' = [pc EXCEPT ![p] = "parsed"]
    /\ UNCHANGED <<role, cmd, cwd, holders, server, handled>>

(* Mutant: the relative path is handed on as it is.                      *)
OnCmdLineParsedKeepsRelative(p) ==
    /\ pc[p] = "started"
    /\ opts' = [opts EXCEPT ![p] =
                  [files |-> {[d |-> a.d, n |-> a.n] : a \in {b \in cmd[p] : ~IsMagnet(b)}},
                   magnets |-> {a.n : a \in {b \in cmd[p] : IsMagnet(b)}}]]
    /\ pc' = [pc EXCEPT ![p] = "parsed"]
    /\ UNCHANGED <<role, cmd, cwd, holders, server, handled>>

(* wxApp::OnInit parses the command line and calls OnCmdLineParsed: a    *)
(* magnet link goes to m_options.magnets, anything else, made absolute,   *)
(* to m_options.files.                                                    *)
OnCmdLineParsed(p) ==
    /\ pc[p] = "started"
    /\ opts' = [opts EXCEPT ![p] = CmdLineOptions(cmd[p], cwd[p])]
    /\ pc' = [pc EXCEPT ![p] = "parsed"]
    /\ UNCHANGED <<role, cmd, cwd, holders, server, handled>>

(* Mutant: a checker that was never Create()d reports no other instance. *)
IsAnotherRunningNotCreated(p) ==
    /\ pc[p] = "parsed"
    /\ role' = [role EXCEPT ![p] = "primary"]
    /\ pc' = [pc EXCEPT ![p] = "checked"]
    /\ UNCHANGED <<cmd, cwd, opts, holders, server, handled>>

(* Mutant: another instance is taken to run iff its IPC server is up.    *)
IsAnotherRunningChecksServer(p) ==
    /\ pc[p] = "parsed"
    /\ role' = [role EXCEPT ![p] = IF server = NoProc THEN "primary" ELSE "secondary"]
    /\ holders' = holders \cup {p}
    /\ pc' = [pc EXCEPT ![p] = "checked"]
    /\ UNCHANGED <<cmd, cwd, opts, server, handled>>

(* m_singleInstance->IsAnotherRunning(): opens a handle on the named      *)
(* mutex, creating it if no process holds one; another instance runs iff *)
(* it already existed.                                                    *)
IsAnotherRunning(p) ==
    /\ pc[p] = "parsed"
    /\ role' = [role EXCEPT ![p] = IF holders = {} THEN "primary" ELSE "secondary"]
    /\ holders' = holders \cup {p}
    /\ pc' = [pc EXCEPT ![p] = "checked"]
    /\ UNCHANGED <<cmd, cwd, opts, server, handled>>

(* Mutant: connecting is retried until an instance listens.              *)
ActivateOtherInstanceWaits(p) ==
    /\ pc[p] = "checked" /\ role[p] = "secondary"
    /\ server # NoProc
    /\ handled' = handled \cup {[by |-> server, from |-> p,
                                 files |-> opts[p].files, magnets |-> opts[p].magnets]}
    /\ pc' = [pc EXCEPT ![p] = "leaving"]
    /\ UNCHANGED <<role, cmd, cwd, opts, holders, server>>

(* ActivateOtherInstance, then OnInit returns false: the options go as   *)
(* JSON over a wxClient connection to "PicoTorrent", if one can be made; *)
(* the receiving instance hands them to HandleParams.                    *)
ActivateOtherInstance(p) ==
    /\ pc[p] = "checked" /\ role[p] = "secondary"
    /\ handled' = IF server # NoProc
                  THEN handled \cup {[by |-> server, from |-> p,
                                      files |-> opts[p].files,
                                      magnets |-> opts[p].magnets]}
                  ELSE handled
    /\ pc' = [pc EXCEPT ![p] = "leaving"]
    /\ UNCHANGED <<role, cmd, cwd, opts, holders, server>>

(* The first instance opens the database and runs its migrations; on     *)
(* failure it shows an error and OnInit returns false.                    *)
Migrate(p) ==
    /\ pc[p] = "checked" /\ role[p] = "primary"
    /\ \/ pc' = [pc EXCEPT ![p] = "migrated"]
       \/ pc' = [pc EXCEPT ![p] = "leaving"]
    /\ UNCHANGED <<role, cmd, cwd, opts, holders, server, handled>>

(* The rest of OnInit: configuration, translator, plugins, persistence,  *)
(* the main frame (which registers the IPC server), its window state, and *)
(* HandleParams with the instance's own options.                          *)
CreateMainFrame(p) ==
    /\ pc[p] = "migrated"
    /\ server' = p
    /\ handled' = handled \cup {[by |-> p, from |-> p, files |-> opts[p].files,
                                 magnets |-> opts[p].magnets]}
    /\ pc' = [pc EXCEPT ![p] = "running"]
    /\ UNCHANGED <<role, cmd, cwd, opts, holders>>

(* The user quits: the main frame and its IPC server go; the application *)
(* object, and with it the checker, lives on until the process exits.    *)
CloseMainFrame(p) ==
    /\ pc[p] = "running"
    /\ server' = NoProc
    /\ pc' = [pc EXCEPT ![p] = "leaving"]
    /\ UNCHANGED <<role, cmd, cwd, opts, holders, handled>>

(* ~Application: the checker is destroyed, closing its mutex handle.     *)
Exit(p) ==
    /\ pc[p] = "leaving"
    /\ holders' = holders \ {p}
    /\ pc' = [pc EXCEPT ![p] = "exited"]
    /\ UNCHANGED <<role, cmd, cwd, opts, server, handled>>

Next ==
    \E p \in Procs :
        \/ \E args \in SUBSET Args :
              Cardinality(args) <= MaxArgs /\ Application(p, args)
        \/ OnCmdLineParsed(p) \/ IsAnotherRunning(p)
        \/ ActivateOtherInstance(p) \/ Migrate(p)
        \/ CreateMainFrame(p) \/ CloseMainFrame(p) \/ Exit(p)

(* A started process runs its own start-up to the end; launching and     *)
(* quitting are up to the user.                                          *)
Fairness ==
    \A p \in Procs :
        /\ WF_vars(OnCmdLineParsed(p)) /\ WF_vars(IsAnotherRunning(p))
        /\ WF_vars(ActivateOtherInstance(p)) /\ WF_vars(Migrate(p))
        /\ WF_vars(CreateMainFrame(p)) /\ WF_vars(Exit(p))

Spec == Init /\ [][Next]_vars /\ Fairness

-----------------------------------------------------------------------------
(* Properties.                                                            *)

(* The path a process means by a parameter, read in its own directory.   *)
Meant(a, dir) == [d |-> IF a.k = "abs" THEN a.d ELSE dir, n |-> a.n]

(* The path a HandleParams call in process `by` opens for `f`.           *)
Opened(f, by) == IF f.d = NoDir THEN [d |-> cwd[by], n |-> f.n] ELSE f

(* Whichever instance handles a command line, directly or through the    *)
(* IPC handoff, opens the files the user named in the launching process's *)
(* working directory, and gets exactly its magnet links.                  *)
FilesResolvedAtLaunch ==
    \A h \in handled :
        /\ {Opened(f, h.by) : f \in h.files} =
               {Meant(a, cwd[h.from]) : a \in {b \in cmd[h.from] : ~IsMagnet(b)}}
        /\ h.magnets = {a.n : a \in {b \in cmd[h.from] : IsMagnet(b)}}

(* At most one process is past the single-instance check as the first   *)
(* instance and not yet gone: two instances never open the database and  *)
(* run migrations or sessions side by side.                               *)
SingleDatabaseOwner ==
    Cardinality({p \in Procs : role[p] = "primary" /\ pc[p] # "exited"}) <= 1

(* Every launched process finishes start-up: it exits or shows its main  *)
(* frame; a second instance never waits for the first.                   *)
StartupEnds ==
    \A p \in Procs : pc[p] = "started" ~> pc[p] \in {"running", "exited"}

(* A second instance that has exited handed its command line to a        *)
(* running instance: files and magnet links opened while PicoTorrent is  *)
(* already running are not lost.                                          *)
CommandLineNotLost ==
    \A p \in Procs :
        role[p] = "secondary" /\ pc[p] = "exited" =>
            \E h \in handled : h.from = p

(* The refinement mapping: the owner of the database is the first        *)
(* instance that has not exited; a HandleParams call is the pair of the   *)
(* process it runs in and the process whose command line it handles.     *)
AlivePrimary(p) == role[p] = "primary" /\ pc[p] # "exited"

Owner ==
    IF \E p \in Procs : AlivePrimary(p)
    THEN CHOOSE p \in Procs : AlivePrimary(p)
    ELSE NoProc

Calls == {[by |-> h.by, from |-> h.from] : h \in handled}

SI == INSTANCE SingleInstance WITH owner <- Owner, calls <- Calls

(* Application keeps the promise of SingleInstance: a process becomes the *)
(* first instance only when no first instance is alive, the database     *)
(* changes hands only through an exit, and every HandleParams call, the   *)
(* main frame's own or one handed on over IPC, runs in the alive first    *)
(* instance.                                                              *)
ImplementsSingleInstance == SI!SISpec

=============================================================================
