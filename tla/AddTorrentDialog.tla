--------------------------- MODULE AddTorrentDialog ---------------------------
(***************************************************************************)
(* The "add torrent" dialog (src/src/picotorrent/ui/dialogs/               *)
(* addtorrentdialog.cpp): the user edits, one torrent at a time, the       *)
(* lt::add_torrent_params the dialog was opened with.  All handlers run on *)
(* the GUI thread; ShowFileContextMenu blocks in PopupMenu, whose nested   *)
(* event loop still delivers MetadataFound, so it is split at that point.  *)
(*                                                                         *)
(* Indices: TLA+ position i is the code's index i - 1 for m_params; file   *)
(* indices are kept 0-based as in the code.                                *)
(***************************************************************************)
EXTENDS Naturals, Sequences, FiniteSetsExt

CONSTANTS
    Paths,        \* save paths
    Hashes,       \* info hashes
    NFiles,       \* files in a torrent
    MaxTorrents   \* torrents in one dialog

(* lt::dont_download, lt::low_priority, lt::default_priority, lt::top_priority *)
DontDownload == 0
LowPriority == 1
DefaultPriority == 4
TopPriority == 7
MenuPriorities == {DontDownload, LowPriority, DefaultPriority, TopPriority}

ASSUME DialogAssumption ==
    /\ Paths # {} /\ Hashes # {}
    /\ NFiles \in Nat \ {0}
    /\ MaxTorrents \in Nat \ {0}

FileIndex == 0..(NFiles - 1)

(* file_priorities, a std::vector<download_priority_t>: index i is held at *)
(* position i + 1 of a function whose domain is a prefix 1..size().        *)
Vector ==
    UNION {[D -> MenuPriorities] :
              D \in {D \in SUBSET (1..NFiles) : \A j \in D : 1..j \subseteq D}}

(* One lt::add_torrent_params: save_path, the sequential_download,         *)
(* auto_managed and paused flags, whether ti (metadata) is set, and        *)
(* file_priorities.                                                        *)
Param == [hash : Hashes, path : Paths, seq : BOOLEAN, auto : BOOLEAN,
          paused : BOOLEAN, ti : BOOLEAN, prios : Vector]

(* What the caller may pass in: any flags, with or without metadata, and  *)
(* no file priorities yet.                                                 *)
NewParam == [hash : Hashes, path : Paths, seq : BOOLEAN, auto : BOOLEAN,
             paused : BOOLEAN, ti : BOOLEAN, prios : {<<>>}]

VARIABLES
    open,        \* the dialog exists
    params,      \* m_params
    sel,         \* m_torrents->GetSelection() + 1
    pathText,    \* m_torrentSavePath value
    seqBox,      \* m_sequentialDownload checked
    startBox,    \* m_startTorrent checked
    treeShown,   \* m_filesModel holds a file tree (RebuildTree, not Cleared)
    shownPrios,  \* priorities last given to m_filesModel
    menu         \* the open context menu, or NoMenu

vars == <<open, params, sel, pathText, seqBox, startBox, treeShown, shownPrios,
          menu>>

(* No menu open: a menu always has at least one item.                     *)
NoMenu == [items |-> {}, marks |-> {}]
Menu == [items : SUBSET FileIndex, marks : SUBSET MenuPriorities]

TypeOK ==
    /\ open \in BOOLEAN
    /\ params \in Seq(Param)
    /\ open => Len(params) \in 1..MaxTorrents /\ sel \in 1..Len(params)
    /\ pathText \in Paths
    /\ seqBox \in BOOLEAN
    /\ startBox \in BOOLEAN
    /\ treeShown \in BOOLEAN
    /\ shownPrios \in Vector
    /\ menu \in Menu

-----------------------------------------------------------------------------
(* The priority a file gets: its entry in file_priorities, or the default *)
(* when the vector is shorter.                                             *)
Effective(fp, i) == IF i + 1 \in DOMAIN fp THEN fp[i + 1] ELSE DefaultPriority

(* isPaused in Load: paused set and auto_managed clear.                    *)
IsPaused(p) == p.paused /\ ~p.auto

(* Load(index): refresh every widget from params[i].  The SetValue on the *)
(* save-path combo box raises wxEVT_TEXT, whose handler writes the same   *)
(* text back into params[i].save_path (i is then the selection).           *)
Load(i, ps) ==
    /\ pathText' = ps[i].path
    /\ seqBox' = ps[i].seq
    /\ startBox' = ~IsPaused(ps[i])
    /\ treeShown' = ps[i].ti
    /\ shownPrios' = IF ps[i].ti THEN ps[i].prios ELSE <<>>

(* Mutants of SetFilePriorities: resize(idx + 2); resize filling with the *)
(* new priority instead of lt::default_priority.                           *)
SetFilePrioritiesResizeTooFar(fp, items, prio) ==
    [j \in DOMAIN fp \cup UNION {1..(i + 2) : i \in items} |->
        IF j - 1 \in items THEN prio
        ELSE IF j \in DOMAIN fp THEN fp[j] ELSE DefaultPriority]

SetFilePrioritiesFillWithPrio(fp, items, prio) ==
    [j \in DOMAIN fp \cup UNION {1..(i + 1) : i \in items} |->
        IF j - 1 \in items THEN prio
        ELSE IF j \in DOMAIN fp THEN fp[j] ELSE prio]

(* SetFilePriorities: for each index, resize(idx + 1) with the default    *)
(* priority when the vector is too short, then set it.                    *)
SetFilePriorities(fp, items, prio) ==
    [j \in DOMAIN fp \cup UNION {1..(i + 1) : i \in items} |->
        IF j - 1 \in items THEN prio
        ELSE IF j \in DOMAIN fp THEN fp[j] ELSE DefaultPriority]

(* The check marks of ShowFileContextMenu's priority submenu.  firstPrio  *)
(* reads file_priorities[fileIndices[0]] unchecked whenever the vector is *)
(* not empty: past its end the read is undefined, any byte (garbage).     *)
MenuMarks(fp, items, first, garbage) ==
    LET firstPrio == IF DOMAIN fp = {} THEN DefaultPriority
                     ELSE IF first + 1 \in DOMAIN fp THEN fp[first + 1]
                     ELSE garbage
        allSamePrio == \A i \in items : Effective(fp, i) = firstPrio
    IN  IF allSamePrio THEN {firstPrio} \cap MenuPriorities ELSE {}

-----------------------------------------------------------------------------
Init ==
    /\ open = FALSE
    /\ params = <<>>
    /\ sel = 1
    /\ pathText \in Paths
    /\ seqBox = FALSE
    /\ startBox = FALSE
    /\ treeShown = FALSE
    /\ shownPrios = <<>>
    /\ menu = NoMenu

(* The constructor: fill m_torrents, Select(0), bind the handlers, Load(0). *)
AddTorrentDialog(ps) ==
    /\ ~open
    /\ open' = TRUE
    /\ params' = ps
    /\ sel' = 1
    /\ Load(1, ps)
    /\ menu' = NoMenu

(* wxEVT_CHOICE on m_torrents: Load(evt.GetInt()).                         *)
OnTorrentChoice(i) ==
    /\ open /\ menu = NoMenu
    /\ sel' = i
    /\ Load(i, params)
    /\ UNCHANGED <<open, params, menu>>

(* wxEVT_TEXT on the save-path box (typed, picked from the history, or set *)
(* by the browse button's directory dialog): store it in the selection.    *)
OnSavePathText(p) ==
    /\ open /\ menu = NoMenu
    /\ pathText' = p
    /\ params' = [params EXCEPT ![sel].path = p]
    /\ UNCHANGED <<open, sel, seqBox, startBox, treeShown, shownPrios, menu>>

(* wxEVT_CHECKBOX on m_sequentialDownload: set or clear the flag.          *)
OnSequentialDownload ==
    /\ open /\ menu = NoMenu
    /\ seqBox' = ~seqBox
    /\ params' = [params EXCEPT ![sel].seq = seqBox']
    /\ UNCHANGED <<open, sel, pathText, startBox, treeShown, shownPrios, menu>>

(* Mutant: unchecking "start torrent" clears auto_managed only.            *)
OnStartTorrentNoPause ==
    /\ open /\ menu = NoMenu
    /\ startBox' = ~startBox
    /\ params' = [params EXCEPT ![sel].auto = startBox',
                                ![sel].paused = IF startBox' THEN FALSE ELSE @]
    /\ UNCHANGED <<open, sel, pathText, seqBox, treeShown, shownPrios, menu>>

(* wxEVT_CHECKBOX on m_startTorrent: checked sets auto_managed and clears *)
(* paused; unchecked does the opposite.                                    *)
OnStartTorrent ==
    /\ open /\ menu = NoMenu
    /\ startBox' = ~startBox
    /\ params' = [params EXCEPT ![sel].auto = startBox',
                                ![sel].paused = ~startBox']
    /\ UNCHANGED <<open, sel, pathText, seqBox, treeShown, shownPrios, menu>>

(* ShowFileContextMenu up to PopupMenu: with files selected in the tree   *)
(* (only shown when the selection has metadata), compute the check marks. *)
(* first is fileIndices[0].                                                *)
ShowFileContextMenu(items, first, garbage) ==
    /\ open /\ menu = NoMenu
    /\ params[sel].ti
    /\ first \in items
    /\ menu' = [items |-> items,
                marks |-> MenuMarks(params[sel].prios, items, first, garbage)]
    /\ UNCHANGED <<open, params, sel, pathText, seqBox, startBox, treeShown,
                   shownPrios>>

(* The rest of ShowFileContextMenu once PopupMenu returns: a chosen      *)
(* priority is applied by SetFilePriorities from the menu handler, then   *)
(* m_filesModel->UpdatePriorities(param.file_priorities).                 *)
PopupMenuChosen(prio) ==
    /\ open /\ menu # NoMenu
    /\ params' = [params EXCEPT ![sel].prios =
                      SetFilePriorities(@, menu.items, prio)]
    /\ shownPrios' = params'[sel].prios
    /\ menu' = NoMenu
    /\ UNCHANGED <<open, sel, pathText, seqBox, startBox, treeShown>>

(* The menu is dismissed: only UpdatePriorities runs.                     *)
PopupMenuDismissed ==
    /\ open /\ menu # NoMenu
    /\ shownPrios' = params[sel].prios
    /\ menu' = NoMenu
    /\ UNCHANGED <<open, params, sel, pathText, seqBox, startBox, treeShown>>

(* params.ti = ti: the torrent now has its metadata.                       *)
WithMetadata(p) == [p EXCEPT !.ti = TRUE]

(* Mutant: MetadataFound reloads every matching torrent, selected or not. *)
MetadataFoundLoadAny(h) ==
    /\ open
    /\ \E i \in 1..Len(params) : params[i].hash = h /\ ~params[i].ti
    /\ params' = [i \in 1..Len(params) |->
                    IF params[i].hash = h THEN WithMetadata(params[i])
                    ELSE params[i]]
    /\ Load(Max({i \in 1..Len(params) : params[i].hash = h}), params')
    /\ UNCHANGED <<open, sel, menu>>

(* MetadataFound: give ti to every torrent with that info hash, and       *)
(* reload the view if one of them is selected.                             *)
MetadataFound(h) ==
    /\ open
    /\ \E i \in 1..Len(params) : params[i].hash = h /\ ~params[i].ti
    /\ params' = [i \in 1..Len(params) |->
                    IF params[i].hash = h THEN WithMetadata(params[i])
                    ELSE params[i]]
    /\ IF params[sel].hash = h THEN Load(sel, params')
       ELSE UNCHANGED <<pathText, seqBox, startBox, treeShown, shownPrios>>
    /\ UNCHANGED <<open, sel, menu>>

(* The dialog is closed and destroyed (the destructor's path-history      *)
(* writes are PathHistory's); nothing of it remains.                      *)
CloseDialog ==
    /\ open /\ menu = NoMenu
    /\ open' = FALSE
    /\ params' = <<>>
    /\ sel' = 1
    /\ treeShown' = FALSE
    /\ shownPrios' = <<>>
    /\ UNCHANGED <<pathText, seqBox, startBox, menu>>

Next ==
    \/ \E n \in 1..MaxTorrents : \E ps \in [1..n -> NewParam] :
          AddTorrentDialog(ps)
    \/ \E i \in 1..Len(params) : OnTorrentChoice(i)
    \/ \E p \in Paths : OnSavePathText(p)
    \/ OnSequentialDownload
    \/ OnStartTorrent
    \/ \E items \in SUBSET FileIndex \ {{}}, first \in FileIndex,
          garbage \in 0..TopPriority : ShowFileContextMenu(items, first, garbage)
    \/ \E prio \in MenuPriorities : PopupMenuChosen(prio)
    \/ PopupMenuDismissed
    \/ \E h \in Hashes : MetadataFound(h)
    \/ CloseDialog

Spec == Init /\ [][Next]_vars

-----------------------------------------------------------------------------
(* Properties.                                                            *)

(* Every widget shows the selected torrent's parameters: save path,       *)
(* sequential download, "start torrent" (not isPaused) and the file       *)
(* priorities, whatever mix of user events and metadata arrivals led      *)
(* here, and while the context menu is open.                              *)
ViewMatchesSelection ==
    open =>
        /\ pathText = params[sel].path
        /\ seqBox = params[sel].seq
        /\ startBox = ~IsPaused(params[sel])
        /\ treeShown = params[sel].ti
        /\ params[sel].ti => shownPrios = params[sel].prios

(* When the priority menu closes, the selected files all have the chosen  *)
(* priority (or keep theirs when nothing was chosen), and every other     *)
(* file keeps the priority it had, although file_priorities may grow.     *)
PriorityChangeConfined ==
    [][menu # NoMenu /\ menu' = NoMenu =>
         LET before(i) == Effective(params[sel].prios, i)
             after(i) == Effective(params'[sel].prios, i)
         IN  \/ \A i \in FileIndex : after(i) = before(i)
             \/ \E q \in MenuPriorities :
                   \A i \in FileIndex :
                      after(i) = IF i \in menu.items THEN q ELSE before(i)]_vars

(* The priorities the selected files really have.                         *)
CommonPriority(fp, items) ==
    {q \in MenuPriorities : \A i \in items : Effective(fp, i) = q}

(* The open menu checks the priority the selected files share, and none  *)
(* when they differ (what the menu's check marks are for).                 *)
MenuMarksCurrentPriority ==
    menu # NoMenu => menu.marks = CommonPriority(params[sel].prios, menu.items)

=============================================================================
