------------------------ MODULE AddTorrentDialogProofs ------------------------
(***************************************************************************)
(* Proofs about AddTorrentDialog for every set of paths and info hashes,  *)
(* every number of files and of torrents: the widgets always show the     *)
(* selected torrent, and a priority chosen from the context menu changes  *)
(* the selected files and no other.                                       *)
(***************************************************************************)
EXTENDS AddTorrentDialog, TLAPS

(* The strengthening that is inductive: the context menu is only shown   *)
(* by an open dialog (PopupMenu runs inside a handler of the dialog).     *)
MenuOnlyOpen == ~open => menu = NoMenu

DInv ==
    /\ TypeOK
    /\ MenuOnlyOpen
    /\ ViewMatchesSelection

-----------------------------------------------------------------------------
(* Lemmas about file_priorities.                                          *)

(* What it takes to be a file_priorities vector, and what one is.         *)
LEMMA VectorIntro ==
  ASSUME NEW D \in SUBSET (1..NFiles), \A j \in D : 1..j \subseteq D,
         NEW f \in [D -> MenuPriorities]
  PROVE  f \in Vector
  BY DEF Vector

LEMMA VectorElim ==
  ASSUME NEW fp \in Vector
  PROVE  /\ DOMAIN fp \subseteq 1..NFiles
         /\ \A j \in DOMAIN fp : 1..j \subseteq DOMAIN fp
         /\ fp \in [DOMAIN fp -> MenuPriorities]
  BY DEF Vector

(* A torrent added to the dialog has no file priorities yet.               *)
LEMMA EmptyVector == <<>> \in Vector
  <1>1. <<>> \in [{} -> MenuPriorities]
    OBVIOUS
  <1>2. {} \in SUBSET (1..NFiles) /\ \A j \in {} : 1..j \subseteq {}
    OBVIOUS
  <1>3. QED
    BY <1>1, <1>2, VectorIntro

(* SetFilePriorities, on the indices of files of the torrent, keeps a     *)
(* vector a vector: each resize(idx + 1) only covers the prefix 0..idx.   *)
LEMMA SetFilePrioritiesType ==
  ASSUME NEW fp \in Vector, NEW items \in SUBSET FileIndex,
         NEW prio \in MenuPriorities
  PROVE  SetFilePriorities(fp, items, prio) \in Vector
  <1> DEFINE D == DOMAIN fp \cup UNION {1..(i + 1) : i \in items}
  <1>1. DOMAIN fp \subseteq 1..NFiles /\ \A j \in DOMAIN fp : 1..j \subseteq DOMAIN fp
        /\ fp \in [DOMAIN fp -> MenuPriorities]
    BY VectorElim
  <1>2. D \subseteq 1..NFiles
    BY <1>1, DialogAssumption DEF FileIndex
  <1>3. \A j \in D : 1..j \subseteq D
    <2> SUFFICES ASSUME NEW j \in D, NEW k \in 1..j PROVE k \in D
      OBVIOUS
    <2>1. CASE j \in DOMAIN fp
      BY <2>1, <1>1
    <2>2. CASE j \notin DOMAIN fp
      <3>1. PICK i \in items : j \in 1..(i + 1)
        BY <2>2
      <3>2. k \in 1..(i + 1)
        BY <3>1 DEF FileIndex
      <3>3. QED
        BY <3>2
    <2>3. QED
      BY <2>1, <2>2
  <1>4. SetFilePriorities(fp, items, prio) \in [D -> MenuPriorities]
    BY <1>1 DEF SetFilePriorities, DefaultPriority, MenuPriorities
  <1>5. QED
    BY <1>2, <1>3, <1>4, VectorIntro

(* After SetFilePriorities, a file of the menu's selection has the chosen *)
(* priority and every other file the priority it had: growing the vector *)
(* fills with lt::default_priority, which is what a missing entry means.  *)
LEMMA SetFilePrioritiesEffective ==
  ASSUME NEW fp, NEW items \in SUBSET Nat, NEW prio, NEW i \in Nat
  PROVE  Effective(SetFilePriorities(fp, items, prio), i) =
             IF i \in items THEN prio ELSE Effective(fp, i)
  BY DEF Effective, SetFilePriorities

-----------------------------------------------------------------------------
(* Lemmas about the dialog's steps.                                       *)

(* Load(i) shows params[i] in every widget.                               *)
LEMMA LoadView ==
  ASSUME NEW ACTION ps, NEW ACTION i, ps \in Seq(Param), i \in 1..Len(ps),
         Load(i, ps)
  PROVE  /\ pathText' \in Paths /\ seqBox' \in BOOLEAN
         /\ startBox' \in BOOLEAN /\ treeShown' \in BOOLEAN
         /\ shownPrios' \in Vector
         /\ pathText' = ps[i].path
         /\ seqBox' = ps[i].seq
         /\ startBox' = ~IsPaused(ps[i])
         /\ treeShown' = ps[i].ti
         /\ ps[i].ti => shownPrios' = ps[i].prios
  <1>1. ps[i] \in Param
    OBVIOUS
  <1>2. QED
    BY <1>1, EmptyVector DEF Load, Param, IsPaused

(* A torrent handed to the dialog is a well-formed add_torrent_params.    *)
LEMMA NewParamType == NewParam \subseteq Param
  BY EmptyVector DEF NewParam, Param

LEMMA InitDInv == Init => DInv
  <1> SUFFICES ASSUME Init PROVE DInv
    OBVIOUS
  <1>1. params \in Seq(Param) /\ shownPrios \in Vector
    BY EmptyVector DEF Init
  <1>2. menu \in Menu /\ menu = NoMenu
    BY DEF Init, NoMenu, Menu
  <1>3. open = FALSE /\ pathText \in Paths
        /\ seqBox \in BOOLEAN /\ startBox \in BOOLEAN /\ treeShown \in BOOLEAN
    BY DEF Init
  <1>4. QED
    BY <1>1, <1>2, <1>3 DEF DInv, TypeOK, MenuOnlyOpen, ViewMatchesSelection

(* The user's edits write the selected torrent's field that its widget   *)
(* shows, and nothing else.                                                *)
LEMMA EditDInv ==
  ASSUME DInv, \/ \E p \in Paths : OnSavePathText(p)
               \/ OnSequentialDownload
               \/ OnStartTorrent
  PROVE  DInv'
  <1> USE DEF DInv, TypeOK, MenuOnlyOpen, ViewMatchesSelection
  <1>1. open /\ params \in Seq(Param) /\ sel \in 1..Len(params)
    BY DEF OnSavePathText, OnSequentialDownload, OnStartTorrent
  <1>2. params[sel] \in Param
    BY <1>1
  <1>3. CASE \E p \in Paths : OnSavePathText(p)
    BY <1>1, <1>2, <1>3 DEF OnSavePathText, Param, IsPaused
  <1>4. CASE OnSequentialDownload
    <2> DEFINE r == [params[sel] EXCEPT !.seq = seqBox']
    <2>1. seqBox' \in BOOLEAN /\ params' = [params EXCEPT ![sel] = r]
      BY <1>4 DEF OnSequentialDownload
    <2>2. r \in Param /\ r.seq = seqBox'
          /\ r.path = params[sel].path /\ r.ti = params[sel].ti
          /\ r.prios = params[sel].prios /\ IsPaused(r) = IsPaused(params[sel])
      BY <1>2, <2>1 DEF Param, IsPaused
    <2>3. QED
      BY <1>1, <1>4, <2>1, <2>2 DEF OnSequentialDownload
  <1>5. CASE OnStartTorrent
    <2> DEFINE r == [params[sel] EXCEPT !.auto = startBox', !.paused = ~startBox']
    <2>1. startBox' \in BOOLEAN /\ params' = [params EXCEPT ![sel] = r]
      BY <1>5 DEF OnStartTorrent
    <2>2. r \in Param
          /\ r.seq = params[sel].seq /\ r.path = params[sel].path
          /\ r.ti = params[sel].ti /\ r.prios = params[sel].prios
      BY <1>2, <2>1 DEF Param
    <2>3. startBox' = ~IsPaused(r)
      BY <2>1, <1>2 DEF IsPaused, Param
    <2> HIDE DEF r
    <2>4. /\ params' \in Seq(Param) /\ Len(params') = Len(params)
          /\ params'[sel] = r
      BY <1>1, <2>1, <2>2
    <2>5. UNCHANGED <<open, sel, pathText, seqBox, treeShown, shownPrios, menu>>
      BY <1>5 DEF OnStartTorrent
    <2>6. TypeOK'
      BY <1>1, <2>1, <2>4, <2>5
    <2>7. ViewMatchesSelection'
      BY <1>1, <2>2, <2>3, <2>4, <2>5
    <2>8. QED
      BY <1>1, <2>5, <2>6, <2>7
  <1>6. QED
    BY <1>3, <1>4, <1>5

(* Opening the dialog, choosing a torrent and closing the dialog.         *)
LEMMA OpenCloseDInv ==
  ASSUME DInv, \/ \E n \in 1..MaxTorrents : \E ps \in [1..n -> NewParam] :
                     AddTorrentDialog(ps)
               \/ \E i \in 1..Len(params) : OnTorrentChoice(i)
               \/ CloseDialog
  PROVE  DInv'
  <1> USE DEF DInv, TypeOK, MenuOnlyOpen, ViewMatchesSelection
  <1>1. ASSUME NEW n \in 1..MaxTorrents, NEW ps \in [1..n -> NewParam],
               AddTorrentDialog(ps)
        PROVE  DInv'
    <2>1. ps \in Seq(Param) /\ Len(ps) = n
      BY NewParamType
    <2>2. QED
      BY <1>1, <2>1, LoadView DEF AddTorrentDialog, NoMenu, Menu
  <1>2. ASSUME NEW i \in 1..Len(params), OnTorrentChoice(i) PROVE DInv'
    BY <1>2, LoadView DEF OnTorrentChoice
  <1>3. CASE CloseDialog
    <2>1. /\ open' = FALSE /\ params' = <<>> /\ shownPrios' = <<>>
          /\ sel' = 1 /\ treeShown' = FALSE /\ menu = NoMenu
          /\ UNCHANGED <<pathText, seqBox, startBox, menu>>
      BY <1>3 DEF CloseDialog
    <2>2. params' \in Seq(Param) /\ shownPrios' \in Vector
      BY <2>1, EmptyVector
    <2>3. QED
      BY <2>1, <2>2
  <1>4. QED
    BY <1>1, <1>2, <1>3

(* The context menu: shown, then a priority chosen or the menu dismissed. *)
LEMMA MenuDInv ==
  ASSUME DInv, \/ \E items \in SUBSET FileIndex \ {{}}, first \in FileIndex,
                     garbage \in 0..TopPriority :
                     ShowFileContextMenu(items, first, garbage)
               \/ \E prio \in MenuPriorities : PopupMenuChosen(prio)
               \/ PopupMenuDismissed
  PROVE  DInv'
  <1> USE DEF DInv, TypeOK, MenuOnlyOpen, ViewMatchesSelection
  <1>1. ASSUME NEW items \in SUBSET FileIndex \ {{}}, NEW first \in FileIndex,
               NEW garbage \in 0..TopPriority,
               ShowFileContextMenu(items, first, garbage)
        PROVE  DInv'
    <2>1. MenuMarks(params[sel].prios, items, first, garbage) \subseteq MenuPriorities
      BY DEF MenuMarks
    <2>2. QED
      BY <1>1, <2>1 DEF ShowFileContextMenu, Menu
  <1>2. ASSUME NEW prio \in MenuPriorities, PopupMenuChosen(prio) PROVE DInv'
    <2>1. open /\ sel \in 1..Len(params) /\ params[sel] \in Param
          /\ menu.items \subseteq FileIndex
      BY <1>2 DEF PopupMenuChosen, Menu
    <2> DEFINE fp == SetFilePriorities(params[sel].prios, menu.items, prio)
               r == [params[sel] EXCEPT !.prios = fp]
    <2>2. fp \in Vector
      BY <2>1, SetFilePrioritiesType DEF Param
    <2>3. /\ r \in Param /\ r.prios = fp
          /\ r.path = params[sel].path /\ r.seq = params[sel].seq
          /\ r.ti = params[sel].ti /\ IsPaused(r) = IsPaused(params[sel])
      BY <2>1, <2>2 DEF Param, IsPaused
    <2>4. /\ params' = [params EXCEPT ![sel] = r]
          /\ shownPrios' = params'[sel].prios /\ menu' = NoMenu
          /\ UNCHANGED <<open, sel, pathText, seqBox, startBox, treeShown>>
      BY <1>2, Zenon DEF PopupMenuChosen
    <2> HIDE DEF fp, r
    <2>5. /\ params' \in Seq(Param) /\ Len(params') = Len(params)
          /\ params'[sel] = r
      BY <2>1, <2>3, <2>4
    <2>6. NoMenu \in Menu
      BY DEF NoMenu, Menu
    <2>7. QED
      BY <2>1, <2>2, <2>3, <2>4, <2>5, <2>6
  <1>3. CASE PopupMenuDismissed
    <2>1. /\ open /\ shownPrios' = params[sel].prios /\ menu' = NoMenu
          /\ UNCHANGED <<open, params, sel, pathText, seqBox, startBox, treeShown>>
      BY <1>3 DEF PopupMenuDismissed
    <2>2. params[sel] \in Param
      BY <2>1
    <2>3. shownPrios' \in Vector /\ NoMenu \in Menu
      BY <2>1, <2>2 DEF Param, NoMenu, Menu
    <2>4. QED
      BY <2>1, <2>3
  <1>4. QED
    BY <1>1, <1>2, <1>3

(* A torrent given its metadata is still well formed, and only its ti    *)
(* has changed.                                                            *)
LEMMA WithMetadataType ==
  ASSUME NEW p \in Param
  PROVE  /\ WithMetadata(p) \in Param
         /\ WithMetadata(p).ti = TRUE
         /\ \A f \in {"hash", "path", "seq", "auto", "paused", "prios"} :
               WithMetadata(p)[f] = p[f]
  BY DEF WithMetadata, Param

(* Metadata arrives for an info hash: every torrent with it gets ti, and  *)
(* the view is reloaded when the selected torrent is one of them.         *)
LEMMA MetadataDInv ==
  ASSUME DInv, NEW h \in Hashes, MetadataFound(h)
  PROVE  DInv'
  <1> USE DEF DInv, TypeOK, MenuOnlyOpen, ViewMatchesSelection
  <1>0. /\ params' = [i \in 1..Len(params) |->
                        IF params[i].hash = h THEN WithMetadata(params[i])
                        ELSE params[i]]
        /\ UNCHANGED <<open, sel, menu>>
    BY DEF MetadataFound
  <1>1. /\ params' \in Seq(Param) /\ Len(params') = Len(params)
        /\ \A i \in 1..Len(params) :
              params'[i] = IF params[i].hash = h
                           THEN WithMetadata(params[i]) ELSE params[i]
    <2>1. \A i \in 1..Len(params) : WithMetadata(params[i]) \in Param
      <3> SUFFICES ASSUME NEW i \in 1..Len(params)
                   PROVE  WithMetadata(params[i]) \in Param
        OBVIOUS
      <3>1. params[i] \in Param
        OBVIOUS
      <3>2. QED
        BY <3>1, WithMetadataType
    <2>2. QED
      BY <1>0, <2>1
  <1>2. open /\ sel \in 1..Len(params)
    BY DEF MetadataFound
  <1>3. CASE params[sel].hash = h
    <2>1. Load(sel, params')
      BY <1>3 DEF MetadataFound
    <2>2. QED
      BY <1>0, <1>1, <1>2, <2>1, LoadView
  <1>4. CASE params[sel].hash # h
    <2>1. UNCHANGED <<pathText, seqBox, startBox, treeShown, shownPrios>>
      BY <1>4 DEF MetadataFound
    <2>2. QED
      BY <1>0, <1>1, <1>2, <1>4, <2>1
  <1>5. QED
    BY <1>3, <1>4

LEMMA NextDInv == DInv /\ [Next]_vars => DInv'
<1> SUFFICES ASSUME DInv, [Next]_vars PROVE DInv'
  OBVIOUS
<1>1. CASE UNCHANGED vars
  BY <1>1 DEF vars, DInv, TypeOK, MenuOnlyOpen, ViewMatchesSelection
<1>2. QED
  BY <1>1, OpenCloseDInv, EditDInv, MenuDInv, MetadataDInv DEF Next

LEMMA SpecDInv == Spec => []DInv
  BY InitDInv, NextDInv, PTL DEF Spec

-----------------------------------------------------------------------------
(* Theorems.                                                              *)

(* m_params, the selection, the widgets and the open context menu always *)
(* have the types of TypeOK: in particular the selection is a torrent of *)
(* the dialog and file_priorities never grows past the torrent's files.  *)
THEOREM DialogTypeCorrect == Spec => []TypeOK
  BY SpecDInv, PTL DEF DInv

(* Whatever mix of user events and metadata arrivals, every widget of an *)
(* open dialog shows the selected torrent's parameters.                   *)
THEOREM ViewMatches == Spec => []ViewMatchesSelection
  BY SpecDInv, PTL DEF DInv

(* Only choosing from the context menu or dismissing it closes the menu:  *)
(* every other handler needs it closed, or leaves it as it is.            *)
LEMMA NoMenuNeverLeft ==
  ASSUME DInv, [Next]_vars, menu # NoMenu, menu' = NoMenu
  PROVE  \/ \E prio \in MenuPriorities : PopupMenuChosen(prio)
         \/ PopupMenuDismissed
  <1> USE DEF DInv, MenuOnlyOpen
  <1>1. ~\E n \in 1..MaxTorrents : \E ps \in [1..n -> NewParam] : AddTorrentDialog(ps)
    BY DEF AddTorrentDialog
  <1>2. ~\E i \in 1..Len(params) : OnTorrentChoice(i)
    BY DEF OnTorrentChoice
  <1>3. ~\E p \in Paths : OnSavePathText(p)
    BY DEF OnSavePathText
  <1>4. ~OnSequentialDownload /\ ~OnStartTorrent /\ ~CloseDialog
    BY DEF OnSequentialDownload, OnStartTorrent, CloseDialog
  <1>5. ~\E items \in SUBSET FileIndex \ {{}}, first \in FileIndex,
           garbage \in 0..TopPriority : ShowFileContextMenu(items, first, garbage)
    BY DEF ShowFileContextMenu
  <1>6. ~\E h \in Hashes : MetadataFound(h)
    BY DEF MetadataFound
  <1>7. ~UNCHANGED vars
    BY DEF vars
  <1>8. QED
    BY <1>1, <1>2, <1>3, <1>4, <1>5, <1>6, <1>7 DEF Next

(* When the context menu closes, the files selected in it have the chosen *)
(* priority, or keep theirs when the menu was dismissed, and every other *)
(* file of the selected torrent keeps its priority: SetFilePriorities     *)
(* grows file_priorities with lt::default_priority only.                  *)
THEOREM PriorityConfined == Spec => PriorityChangeConfined
<1> DEFINE Confined ==
      menu # NoMenu /\ menu' = NoMenu =>
        LET before(i) == Effective(params[sel].prios, i)
            after(i) == Effective(params'[sel].prios, i)
        IN  \/ \A i \in FileIndex : after(i) = before(i)
            \/ \E q \in MenuPriorities :
                  \A i \in FileIndex :
                     after(i) = IF i \in menu.items THEN q ELSE before(i)
<1>1. DInv /\ [Next]_vars => [Confined]_vars
  <2> SUFFICES ASSUME DInv, [Next]_vars, menu # NoMenu, menu' = NoMenu
               PROVE  Confined
    OBVIOUS
  <2>1. open /\ sel \in 1..Len(params) /\ params \in Seq(Param)
        /\ menu.items \subseteq FileIndex
    BY DEF DInv, TypeOK, MenuOnlyOpen, Menu
  <2>2. CASE \E prio \in MenuPriorities : PopupMenuChosen(prio)
    <3>1. PICK prio \in MenuPriorities : PopupMenuChosen(prio)
      BY <2>2
    <3>2. /\ sel' = sel
          /\ params'[sel].prios =
                 SetFilePriorities(params[sel].prios, menu.items, prio)
      BY <2>1, <3>1 DEF PopupMenuChosen
    <3>3. \A i \in FileIndex :
             Effective(params'[sel].prios, i) =
                 IF i \in menu.items THEN prio
                 ELSE Effective(params[sel].prios, i)
      BY <2>1, <3>2, SetFilePrioritiesEffective DEF FileIndex
    <3>4. QED
      BY <3>2, <3>3
  <2>3. CASE PopupMenuDismissed
    BY <2>3 DEF PopupMenuDismissed
  <2>4. CASE ~(\E prio \in MenuPriorities : PopupMenuChosen(prio)) /\ ~PopupMenuDismissed
    <3>1. FALSE
      BY <2>4, NoMenuNeverLeft
    <3>2. QED
      BY <3>1
  <2>5. QED
    BY <2>2, <2>3, <2>4
<1>2. QED
  BY <1>1, SpecDInv, PTL DEF Spec, PriorityChangeConfined

=============================================================================
