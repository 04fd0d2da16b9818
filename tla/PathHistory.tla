----------------------------- MODULE PathHistory -----------------------------
(***************************************************************************)
(* The save-path history of the add-torrent dialog, kept in the           *)
(* path_history table (src/src/picotorrent/ui/dialogs/addtorrentdialog.cpp: *)
(* the constructor's SELECT and the destructor's upserts and DELETE).      *)
(* Only rows of type 'add_torrent_dialog' are modelled: a row is a save   *)
(* path with the timestamp (seconds, strftime('%s')) of its last upsert.  *)
(* What the user does inside the dialog is abstracted to the set of save  *)
(* paths its torrents hold when it is destroyed.                          *)
(***************************************************************************)
EXTENDS Naturals, FiniteSetsExt, Functions

CONSTANTS
    Paths,        \* save paths
    HistLimit,    \* the LIMIT of both queries (5 in the code)
    MaxTorrents,  \* torrents in one dialog
    MaxTime       \* seconds of wall clock explored

ASSUME PathHistoryAssumption ==
    /\ Paths # {}
    /\ HistLimit \in Nat \ {0}
    /\ MaxTorrents \in Nat \ {0}
    /\ MaxTime \in Nat

VARIABLES
    hist,       \* path_history rows of type 'add_torrent_dialog': path -> timestamp
    now,        \* the wall clock, in seconds
    dialog,     \* "closed" or "open"
    choices,    \* the save-path combo box's history entries
    lastPaths,  \* save paths written by the last dialog destroyed (history)
    lastStamp,  \* the second of that dialog's upserts (history)
    others      \* paths of path_history rows of another type (written elsewhere)

vars == <<hist, now, dialog, choices, lastPaths, lastStamp, others>>

Rows == UNION {[D -> 0..MaxTime] : D \in SUBSET Paths}

TypeOK ==
    /\ hist \in Rows
    /\ IsFiniteSet(DOMAIN hist)
    \* the destructor's DELETE keeps no more than HistLimit rows
    /\ Cardinality(DOMAIN hist) <= HistLimit
    /\ now \in 0..MaxTime
    /\ dialog \in {"closed", "open"}
    /\ choices \in SUBSET Paths
    /\ lastPaths \in SUBSET Paths
    /\ lastStamp \in 0..MaxTime
    /\ others \in SUBSET Paths

-----------------------------------------------------------------------------
(* Mutant: ORDER BY timestamp (ascending): the k oldest rows.             *)
NewestAscending(h, k) ==
    {S \in SUBSET DOMAIN h :
        /\ Cardinality(S) = Min({k, Cardinality(DOMAIN h)})
        /\ \A a \in S, b \in DOMAIN h \ S : h[a] <= h[b]}

(* "ORDER BY timestamp DESC LIMIT k": the k newest rows (all of them when *)
(* fewer); among rows with equal timestamps SQLite may return any.        *)
Newest(h, k) ==
    {S \in SUBSET DOMAIN h :
        /\ Cardinality(S) = Min({k, Cardinality(DOMAIN h)})
        /\ \A a \in S, b \in DOMAIN h \ S : h[a] >= h[b]}

(* The destructor's loop: INSERT ... ON CONFLICT (path, type) DO UPDATE   *)
(* SET timestamp: every save path gets the current second.                *)
Upsert(h, written, t) ==
    [p \in DOMAIN h \cup written |-> IF p \in written THEN t ELSE h[p]]

Init ==
    /\ hist \in {h \in Rows : IsFiniteSet(DOMAIN h) /\
                              Cardinality(DOMAIN h) <= HistLimit /\
                              \A p \in DOMAIN h : h[p] = 0}
    /\ now = 0
    /\ dialog = "closed"
    /\ choices = {}
    /\ lastPaths = {}
    /\ lastStamp = 0
    /\ others \in SUBSET Paths

(* The constructor: "SELECT path ... ORDER BY timestamp DESC LIMIT 5"     *)
(* fills the combo box.  It may run in the same second as the previous    *)
(* dialog's destructor.                                                   *)
OpenDialog ==
    /\ dialog = "closed"
    /\ \E S \in Newest(hist, HistLimit) : choices' = S
    /\ dialog' = "open"
    /\ UNCHANGED <<hist, now, lastPaths, lastStamp, others>>

(* Mutant: the destructor's DELETE keeps LIMIT 6 rows.                    *)
CloseDialogKeepsOneMore(written) ==
    /\ dialog = "open"
    /\ LET h == Upsert(hist, written, now)
       IN  \E keep \in Newest(h, HistLimit + 1) : hist' = Restrict(h, keep)
    /\ dialog' = "closed"
    /\ lastPaths' = written
    /\ lastStamp' = now
    \* the DELETE's WHERE has no type filter: ids of other types are not in
    \* the kept list either
    /\ others' = {}
    /\ UNCHANGED <<now, choices>>

(* The destructor: upsert the save path of every torrent, then "DELETE    *)
(* ... WHERE id NOT IN (SELECT id ... ORDER BY timestamp DESC LIMIT 5)".  *)
CloseDialog(written) ==
    /\ dialog = "open"
    /\ LET h == Upsert(hist, written, now)
       IN  \E keep \in Newest(h, HistLimit) : hist' = Restrict(h, keep)
    /\ dialog' = "closed"
    /\ lastPaths' = written
    /\ lastStamp' = now
    \* the DELETE's WHERE has no type filter: ids of other types are not in
    \* the kept list either
    /\ others' = {}
    /\ UNCHANGED <<now, choices>>

(* The wall clock advances by a second.                                  *)
Tick ==
    /\ now < MaxTime
    /\ now' = now + 1
    /\ UNCHANGED <<hist, dialog, choices, lastPaths, lastStamp, others>>

(* Another part of the program records a path of another type.           *)
RecordOther(p) ==
    /\ others' = others \cup {p}
    /\ UNCHANGED <<hist, now, dialog, choices, lastPaths, lastStamp>>

Next ==
    \/ OpenDialog
    \/ \E p \in Paths : RecordOther(p)
    \/ \E written \in SUBSET Paths :
          /\ IsFiniteSet(written) /\ Cardinality(written) \in 1..MaxTorrents
          /\ CloseDialog(written)
    \/ Tick

Spec == Init /\ [][Next]_vars

-----------------------------------------------------------------------------
(* Properties.                                                            *)

(* A save path the last destroyed dialog used is missing from the next    *)
(* dialog's save-path box only when the box is full of paths stamped in  *)
(* the very second of that dialog's upserts: with one-second timestamps  *)
(* the destructor's trim and the constructor's SELECT may break such a   *)
(* tie either way, but an older row never displaces a just-written path. *)
LastPathsOffered ==
    dialog = "open" =>
        \A q \in lastPaths \ choices :
            /\ Cardinality(choices) = HistLimit
            /\ \A p \in choices : hist[p] = lastStamp

(* The comment at the DELETE says "Remove all entries except the last 5" *)
(* of the add-torrent dialog's history: rows that path_history holds for *)
(* other types are not the dialog's to remove.                            *)
OtherHistoryKept ==
    [][others \subseteq others']_vars

=============================================================================
