-------------------------- MODULE PathHistoryProofs --------------------------
(***************************************************************************)
(* Proofs about PathHistory for every set of paths, every history limit  *)
(* and every clock bound: the path_history table never holds more rows   *)
(* than the LIMIT, and the next add-torrent dialog offers every save path *)
(* the last one wrote when they fit in the LIMIT.                         *)
(***************************************************************************)
EXTENDS PathHistory, FiniteSetTheorems, TLAPS

(* The strengthening that is inductive.                                   *)
(*  - no row is newer than the last destructor's second, which is not in *)
(*    the future;                                                         *)
(*  - a path the last dialog wrote is still in the table with that        *)
(*    second, or the table is full of rows with that second;              *)
(*  - an open dialog's box is a result of the LIMIT query on the table,   *)
(*    which nothing changes while the dialog is open.                     *)
RowsNoNewerThanLast ==
    /\ lastStamp <= now
    /\ \A p \in DOMAIN hist : hist[p] <= lastStamp

LastPathsStamped ==
    \A q \in lastPaths :
        IF q \in DOMAIN hist
        THEN hist[q] = lastStamp
        ELSE /\ Cardinality(DOMAIN hist) = HistLimit
             /\ \A p \in DOMAIN hist : hist[p] = lastStamp

ChoicesQueried == dialog = "open" => choices \in Newest(hist, HistLimit)

HInv ==
    /\ TypeOK
    /\ RowsNoNewerThanLast
    /\ LastPathsStamped
    /\ ChoicesQueried

-----------------------------------------------------------------------------
(* Lemmas about the query operators.                                      *)

(* The Min of two naturals.                                               *)
LEMMA MinOfTwo ==
  ASSUME NEW a \in Nat, NEW b \in Nat
  PROVE  /\ Min({a, b}) <= a
         /\ Min({a, b}) <= b
         /\ Min({a, b}) \in {a, b}
  BY DEF Min

(* A result of the LIMIT query is a finite set of rows of the LIMIT's     *)
(* size, or of all rows when there are fewer.                             *)
LEMMA NewestType ==
  ASSUME NEW h, NEW k \in Nat, IsFiniteSet(DOMAIN h), NEW S \in Newest(h, k)
  PROVE  /\ S \subseteq DOMAIN h
         /\ IsFiniteSet(S)
         /\ Cardinality(S) <= k
  <1>1. S \subseteq DOMAIN h /\ Cardinality(S) = Min({k, Cardinality(DOMAIN h)})
    BY DEF Newest
  <1>2. Cardinality(DOMAIN h) \in Nat
    BY FS_CardinalityType
  <1>3. QED
    BY <1>1, <1>2, MinOfTwo, FS_Subset

(* A row the LIMIT query leaves out means the result is full, and every  *)
(* row in it is at least as new as the row left out.                      *)
LEMMA NewestFull ==
  ASSUME NEW h, NEW k \in Nat, IsFiniteSet(DOMAIN h), NEW S \in Newest(h, k),
         NEW w \in DOMAIN h \ S
  PROVE  /\ Cardinality(S) = k
         /\ \A a \in S : h[a] >= h[w]
  <1>1. S \subseteq DOMAIN h /\ Cardinality(S) = Min({k, Cardinality(DOMAIN h)})
    BY DEF Newest
  <1>2. Cardinality(DOMAIN h) \in Nat /\ Cardinality(S) <= Cardinality(DOMAIN h)
        /\ Cardinality(S) # Cardinality(DOMAIN h)
    BY <1>1, FS_Subset, FS_CardinalityType
  <1>3. Cardinality(S) = k
    BY <1>1, <1>2, MinOfTwo
  <1>4. QED
    BY <1>3 DEF Newest

(* A set of rows maps save paths to timestamps of the explored clock.     *)
LEMMA RowsFacts ==
  ASSUME NEW f \in Rows
  PROVE  /\ DOMAIN f \subseteq Paths
         /\ \A p \in DOMAIN f : f[p] \in 0..MaxTime
  BY DEF Rows

-----------------------------------------------------------------------------
(* The inductive invariant.                                               *)

LEMMA InitHInv == Init => HInv
  <1> SUFFICES ASSUME Init PROVE HInv
    OBVIOUS
  <1>1. TypeOK
    BY PathHistoryAssumption DEF Init, TypeOK, Rows
  <1>2. QED
    BY <1>1 DEF Init, HInv, RowsNoNewerThanLast, LastPathsStamped,
                ChoicesQueried

(* The destructor's upsert and trim.                                      *)
LEMMA CloseDialogHInv ==
  ASSUME HInv, NEW written \in SUBSET Paths, IsFiniteSet(written),
         Cardinality(written) \in 1..MaxTorrents, CloseDialog(written)
  PROVE  HInv'
  <1> DEFINE h == Upsert(hist, written, now)
  <1>1. PICK keep \in Newest(h, HistLimit) : hist' = Restrict(h, keep)
    BY DEF CloseDialog
  <1>2. /\ DOMAIN h = DOMAIN hist \cup written
        /\ \A p \in written : h[p] = now
        /\ \A p \in DOMAIN h : h[p] \in 0..MaxTime /\ h[p] <= now
    BY DEF Upsert, HInv, TypeOK, Rows, RowsNoNewerThanLast
  <1>3. IsFiniteSet(DOMAIN h)
    BY <1>2, FS_Union DEF HInv, TypeOK
  <1>4. /\ keep \subseteq DOMAIN h
        /\ IsFiniteSet(keep)
        /\ Cardinality(keep) <= HistLimit
    BY <1>3, NewestType, PathHistoryAssumption
  <1>5. DOMAIN hist' = keep /\ \A p \in keep : hist'[p] = h[p]
    BY <1>1 DEF Restrict
  <1>6. /\ lastStamp' = now /\ lastPaths' = written /\ dialog' = "closed"
        /\ UNCHANGED <<now, choices>>
    BY DEF CloseDialog
  <1>7. TypeOK'
    <2>1. hist' \in [keep -> 0..MaxTime] /\ keep \in SUBSET Paths
      BY <1>2, <1>4, <1>5, <1>1 DEF Restrict, HInv, TypeOK, Rows
    <2>2. QED
      BY <2>1, <1>4, <1>5, <1>6 DEF CloseDialog, HInv, TypeOK, Rows
  <1>8. RowsNoNewerThanLast'
    <2>1. \A p \in DOMAIN hist' : hist'[p] <= now
      BY <1>2, <1>4, <1>5
    <2>2. now \in Nat
      BY DEF HInv, TypeOK
    <2>3. QED
      BY <2>1, <2>2, <1>6 DEF RowsNoNewerThanLast
  <1>9. LastPathsStamped'
    <2> SUFFICES ASSUME NEW q \in written
                 PROVE  IF q \in keep
                        THEN hist'[q] = now
                        ELSE /\ Cardinality(keep) = HistLimit
                             /\ \A p \in keep : hist'[p] = now
      BY <1>5, <1>6 DEF LastPathsStamped
    <2>1. CASE q \in keep
      BY <2>1, <1>2, <1>5
    <2>2. CASE q \notin keep
      <3>1. Cardinality(keep) = HistLimit /\ \A a \in keep : h[a] >= h[q]
        BY <2>2, <1>2, <1>3, NewestFull, PathHistoryAssumption
      <3>2. QED
        BY <2>2, <3>1, <1>2, <1>4, <1>5
    <2>3. QED
      BY <2>1, <2>2
  <1>10. QED
    BY <1>7, <1>8, <1>9, <1>6 DEF HInv, ChoicesQueried

LEMMA NextHInv == HInv /\ [Next]_vars => HInv'
<1> SUFFICES ASSUME HInv, [Next]_vars PROVE HInv'
  OBVIOUS
<1>1. CASE OpenDialog
  <2>1. PICK S \in Newest(hist, HistLimit) : choices' = S
    BY <1>1 DEF OpenDialog
  <2>2. S \subseteq DOMAIN hist
    BY NewestType, PathHistoryAssumption DEF HInv, TypeOK
  <2>3. TypeOK'
    BY <1>1, <2>1, <2>2, RowsFacts DEF OpenDialog, HInv, TypeOK
  <2>4. QED
    BY <1>1, <2>1, <2>3 DEF OpenDialog, HInv, RowsNoNewerThanLast,
                            LastPathsStamped, ChoicesQueried
<1>2. ASSUME NEW p \in Paths, RecordOther(p) PROVE HInv'
  BY <1>2 DEF RecordOther, HInv, TypeOK, RowsNoNewerThanLast,
              LastPathsStamped, ChoicesQueried
<1>3. ASSUME NEW written \in SUBSET Paths, IsFiniteSet(written),
             Cardinality(written) \in 1..MaxTorrents, CloseDialog(written)
      PROVE  HInv'
  BY <1>3, CloseDialogHInv
<1>4. CASE Tick
  BY <1>4, RowsFacts, PathHistoryAssumption DEF Tick, HInv, TypeOK, RowsNoNewerThanLast, LastPathsStamped,
              ChoicesQueried
<1>5. CASE UNCHANGED vars
  BY <1>5 DEF vars, HInv, TypeOK, RowsNoNewerThanLast, LastPathsStamped,
              ChoicesQueried
<1>6. QED
  BY <1>1, <1>2, <1>3, <1>4, <1>5 DEF Next

LEMMA SpecHInv == Spec => []HInv
  BY InitHInv, NextHInv, PTL DEF Spec

(* The path_history table never holds more add-torrent-dialog rows than   *)
(* the LIMIT of the destructor's DELETE, whatever the dialogs wrote.      *)
THEOREM HistoryTypeCorrect == Spec => []TypeOK
  BY SpecHInv, PTL DEF HInv

(* A save path the last destroyed dialog wrote is missing from the next   *)
(* dialog's box only when the box holds LIMIT paths stamped in the second *)
(* of that destructor's upserts, even when the next dialog opens and      *)
(* closes within that second: the upsert stamps the written paths with    *)
(* the newest second in the table, so the trim and the SELECT can only    *)
(* prefer rows tied with them.                                            *)
THEOREM LastOffered == Spec => []LastPathsOffered
<1>1. HInv => LastPathsOffered
  <2> SUFFICES ASSUME HInv, dialog = "open", NEW q \in lastPaths \ choices
               PROVE  /\ Cardinality(choices) = HistLimit
                      /\ \A p \in choices : hist[p] = lastStamp
    BY DEF LastPathsOffered
  <2>1. choices \in Newest(hist, HistLimit) /\ IsFiniteSet(DOMAIN hist)
    BY DEF HInv, ChoicesQueried, TypeOK
  <2>2. choices \subseteq DOMAIN hist
    BY <2>1, NewestType, PathHistoryAssumption
  <2>3. CASE q \in DOMAIN hist
    <3>1. Cardinality(choices) = HistLimit /\ \A a \in choices : hist[a] >= hist[q]
      BY <2>1, <2>3, NewestFull, PathHistoryAssumption
    <3>2. hist[q] = lastStamp
      BY <2>3 DEF HInv, LastPathsStamped
    <3>3. /\ \A p \in choices : hist[p] <= lastStamp /\ hist[p] \in Nat
          /\ lastStamp \in Nat
      BY <2>2, RowsFacts DEF HInv, RowsNoNewerThanLast, TypeOK
    <3>4. QED
      BY <3>1, <3>2, <3>3
  <2>4. CASE q \notin DOMAIN hist
    <3>1. Cardinality(DOMAIN hist) = HistLimit /\ \A p \in DOMAIN hist : hist[p] = lastStamp
      <4>1. q \in lastPaths
        OBVIOUS
      <4>2. QED
        BY <4>1, <2>4, Zenon DEF HInv, LastPathsStamped
    <3>2. Cardinality(choices) = Min({HistLimit, HistLimit})
      BY <2>1, <3>1 DEF Newest
    <3>3. QED
      BY <2>2, <3>1, <3>2, MinOfTwo, PathHistoryAssumption
  <2>5. QED
    BY <2>3, <2>4
<1>2. QED
  BY <1>1, SpecHInv, PTL

=============================================================================
