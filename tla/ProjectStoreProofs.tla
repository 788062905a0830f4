------------------------- MODULE ProjectStoreProofs -------------------------
(***************************************************************************)
(* The transactions of ProjectStore implement the atomic row of            *)
(* ProjectRow, for any number of requests, bodies, paths and timestamps.   *)
(*                                                                         *)
(* Everything here is about a project of the kind "project".  A tutorial   *)
(* can be started again on its tombstone, and a deleteProject that found   *)
(* the tombstone erases files without holding the row: for tutorials       *)
(* neither theorem holds (README, section 6).                              *)
(***************************************************************************)
EXTENDS ProjectStore, TLAPS

Writing == {"checking", "writing", "committing"}

\* now() of a transaction is a time that no other has and that, until it commits, no
\* revision has
Clocked ==
  /\ \A k \in DOMAIN rev : k <= clock
  /\ \A t \in Txs : at[t] # "idle" => now[t] \in Tokens /\ now[t] <= clock
  /\ \A t, u \in Txs : at[t] # "idle" /\ at[u] # "idle" /\ now[t] = now[u] => t = u
  /\ \A t \in Txs : at[t] \notin {"idle", "done"} => now[t] \notin DOMAIN rev

\* The committed row is the revision of its token, or has no files
RowIsRevision ==
  /\ row.state = "none" => row = NoRow
  /\ row.state = "deleted" => row.files = NoFiles
  /\ row.state = "live" => row.token \in DOMAIN rev /\ rev[row.token].files = row.files

\* Who writes holds the row, and a delete that does not hold it found it deleted
Holders ==
  /\ \A t \in Txs : at[t] \in Writing => lock = t
  /\ lock # NoTx => at[lock] \in Writing \cup {"erasing"}
  /\ \A t \in Txs : at[t] = "tombstoning" => row.state # "none"
  /\ \A t \in Txs : at[t] = "erasing" /\ lock # t => row.state = "deleted"
  /\ \A t \in Txs : at[t] = "erasing" /\ lock = t =>
       row.state = "live" /\ pending[t] = [row EXCEPT !.state = "deleted"]

\* What the write of t is made against is still there: the row has not moved
Bodied(t) ==
  /\ body[t] \in Bodies /\ ValidBody(body[t]) /\ body[t].base \in DOMAIN rev \cup {NoToken}

Version(t) ==
  [state |-> "live", name |-> body[t].name, token |-> now[t], files |-> row.files]

Writes ==
  \A t \in Txs :
    /\ at[t] = "waiting" => Bodied(t)
    /\ at[t] \in Writing => Bodied(t) /\ body[t].name \notin Taken
    /\ at[t] = "checking" => Creating(t) /\ row.state = "live" /\ pending[t] = Version(t)
    /\ at[t] = "writing" => Lands(row, body[t].base) /\ pending[t] = Version(t)
    /\ at[t] = "committing" =>
         /\ Lands(row, body[t].base)
         /\ pending[t] = Written(row, body[t], now[t])
         /\ ~IsEmpty(pending[t].files)

\* Only a save carries a body, and it is answered at its end
Answered ==
  \A t \in Txs :
    /\ at[t] \in {"idle", "tombstoning", "erasing"} => body[t] = NoBody
    /\ reply[t] # "none" => at[t] = "done"
    /\ Saved(t) => now[t] \in DOMAIN rev /\ body[t].base \in DOMAIN rev \cup {NoToken}

StoreType == TypeOK /\ body \in [Txs -> Bodies \cup {NoBody}]

StoreInv ==
  /\ StoreType /\ Clocked /\ RowIsRevision /\ Holders /\ Writes /\ Answered
  /\ AcceptedExactly

-----------------------------------------------------------------------------
(* What the statements do to file sets *)

LEMMA EmptyIsNoFiles == \A f \in FileSets : IsEmpty(f) <=> f = NoFiles
BY DEF FileSets, IsEmpty, Present, NoFiles

LEMMA NoFilesType == NoFiles \in FileSets
BY DEF FileSets, NoFiles

LEMMA FilesAfterType ==
  \A f \in FileSets, b \in Bodies : FilesAfter(f, b) \in FileSets
BY DEF FileSets, Bodies, FilesAfter

\* A create spends no DELETE_OTHERS and needs none: on a row without files the
\* two ways to store a body agree
LEMMA CreateStoresBody ==
  \A b \in Bodies : b.base = NoToken => StoredFiles(NoFiles, b) = FilesAfter(NoFiles, b)
BY DEF StoredFiles, FilesAfter, NoFiles, FileSets, Bodies

\* A body that names a file leaves one
LEMMA BodyLeavesFiles ==
  \A f \in FileSets, b \in Bodies : ~IsEmpty(b.files) => ~IsEmpty(FilesAfter(f, b))
BY DEF FileSets, Bodies, FilesAfter, IsEmpty, Present

LEMMA NoRowType == NoRow \in Rows
BY NoFilesType DEF NoRow, Rows

LEMMA WithBaseType ==
  \A b \in Bodies, k \in Tokens \cup {NoToken} :
    WithBase(b, k) \in Bodies /\ WithBase(b, k).base = k
BY DEF WithBase, Bodies

-----------------------------------------------------------------------------
LEMMA InitStore == Init => StoreInv
<1> SUFFICES ASSUME Init PROVE StoreInv
  OBVIOUS
<1> USE DEF Init, RowInit
<1>1. StoreType
  BY NoRowType DEF StoreType, TypeOK, NoBody
<1>2. Clocked
  BY DEF Clocked
<1>3. RowIsRevision
  BY DEF RowIsRevision, NoRow
<1>4. Holders
  BY DEF Holders, Writing
<1>5. Writes
  BY DEF Writes, Writing
<1>6. Answered /\ AcceptedExactly
  BY DEF Answered, AcceptedExactly, Saved
<1> QED BY <1>1, <1>2, <1>3, <1>4, <1>5, <1>6 DEF StoreInv

\* Where a create lands there are no files
LEMMA CreateFindsNoFiles ==
  ASSUME Kind = "project", row \in Rows, RowIsRevision, Lands(row, NoToken)
  PROVE  row.files = NoFiles
<1>1. row.state = "none" \/ (row.state = "live" /\ IsEmpty(row.files))
  BY DEF Lands
<1>2. CASE row.state = "none"
  <2>1. row = NoRow
    BY <1>2 DEF RowIsRevision
  <2>2. NoRow.files = NoFiles
    BY DEF NoRow
  <2> QED BY <2>1, <2>2
<1>3. CASE IsEmpty(row.files)
  BY <1>3, EmptyIsNoFiles DEF Rows
<1> QED BY <1>1, <1>2, <1>3

\* A transaction that begins has a time of its own
LEMMA BeginClocked ==
  ASSUME StoreType, Clocked, NEW t \in Txs, NEW s, Begin(t), at' = [at EXCEPT ![t] = s],
         rev' = rev \/ (s = "done" /\ DOMAIN rev' = DOMAIN rev \cup {clock'})
  PROVE  Clocked'
<1>0. /\ clock \in Nat /\ clock' = clock + 1 /\ clock' \in Tokens
      /\ DOMAIN rev \subseteq Nat /\ Tokens \subseteq Nat
      /\ at'[t] = s /\ now'[t] = clock'
      /\ \A u \in Txs \ {t} : at'[u] = at[u] /\ now'[u] = now[u]
  BY RowAssumption DEF StoreType, TypeOK, Begin
<1>1. \A k \in DOMAIN rev' : k <= clock'
  BY <1>0 DEF Clocked
<1>2. \A u \in Txs \ {t} : at[u] # "idle" => now[u] \in Tokens /\ now[u] <= clock
  BY DEF Clocked
<1>3. ASSUME NEW u \in Txs, at'[u] # "idle"
      PROVE  now'[u] \in Tokens /\ now'[u] <= clock'
  <2>1. CASE u = t
    <3>1. now'[u] = clock' /\ clock' \in Tokens /\ clock' \in Nat
      BY <1>0, <2>1
    <3> QED BY <3>1
  <2>2. CASE u # t
    <3>1. now'[u] \in Tokens /\ now'[u] <= clock
      BY <1>0, <1>2, <1>3, <2>2
    <3>2. now'[u] \in Nat /\ clock \in Nat /\ clock' = clock + 1
      BY <1>0, <3>1
    <3> QED BY <3>1, <3>2
  <2> QED BY <2>1, <2>2
<1>4. ASSUME NEW u \in Txs, NEW w \in Txs, at'[u] # "idle", at'[w] # "idle",
             now'[u] = now'[w]
      PROVE  u = w
  <2>1. CASE u # t /\ w # t
    BY <1>0, <1>4, <2>1 DEF Clocked
  <2>2. CASE u = t /\ w # t
    BY <1>0, <1>2, <1>4, <2>2
  <2>3. CASE u # t /\ w = t
    BY <1>0, <1>2, <1>4, <2>3
  <2> QED BY <2>1, <2>2, <2>3
<1>5. clock' \notin DOMAIN rev
  BY <1>0 DEF Clocked
<1>6. ASSUME NEW u \in Txs, at'[u] \notin {"idle", "done"}
      PROVE  now'[u] \notin DOMAIN rev'
  <2>1. CASE u = t
    BY <1>0, <1>5, <1>6, <2>1
  <2>2. CASE u # t
    <3>1. now'[u] \notin DOMAIN rev
      BY <1>0, <1>6, <2>2 DEF Clocked
    <3>2. now'[u] \in Nat /\ now'[u] <= clock
      BY <1>0, <1>2, <1>6, <2>2
    <3>3. now'[u] # clock'
      BY <1>0, <3>2
    <3> QED BY <3>1, <3>3
  <2> QED BY <2>1, <2>2
<1> QED BY <1>1, <1>3, <1>4, <1>6 DEF Clocked

\* A transaction that has begun keeps its time
LEMMA MoveClocked ==
  ASSUME StoreType, Clocked, NEW t \in Txs, NEW s, at[t] \notin {"idle", "done"},
         at' = [at EXCEPT ![t] = s], UNCHANGED <<rev, now, clock>>
  PROVE  Clocked'
BY DEF StoreType, TypeOK, Clocked

\* SWAP and CREATE take their snapshot
LEMMA SaveStartKeeps ==
  ASSUME StoreInv, NEW t \in Txs, NEW b \in Bodies, b.base \in DOMAIN rev \cup {NoToken},
         SaveStart(t, b)
  PROVE  StoreInv'
<1> USE DEF StoreInv, SaveStart, Begin, End
<1>1. StoreType'
  BY DEF StoreType, TypeOK, Refusal
<1>2. Clocked'
  BY BeginClocked
<1>3. RowIsRevision'
  BY DEF RowIsRevision
<1>4. Holders'
  BY StoreAssumption DEF Holders, StoreType, TypeOK, Writing
<1>5. Writes'
  BY DEF Writes, StoreType, TypeOK, Writing, Bodied, Version, Creating
<1>6. Answered'
  BY DEF Answered, StoreType, TypeOK, Saved, IsSave, Refusal
<1>7. AcceptedExactly'
  BY DEF AcceptedExactly, StoreType, TypeOK, Saved, IsSave, Refusal, Answered, Creating
<1> QED BY <1>1, <1>2, <1>3, <1>4, <1>5, <1>6, <1>7

\* The end of a transaction without an "ok" takes nothing from the others
LEMMA RefuseKeeps ==
  ASSUME StoreInv, NEW t \in Txs, at[t] \notin {"idle", "done"},
         NEW answer \in {"conflict", "deleted", "name-taken", "no-files", "error"},
         End(t, answer), UNCHANGED <<row, rev, clock, body, now, snap, pending>>
  PROVE  StoreInv'
<1> USE DEF StoreInv, End
<1>1. StoreType'
  BY DEF StoreType, TypeOK
<1>2. Clocked'
  BY MoveClocked
<1>3. RowIsRevision'
  BY DEF RowIsRevision
<1>4. Holders'
  BY StoreAssumption DEF Holders, StoreType, TypeOK, Writing
<1>5. Writes'
  BY DEF Writes, StoreType, TypeOK, Writing, Bodied, Version, Creating
<1>6. Answered'
  BY DEF Answered, StoreType, TypeOK, Saved, IsSave
<1>7. AcceptedExactly'
  BY DEF AcceptedExactly, StoreType, TypeOK, Saved, IsSave, Creating
<1> QED BY <1>1, <1>2, <1>3, <1>4, <1>5, <1>6, <1>7

\* A statement that takes the row: nobody held it, so no other write is in progress
LEMMA HoldKeeps ==
  ASSUME StoreInv, NEW t \in Txs, at[t] = "waiting", lock = NoTx,
         NEW next \in {"checking", "writing"}, Hold(t, next), body[t].name \notin Taken,
         next = "checking" => Creating(t) /\ row.state = "live",
         next = "writing" => Lands(row, body[t].base),
         UNCHANGED <<row, rev, clock, body, now, snap>>
  PROVE  StoreInv'
<1> USE DEF StoreInv, Hold
<1>0. body[t] \in Bodies /\ now[t] \in Tokens
  BY DEF Writes, Bodied, Clocked
<1>1. StoreType'
  BY <1>0 DEF StoreType, TypeOK, Rows, Bodies
<1>2. Clocked'
  BY MoveClocked
<1>3. RowIsRevision'
  BY DEF RowIsRevision
<1>4. Holders'
  BY StoreAssumption DEF Holders, StoreType, TypeOK, Writing
<1>5. Writes'
  BY StoreAssumption DEF Writes, Holders, StoreType, TypeOK, Writing, Bodied, Version, Creating
<1>6. Answered'
  BY DEF Answered, StoreType, TypeOK, Saved, IsSave
<1>7. AcceptedExactly'
  BY DEF AcceptedExactly, StoreType, TypeOK, Saved, IsSave, Creating
<1> QED BY <1>1, <1>2, <1>3, <1>4, <1>5, <1>6, <1>7

\* A step inside the transaction that holds the row
LEMMA RecheckKeeps ==
  ASSUME StoreInv, NEW t \in Txs, Recheck(t)
  PROVE  StoreInv'
<1> USE DEF Recheck
<1>a. CASE ~IsEmpty(row.files)
  BY <1>a, RefuseKeeps
<1>b. CASE IsEmpty(row.files)
  <2> USE <1>b DEF StoreInv
  <2>1. StoreType'
    BY DEF StoreType, TypeOK
  <2>2. Clocked'
    BY MoveClocked
  <2>3. RowIsRevision'
    BY DEF RowIsRevision
  <2>4. Holders'
    BY StoreAssumption DEF Holders, StoreType, TypeOK, Writing
  <2>5. Writes'
    BY DEF Writes, StoreType, TypeOK, Writing, Bodied, Version, Creating, Lands
  <2>6. Answered'
    BY DEF Answered, StoreType, TypeOK, Saved, IsSave
  <2>7. AcceptedExactly'
    BY DEF AcceptedExactly, StoreType, TypeOK, Saved, IsSave, Creating
  <2> QED BY <2>1, <2>2, <2>3, <2>4, <2>5, <2>6, <2>7
<1> QED BY <1>a, <1>b

LEMMA SwapKeeps ==
  ASSUME StoreInv, NEW t \in Txs, Swap(t)
  PROVE  StoreInv'
<1> USE DEF Swap
<1>1. CASE Lands(row, body[t].base) /\ body[t].name \notin Taken
  BY <1>1, HoldKeeps DEF HoldUnlessTaken
<1>2. CASE Lands(row, body[t].base) /\ body[t].name \in Taken
  BY <1>2, RefuseKeeps DEF HoldUnlessTaken, Refuse
<1>3. CASE ~Lands(row, body[t].base)
  BY <1>3, RefuseKeeps DEF Refuse, Refusal
<1> QED BY <1>1, <1>2, <1>3

LEMMA CreateKeeps ==
  ASSUME StoreInv, Kind = "project", NEW t \in Txs, Create(t)
  PROVE  StoreInv'
<1> USE DEF Create
<1>1. CASE row.state = "none" /\ body[t].name \notin Taken
  <2>1. Lands(row, body[t].base)
    BY <1>1 DEF Lands, Creating
  <2> QED BY <1>1, <2>1, HoldKeeps DEF HoldUnlessTaken
<1>2. CASE row.state # "none" /\ Adoptable(t) /\ body[t].name \notin Taken
  BY <1>2, HoldKeeps DEF HoldUnlessTaken, Adoptable
<1>3. CASE (row.state # "none" => Adoptable(t)) /\ body[t].name \in Taken
  BY <1>3, RefuseKeeps DEF HoldUnlessTaken, Refuse
<1>4. CASE row.state # "none" /\ ~Adoptable(t)
  BY <1>4, RefuseKeeps DEF Refuse, Refusal
<1> QED BY <1>1, <1>2, <1>3, <1>4

LEMMA AbortKeeps ==
  ASSUME StoreInv, NEW t \in Txs, Abort(t)
  PROVE  StoreInv'
BY RefuseKeeps DEF Abort

\* UPSERT_FILES: what is stored is what the caller's patch makes of the row
LEMMA WriteFilesKeeps ==
  ASSUME StoreInv, Kind = "project", NEW t \in Txs, WriteFiles(t)
  PROVE  StoreInv'
<1> DEFINE files == StoredFiles(row.files, body[t])
           refused == ~body[t].whole /\ IsEmpty(body[t].files) /\ IsEmpty(files)
<1> USE DEF WriteFiles
<1>a. CASE refused
  BY <1>a, RefuseKeeps
<1>b. CASE ~refused
  <2> USE DEF StoreInv
  <2>1. /\ at[t] = "writing" /\ lock = t
        /\ body[t] \in Bodies /\ ValidBody(body[t]) /\ row \in Rows
        /\ Lands(row, body[t].base) /\ pending[t] = Version(t)
    BY DEF Holders, Writes, Writing, Bodied, StoreType, TypeOK
  <2>2. row.files \in FileSets
    BY <2>1 DEF Rows
  <2>3. files = FilesAfter(row.files, body[t])
    <3>1. CASE body[t].base # NoToken
      BY <3>1 DEF StoredFiles
    <3>2. CASE body[t].base = NoToken
      <4>1. row.files = NoFiles
        BY <2>1, <3>2, CreateFindsNoFiles
      <4> QED BY <2>1, <3>2, <4>1, CreateStoresBody
    <3> QED BY <3>1, <3>2
  <2>4. ~IsEmpty(files)
    BY <1>b, <2>1, <2>2, <2>3, BodyLeavesFiles DEF ValidBody
  <2>5. files \in FileSets
    BY <2>1, <2>2, <2>3, FilesAfterType
  <2>6. /\ pending' = [pending EXCEPT ![t].files = files]
        /\ at' = [at EXCEPT ![t] = "committing"]
        /\ UNCHANGED <<lock, reply, row, rev, clock, body, now, snap>>
    BY <1>b
  <2>7. pending'[t] = Written(row, body[t], now[t]) /\ ~IsEmpty(pending'[t].files)
    BY <2>1, <2>3, <2>4, <2>6 DEF Version, Written, StoreType, TypeOK
  <2> HIDE DEF files, WriteFiles
  <2>8. StoreType'
    <3>0. now[t] \in Tokens /\ body[t].name \in Names
      BY <2>1 DEF Clocked, Bodies
    <3>1. pending'[t] \in Rows
      <4>1. FilesAfter(row.files, body[t]) \in FileSets
        BY <2>3, <2>5
      <4>2. Written(row, body[t], now[t]) \in Rows
        BY <3>0, <4>1 DEF Written, Rows
      <4> QED BY <2>7, <4>2
    <3>2. pending' \in [Txs -> Rows]
      BY <2>6, <3>1 DEF StoreType, TypeOK
    <3> QED BY <2>6, <3>2 DEF StoreType, TypeOK
  <2>9. Clocked'
    BY <2>1, <2>6, MoveClocked
  <2>10. RowIsRevision'
    BY <2>6 DEF RowIsRevision
  <2>11. Holders'
    BY <2>1, <2>6, StoreAssumption DEF Holders, StoreType, TypeOK, Writing
  <2>12. Writes'
    <3>1. \A u \in Txs \ {t} : pending'[u] = pending[u] /\ at'[u] = at[u]
      BY <2>6 DEF StoreType, TypeOK
    <3>2. at'[t] = "committing"
      BY <2>6 DEF StoreType, TypeOK
    <3> QED BY <2>1, <2>6, <2>7, <3>1, <3>2
            DEF Writes, Writing, Bodied, Version, Creating
  <2>13. Answered'
    BY <2>1, <2>6 DEF Answered, StoreType, TypeOK, Saved, IsSave
  <2>14. AcceptedExactly'
    BY <2>6 DEF AcceptedExactly, StoreType, TypeOK, Saved, IsSave, Creating
  <2> QED BY <2>8, <2>9, <2>10, <2>11, <2>12, <2>13, <2>14
<1> QED BY <1>a, <1>b

\* deleteProject's snapshot; a row seen deleted is not waited for
LEMMA DeleteStartKeeps ==
  ASSUME StoreInv, NEW t \in Txs, DeleteStart(t)
  PROVE  StoreInv'
<1> USE DEF StoreInv, DeleteStart
<1>1. StoreType'
  BY DEF StoreType, TypeOK, Begin
<1>2. Clocked'
  BY BeginClocked
<1>3. RowIsRevision'
  BY DEF RowIsRevision
<1>4. Holders'
  <2>1. row.state \in {"live", "deleted"}
    BY DEF StoreType, TypeOK, Rows
  <2>2. lock # t
    BY StoreAssumption DEF Holders, Writing, Begin
  <2> QED BY <2>1, <2>2 DEF Holders, StoreType, TypeOK, Writing, Begin
<1>5. Writes'
  BY DEF Writes, StoreType, TypeOK, Writing, Bodied, Version, Creating, Begin
<1>6. Answered'
  BY DEF Answered, StoreType, TypeOK, Saved, IsSave, Begin
<1>7. AcceptedExactly'
  BY DEF AcceptedExactly, StoreType, TypeOK, Saved, IsSave, Creating, Begin, Answered
<1> QED BY <1>1, <1>2, <1>3, <1>4, <1>5, <1>6, <1>7

LEMMA TombstoneKeeps ==
  ASSUME StoreInv, NEW t \in Txs, Tombstone(t)
  PROVE  StoreInv'
<1> USE DEF StoreInv, Tombstone
<1>1. StoreType'
  <2>1. [row EXCEPT !.state = "deleted"] \in Rows
    BY DEF StoreType, TypeOK, Rows
  <2> QED BY <2>1 DEF StoreType, TypeOK
<1>2. Clocked'
  BY MoveClocked
<1>3. RowIsRevision'
  BY DEF RowIsRevision
<1>4. Holders'
  <2>1. row.state \in {"live", "deleted"}
    BY DEF StoreType, TypeOK, Rows, Holders
  <2> QED BY <2>1, StoreAssumption DEF Holders, StoreType, TypeOK, Writing
<1>5. Writes'
  BY StoreAssumption DEF Writes, Holders, StoreType, TypeOK, Writing, Bodied, Version, Creating
<1>6. Answered'
  BY DEF Answered, StoreType, TypeOK, Saved, IsSave
<1>7. AcceptedExactly'
  BY DEF AcceptedExactly, StoreType, TypeOK, Saved, IsSave, Creating
<1> QED BY <1>1, <1>2, <1>3, <1>4, <1>5, <1>6, <1>7

\* The commit of a save: the row was not moved since the write was checked
LEMMA CommitKeeps ==
  ASSUME StoreInv, Kind = "project", NEW t \in Txs, Commit(t)
  PROVE  StoreInv'
<1> USE DEF StoreInv, Commit
<1>1. /\ at[t] = "committing" /\ lock = t /\ row' = pending[t]
      /\ pending[t] = Written(row, body[t], now[t]) /\ pending[t] \in Rows
      /\ Lands(row, body[t].base) /\ row.state # "deleted"
      /\ now[t] \in Tokens /\ now[t] \notin DOMAIN rev
      /\ body[t] \in Bodies /\ body[t].base \in DOMAIN rev \cup {NoToken}
  BY DEF Holders, Writes, Writing, Bodied, Clocked, Lands, StoreType, TypeOK
<1>2. /\ DOMAIN rev' = DOMAIN rev \cup {now[t]}
      /\ \A k \in DOMAIN rev : rev'[k] = rev[k]
      /\ rev'[now[t]].files = row'.files
  BY <1>1 DEF Record
<1>3. /\ row'.state = "live" /\ row'.token = now[t]
      /\ row'.files = FilesAfter(row.files, body[t])
  BY <1>1 DEF Written
<1>4. /\ at' = [at EXCEPT ![t] = "done"] /\ lock' = NoTx
      /\ reply' = [reply EXCEPT ![t] = "ok"]
      /\ UNCHANGED <<clock, body, now, snap, pending>>
  BY <1>1 DEF End
<1>5. \A u \in Txs \ {t} : at[u] \notin Writing \cup {"erasing"}
  BY <1>1 DEF Holders
<1> HIDE DEF Commit
<1>6. StoreType'
  BY <1>1, <1>2, <1>4 DEF StoreType, TypeOK
<1>7. Clocked'
  <2>1. /\ at'[t] = "done" /\ now[t] <= clock
        /\ \A u \in Txs \ {t} : at'[u] = at[u]
    BY <1>1, <1>4 DEF StoreType, TypeOK, Clocked
  <2>2. \A u \in Txs \ {t} : at[u] # "idle" => now[u] # now[t]
    BY <1>1 DEF Clocked
  <2> QED BY <1>1, <1>2, <1>4, <2>1, <2>2 DEF Clocked
<1>8. RowIsRevision'
  BY <1>2, <1>3 DEF RowIsRevision
<1>9. Holders'
  BY <1>3, <1>4, <1>5, StoreAssumption DEF Holders, StoreType, TypeOK, Writing
<1>10. Writes'
  BY <1>2, <1>4, <1>5 DEF Writes, StoreType, TypeOK, Writing, Bodied
<1>11. Answered'
  BY <1>1, <1>2, <1>4 DEF Answered, StoreType, TypeOK, Saved, IsSave
<1>12. AcceptedExactly'
  <2>1. rev'[now[t]].files =
          FilesAfter(IF Creating(t) THEN NoFiles ELSE rev[body[t].base].files, body[t])
    <3>1. CASE Creating(t)
      <4>1. row.files = NoFiles
        BY <1>1, <3>1, CreateFindsNoFiles DEF Creating, StoreType, TypeOK
      <4> QED BY <1>2, <1>3, <3>1, <4>1
    <3>2. CASE ~Creating(t)
      <4>1. row.state = "live" /\ row.token = body[t].base
        BY <1>1, <3>2 DEF Creating, Lands
      <4> QED BY <1>2, <1>3, <3>2, <4>1 DEF RowIsRevision
    <3> QED BY <3>1, <3>2
  <2>2. ASSUME NEW u \in Txs \ {t}, Saved(u)'
        PROVE  rev'[now[u]].files =
                 FilesAfter(IF Creating(u) THEN NoFiles ELSE rev'[body[u].base].files, body[u])
    <3>1. Saved(u)
      BY <1>4, <2>2 DEF Saved, IsSave, StoreType, TypeOK
    <3>2. now[u] \in DOMAIN rev /\ body[u].base \in DOMAIN rev \cup {NoToken}
      BY <3>1 DEF Answered
    <3> QED BY <1>2, <3>1, <3>2 DEF AcceptedExactly, Creating
  <2>3. ~Creating(t) => rev'[body[t].base] = rev[body[t].base]
    BY <1>1, <1>2 DEF Creating
  <2> QED BY <1>4, <2>1, <2>2, <2>3 DEF AcceptedExactly, Creating
<1> QED BY <1>6, <1>7, <1>8, <1>9, <1>10, <1>11, <1>12

\* The end of deleteProject: the row is the tombstone it wrote, or was one already
LEMMA EraseKeeps ==
  ASSUME StoreInv, NEW t \in Txs, Erase(t)
  PROVE  /\ StoreInv'
         /\ Delete \/ UNCHANGED rowVars
<1> USE DEF StoreInv
<1>1. /\ at[t] = "erasing" /\ row \in Rows /\ now[t] \in Tokens /\ body[t] = NoBody
      /\ at' = [at EXCEPT ![t] = "done"] /\ reply' = [reply EXCEPT ![t] = "ok"]
      /\ lock' = (IF lock = t THEN NoTx ELSE lock)
      /\ UNCHANGED <<rev, clock, body, now, snap, pending>>
  BY DEF Erase, End, Clocked, Answered, StoreType, TypeOK
<1>2. CASE lock = t
  <2>1. row.state = "live" /\ row' = [row EXCEPT !.state = "deleted", !.files = NoFiles]
    BY <1>1, <1>2 DEF Erase, Holders, Rows
  <2>2. Delete
    BY <1>1, <2>1 DEF Delete
  <2>3. row' \in Rows /\ row'.state = "deleted" /\ row'.files = NoFiles
    BY <1>1, <2>1, NoFilesType DEF Rows
  <2>4. \A u \in Txs \ {t} : at[u] \notin Writing \cup {"erasing"}
    BY <1>2, <2>1 DEF Holders
  <2>5. StoreType'
    BY <1>1, <1>2, <2>3 DEF StoreType, TypeOK
  <2>6. Clocked'
    BY <1>1, MoveClocked
  <2>7. RowIsRevision'
    BY <2>3 DEF RowIsRevision
  <2>8. Holders'
    BY <1>1, <1>2, <2>3, <2>4, StoreAssumption DEF Holders, StoreType, TypeOK, Writing
  <2>9. Writes'
    BY <1>1, <2>4 DEF Writes, StoreType, TypeOK, Writing, Bodied
  <2>10. Answered' /\ AcceptedExactly'
    BY <1>1 DEF Answered, AcceptedExactly, Creating, Saved, IsSave, StoreType, TypeOK
  <2> QED BY <2>2, <2>5, <2>6, <2>7, <2>8, <2>9, <2>10
<1>3. CASE lock # t
  <2>1. row.state = "deleted" /\ row.files = NoFiles
    BY <1>1, <1>3 DEF Holders, RowIsRevision
  <2>2. row' = row
    BY <1>1, <1>3, <2>1 DEF Erase, Rows
  <2>3. UNCHANGED rowVars
    BY <1>1, <2>2 DEF rowVars
  <2>5. StoreType'
    BY <1>1, <1>3, <2>2 DEF StoreType, TypeOK
  <2>6. Clocked'
    BY <1>1, MoveClocked
  <2>7. RowIsRevision'
    BY <1>1, <2>2 DEF RowIsRevision
  <2>8. Holders'
    BY <1>1, <1>3, <2>2, StoreAssumption DEF Holders, StoreType, TypeOK, Writing
  <2>9. Writes'
    BY <1>1, <2>2 DEF Writes, StoreType, TypeOK, Writing, Bodied, Version, Creating
  <2>10. Answered' /\ AcceptedExactly'
    BY <1>1 DEF Answered, AcceptedExactly, Creating, Saved, IsSave, StoreType, TypeOK
  <2> QED BY <2>3, <2>5, <2>6, <2>7, <2>8, <2>9, <2>10
<1> QED BY <1>2, <1>3

\* A chat turn makes the parent row when nobody has, and nobody is writing it
LEMMA ChatKeeps ==
  ASSUME StoreInv, NEW t \in Txs, Chat(t)
  PROVE  /\ StoreInv'
         /\ (\E token \in Tokens : EnsureParent(token)) \/ UNCHANGED rowVars
<1> USE DEF StoreInv
<1> DEFINE answer == IF row.state = "deleted" THEN "deleted" ELSE "ok"
<1>1. /\ at[t] = "idle" /\ lock = NoTx /\ lock' = NoTx /\ body[t] = NoBody
      /\ clock' \in Tokens /\ Begin(t)
      /\ now' = [now EXCEPT ![t] = clock'] /\ snap' = [snap EXCEPT ![t] = row]
      /\ at' = [at EXCEPT ![t] = "done"] /\ reply' = [reply EXCEPT ![t] = answer]
      /\ UNCHANGED <<body, pending>>
  BY DEF Chat, End, Begin, Answered
<1>2. \A u \in Txs : at[u] \notin Writing
  BY <1>1, StoreAssumption DEF Holders
<1>3. clock' \notin DOMAIN rev
  BY RowAssumption DEF Chat, Begin, Clocked, StoreType, TypeOK
<1>4. CASE row.state = "none"
  <2>1. /\ EnsureParent(clock')
        /\ row' = [state |-> "live", name |-> IdName, token |-> clock', files |-> NoFiles]
    BY <1>4 DEF Chat, EnsureParent
  <2>2. /\ DOMAIN rev' = DOMAIN rev \cup {clock'}
        /\ \A k \in DOMAIN rev : rev'[k] = rev[k]
        /\ rev'[clock'].files = NoFiles
    BY <1>3, <2>1 DEF EnsureParent, Record
  <2>3. \A u \in Txs : at[u] \notin {"tombstoning", "erasing"}
    BY <1>1, <1>4, StoreAssumption DEF Holders
  <2>4. StoreType'
    <3>1. row' \in Rows
      BY <1>1, <2>1, NoFilesType DEF Rows
    <3>2. clock' \in Nat
      BY <1>1, RowAssumption
    <3> QED BY <1>1, <1>4, <2>2, <3>1, <3>2 DEF StoreType, TypeOK
  <2>5. Clocked'
    BY <1>1, <2>2, BeginClocked
  <2>6. RowIsRevision'
    BY <2>1, <2>2 DEF RowIsRevision
  <2>7. Holders'
    BY <1>1, <1>2, <2>3, StoreAssumption DEF Holders, StoreType, TypeOK, Writing
  <2>8. Writes'
    BY <1>1, <1>2, <2>2 DEF Writes, StoreType, TypeOK, Writing, Bodied
  <2>9. Answered' /\ AcceptedExactly'
    <3>1. ASSUME NEW u \in Txs, Saved(u)'
          PROVE  /\ Saved(u) /\ now'[u] = now[u] /\ u # t
                 /\ now[u] \in DOMAIN rev /\ body[u].base \in DOMAIN rev \cup {NoToken}
      BY <1>1, <3>1 DEF Saved, IsSave, Answered, StoreType, TypeOK
    <3>2. Answered'
      BY <1>1, <2>2, <3>1 DEF Answered, StoreType, TypeOK
    <3>3. AcceptedExactly'
      BY <1>1, <2>2, <3>1 DEF AcceptedExactly, Creating
    <3> QED BY <3>2, <3>3
  <2> QED BY <1>1, <2>1, <2>4, <2>5, <2>6, <2>7, <2>8, <2>9
<1>5. CASE row.state # "none"
  <2>1. UNCHANGED <<row, rev>>
    BY <1>5 DEF Chat
  <2>2. StoreType'
    BY <1>1, <2>1, RowAssumption DEF StoreType, TypeOK
  <2>3. Clocked'
    BY <1>1, <2>1, BeginClocked
  <2>4. RowIsRevision'
    BY <2>1 DEF RowIsRevision
  <2>5. Holders'
    BY <1>1, <2>1, StoreAssumption DEF Holders, StoreType, TypeOK, Writing
  <2>6. Writes'
    BY <1>1, <1>2, <2>1 DEF Writes, StoreType, TypeOK, Writing, Bodied
  <2>7. Answered' /\ AcceptedExactly'
    BY <1>1, <2>1 DEF Answered, AcceptedExactly, Creating, Saved, IsSave, StoreType, TypeOK
  <2> QED BY <2>1, <2>2, <2>3, <2>4, <2>5, <2>6, <2>7 DEF rowVars
<1> QED BY <1>4, <1>5

-----------------------------------------------------------------------------
\* The commit of a save is a Save of the atomic row
LEMMA CommitIsSave ==
  ASSUME StoreInv, Kind = "project", NEW t \in Txs, Commit(t)
  PROVE  \E base \in DOMAIN rev \cup {NoToken} : Save(base)
<1> USE DEF StoreInv
<1>1. /\ at[t] = "committing" /\ row' = pending[t]
      /\ Lands(row, body[t].base) /\ pending[t] = Written(row, body[t], now[t])
      /\ ~IsEmpty(pending[t].files) /\ pending[t] \in Rows
      /\ body[t] \in Bodies /\ body[t].base \in DOMAIN rev \cup {NoToken}
      /\ body[t].name \notin Taken /\ now[t] \in Tokens \ DOMAIN rev
  BY DEF Commit, Writes, Writing, Bodied, Clocked, StoreType, TypeOK
<1>2. /\ row'.state = "live" /\ row'.token = now[t] /\ row'.name = body[t].name
      /\ row'.files \in FileSets
  <2>1. pending[t].files \in FileSets
    BY <1>1 DEF Rows
  <2>2. row' = Written(row, body[t], now[t]) /\ row'.files \in FileSets
    BY <1>1, <2>1
  <2> QED BY <2>2 DEF Written
<1>3. body[t].name \in Names \ Taken
  BY <1>1 DEF Bodies
<1>4. Record(row'.token, row', body[t].base)
  BY <1>2 DEF Commit
<1>5. Save(body[t].base)
  BY <1>1, <1>2, <1>3, <1>4 DEF Save
<1> QED BY <1>1, <1>5

\* Every step keeps the invariant and is a step of the atomic row or leaves it alone
LEMMA StoreStep ==
  ASSUME StoreInv, Kind = "project", [Next]_vars
  PROVE  StoreInv' /\ [RowNext]_rowVars
<1>1. CASE UNCHANGED vars
  <2>1. StoreInv'
    BY <1>1 DEF vars, txVars, StoreInv, StoreType, TypeOK, Clocked, RowIsRevision, Holders,
       Writes, Bodied, Version, Creating, Answered, AcceptedExactly, Saved, IsSave
  <2> QED BY <1>1, <2>1 DEF vars, rowVars
<1>2. CASE Next
  <2>1. PICK t \in Txs :
          \/ \E b \in Bodies0, base \in DOMAIN rev \cup {NoToken} :
               SaveStart(t, WithBase(b, base))
          \/ Swap(t) \/ Create(t) \/ Recheck(t) \/ WriteFiles(t) \/ Commit(t) \/ Abort(t)
          \/ DeleteStart(t) \/ Tombstone(t) \/ Erase(t) \/ Chat(t)
    BY <1>2 DEF Next
  <2>2. ASSUME NEW b \in Bodies0, NEW base \in DOMAIN rev \cup {NoToken},
               SaveStart(t, WithBase(b, base))
        PROVE  StoreInv' /\ [RowNext]_rowVars
    <3>1. b \in Bodies /\ base \in Tokens \cup {NoToken}
      BY StoreAssumption DEF StoreInv, StoreType, TypeOK
    <3>2. WithBase(b, base) \in Bodies /\ WithBase(b, base).base = base
      BY <3>1, WithBaseType
    <3>3. StoreInv'
      BY <2>2, <3>2, SaveStartKeeps
    <3> QED BY <2>2, <3>3 DEF SaveStart, rowVars
  <2>3. CASE Swap(t)
    BY <2>3, SwapKeeps DEF Swap, rowVars
  <2>4. CASE Create(t)
    BY <2>4, CreateKeeps DEF Create, rowVars
  <2>5. CASE Recheck(t)
    BY <2>5, RecheckKeeps DEF Recheck, rowVars
  <2>6. CASE WriteFiles(t)
    BY <2>6, WriteFilesKeeps DEF WriteFiles, rowVars
  <2>7. CASE Commit(t)
    BY <2>7, CommitKeeps, CommitIsSave DEF RowNext
  <2>8. CASE Abort(t)
    BY <2>8, AbortKeeps DEF Abort, rowVars
  <2>9. CASE DeleteStart(t)
    BY <2>9, DeleteStartKeeps DEF DeleteStart, rowVars
  <2>10. CASE Tombstone(t)
    BY <2>10, TombstoneKeeps DEF Tombstone, rowVars
  <2>11. CASE Erase(t)
    BY <2>11, EraseKeeps DEF RowNext
  <2>12. CASE Chat(t)
    BY <2>12, ChatKeeps DEF RowNext
  <2> QED BY <2>1, <2>2, <2>3, <2>4, <2>5, <2>6, <2>7, <2>8, <2>9, <2>10, <2>11, <2>12
<1> QED BY <1>1, <1>2

\* However the transactions on a project's row interleave and wherever they are cut
\* off, a save that was answered "ok" left exactly the files its caller has: those it
\* sent, or the revision of its token with its patch applied.
THEOREM StoreAccepted ==
  ASSUME Kind = "project"
  PROVE  Spec => []AcceptedExactly
<1>1. Init => StoreInv
  BY InitStore
<1>2. StoreInv /\ [Next]_vars => StoreInv'
  BY StoreStep
<1>3. StoreInv => AcceptedExactly
  BY DEF StoreInv
<1> QED BY <1>1, <1>2, <1>3, PTL DEF Spec

\* The transactions implement the atomic row: a save is one step that lands on the
\* revision its caller named and leaves at least one file, deleteProject one that
\* leaves a tombstone, and neither a refused nor an aborted transaction leaves a trace.
THEOREM StoreRefinesRow ==
  ASSUME Kind = "project"
  PROVE  Spec => RowSpec
<1>1. Init => StoreInv /\ RowInit
  BY InitStore DEF Init
<1>2. StoreInv /\ [Next]_vars => StoreInv' /\ [RowNext]_rowVars
  BY StoreStep
<1> QED BY <1>1, <1>2, PTL DEF Spec, RowSpec
=============================================================================
