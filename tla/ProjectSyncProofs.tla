------------------------- MODULE ProjectSyncProofs --------------------------
(***************************************************************************)
(* Proofs about ProjectSync: type correctness; that marks and patches      *)
(* describe the revision they name; for a project that is not a tutorial,  *)
(* that a deleted one stays deleted and that no device deletes one which   *)
(* nobody deleted; and that a stand-in for a name is not uploaded.         *)
(***************************************************************************)
EXTENDS ProjectSync, FiniteSetTheorems, TLAPS

-----------------------------------------------------------------------------
(* The operators keep file sets                                            *)

\* Dropping files from a snapshot leaves a snapshot (snapshot.ts).
LEMMA OnlyType ==
  ASSUME NEW f \in FileSets, NEW ps PROVE Only(f, ps) \in FileSets
BY DEF Only, FileSets

\* The empty snapshot is one.
LEMMA NoFilesType == NoFiles \in FileSets
BY DEF NoFiles, FileSets

\* hashFiles gives a hash for every file and none for an absent one.
LEMMA HashType ==
  ASSUME NEW f \in FileSets PROVE HashFiles(f) \in Hashes
BY DEF HashFiles, FileSets, Hashes

\* PgSyncBase.capture keeps snapshots.
LEMMA CapturedType ==
  ASSUME NEW kept \in FileSets, NEW ps, NEW h, NEW from \in FileSets
  PROVE  Captured(kept, ps, h, from) \in FileSets
BY DEF Captured, FileSets

\* Merging clean texts gives a text.
LEMMA MergeTextType ==
  ASSUME NEW x \in Contents, NEW y \in Contents, NEW z \in Contents
  PROVE  Merge3Text(x, y, z) \in Contents
BY DEF Merge3Text, Contents

\* keepLocalKeypair gives a file where one of its arguments is one.
LEMMA KeypairType ==
  ASSUME NEW x \in Contents \cup {Absent}, NEW y \in Contents \cup {Absent}
  PROVE  KeepLocalKeypair(x, y) \in Contents \cup {Absent}
BY MergeAssumption DEF KeepLocalKeypair, Contents

\* withLocalKeypair keeps snapshots.
LEMMA WithKeypairType ==
  ASSUME NEW f \in FileSets, NEW g \in FileSets
  PROVE  WithLocalKeypair(f, g) \in FileSets
BY KeypairType DEF WithLocalKeypair, FileSets

\* A merge with its conflicts settled is a snapshot: merge3 runs only where
\* all three texts exist.
LEMMA SettleType ==
  ASSUME NEW h, NEW kept \in FileSets, NEW f \in FileSets, NEW g \in FileSets, NEW pr
  PROVE  SettleConflicts(h, kept, f, g, pr) \in FileSets
<1>1. ASSUME NEW p \in Paths, p \notin Conflicts(h, kept, f, g)
      PROVE  Merged(h, kept, f, g, p) \in Contents \cup {Absent}
  <2>. kept[p] \in Contents \cup {Absent} /\ f[p] \in Contents \cup {Absent}
         /\ g[p] \in Contents \cup {Absent}
    BY DEF FileSets
  <2>. DEFINE m == Merge3Text(kept[p], f[p], g[p])
              k == KeepLocalKeypair(f[p], g[p])
  <2>1. k \in Contents \cup {Absent}
    BY KeypairType
  <2>2. CASE Mergeable(h, kept, f, g, p)
    <3>1. m \in Contents
      BY <2>2, MergeTextType DEF Mergeable
    <3>. HIDE DEF m, k
    <3>. QED BY <3>1, <2>1 DEF Merged, m, k
  <2>3. CASE ~Mergeable(h, kept, f, g, p)
    <3>1. f[p] = g[p] \/ Untouched(h, f, p) \/ Untouched(h, g, p) \/ ~IsUserFile(p)
      BY <1>1, <2>3 DEF Conflicts
    <3>. HIDE DEF m, k
    <3>. QED BY <3>1, <2>1 DEF Merged, k
  <2>. QED BY <2>2, <2>3
<1>2. ASSUME NEW p \in Paths
      PROVE  SettleConflicts(h, kept, f, g, pr)[p] \in Contents \cup {Absent}
  BY <1>1 DEF SettleConflicts, FileSets
<1>. QED BY <1>2 DEF SettleConflicts, FileSets

\* baseAfterMerge gives a snapshot.
LEMMA BaseAfterMergeType ==
  ASSUME NEW f \in FileSets, NEW g \in FileSets
  PROVE  BaseAfterMerge(f, g) \in FileSets
BY DEF BaseAfterMerge, FileSets

\* What a write leaves is a snapshot.
LEMMA FilesAfterType ==
  ASSUME NEW f \in FileSets, NEW b, b.files \in FileSets
  PROVE  FilesAfter(f, b) \in FileSets
BY DEF FilesAfter, FileSets

-----------------------------------------------------------------------------
(* Type correctness: the pieces that several actions share                 *)

\* The first state of every variable has its type (Init).
LEMMA ConstantTypes ==
  /\ NoMark \in Marks /\ NoQuestion \in Questions /\ NoPut \in Puts
  /\ NoReply \in Replies /\ NoRow \in Rows /\ Idle \in Tasks
  /\ NoFiles \in FileSets /\ OneFile \in FileSets
  /\ OneName \in Names /\ Stored \in Rows
<1>1. NoFiles \in FileSets
  BY NoFilesType
<1>2. NoFiles \in Hashes
  BY DEF NoFiles, Hashes
<1>3. NoMark \in Marks /\ NoQuestion \in Questions /\ NoPut \in Puts
        /\ NoReply \in Replies /\ NoRow \in Rows
  BY <1>1, <1>2 DEF NoMark, Marks, NoQuestion, Questions, NoPut, Puts, NoReply, Replies,
                    NoRow, Rows, AnyName, AnyToken
<1>4. Idle \in Tasks
  BY <1>1, <1>3 DEF Idle, Tasks, AnyName
<1>5. Blanks \in Contents
  BY SyncAssumption DEF Blanks, Contents
<1>6. OneFile \in FileSets
  BY <1>5 DEF OneFile, FileSets, NoFiles
<1>7. OneName \in Names
  <2>1. \E n \in Names \ Taken : \A m \in Names : Imported[m] # n
    BY SyncAssumption
  <2>. QED BY <2>1 DEF OneName
<1>8. Stored \in Rows
  BY <1>6, <1>7, SyncAssumption DEF Stored, Rows, AnyName, AnyToken
<1>. QED BY <1>1, <1>3, <1>4, <1>6, <1>7, <1>8

\* The mark made of a row that was read is a mark.
LEMMA AgreedType ==
  ASSUME NEW r \in Rows PROVE Agreed(r) \in Marks
BY HashType DEF Agreed, Rows, Marks, AnyName

\* Flagging changes the flag only.
LEMMA DirtiedType ==
  ASSUME NEW m \in Marks PROVE Dirtied(m) \in Marks
BY DEF Dirtied, Marks

\* flag
LEMMA FlagType ==
  ASSUME TypeOK, NEW d \in Devices, Flag(d)
  PROVE  mark' \in [Devices -> Marks] /\ flagged' \in [Devices -> BOOLEAN]
<1>1. mark \in [Devices -> Marks] /\ flagged \in [Devices -> BOOLEAN]
  BY DEF TypeOK, StoreTypeOK, TabTypeOK
<1>2. Dirtied(mark[d]) \in Marks
  BY <1>1, DirtiedType
<1>. QED BY <1>1, <1>2 DEF Flag

\* schedule
LEMMA ScheduleType ==
  ASSUME TypeOK, NEW d \in Devices, Schedule(d)
  PROVE  /\ mark' \in [Devices -> Marks] /\ flagged' \in [Devices -> BOOLEAN]
         /\ timer' \in [Devices -> BOOLEAN]
BY FlagType DEF Schedule, TypeOK, TabTypeOK

\* The values in a snapshot are values.
LEMMA ValuesType ==
  ASSUME NEW f \in FileSets PROVE Values(f) \subseteq Vals
<1>1. ASSUME NEW p \in Present(f), NEW r \in Regions PROVE f[p][r] \in Vals
  <2>1. f[p] \in Contents
    BY DEF Present, FileSets
  <2>. QED BY <2>1 DEF Contents
<1>. QED BY <1>1 DEF Values

\* What is given up is among the values.
LEMMA GivenUpType ==
  ASSUME TypeOK, NEW vs, vs \subseteq Vals PROVE GivenUp(vs) \subseteq Vals
BY DEF GivenUp, TypeOK

\* deleteWorkspace
LEMMA VanishType ==
  ASSUME TypeOK, NEW d \in Devices, NEW who \in {"no", "user", "sync"}, Vanish(d, who)
  PROVE  /\ here' \in [Devices -> BOOLEAN] /\ wname' \in [Devices -> AnyName]
         /\ disk' \in [Devices -> FileSets] /\ buf' \in [Devices -> FileSets]
         /\ shadow' \in [Devices -> FileSets] /\ typed' \in [Devices -> SUBSET Paths]
         /\ flagged' \in [Devices -> BOOLEAN] /\ timer' \in [Devices -> BOOLEAN]
         /\ deleting' \in [Devices -> {"no", "user", "sync"}]
<1>1. /\ here' = [here EXCEPT ![d] = FALSE] /\ wname' = [wname EXCEPT ![d] = NoName]
      /\ disk' = [disk EXCEPT ![d] = NoFiles] /\ buf' = [buf EXCEPT ![d] = NoFiles]
      /\ shadow' = [shadow EXCEPT ![d] = NoFiles] /\ typed' = [typed EXCEPT ![d] = {}]
      /\ flagged' = [flagged EXCEPT ![d] = FALSE] /\ timer' = [timer EXCEPT ![d] = FALSE]
      /\ deleting' = [deleting EXCEPT ![d] = who]
  BY DEF Vanish
<1>2. StoreTypeOK /\ TabTypeOK
  BY DEF TypeOK
<1>3. /\ disk' \in [Devices -> FileSets] /\ buf' \in [Devices -> FileSets]
      /\ shadow' \in [Devices -> FileSets]
  BY <1>1, <1>2, NoFilesType DEF StoreTypeOK, TabTypeOK
<1>4. here' \in [Devices -> BOOLEAN] /\ wname' \in [Devices -> AnyName]
  BY <1>1, <1>2 DEF StoreTypeOK, AnyName
<1>5. /\ typed' \in [Devices -> SUBSET Paths] /\ flagged' \in [Devices -> BOOLEAN]
      /\ timer' \in [Devices -> BOOLEAN]
  BY <1>1, <1>2 DEF TabTypeOK
<1>6. deleting' \in [Devices -> {"no", "user", "sync"}]
  BY <1>1, <1>2 DEF TabTypeOK
<1>. QED BY <1>3, <1>4, <1>5, <1>6

\* A step of a task that changes its place only.
LEMMA GotoType ==
  ASSUME TypeOK, NEW d \in Devices,
         NEW pc \in {"idle", "listed", "import", "adopt", "merge", "rewrite", "mark",
                     "base", "push", "sent", "accepted", "close", "names"}
  PROVE  /\ [task EXCEPT ![d].pc = pc] \in [Devices -> Tasks]
         /\ [task[d] EXCEPT !.pc = pc] \in Tasks
<1>1. task \in [Devices -> Tasks]
  BY DEF TypeOK, TabTypeOK
<1>2. [task[d] EXCEPT !.pc = pc] \in Tasks
  BY <1>1 DEF Tasks
<1>. QED BY <1>1, <1>2

\* Where a task ends.
LEMMA EndedType ==
  ASSUME TypeOK, NEW d \in Devices, NEW m PROVE Ended(d, m) \in Tasks
<1>1. task[d].listed \in AnyName
  BY DEF TypeOK, TabTypeOK, Tasks
<1>2. [Idle EXCEPT !.pc = "names", !.listed = task[d].listed] \in Tasks
  BY <1>1, ConstantTypes DEF Tasks
<1>. QED BY <1>2, ConstantTypes DEF Ended

\* Where a merge begins.
LEMMA MergingType ==
  ASSUME TypeOK, NEW d \in Devices, NEW by \in {"none", "editor", "pass", "answer"}
  PROVE  Merging(d, by) \in Tasks
<1>1. task[d].listed \in AnyName
  BY DEF TypeOK, TabTypeOK, Tasks
<1>. QED BY <1>1, ConstantTypes DEF Merging, Tasks

\* The body of a PUT (PgProjectSync._push).
LEMMA BodyType ==
  ASSUME TypeOK, NEW d \in Devices, NEW f \in FileSets PROVE Body(d, f) \in Puts
<1>1. mark[d] \in Marks /\ wname[d] \in AnyName
  BY DEF TypeOK, StoreTypeOK
<1>2. StoredName(d) \in AnyName /\ mark[d].token \in AnyToken
  BY <1>1 DEF StoredName, Marks
<1>3. Only(f, Patch(d, f).changed) \in FileSets
  BY OnlyType
<1>4. Patch(d, f).removed \subseteq Paths
  BY <1>1 DEF Patch, DiffFiles, Present, Marks, Hashes
<1>. HIDE DEF StoredName, Patch
<1>. QED BY <1>2, <1>3, <1>4 DEF Body, Puts, AnyToken

\* _push up to the request.
LEMMA PushType ==
  ASSUME TypeOK, NEW d \in Devices, NEW f \in FileSets, NEW t \in Tasks,
         NEW skipped \in Tasks, NEW asked, Push(d, f, t, skipped, asked)
  PROVE  /\ base' \in [Devices -> FileSets] /\ put' \in [Devices -> Puts]
         /\ task' \in [Devices -> Tasks]
<1>1. base \in [Devices -> FileSets] /\ put \in [Devices -> Puts]
        /\ task \in [Devices -> Tasks] /\ shadow[d] \in FileSets
  BY DEF TypeOK, StoreTypeOK, TabTypeOK
<1>2. Captured(base[d], Patch(d, f).changed, mark[d].files, shadow[d]) \in FileSets
  BY <1>1, CapturedType
<1>3. base' \in [Devices -> FileSets]
  BY <1>1, <1>2 DEF Push
<1>4. [t EXCEPT !.pc = "sent", !.want = f] \in Tasks
  BY DEF Tasks
<1>5. Body(d, f) \in Puts
  BY BodyType
<1>. QED BY <1>1, <1>3, <1>4, <1>5 DEF Push

-----------------------------------------------------------------------------
(* Type correctness: the steps                                             *)

\* reloadCurrentFromDisk leaves snapshots in the editor and in the shadow.
LEMMA ReloadType ==
  ASSUME TypeOK, NEW d \in Devices, Reload(d)
  PROVE  /\ buf' \in [Devices -> FileSets] /\ shadow' \in [Devices -> FileSets]
         /\ flagged' \in [Devices -> BOOLEAN]
<1>. /\ buf \in [Devices -> FileSets] /\ shadow \in [Devices -> FileSets]
     /\ disk \in [Devices -> FileSets] /\ flagged \in [Devices -> BOOLEAN]
  BY DEF TypeOK, StoreTypeOK, TabTypeOK
<1>1. [p \in Paths |-> IF p \in typed[d] THEN buf[d][p] ELSE disk[d][p]] \in FileSets
  BY DEF FileSets
<1>. QED BY <1>1 DEF Reload

\* What the user does, and the effect that notices.
LEMMA UserTypes ==
  ASSUME TypeOK, NEW d \in Devices, UserStep(d) \/ \E p \in Paths : Autosave(d, p)
  PROVE  TypeOK'
<1>. USE SyncAssumption
<1>1. ASSUME NEW p \in Paths, NEW r \in Regions, Type(d, p, r) PROVE TypeOK'
  <2>1. edits' \in Vals /\ edits' \in 0 .. MaxEdits
    BY <1>1 DEF Type, TypeOK
  <2>2. buf[d] \in FileSets /\ buf[d][p] \in Contents /\ buf[d][p][r] \in Vals
    BY <1>1 DEF Type, TypeOK, TabTypeOK, FileSets, Contents
  <2>3. [buf[d][p] EXCEPT ![r] = edits'] \in Contents
    BY <2>1, <2>2 DEF Contents
  <2>4. [buf[d] EXCEPT ![p][r] = edits'] \in FileSets
    BY <2>2, <2>3 DEF FileSets
  <2>5. buf' \in [Devices -> FileSets]
    BY <1>1, <2>4 DEF Type, TypeOK, TabTypeOK
  <2>6. saw' \in [Vals -> SUBSET Vals]
    BY <1>1, <2>1, <2>2 DEF Type, TypeOK
  <2>. QED BY <1>1, <2>1, <2>5, <2>6 DEF Type, TypeOK, StoreTypeOK, TabTypeOK,
          storeVars, editorVars, effectVars, netVars, bounds, history
<1>2. ASSUME NEW p \in Paths, Autosave(d, p) PROVE TypeOK'
  <2>1. buf[d] \in FileSets /\ disk[d] \in FileSets
    BY DEF TypeOK, StoreTypeOK, TabTypeOK
  <2>2. [disk[d] EXCEPT ![p] = buf[d][p]] \in FileSets
    BY <2>1 DEF FileSets
  <2>3. disk' \in [Devices -> FileSets]
    BY <1>2, <2>2 DEF Autosave, TypeOK, StoreTypeOK
  <2>4. Values(Only(buf[d], {p})) \subseteq Vals
    BY <2>1, OnlyType, ValuesType
  <2>5. mark' \in [Devices -> Marks] /\ flagged' \in [Devices -> BOOLEAN]
          /\ timer' \in [Devices -> BOOLEAN]
    BY <1>2, ScheduleType DEF Autosave
  <2>. QED BY <1>2, <2>3, <2>4, <2>5 DEF Autosave, TypeOK, StoreTypeOK, TabTypeOK,
          storeVars, editorVars, effectVars, netVars, bounds, history
<1>3. ASSUME NEW p \in Paths, CreateFile(d, p) PROVE TypeOK'
  <2>1. edits' \in Vals /\ edits' \in 0 .. MaxEdits
    BY <1>3 DEF CreateFile, TypeOK
  <2>. DEFINE text == [r \in Regions |-> edits']
  <2>2. text \in Contents
    BY <2>1 DEF Contents
  <2>3. disk' = [disk EXCEPT ![d][p] = text] /\ buf' = [buf EXCEPT ![d][p] = text]
    BY <1>3 DEF CreateFile
  <2>. HIDE DEF text
  <2>4. disk' \in [Devices -> FileSets] /\ buf' \in [Devices -> FileSets]
    BY <2>2, <2>3 DEF TypeOK, StoreTypeOK, TabTypeOK, FileSets
  <2>5. mark' \in [Devices -> Marks] /\ flagged' \in [Devices -> BOOLEAN]
          /\ timer' \in [Devices -> BOOLEAN]
    BY <1>3, ScheduleType DEF CreateFile
  <2>. QED BY <1>3, <2>1, <2>4, <2>5 DEF CreateFile, TypeOK, StoreTypeOK, TabTypeOK,
          storeVars, editorVars, effectVars, netVars, bounds, history
<1>4. ASSUME NEW p \in Paths, DeleteFile(d, p) PROVE TypeOK'
  <2>1. disk[d] \in FileSets /\ buf[d] \in FileSets
    BY DEF TypeOK, StoreTypeOK, TabTypeOK
  <2>2. gone' \subseteq Vals
    BY <1>4, <2>1, OnlyType, ValuesType, GivenUpType DEF DeleteFile
  <2>3. disk' \in [Devices -> FileSets] /\ buf' \in [Devices -> FileSets]
    BY <1>4 DEF DeleteFile, TypeOK, StoreTypeOK, TabTypeOK, FileSets
  <2>4. mark' \in [Devices -> Marks] /\ flagged' \in [Devices -> BOOLEAN]
          /\ timer' \in [Devices -> BOOLEAN]
    BY <1>4, ScheduleType DEF DeleteFile
  <2>. QED BY <1>4, <2>2, <2>3, <2>4 DEF DeleteFile, UserChange, TypeOK, StoreTypeOK, TabTypeOK,
          storeVars, editorVars, effectVars, netVars, bounds, history
<1>5. ASSUME NEW n \in Names, RenameWorkspace(d, n) PROVE TypeOK'
  <2>1. mark' \in [Devices -> Marks] /\ flagged' \in [Devices -> BOOLEAN]
          /\ timer' \in [Devices -> BOOLEAN]
    BY <1>5, ScheduleType DEF RenameWorkspace
  <2>2. wname' \in [Devices -> AnyName]
    BY <1>5 DEF RenameWorkspace, TypeOK, StoreTypeOK, AnyName
  <2>. QED BY <1>5, <2>1, <2>2 DEF RenameWorkspace, UserChange, TypeOK, StoreTypeOK, TabTypeOK,
          storeVars, editorVars, effectVars, netVars, bounds, history
<1>6. CASE ReleaseName(d)
  BY <1>6 DEF ReleaseName, UserChange, TypeOK, StoreTypeOK, TabTypeOK,
          storeVars, editorVars, effectVars, netVars, bounds, history
<1>7. CASE DeleteWorkspace(d)
  <2>1. disk[d] \in FileSets /\ buf[d] \in FileSets
    BY DEF TypeOK, StoreTypeOK, TabTypeOK
  <2>2. gone' \subseteq Vals
    BY <1>7, <2>1, ValuesType, GivenUpType DEF DeleteWorkspace
  <2>. QED BY <1>7, <2>2, VanishType DEF DeleteWorkspace, UserChange, TypeOK, StoreTypeOK, TabTypeOK,
          storeVars, editorVars, effectVars, netVars, bounds, history
<1>8. CASE StartTutorial(d)
  <2>1. wname' \in [Devices -> AnyName] /\ disk' \in [Devices -> FileSets]
          /\ buf' \in [Devices -> FileSets] /\ shadow' \in [Devices -> FileSets]
    BY <1>8, ConstantTypes DEF StartTutorial, TypeOK, StoreTypeOK, TabTypeOK, AnyName
  <2>. QED BY <1>8, <2>1 DEF StartTutorial, UserChange, TypeOK, StoreTypeOK, TabTypeOK,
          storeVars, editorVars, effectVars, netVars, bounds, history
<1>. QED BY <1>1, <1>2, <1>3, <1>4, <1>5, <1>6, <1>7, <1>8 DEF UserStep

\* What the account does to its row.
LEMMA RowTypes ==
  ASSUME TypeOK
  PROVE  /\ \A b \in Puts : Accepts(b) /\ SaveBody(b) =>
              row' \in Rows /\ DOMAIN rev' \subseteq Tokens /\ rev' \in [DOMAIN rev' -> Revs]
         /\ Delete => row' \in Rows
         /\ EnsureParent(NextToken) =>
              row' \in Rows /\ DOMAIN rev' \subseteq Tokens /\ rev' \in [DOMAIN rev' -> Revs]
<1>. row \in Rows /\ DOMAIN rev \subseteq Tokens /\ rev \in [DOMAIN rev -> Revs]
  BY DEF TypeOK
<1>1. ASSUME NEW t \in Tokens, NEW b \in AnyToken, row' \in Rows, Record(t, row', b)
      PROVE  DOMAIN rev' \subseteq Tokens /\ rev' \in [DOMAIN rev' -> Revs]
  <2>1. [files |-> row'.files, name |-> row'.name, base |-> b] \in Revs
    BY <1>1 DEF Rows, Revs
  <2>. QED BY <1>1, <2>1 DEF Record
<1>2. ASSUME NEW b \in Puts, Accepts(b), SaveBody(b)
      PROVE  row' \in Rows /\ DOMAIN rev' \subseteq Tokens /\ rev' \in [DOMAIN rev' -> Revs]
  <2>1. NextToken \in Tokens
    BY <1>2 DEF Accepts
  <2>2. FilesAfter(row.files, b) \in FileSets
    BY FilesAfterType DEF Rows, Puts
  <2>3. row' \in Rows
    BY <1>2, <2>1, <2>2 DEF SaveBody, Written, Rows, Puts, AnyToken
  <2>. QED BY <1>1, <1>2, <2>1, <2>3 DEF SaveBody, Puts
<1>3. Delete => row' \in Rows
  BY NoFilesType DEF Delete, Rows
<1>4. ASSUME EnsureParent(NextToken)
      PROVE  row' \in Rows /\ DOMAIN rev' \subseteq Tokens /\ rev' \in [DOMAIN rev' -> Revs]
  <2>1. NextToken \in Tokens /\ row' \in Rows
    BY <1>4, NoFilesType DEF EnsureParent, Rows, AnyName, AnyToken
  <2>. QED BY <1>1, <1>4, <2>1 DEF EnsureParent, AnyToken
<1>. QED BY <1>2, <1>3, <1>4

\* Requests and their answers, deletes, and the tab's end.
LEMMA NetTypes ==
  ASSUME TypeOK, NEW d \in Devices,
         \/ SettleLocalDeletes(d) \/ PushCurrent(d) \/ Serve(d) \/ Timeout(d)
         \/ Crash(d)
  PROVE  TypeOK'
<1>1. CASE SettleLocalDeletes(d)
  <2>1. row' \in Rows /\ rev' = rev
    BY <1>1, RowTypes DEF SettleLocalDeletes, Delete, TypeOK
  <2>2. gone' \subseteq Vals
    <3>1. row.files \in FileSets
      BY DEF TypeOK, Rows
    <3>. QED BY <1>1, <3>1, ValuesType, GivenUpType DEF SettleLocalDeletes, Discarded, TypeOK
  <2>3. mark' \in [Devices -> Marks]
    BY <1>1, ConstantTypes DEF SettleLocalDeletes, TypeOK, StoreTypeOK
  <2>. QED BY <1>1, <2>1, <2>2, <2>3 DEF SettleLocalDeletes, TypeOK, StoreTypeOK, TabTypeOK,
          storeVars, editorVars, effectVars, netVars, bounds, history
<1>2. CASE PushCurrent(d)
  <2>1. disk[d] \in FileSets
    BY DEF TypeOK, StoreTypeOK
  <2>2. [Idle EXCEPT !.job = "push", !.by = "editor"] \in Tasks
    BY ConstantTypes DEF Tasks
  <2>3. /\ base' \in [Devices -> FileSets] /\ put' \in [Devices -> Puts]
        /\ task' \in [Devices -> Tasks]
    BY <1>2, <2>1, <2>2, PushType, ConstantTypes DEF PushCurrent
  <2>. QED BY <1>2, <2>3 DEF PushCurrent, TypeOK, StoreTypeOK, TabTypeOK,
          storeVars, editorVars, effectVars, netVars, bounds, history
<1>3. CASE Serve(d)
  <2>1. put[d] \in Puts
    BY DEF TypeOK
  <2>2. /\ row' \in Rows /\ DOMAIN rev' \subseteq Tokens /\ rev' \in [DOMAIN rev' -> Revs]
    <3>1. CASE Accepts(put[d]) /\ SaveBody(put[d])
      BY <2>1, <3>1, RowTypes
    <3>2. CASE UNCHANGED <<row, rev>>
      BY <3>2 DEF TypeOK
    <3>. QED BY <1>3, <3>1, <3>2 DEF Serve
  <2>3. reply' \in [Devices -> Replies]
    <3>. reply \in [Devices -> Replies]
      BY DEF TypeOK
    <3>1. CASE Accepts(put[d]) /\ reply' = [reply EXCEPT ![d] = [kind |-> "ok", token |-> NextToken]]
      BY <3>1 DEF Accepts, Replies, AnyToken
    <3>2. ASSUME NEW kind \in Refusals(put[d]),
                 reply' = [reply EXCEPT ![d] = [kind |-> kind, token |-> NoToken]]
          PROVE  reply' \in [Devices -> Replies]
      BY <3>2 DEF Refusals, Replies, AnyToken
    <3>. QED BY <1>3, <3>1, <3>2 DEF Serve
  <2>. QED BY <1>3, <2>2, <2>3, ConstantTypes DEF Serve, TypeOK, StoreTypeOK, TabTypeOK,
          storeVars, editorVars, effectVars, netVars, bounds, history
<1>4. CASE Timeout(d)
  <2>1. AfterPush(d) \in Tasks
    BY EndedType, GotoType DEF AfterPush
  <2>2. task[d].prev \in Questions
    BY DEF TypeOK, TabTypeOK, Tasks
  <2>. QED BY <1>4, <2>1, <2>2, ConstantTypes DEF Timeout, TypeOK, StoreTypeOK, TabTypeOK,
          storeVars, editorVars, effectVars, netVars, bounds, history
<1>5. CASE Crash(d)
  BY <1>5, ConstantTypes DEF Crash, TypeOK, StoreTypeOK, TabTypeOK,
          storeVars, editorVars, effectVars, netVars, bounds, history
<1>. QED BY <1>1, <1>2, <1>3, <1>4, <1>5

\* What reaches the account without a device that waits for it.
LEMMA AccountTypes ==
  ASSUME TypeOK, ChatTurn \/ \E b \in late : ServeLate(b)
  PROVE  TypeOK'
<1>1. CASE ChatTurn
  BY <1>1, RowTypes DEF ChatTurn, UserChange, TypeOK, StoreTypeOK, TabTypeOK,
          storeVars, editorVars, effectVars, netVars, bounds, history
<1>2. ASSUME NEW b \in late, ServeLate(b) PROVE TypeOK'
  <2>1. b \in Puts
    BY DEF TypeOK
  <2>2. /\ row' \in Rows /\ DOMAIN rev' \subseteq Tokens /\ rev' \in [DOMAIN rev' -> Revs]
    <3>1. CASE Accepts(b)
      BY <1>2, <2>1, <3>1, RowTypes DEF ServeLate
    <3>2. CASE ~Accepts(b)
      BY <1>2, <3>2 DEF ServeLate, TypeOK
    <3>. QED BY <3>1, <3>2
  <2>. QED BY <1>2, <2>2 DEF ServeLate, TypeOK, StoreTypeOK, TabTypeOK,
          storeVars, editorVars, effectVars, netVars, bounds, history
<1>. QED BY <1>1, <1>2

\* _push, from the answer on.
LEMMA AnswerTypes ==
  ASSUME TypeOK, NEW d \in Devices,
         \/ AcceptMark(d) \/ AcceptBase(d) \/ SwapMissed(d)
         \/ Refused(d, "deleted", "deleted-elsewhere") \/ Refused(d, "name-taken", "name-taken")
  PROVE  TypeOK'
<1>. task \in [Devices -> Tasks] /\ mark \in [Devices -> Marks] /\ task[d] \in Tasks
     /\ question \in [Devices -> Questions]
  BY DEF TypeOK, StoreTypeOK, TabTypeOK
<1>1. CASE AcceptMark(d)
  <2>1. HashFiles(task[d].want) \in Hashes
    BY HashType DEF Tasks
  <2>2. StoredName(d) \in AnyName /\ wname[d] \in AnyName /\ reply[d].token \in AnyToken
    BY DEF StoredName, Marks, TypeOK, StoreTypeOK, Replies
  <2>3. mark' \in [Devices -> Marks]
    <3>. DEFINE m == [files |-> HashFiles(task[d].want), name |-> StoredName(d),
                      localName |-> IF mark[d].localName = wname[d] THEN wname[d] ELSE NoName,
                      token |-> reply[d].token, dirty |-> FALSE]
    <3>1. m \in Marks
      BY <2>1, <2>2 DEF Marks, AnyName
    <3>2. mark' = [mark EXCEPT ![d] = m]
      BY <1>1 DEF AcceptMark
    <3>. HIDE DEF m
    <3>. QED BY <3>1, <3>2
  <2>4. task' \in [Devices -> Tasks]
    BY <1>1, GotoType DEF AcceptMark, Goto
  <2>. QED BY <1>1, <2>3, <2>4, ConstantTypes DEF AcceptMark, TypeOK, StoreTypeOK, TabTypeOK,
          storeVars, editorVars, effectVars, netVars, bounds, history
<1>2. CASE AcceptBase(d)
  <2>1. task[d].want \in FileSets /\ Ended(d, mark[d]) \in Tasks
    BY EndedType DEF Tasks
  <2>2. task' \in [Devices -> Tasks]
    <3>1. CASE task' = [task EXCEPT ![d].pc = "close"]
      BY <3>1, GotoType
    <3>2. CASE task' = [task EXCEPT ![d] = Ended(d, mark[d])]
      BY <2>1, <3>2
    <3>. QED BY <1>2, <3>1, <3>2 DEF AcceptBase, Goto
  <2>3. flagged' \in [Devices -> BOOLEAN]
    BY <1>2 DEF AcceptBase, TypeOK, TabTypeOK
  <2>. QED BY <1>2, <2>1, <2>2, <2>3, ConstantTypes DEF AcceptBase, TypeOK, StoreTypeOK, TabTypeOK,
          storeVars, editorVars, effectVars, netVars, bounds, history
<1>3. CASE SwapMissed(d)
  <2>1. question' \in [Devices -> Questions]
    BY <1>3, ConstantTypes DEF SwapMissed, Raise, Questions
  <2>9. /\ buf' \in [Devices -> FileSets] /\ shadow' \in [Devices -> FileSets]
        /\ flagged' \in [Devices -> BOOLEAN]
    BY <1>3, ReloadType DEF SwapMissed, TypeOK, TabTypeOK
  <2>2. CASE task' = [task EXCEPT ![d] = [Merging(d, @.by) EXCEPT !.refused = TRUE]]
    <3>1. Merging(d, task[d].by) \in Tasks
      BY MergingType DEF Tasks
    <3>2. [Merging(d, task[d].by) EXCEPT !.refused = TRUE] \in Tasks
      BY <3>1 DEF Tasks
    <3>. QED BY <1>3, <2>1, <2>9, <2>2, <3>2, ConstantTypes DEF SwapMissed, TypeOK, StoreTypeOK, TabTypeOK,
          storeVars, editorVars, effectVars, netVars, bounds, history
  <2>3. CASE task' = [task EXCEPT ![d].pc = "merge", ![d].tries = @ + 1, ![d].carried = TRUE]
    <3>. DEFINE k == task[d].tries + 1
                t == [task[d] EXCEPT !.pc = "merge", !.tries = k, !.carried = TRUE]
    <3>1. k \in Nat
      BY DEF Tasks
    <3>2. task' = [task EXCEPT ![d] = t]
      BY <2>3
    <3>. HIDE DEF k
    <3>3. t \in Tasks
      BY <3>1 DEF Tasks
    <3>. HIDE DEF t
    <3>4. task' \in [Devices -> Tasks]
      BY <3>2, <3>3
    <3>. QED BY <1>3, <2>1, <2>9, <3>4, ConstantTypes DEF SwapMissed, TypeOK, StoreTypeOK, TabTypeOK,
          storeVars, editorVars, effectVars, netVars, bounds, history
  <2>4. CASE Goto(d, "close")
    <3>1. task' \in [Devices -> Tasks]
      BY <2>4, GotoType DEF Goto
    <3>. QED BY <1>3, <2>1, <2>9, <3>1, ConstantTypes DEF SwapMissed, TypeOK, StoreTypeOK, TabTypeOK,
          storeVars, editorVars, effectVars, netVars, bounds, history
  <2>. QED BY <1>3, <2>2, <2>3, <2>4 DEF SwapMissed
<1>4. ASSUME NEW kind, NEW asks \in {"deleted-elsewhere", "name-taken"}, Refused(d, kind, asks)
      PROVE  TypeOK'
  <2>1. AfterPush(d) \in Tasks
    BY EndedType, GotoType DEF AfterPush
  <2>2. question' \in [Devices -> Questions]
    BY <1>4 DEF Refused, Raise, Questions
  <2>. QED BY <1>4, <2>1, <2>2, ConstantTypes DEF Refused, TypeOK, StoreTypeOK, TabTypeOK,
          storeVars, editorVars, effectVars, netVars, bounds, history
<1>. QED BY <1>1, <1>2, <1>3, <1>4

\* mergeWithServer, up to what it will write.
LEMMA MergeTypes ==
  ASSUME TypeOK, NEW d \in Devices,
         MergeGone(d) \/ MergeFailed(d) \/ MergeAsks(d) \/ MergePlans(d)
  PROVE  TypeOK'
<1>. /\ task \in [Devices -> Tasks] /\ task[d] \in Tasks /\ disk[d] \in FileSets
     /\ base \in [Devices -> FileSets] /\ shadow[d] \in FileSets
     /\ question \in [Devices -> Questions] /\ row \in Rows /\ row.files \in FileSets
  BY DEF TypeOK, StoreTypeOK, TabTypeOK, Rows
<1>1. Local(d) \in FileSets /\ MergeBase(d) \in FileSets
  BY CapturedType DEF Local, MergeBase, Tasks
<1>2. Result(d) \in FileSets
  BY <1>1, SettleType DEF Result
<1>3. Unsettled(d) \subseteq Paths
  BY DEF Unsettled, Conflicts
<1>4. CASE MergeGone(d)
  <2>1. question' \in [Devices -> Questions]
    BY <1>4 DEF MergeGone, Raise, Questions
  <2>. QED BY <1>4, <2>1, GotoType DEF MergeGone, Goto, TypeOK, StoreTypeOK, TabTypeOK,
          storeVars, editorVars, effectVars, netVars, bounds, history
<1>5. CASE MergeFailed(d)
  <2>1. question' \in [Devices -> Questions]
    BY <1>5 DEF MergeFailed, Raise, Questions
  <2>. QED BY <1>5, <2>1, GotoType DEF MergeFailed, Goto, TypeOK, StoreTypeOK, TabTypeOK,
          storeVars, editorVars, effectVars, netVars, bounds, history
<1>6. CASE MergeAsks(d)
  <2>1. question' \in [Devices -> Questions]
    BY <1>3, <1>6 DEF MergeAsks, Raise, Questions
  <2>. QED BY <1>1, <1>6, <2>1, GotoType DEF MergeAsks, Goto, TypeOK, StoreTypeOK, TabTypeOK,
          storeVars, editorVars, effectVars, netVars, bounds, history
<1>7. CASE MergePlans(d)
  <2>. DEFINE t == [task[d] EXCEPT !.pc = "rewrite", !.got = row, !.want = Result(d),
                      !.first = IF task[d].tries = 0 THEN disk[d] ELSE @,
                      !.write = Result(d) # Local(d)]
  <2>1. t \in Tasks
    BY <1>2, ZenonT(30) DEF Tasks
  <2>2. task' = [task EXCEPT ![d] = t]
    BY <1>7 DEF MergePlans
  <2>. HIDE DEF t
  <2>3. task' \in [Devices -> Tasks]
    BY <2>1, <2>2
  <2>4. Only(Refusable(d), Unsettled(d)) \in FileSets
    BY <1>1, OnlyType DEF Refusable
  <2>5. gone' \subseteq Vals
    BY <1>7, <2>4, ValuesType, GivenUpType DEF MergePlans
  <2>. QED BY <1>1, <1>7, <2>3, <2>5 DEF MergePlans, TypeOK, StoreTypeOK, TabTypeOK,
          storeVars, editorVars, effectVars, netVars, bounds, history
<1>. QED BY <1>4, <1>5, <1>6, <1>7

\* A rewrite announces itself, or leaves mark and timer alone.
LEMMA AnnounceType ==
  ASSUME TypeOK, NEW d \in Devices, NEW f, Announce(d, f)
  PROVE  /\ mark' \in [Devices -> Marks] /\ flagged' \in [Devices -> BOOLEAN]
         /\ timer' \in [Devices -> BOOLEAN]
<1>1. CASE Schedule(d)
  BY <1>1, ScheduleType
<1>2. CASE UNCHANGED <<mark, flagged, timer>>
  BY <1>2 DEF TypeOK, StoreTypeOK, TabTypeOK
<1>. QED BY <1>1, <1>2 DEF Announce

\* freeName gives a name.
LEMMA FreeNameType ==
  ASSUME TypeOK, NEW d \in Devices, NEW n \in AnyName PROVE FreeName(d, n) \in AnyName
<1>1. other[d] \in Names \cup {NoName}
  BY DEF TypeOK, StoreTypeOK
<1>. QED BY <1>1, SyncAssumption DEF FreeName, Held, AnyName

\* What _catchUp leaves in the editor and in the store.
LEMMA CaughtUpType ==
  ASSUME TypeOK, NEW d \in Devices
  PROVE  CaughtUp(d) \in FileSets /\ DiskAfter(d) \in FileSets
<1>. task[d].first \in FileSets /\ task[d].want \in FileSets /\ buf[d] \in FileSets
     /\ disk[d] \in FileSets
  BY DEF TypeOK, StoreTypeOK, TabTypeOK, Tasks
<1>1. ASSUME NEW x \in Contents \cup {Absent}, NEW y \in Contents \cup {Absent},
             NEW z \in Contents \cup {Absent}
      PROVE  Folded(x, y, z) \in Contents \cup {Absent}
  BY MergeTextType DEF Folded
<1>2. CaughtUp(d) \in FileSets
  BY <1>1 DEF CaughtUp, FileSets
<1>3. ASSUME NEW f \in FileSets PROVE [p \in Paths |-> IF Touched(d, p) THEN f[p] ELSE disk[d][p]] \in FileSets
  BY DEF FileSets
<1>. QED BY <1>2, <1>3 DEF DiskAfter

\* The writes of an adoption or a merge, and its end.
LEMMA RewriteTypes ==
  ASSUME TypeOK, NEW d \in Devices,
         \/ Rewrite(d) \/ RewriteFails(d) \/ Remark(d) \/ Rebase(d) \/ MergePush(d)
         \/ Close(d)
  PROVE  TypeOK'
<1>. /\ task \in [Devices -> Tasks] /\ task[d] \in Tasks /\ disk \in [Devices -> FileSets]
     /\ base \in [Devices -> FileSets] /\ wname \in [Devices -> AnyName]
     /\ mark \in [Devices -> Marks] /\ question \in [Devices -> Questions]
  BY DEF TypeOK, StoreTypeOK, TabTypeOK
<1>. task[d].want \in FileSets /\ task[d].got \in Rows
  BY DEF Tasks
<1>. task[d].got.name \in AnyName /\ task[d].got.files \in FileSets
  BY DEF Rows
<1>1. NameAfter(d) \in AnyName
  BY FreeNameType DEF NameAfter
<1>2. CASE Rewrite(d)
  <2>1. wname' \in [Devices -> AnyName] /\ disk' \in [Devices -> FileSets]
    BY <1>1, <1>2 DEF Rewrite
  <2>2. /\ mark' \in [Devices -> Marks] /\ flagged' \in [Devices -> BOOLEAN]
        /\ timer' \in [Devices -> BOOLEAN]
    BY <1>2, AnnounceType DEF Rewrite
  <2>. DEFINE w == task[d].wrote \/ task[d].write
              a == /\ wname'[d] # task[d].got.name
                   /\ task[d].job = "adopt" \/ Takes(d) \/ StandsIn(d)
              t == [task[d] EXCEPT !.pc = "mark", !.wrote = w, !.alias = a]
  <2>3. task' = [task EXCEPT ![d] = t]
    BY <1>2 DEF Rewrite
  <2>4. w \in BOOLEAN /\ a \in BOOLEAN
    OBVIOUS
  <2>. HIDE DEF w, a
  <2>5. t \in Tasks
    BY <2>4 DEF Tasks
  <2>. HIDE DEF t
  <2>6. task' \in [Devices -> Tasks]
    BY <2>3, <2>5
  <2>. QED BY <1>2, <2>1, <2>2, <2>6 DEF Rewrite, TypeOK, StoreTypeOK, TabTypeOK,
          storeVars, editorVars, effectVars, netVars, bounds, history
<1>3. CASE RewriteFails(d)
  <2>1. wname' \in [Devices -> AnyName]
    BY <1>1, <1>3 DEF RewriteFails
  <2>2. disk' \in [Devices -> FileSets]
    BY <1>3, OnlyType DEF RewriteFails
  <2>3. /\ mark' \in [Devices -> Marks] /\ flagged' \in [Devices -> BOOLEAN]
        /\ timer' \in [Devices -> BOOLEAN]
    BY <1>3, AnnounceType DEF RewriteFails
  <2>4. task' \in [Devices -> Tasks]
    BY <1>3, EndedType DEF RewriteFails
  <2>. QED BY <1>3, <2>1, <2>2, <2>3, <2>4, ConstantTypes DEF RewriteFails, TypeOK, StoreTypeOK, TabTypeOK,
          storeVars, editorVars, effectVars, netVars, bounds, history
<1>4. CASE Remark(d)
  <2>. DEFINE m == [Agreed(task[d].got) EXCEPT
                      !.localName = IF task[d].alias THEN wname[d] ELSE NoName,
                      !.dirty = Owes(d)]
  <2>1. Agreed(task[d].got) \in Marks /\ Owes(d) \in BOOLEAN
    BY AgreedType DEF Owes
  <2>2. m \in Marks
    BY <2>1 DEF Marks, AnyName
  <2>3. mark' = [mark EXCEPT ![d] = m]
    BY <1>4 DEF Remark
  <2>. HIDE DEF m
  <2>4. mark' \in [Devices -> Marks]
    BY <2>2, <2>3
  <2>. QED BY <1>4, <2>4, GotoType DEF Remark, Goto, TypeOK, StoreTypeOK, TabTypeOK,
          storeVars, editorVars, effectVars, netVars, bounds, history
<1>5. CASE Rebase(d)
  <2>1. base' \in [Devices -> FileSets]
    BY <1>5, NoFilesType, BaseAfterMergeType DEF Rebase
  <2>2. question' \in [Devices -> Questions]
    BY <1>5, ConstantTypes DEF Rebase
  <2>3. task' \in [Devices -> Tasks]
    <3>1. CASE task' = [task EXCEPT ![d].pc = "push"]
      BY <3>1, GotoType
    <3>2. CASE task' = [task EXCEPT ![d].pc = "close"]
      BY <3>2, GotoType
    <3>3. CASE task' = [task EXCEPT ![d] = Ended(d, mark[d])]
      BY <3>3, EndedType
    <3>. QED BY <1>5, <3>1, <3>2, <3>3 DEF Rebase, Goto
  <2>. QED BY <1>5, <2>1, <2>2, <2>3 DEF Rebase, TypeOK, StoreTypeOK, TabTypeOK,
          storeVars, editorVars, effectVars, netVars, bounds, history
<1>6. CASE MergePush(d)
  <2>1. /\ base' \in [Devices -> FileSets] /\ put' \in [Devices -> Puts]
        /\ task' \in [Devices -> Tasks]
    BY <1>6, PushType, GotoType DEF MergePush
  <2>. QED BY <1>6, <2>1 DEF MergePush, TypeOK, StoreTypeOK, TabTypeOK,
          storeVars, editorVars, effectVars, netVars, bounds, history
<1>7. CASE Close(d)
  <2>1. task' \in [Devices -> Tasks]
    BY <1>7, EndedType DEF Close
  <2>2. CASE task[d].wrote
    <3>1. DiskAfter(d) \in FileSets
      BY CaughtUpType
    <3>2. Captured(base[d], Owed(d), mark[d].files, task[d].want) \in FileSets
      BY CapturedType
    <3>3. Dirtied(mark[d]) \in Marks
      BY DirtiedType
    <3>4. gone' \subseteq Vals
      <4>1. Overlapped(d) \subseteq Vals
        BY DEF Overlapped
      <4>. QED BY <1>7, <2>2, <4>1, GivenUpType DEF Close
    <3>5. mark' \in [Devices -> Marks] /\ base' \in [Devices -> FileSets]
      BY <1>7, <2>2, <3>2, <3>3 DEF Close
    <3>6. /\ disk' \in [Devices -> FileSets] /\ buf' \in [Devices -> FileSets]
          /\ shadow' \in [Devices -> FileSets]
      BY <1>7, <2>2, <3>1 DEF Close, TypeOK, StoreTypeOK, TabTypeOK
    <3>7. typed' \in [Devices -> SUBSET Paths] /\ flagged' \in [Devices -> BOOLEAN]
      BY <1>7, <2>2 DEF Close, TypeOK, TabTypeOK
    <3>. QED BY <1>7, <2>1, <2>2, <3>4, <3>5, <3>6, <3>7 DEF Close, TypeOK, StoreTypeOK, TabTypeOK,
          storeVars, editorVars, effectVars, netVars, bounds, history
  <2>3. CASE ~task[d].wrote
    <3>1. flagged' \in [Devices -> BOOLEAN]
      BY <1>7, <2>3 DEF Close, TypeOK, TabTypeOK
    <3>. QED BY <1>7, <2>1, <2>3, <3>1 DEF Close, TypeOK, StoreTypeOK, TabTypeOK,
          storeVars, editorVars, effectVars, netVars, bounds, history
  <2>. QED BY <2>2, <2>3
<1>. QED BY <1>2, <1>3, <1>4, <1>5, <1>6, <1>7

\* reconcile.
LEMMA PassTypes ==
  ASSUME TypeOK, NEW d \in Devices,
         \/ Reconcile(d) \/ ListFails(d) \/ PassSkips(d) \/ PassTakes(d) \/ PassPushes(d)
         \/ PassDiverged(d) \/ SettleDelete(d) \/ Import(d) \/ Adopt(d) \/ SettleNames(d)
  PROVE  TypeOK'
<1>. /\ task \in [Devices -> Tasks] /\ task[d] \in Tasks /\ row \in Rows
     /\ disk \in [Devices -> FileSets] /\ mark \in [Devices -> Marks]
     /\ wname \in [Devices -> AnyName] /\ question \in [Devices -> Questions]
  BY DEF TypeOK, StoreTypeOK, TabTypeOK
<1>. row.files \in FileSets /\ row.name \in AnyName /\ task[d].got.name \in AnyName
  BY DEF Rows, Tasks
<1>1. CASE Reconcile(d)
  <2>1. [Idle EXCEPT !.pc = "listed", !.by = "pass", !.got = row, !.listed = row.name] \in Tasks
    BY ConstantTypes, ZenonT(30) DEF Tasks
  <2>2. /\ buf' \in [Devices -> FileSets] /\ shadow' \in [Devices -> FileSets]
        /\ flagged' \in [Devices -> BOOLEAN]
    BY <1>1, ReloadType DEF Reconcile
  <2>. QED BY <1>1, <2>1, <2>2 DEF Reconcile, TypeOK, StoreTypeOK, TabTypeOK,
          storeVars, editorVars, effectVars, netVars, bounds, history
<1>2. CASE ListFails(d)
  BY <1>2 DEF ListFails, TypeOK, StoreTypeOK, TabTypeOK,
          storeVars, editorVars, effectVars, netVars, bounds, history
<1>3. CASE PassSkips(d)
  BY <1>3, EndedType DEF PassSkips, TypeOK, StoreTypeOK, TabTypeOK,
          storeVars, editorVars, effectVars, netVars, bounds, history
<1>4. CASE PassTakes(d)
  <2>1. task' \in [Devices -> Tasks]
    <3>1. CASE Goto(d, "import")
      BY <3>1, GotoType DEF Goto
    <3>2. CASE Goto(d, "adopt")
      BY <3>2, GotoType DEF Goto
    <3>. QED BY <1>4, <3>1, <3>2 DEF PassTakes
  <2>2. /\ buf' \in [Devices -> FileSets] /\ shadow' \in [Devices -> FileSets]
        /\ flagged' \in [Devices -> BOOLEAN]
    BY <1>4, ReloadType DEF PassTakes, TypeOK, TabTypeOK
  <2>. QED BY <1>4, <2>1, <2>2 DEF PassTakes, TypeOK, StoreTypeOK, TabTypeOK,
          storeVars, editorVars, effectVars, netVars, bounds, history
<1>5. PassPush(d) \in Tasks /\ Ended(d, mark[d]) \in Tasks /\ disk[d] \in FileSets
  BY ConstantTypes, EndedType, ZenonT(30) DEF PassPush, Tasks
<1>6. CASE PassPushes(d)
  <2>1. /\ base' \in [Devices -> FileSets] /\ put' \in [Devices -> Puts]
        /\ task' \in [Devices -> Tasks]
    BY <1>5, <1>6, PushType DEF PassPushes
  <2>. QED BY <1>6, <2>1 DEF PassPushes, TypeOK, StoreTypeOK, TabTypeOK,
          storeVars, editorVars, effectVars, netVars, bounds, history
<1>7. CASE PassDiverged(d)
  <2>1. /\ base' \in [Devices -> FileSets] /\ put' \in [Devices -> Puts]
        /\ task' \in [Devices -> Tasks]
    <3>1. CASE task' = [task EXCEPT ![d] = Merging(d, "pass")] /\ UNCHANGED <<base, put>>
      BY <3>1, MergingType DEF TypeOK, StoreTypeOK
    <3>2. CASE Push(d, disk[d], PassPush(d), Ended(d, mark[d]), question[d])
      BY <1>5, <3>2, PushType
    <3>. QED BY <1>7, <3>1, <3>2 DEF PassDiverged
  <2>2. /\ buf' \in [Devices -> FileSets] /\ shadow' \in [Devices -> FileSets]
        /\ flagged' \in [Devices -> BOOLEAN]
    BY <1>7, ReloadType DEF PassDiverged, TypeOK, TabTypeOK
  <2>. QED BY <1>7, <2>1, <2>2 DEF PassDiverged, TypeOK, StoreTypeOK, TabTypeOK,
          storeVars, editorVars, effectVars, netVars, bounds, history
<1>8. CASE SettleDelete(d)
  <2>1. CASE mark' = [mark EXCEPT ![d] = NoMark]
             /\ UNCHANGED <<here, wname, disk, editorVars, flagged, timer, deleting, question>>
    BY <1>8, <2>1, ConstantTypes DEF SettleDelete, TypeOK, StoreTypeOK, TabTypeOK,
          storeVars, editorVars, effectVars, netVars, bounds, history
  <2>2. CASE Vanish(d, "sync") /\ Unmark(d) /\ UNCHANGED question
    BY <1>8, <2>2, VanishType, ConstantTypes DEF SettleDelete, Unmark, TypeOK, StoreTypeOK, TabTypeOK,
          storeVars, editorVars, effectVars, netVars, bounds, history
  <2>3. CASE Raise(d, "deleted-elsewhere", Paths)
             /\ UNCHANGED <<here, wname, disk, mark, editorVars, flagged, timer, deleting>>
    <3>1. question' \in [Devices -> Questions]
      BY <2>3 DEF Raise, Questions
    <3>. QED BY <1>8, <2>3, <3>1, ConstantTypes DEF SettleDelete, TypeOK, StoreTypeOK, TabTypeOK,
          storeVars, editorVars, effectVars, netVars, bounds, history
  <2>. QED BY <1>8, <2>1, <2>2, <2>3 DEF SettleDelete
<1>9. CASE Import(d)
  <2>1. CASE task' = [task EXCEPT ![d] = Idle] /\ UNCHANGED <<here, wname, disk, buf, shadow>>
    BY <1>9, <2>1, ConstantTypes DEF Import, TypeOK, StoreTypeOK, TabTypeOK,
          storeVars, editorVars, effectVars, netVars, bounds, history
  <2>2. CASE /\ here' = [here EXCEPT ![d] = TRUE]
             /\ wname' = [wname EXCEPT ![d] = FreeName(d, task[d].got.name)]
             /\ disk' = [disk EXCEPT ![d] = row.files]
             /\ buf' = [buf EXCEPT ![d] = row.files]
             /\ shadow' = [shadow EXCEPT ![d] = row.files]
             /\ task' = [task EXCEPT ![d].pc = "mark", ![d].job = "import",
                                     ![d].got = [row EXCEPT !.name = task[d].got.name],
                                     ![d].alias = wname'[d] # task[d].got.name]
    <3>. DEFINE g == [row EXCEPT !.name = task[d].got.name]
                a == wname'[d] # task[d].got.name
                t == [task[d] EXCEPT !.pc = "mark", !.job = "import", !.got = g, !.alias = a]
    <3>1. g \in Rows /\ a \in BOOLEAN
      BY DEF Rows
    <3>2. task' = [task EXCEPT ![d] = t]
      BY <2>2
    <3>. HIDE DEF g, a
    <3>3. t \in Tasks
      BY <3>1 DEF Tasks
    <3>. HIDE DEF t
    <3>4. task' \in [Devices -> Tasks]
      BY <3>2, <3>3
    <3>5. wname' \in [Devices -> AnyName]
      BY <2>2, FreeNameType
    <3>6. /\ here' \in [Devices -> BOOLEAN] /\ disk' \in [Devices -> FileSets]
          /\ buf' \in [Devices -> FileSets] /\ shadow' \in [Devices -> FileSets]
      BY <2>2 DEF TypeOK, StoreTypeOK, TabTypeOK
    <3>. QED BY <1>9, <3>4, <3>5, <3>6 DEF Import, TypeOK, StoreTypeOK, TabTypeOK,
          storeVars, editorVars, effectVars, netVars, bounds, history
  <2>. QED BY <1>9, <2>1, <2>2 DEF Import
<1>10. CASE Adopt(d)
  <2>. DEFINE w == WithLocalKeypair(row.files, disk[d])
              t == [task[d] EXCEPT !.pc = "rewrite", !.job = "adopt", !.got = row,
                                   !.first = disk[d], !.write = TRUE, !.want = w]
  <2>1. w \in FileSets
    BY WithKeypairType
  <2>2. task' = [task EXCEPT ![d] = t] \/ task' = [task EXCEPT ![d] = Ended(d, mark[d])]
    BY <1>10 DEF Adopt
  <2>. HIDE DEF w
  <2>3. t \in Tasks
    BY <2>1 DEF Tasks
  <2>. HIDE DEF t
  <2>4. task' \in [Devices -> Tasks]
    BY <1>5, <2>2, <2>3
  <2>. QED BY <1>10, <2>4 DEF Adopt, TypeOK, StoreTypeOK, TabTypeOK,
          storeVars, editorVars, effectVars, netVars, bounds, history
<1>11. CASE SettleNames(d)
  <2>1. [mark[d] EXCEPT !.localName = NoName] \in Marks /\ mark[d].name \in AnyName
    BY DEF Marks, AnyName
  <2>2. mark' \in [Devices -> Marks]
    BY <1>11, <2>1 DEF SettleNames
  <2>3. wname' \in [Devices -> AnyName]
    BY <1>11, <2>1 DEF SettleNames
  <2>4. flagged' \in [Devices -> BOOLEAN] /\ timer' \in [Devices -> BOOLEAN]
    BY <1>11 DEF SettleNames, TypeOK, TabTypeOK
  <2>. QED BY <1>11, <2>2, <2>3, <2>4, ConstantTypes DEF SettleNames, TypeOK, StoreTypeOK, TabTypeOK,
          storeVars, editorVars, effectVars, netVars, bounds, history
<1>. QED BY <1>1, <1>2, <1>3, <1>4, <1>6, <1>7, <1>8, <1>9, <1>10, <1>11

\* resolve.
LEMMA ResolveTypes ==
  ASSUME TypeOK, NEW d \in Devices, Resolve(d)
  PROVE  TypeOK'
<1>. /\ task \in [Devices -> Tasks] /\ disk[d] \in FileSets /\ buf[d] \in FileSets
     /\ question \in [Devices -> Questions]
  BY DEF TypeOK, StoreTypeOK, TabTypeOK
<1>1. ASSUME NEW side \in {"local", "server"}, ResolveSide(d, side) PROVE TypeOK'
  <2>1. Merging(d, "answer") \in Tasks /\ question[d].paths \subseteq Paths
    BY MergingType DEF Questions
  <2>2. [Merging(d, "answer") EXCEPT !.prefer = side, !.asked = question[d].paths] \in Tasks
    BY <2>1 DEF Tasks
  <2>3. /\ buf' \in [Devices -> FileSets] /\ shadow' \in [Devices -> FileSets]
        /\ flagged' \in [Devices -> BOOLEAN]
    BY <1>1, ReloadType DEF ResolveSide
  <2>. QED BY <1>1, <2>2, <2>3 DEF ResolveSide, TypeOK, StoreTypeOK, TabTypeOK,
          storeVars, editorVars, effectVars, netVars, bounds, history
<1>2. Values(disk[d]) \cup Values(buf[d]) \subseteq Vals
  BY ValuesType
<1>3. CASE ResolveDelete(d)
  <2>1. gone' \subseteq Vals
    BY <1>2, <1>3, GivenUpType DEF ResolveDelete
  <2>2. mark' \in [Devices -> Marks]
    BY <1>3, ConstantTypes DEF ResolveDelete, Unmark, TypeOK, StoreTypeOK
  <2>. QED BY <1>3, <2>1, <2>2, VanishType, ConstantTypes DEF ResolveDelete, TypeOK, StoreTypeOK, TabTypeOK,
          storeVars, editorVars, effectVars, netVars, bounds, history
<1>4. CASE ResolveKeep(d)
  <2>1. gone' \subseteq Vals
    BY <1>2, <1>4, GivenUpType DEF ResolveKeep
  <2>. QED BY <1>4, <2>1, VanishType, ConstantTypes DEF ResolveKeep, TypeOK, StoreTypeOK, TabTypeOK,
          storeVars, editorVars, effectVars, netVars, bounds, history
<1>5. CASE ResolveRetry(d)
  <2>1. [Idle EXCEPT !.job = "push", !.by = "answer", !.prev = question[d]] \in Tasks
    BY ConstantTypes DEF Tasks
  <2>2. /\ base' \in [Devices -> FileSets] /\ put' \in [Devices -> Puts]
        /\ task' \in [Devices -> Tasks]
    BY <1>5, <2>1, PushType, ConstantTypes DEF ResolveRetry
  <2>3. question' \in [Devices -> Questions]
    BY <1>5, ConstantTypes DEF ResolveRetry
  <2>. QED BY <1>5, <2>2, <2>3 DEF ResolveRetry, TypeOK, StoreTypeOK, TabTypeOK,
          storeVars, editorVars, effectVars, netVars, bounds, history
<1>. QED BY <1>1, <1>3, <1>4, <1>5 DEF Resolve

\* Every step keeps the types.
LEMMA NextTypes == TypeOK /\ [Next]_vars => TypeOK'
<1>. SUFFICES ASSUME TypeOK, [Next]_vars PROVE TypeOK'
  OBVIOUS
<1>1. ASSUME NEW d \in Devices, TaskStep(d) PROVE TypeOK'
  BY <1>1, AnswerTypes, MergeTypes, RewriteTypes, PassTypes DEF TaskStep
<1>2. CASE Next
  BY <1>1, <1>2, UserTypes, NetTypes, AccountTypes, RewriteTypes, PassTypes, ResolveTypes
     DEF Next
<1>3. CASE UNCHANGED vars
  BY <1>3 DEF vars, TypeOK, StoreTypeOK, TabTypeOK,
          storeVars, editorVars, effectVars, netVars, bounds, history
<1>. QED BY <1>2, <1>3

\* The initial states have their types.
LEMMA InitTypes == Init => TypeOK
<1>. SUFFICES ASSUME Init PROVE TypeOK
  OBVIOUS
<1>. USE ConstantTypes
<1>1. PICK start \in Starts, d0 \in Devices :
        /\ here = [d \in Devices |-> start # "fresh" \/ d = d0]
        /\ row = IF start = "synced" THEN Stored ELSE NoRow
        /\ rev = IF start = "synced"
                   THEN [t \in {1} |-> [files |-> OneFile, name |-> OneName, base |-> NoToken]]
                   ELSE << >>
        /\ mark = [d \in Devices |-> IF start = "synced" THEN Agreed(Stored) ELSE NoMark]
  BY DEF Init
<1>2. row \in Rows
  BY <1>1
<1>3. DOMAIN rev \subseteq Tokens /\ rev \in [DOMAIN rev -> Revs]
  <2>1. [files |-> OneFile, name |-> OneName, base |-> NoToken] \in Revs
    BY DEF Revs, AnyName, AnyToken
  <2>2. CASE start = "synced"
    BY <1>1, <2>1, <2>2, SyncAssumption
  <2>3. CASE start # "synced"
    BY <1>1, <2>3
  <2>. QED BY <2>2, <2>3
<1>4. StoreTypeOK
  <2>1. mark \in [Devices -> Marks]
    BY <1>1, AgreedType
  <2>2. here \in [Devices -> BOOLEAN]
    BY <1>1
  <2>. QED BY <2>1, <2>2, SyncAssumption DEF Init, StoreTypeOK, AnyName
<1>5. TabTypeOK
  BY <1>4 DEF Init, TabTypeOK, StoreTypeOK
<1>. QED BY <1>2, <1>3, <1>4, <1>5, SyncAssumption DEF Init, TypeOK

\* Every variable of the sync client keeps its type, whatever users, devices,
\* network and account do.
THEOREM SyncTypes == Spec => []TypeOK
BY InitTypes, NextTypes, PTL DEF Spec

-----------------------------------------------------------------------------
(* Marks and patches describe the revision they name                       *)

\* Revisions are never rewritten.
RevsKept == DOMAIN rev \subseteq DOMAIN rev' /\ \A t \in DOMAIN rev : rev'[t] = rev[t]

\* Equal hashes mean equal files.
LEMMA HashInjective ==
  ASSUME NEW f \in FileSets, NEW g \in FileSets, NEW p \in Paths
  PROVE  /\ HashFiles(f)[p] = HashFiles(g)[p] <=> f[p] = g[p]
         /\ HashFiles(f)[p] = Absent <=> f[p] = Absent
BY FilesAssumption DEF HashFiles, FileSets, Sha256

\* diffFiles and the account's patch are inverse: the patch from one file set
\* to another, applied to the first, gives the second.
LEMMA PatchExact ==
  ASSUME NEW f \in FileSets, NEW g \in FileSets, NEW b,
         b.whole = FALSE,
         b.files = Only(g, DiffFiles(HashFiles(f), HashFiles(g)).changed),
         b.removed = DiffFiles(HashFiles(f), HashFiles(g)).removed
  PROVE  FilesAfter(f, b) = g
<1>. DEFINE df == DiffFiles(HashFiles(f), HashFiles(g))
<1>1. ASSUME NEW p \in Paths
      PROVE  /\ p \in df.changed <=> g[p] # Absent /\ g[p] # f[p]
             /\ p \in df.removed <=> f[p] # Absent /\ g[p] = Absent
  <2>1. p \in df.changed <=> HashFiles(g)[p] # Absent /\ HashFiles(g)[p] # HashFiles(f)[p]
    BY DEF DiffFiles, Present, HashFiles
  <2>2. p \in df.removed <=> HashFiles(f)[p] # Absent /\ HashFiles(g)[p] = Absent
    BY DEF DiffFiles, Present, HashFiles
  <2>. QED BY <2>1, <2>2, HashInjective
<1>. HIDE DEF df
<1>2. ASSUME NEW p \in Paths PROVE FilesAfter(f, b)[p] = g[p]
  BY <1>1 DEF FilesAfter, Only, df
<1>. QED BY <1>2 DEF FilesAfter, FileSets

\* The body that _push makes of an honest mark is honest.
LEMMA BodyHonest ==
  ASSUME TypeOK, NEW d \in Devices, HonestMark(d), NEW f \in FileSets
  PROVE  \/ Body(d, f).base = NoToken /\ Body(d, f).whole /\ Body(d, f).files = f
         \/ /\ Body(d, f).base \in DOMAIN rev
            /\ FilesAfter(rev[Body(d, f).base].files, Body(d, f)) = f
<1>1. CASE mark[d] = NoMark
  BY <1>1 DEF Body
<1>2. CASE mark[d] # NoMark
  <2>1. mark[d].token \in DOMAIN rev /\ mark[d].files = HashFiles(rev[mark[d].token].files)
    BY <1>2 DEF HonestMark
  <2>2. rev[mark[d].token].files \in FileSets
    BY <2>1 DEF TypeOK, Revs
  <2>3. /\ Body(d, f).base = mark[d].token /\ Body(d, f).whole = FALSE
        /\ Body(d, f).files = Only(f, Patch(d, f).changed)
        /\ Body(d, f).removed = Patch(d, f).removed
    BY <1>2 DEF Body
  <2>4. Patch(d, f) = DiffFiles(HashFiles(rev[mark[d].token].files), HashFiles(f))
    BY <2>1 DEF Patch
  <2>5. FilesAfter(rev[mark[d].token].files, Body(d, f)) = f
    BY <2>2, <2>3, <2>4, PatchExact
  <2>. QED BY <2>1, <2>3, <2>5
<1>. QED BY <1>1, <1>2

\* What a step did not touch stays honest, because revisions are kept.
MarkStays(d) ==
  \/ mark'[d] = NoMark
  \/ mark'[d] = mark[d]
  \/ /\ mark[d] # NoMark
     /\ mark'[d].files = mark[d].files /\ mark'[d].token = mark[d].token

\* An honest mark stays honest where only its flag changes, or it goes.
LEMMA MarkStaysHonest ==
  ASSUME NEW d \in Devices, RevsKept, HonestMark(d), MarkStays(d) PROVE HonestMark(d)'
BY DEF RevsKept, HonestMark, MarkStays

Same(d) == put'[d] = put[d] /\ reply'[d] = reply[d] /\ task'[d] = task[d]

\* A device whose mark, request and task stay is as honest as before, whatever
\* revisions the account adds.
LEMMA SameHonest ==
  ASSUME NEW d \in Devices, RevsKept, HonestDevice(d), MarkStays(d), Same(d)
  PROVE  HonestDevice(d)'
<1>1. HonestMark(d)'
  BY MarkStaysHonest DEF HonestDevice
<1>2. HonestPut(d)'
  BY DEF HonestDevice, HonestPut, Same, RevsKept
<1>3. HonestTask(d)'
  BY DEF HonestDevice, HonestTask, Same, RevsKept, Exact, At
<1>. QED BY <1>1, <1>2, <1>3 DEF HonestDevice

\* A task without a request is honest if what it read is.
LEMMA QuietHonest ==
  ASSUME NEW d \in Devices, HonestMark(d)', put'[d] = NoPut, reply'[d] = NoReply,
         task'[d].pc \in {"rewrite", "mark"} => Exact(task[d].got.token, task[d].got.files)'
  PROVE  HonestDevice(d)'
BY DEF HonestDevice, HonestPut, HonestTask, NoReply

\* _push up to the request.
LEMMA PushHonest ==
  ASSUME TypeOK, NEW d \in Devices, HonestDevice(d), ~At(d, "sent"),
         NEW f \in FileSets, NEW t \in Tasks, NEW skipped \in Tasks, NEW asked,
         skipped.pc \notin {"rewrite", "mark"},
         Push(d, f, t, skipped, asked), mark' = mark, reply' = reply, rev' = rev
  PROVE  HonestDevice(d)'
<1>1. put[d] = NoPut /\ reply[d] = NoReply /\ HonestMark(d)'
  BY DEF HonestDevice, HonestTask, HonestMark
<1>. task \in [Devices -> Tasks] /\ put \in [Devices -> Puts]
  BY DEF TypeOK, TabTypeOK
<1>2. CASE task' = [task EXCEPT ![d] = skipped] /\ put' = put
  <2>1. task'[d] = skipped
    BY <1>2
  <2>. QED BY <1>1, <1>2, <2>1, QuietHonest
<1>3. CASE /\ put' = [put EXCEPT ![d] = Body(d, f)]
           /\ task' = [task EXCEPT ![d] = [t EXCEPT !.pc = "sent", !.want = f]]
  <2>1. put'[d] = Body(d, f) /\ task'[d].pc = "sent" /\ task'[d].want = f
    BY <1>3 DEF Tasks
  <2>2. HonestPut(d)'
    BY <2>1, BodyHonest DEF HonestPut, HonestDevice
  <2>3. HonestTask(d)'
    BY <1>1, <2>1 DEF HonestTask, At, NoReply
  <2>. QED BY <1>1, <2>2, <2>3 DEF HonestDevice
<1>. QED BY <1>2, <1>3 DEF Push

\* The other devices see nothing of a step.
Frame(d) == \A e \in Devices \ {d} : mark'[e] = mark[e] /\ Same(e)

\* A step of one device leaves what the others hold honest.
LEMMA FrameHonest ==
  ASSUME NEW d \in Devices, RevsKept, \A e \in Devices : HonestDevice(e), Frame(d),
         HonestDevice(d)'
  PROVE  \A e \in Devices : HonestDevice(e)'
BY SameHonest DEF Frame, MarkStays

\* A write of the account adds one revision, under a new token, and the row is it.
LEMMA RecordHonest ==
  ASSUME TypeOK, RevsNumbered, NEW b, Record(NextToken, row', b), row'.token = NextToken
  PROVE  RevsKept /\ RevsNumbered' /\ RowHonest' /\ Exact(row.token, row.files)'
<1>. DEFINE n == Cardinality(DOMAIN rev)
<1>1. n \in Nat
  BY FS_CardinalityType DEF RevsNumbered
<1>2. NextToken = n + 1 /\ NextToken \notin DOMAIN rev
  BY <1>1 DEF NextToken, RevsNumbered
<1>3. DOMAIN rev' = DOMAIN rev \cup {NextToken} /\ rev'[NextToken].files = row'.files
        /\ \A t \in DOMAIN rev : rev'[t] = rev[t]
  BY <1>2 DEF Record
<1>4. IsFiniteSet(DOMAIN rev') /\ Cardinality(DOMAIN rev') = n + 1
  BY <1>2, <1>3, FS_AddElement DEF RevsNumbered
<1>5. DOMAIN rev' = 1 .. (n + 1)
  BY <1>1, <1>2, <1>3 DEF RevsNumbered
<1>. QED BY <1>3, <1>4, <1>5 DEF RevsKept, RevsNumbered, RowHonest, Exact

\* Types that the steps below use.
Shapes == /\ task \in [Devices -> Tasks] /\ mark \in [Devices -> Marks]
          /\ put \in [Devices -> Puts] /\ reply \in [Devices -> Replies]

\* The type invariant gives the shapes that the steps below rely on.
LEMMA ShapesHold == TypeOK => Shapes
BY DEF TypeOK, StoreTypeOK, TabTypeOK, Shapes

\* flag leaves what a mark says about files alone.
LEMMA FlagStays ==
  ASSUME Shapes, NEW d \in Devices, Flag(d)
  PROVE  MarkStays(d) /\ \A e \in Devices \ {d} : mark'[e] = mark[e]
BY DEF Shapes, Flag, Dirtied, Marks, MarkStays

\* The user, the effect and the answers that only delete: no request is made
\* or answered, and marks are flagged or removed.
LEMMA UserHonest ==
  ASSUME TypeOK, Honest, NEW d \in Devices,
         \/ UserStep(d) \/ \E p \in Paths : Autosave(d, p)
         \/ SettleLocalDeletes(d) \/ ListFails(d) \/ ResolveDelete(d) \/ ResolveKeep(d)
  PROVE  Honest'
<1>. Shapes
  BY ShapesHold
<1>1. SUFFICES RowHonest' /\ rev' = rev /\ MarkStays(d)
               /\ (\A e \in Devices \ {d} : mark'[e] = mark[e])
               /\ task' = task /\ put' = put /\ reply' = reply
  <2>1. RevsKept /\ RevsNumbered'
    BY <1>1 DEF RevsKept, Honest, RevsNumbered
  <2>2. HonestDevice(d)'
    BY <1>1, <2>1, SameHonest DEF Honest, Same
  <2>. QED BY <1>1, <2>1, <2>2, FrameHonest DEF Honest, Frame, Same
<1>. RowHonest
  BY DEF Honest
<1>2. CASE SettleLocalDeletes(d)
  <2>1. MarkStays(d) /\ \A e \in Devices \ {d} : mark'[e] = mark[e]
    BY <1>2 DEF SettleLocalDeletes, Shapes, MarkStays
  <2>2. RowHonest' /\ rev' = rev
    BY <1>2 DEF SettleLocalDeletes, Delete, RowHonest, Exact, TypeOK, Rows
  <2>. QED BY <1>2, <2>1, <2>2 DEF SettleLocalDeletes, netVars
<1>3. ASSUME NEW p \in Paths, NEW r \in Regions, Type(d, p, r)
      PROVE  row' = row /\ rev' = rev /\ mark' = mark /\ UNCHANGED <<task, netVars>>
  BY <1>3 DEF Type, storeVars
<1>4. ASSUME \/ \E p \in Paths : Autosave(d, p) \/ CreateFile(d, p) \/ DeleteFile(d, p)
             \/ \E n \in Names : RenameWorkspace(d, n)
      PROVE  row' = row /\ rev' = rev /\ Flag(d) /\ UNCHANGED <<task, netVars>>
  BY <1>4 DEF Autosave, CreateFile, DeleteFile, RenameWorkspace, Schedule
<1>5. CASE ReleaseName(d) \/ DeleteWorkspace(d) \/ StartTutorial(d) \/ ListFails(d)
  <2>1. row' = row /\ rev' = rev /\ mark' = mark /\ UNCHANGED <<task, netVars>>
    BY <1>5 DEF ReleaseName, DeleteWorkspace, StartTutorial, ListFails, storeVars
  <2>. QED BY <2>1 DEF RowHonest, Exact, MarkStays, netVars
<1>6. CASE ResolveKeep(d) \/ ResolveDelete(d)
  <2>1. MarkStays(d) /\ \A e \in Devices \ {d} : mark'[e] = mark[e]
    BY <1>6 DEF ResolveKeep, ResolveDelete, Unmark, Shapes, MarkStays
  <2>. QED BY <1>6, <2>1 DEF ResolveKeep, ResolveDelete, netVars, RowHonest, Exact
<1>7. CASE \E p \in Paths, r \in Regions : Type(d, p, r)
  BY <1>3, <1>7 DEF RowHonest, Exact, MarkStays, netVars
<1>8. CASE \/ \E p \in Paths : Autosave(d, p) \/ CreateFile(d, p) \/ DeleteFile(d, p)
           \/ \E n \in Names : RenameWorkspace(d, n)
  BY <1>4, <1>8, FlagStays DEF RowHonest, Exact, netVars
<1>. QED BY <1>2, <1>5, <1>6, <1>7, <1>8 DEF UserStep

\* When nothing reaches the account and only d's part changes, d's part is all
\* there is to show.
LEMMA LocalHonest ==
  ASSUME Honest, NEW d \in Devices, UNCHANGED <<row, rev>>, Frame(d),
         RevsKept => HonestDevice(d)'
  PROVE  Honest'
<1>1. RevsKept /\ RevsNumbered' /\ RowHonest'
  BY DEF Honest, RevsKept, RevsNumbered, RowHonest, Exact
<1>. QED BY <1>1, FrameHonest DEF Honest

\* An upload that is accepted leaves the copy that was sent.
LEMMA ServeWhole ==
  ASSUME TypeOK, Honest, NEW d \in Devices, put[d] # NoPut, Accepts(put[d]), SaveBody(put[d])
  PROVE  row'.state = "live" /\ row'.token = NextToken /\ row'.files = task[d].want
<1>1. put[d] \in Puts
  BY DEF TypeOK
<1>2. /\ row' = Written(row, put[d], NextToken)
      /\ row'.files = FilesAfter(row.files, put[d])
  BY DEF SaveBody, Written
<1>3. Lands(row, put[d].base) /\ HonestPut(d) /\ RowHonest
  BY DEF Accepts, Honest, HonestDevice
<1>4. CASE put[d].base = NoToken /\ put[d].whole /\ put[d].files = task[d].want
  <2>1. task[d].want \in FileSets
    BY DEF TypeOK, TabTypeOK, Tasks
  <2>2. FilesAfter(row.files, put[d]) = task[d].want
    BY <1>4, <2>1 DEF FilesAfter, FileSets
  <2>. QED BY <1>2, <2>2 DEF Written
<1>5. CASE /\ put[d].base \in DOMAIN rev
           /\ FilesAfter(rev[put[d].base].files, put[d]) = task[d].want
  <2>1. put[d].base # NoToken
    BY <1>5, RowAssumption DEF TypeOK
  <2>2. row.files = rev[put[d].base].files
    BY <1>3, <2>1 DEF Lands, RowHonest, Exact
  <2>. QED BY <1>2, <1>5, <2>2 DEF Written
<1>. QED BY <1>3, <1>4, <1>5 DEF HonestPut

\* A task that ends has nothing read.
LEMMA EndQuiet ==
  ASSUME TypeOK, NEW d \in Devices
  PROVE  /\ \A m : Ended(d, m).pc \in {"idle", "names"}
         /\ AfterPush(d).pc \in {"idle", "names", "close"}
<1>1. ASSUME NEW m PROVE Ended(d, m).pc \in {"idle", "names"}
  <2>1. Idle.pc = "idle"
    BY DEF Idle
  <2>2. [Idle EXCEPT !.pc = "names", !.listed = task[d].listed].pc = "names"
    BY DEF Idle
  <2>. QED BY <2>1, <2>2 DEF Ended
<1>2. [task[d] EXCEPT !.pc = "close"].pc = "close"
  BY DEF TypeOK, TabTypeOK, Tasks
<1>. QED BY <1>1, <1>2 DEF AfterPush

\* Requests, their answers, and the tab's end.
LEMMA NetHonest ==
  ASSUME TypeOK, Honest, NEW d \in Devices,
         PushCurrent(d) \/ Serve(d) \/ Timeout(d) \/ Crash(d)
  PROVE  Honest'
<1>. Shapes /\ HonestDevice(d)
  BY ShapesHold DEF Honest
<1>1. CASE PushCurrent(d)
  <2>1. disk[d] \in FileSets /\ [Idle EXCEPT !.job = "push", !.by = "editor"] \in Tasks
    BY ConstantTypes DEF Tasks, TypeOK, StoreTypeOK
  <2>2. ~At(d, "sent") /\ Idle.pc = "idle"
    BY <1>1 DEF PushCurrent, IsIdle, At, Idle
  <2>3. HonestDevice(d)'
    BY <1>1, <2>1, <2>2, ConstantTypes, PushHonest DEF PushCurrent
  <2>4. Frame(d) /\ UNCHANGED <<row, rev>>
    BY <1>1 DEF PushCurrent, Push, Frame, Same, Shapes
  <2>. QED BY <2>3, <2>4, LocalHonest
<1>2. CASE Serve(d)
  <2>1. put'[d] = NoPut /\ task' = task /\ mark' = mark
    BY <1>2 DEF Serve, Shapes, storeVars
  <2>2. Frame(d)
    BY <1>2 DEF Serve, Frame, Same, Shapes, storeVars
  <2>3. put[d] # NoPut /\ At(d, "sent")
    BY <1>2 DEF Serve, HonestDevice, HonestTask
  <2>4. CASE Accepts(put[d]) /\ SaveBody(put[d])
             /\ reply' = [reply EXCEPT ![d] = [kind |-> "ok", token |-> NextToken]]
    <3>1. row'.token = NextToken /\ row'.files = task[d].want
      BY <2>3, <2>4, ServeWhole
    <3>2. RevsKept /\ RevsNumbered' /\ RowHonest' /\ Exact(row.token, row.files)'
      BY <2>4, <3>1, RecordHonest DEF SaveBody, Honest
    <3>3. reply'[d] = [kind |-> "ok", token |-> NextToken]
      BY <2>4 DEF Shapes
    <3>4. HonestTask(d)'
      BY <2>1, <2>3, <3>1, <3>2, <3>3 DEF HonestTask, At, Exact
    <3>5. HonestMark(d)' /\ HonestPut(d)'
      BY <2>1, <3>2, MarkStaysHonest DEF HonestDevice, MarkStays, HonestPut
    <3>. QED BY <2>2, <3>2, <3>4, <3>5, FrameHonest DEF Honest, HonestDevice
  <2>5. ASSUME NEW kind \in Refusals(put[d]), UNCHANGED <<row, rev>>,
               reply' = [reply EXCEPT ![d] = [kind |-> kind, token |-> NoToken]]
        PROVE  Honest'
    <3>1. reply'[d].kind # "ok"
      BY <2>5 DEF Refusals, Shapes
    <3>2. HonestTask(d)'
      BY <2>1, <2>3, <3>1 DEF HonestTask, At
    <3>3. HonestMark(d)' /\ HonestPut(d)'
      BY <2>1, <2>5 DEF HonestDevice, HonestMark, HonestPut
    <3>. QED BY <2>2, <2>5, <3>2, <3>3, LocalHonest DEF HonestDevice
  <2>. QED BY <1>2, <2>4, <2>5 DEF Serve
<1>3. CASE Timeout(d)
  <2>1. AfterPush(d).pc \notin {"rewrite", "mark"}
    BY EndQuiet
  <2>2. put'[d] = NoPut /\ reply'[d] = NoReply /\ task'[d] = AfterPush(d) /\ mark' = mark
    BY <1>3 DEF Timeout, Shapes, storeVars
  <2>3. Frame(d) /\ UNCHANGED <<row, rev>>
    BY <1>3 DEF Timeout, Frame, Same, Shapes, storeVars
  <2>4. RevsKept => HonestDevice(d)'
    BY <2>1, <2>2, QuietHonest, MarkStaysHonest DEF HonestDevice, MarkStays
  <2>. QED BY <2>3, <2>4, LocalHonest
<1>4. CASE Crash(d)
  <2>1. put'[d] = NoPut /\ reply'[d] = NoReply /\ task'[d] = Idle /\ mark' = mark
    BY <1>4 DEF Crash, Shapes, storeVars
  <2>2. Frame(d) /\ UNCHANGED <<row, rev>>
    BY <1>4 DEF Crash, Frame, Same, Shapes, storeVars
  <2>3. RevsKept => HonestDevice(d)'
    BY <2>1, QuietHonest, MarkStaysHonest DEF HonestDevice, MarkStays, Idle
  <2>. QED BY <2>2, <2>3, LocalHonest
<1>. QED BY <1>1, <1>2, <1>3, <1>4

\* What reaches the account without a device that waits for it.
LEMMA AccountHonest ==
  ASSUME TypeOK, Honest, ChatTurn \/ \E b \in late : ServeLate(b)
  PROVE  Honest'
<1>1. /\ mark' = mark /\ task' = task /\ put' = put /\ reply' = reply
  BY DEF ChatTurn, ServeLate, storeVars, netVars
<1>2. SUFFICES RevsKept /\ RevsNumbered' /\ RowHonest'
  BY <1>1, SameHonest DEF Honest, MarkStays, Same
<1>3. CASE ChatTurn
  <2>1. Record(NextToken, row', NoToken) /\ row'.token = NextToken
    BY <1>3 DEF ChatTurn, EnsureParent
  <2>. QED BY <2>1, RecordHonest DEF Honest
<1>4. ASSUME NEW b \in late, ServeLate(b) PROVE RevsKept /\ RevsNumbered' /\ RowHonest'
  <2>1. CASE SaveBody(b)
    <3>1. row'.token = NextToken /\ Record(NextToken, row', b.base)
      BY <2>1 DEF SaveBody, Written
    <3>. QED BY <3>1, RecordHonest DEF Honest
  <2>2. CASE UNCHANGED <<row, rev>>
    BY <2>2 DEF Honest, RevsKept, RevsNumbered, RowHonest, Exact
  <2>. QED BY <1>4, <2>1, <2>2 DEF ServeLate
<1>. QED BY <1>3, <1>4

\* _push, from the answer on.
LEMMA AnswerHonest ==
  ASSUME TypeOK, Honest, NEW d \in Devices,
         \/ AcceptMark(d) \/ AcceptBase(d) \/ SwapMissed(d)
         \/ Refused(d, "deleted", "deleted-elsewhere") \/ Refused(d, "name-taken", "name-taken")
  PROVE  Honest'
<1>. Shapes /\ HonestDevice(d)
  BY ShapesHold DEF Honest
<1>1. SUFFICES /\ RevsKept => HonestMark(d)'
               /\ put'[d] = NoPut /\ reply'[d] = NoReply
               /\ task'[d].pc \notin {"rewrite", "mark"}
               /\ Frame(d) /\ UNCHANGED <<row, rev>>
  BY <1>1, QuietHonest, LocalHonest
<1>2. CASE AcceptMark(d)
  <2>1. Exact(reply[d].token, task[d].want) /\ put[d] = NoPut
    BY <1>2 DEF AcceptMark, Answered, HonestDevice, HonestTask, NoReply
  <2>2. mark'[d].files = HashFiles(task[d].want) /\ mark'[d].token = reply[d].token
    BY <1>2 DEF AcceptMark, Shapes
  <2>3. rev' = rev /\ row' = row /\ HonestMark(d)'
    BY <1>2, <2>1, <2>2 DEF AcceptMark, HonestMark, Exact
  <2>4. put'[d] = NoPut /\ reply'[d] = NoReply /\ task'[d].pc = "accepted" /\ Frame(d)
    BY <1>2, <2>1 DEF AcceptMark, Goto, Shapes, Tasks, Frame, Same
  <2>. QED BY <2>3, <2>4
<1>3. CASE AcceptBase(d)
  <2>1. put[d] = NoPut /\ reply[d] = NoReply
    BY <1>3 DEF AcceptBase, At, HonestDevice, HonestTask
  <2>2. task'[d].pc \notin {"rewrite", "mark"} /\ \A e \in Devices \ {d} : task'[e] = task[e]
    <3>1. CASE task' = [task EXCEPT ![d].pc = "close"]
      BY <3>1 DEF Shapes, Tasks
    <3>2. CASE task' = [task EXCEPT ![d] = Ended(d, mark[d])]
      BY <3>2, EndQuiet DEF Shapes
    <3>. QED BY <1>3, <3>1, <3>2 DEF AcceptBase, Goto
  <2>. QED BY <1>3, <2>1, <2>2, MarkStaysHonest
           DEF AcceptBase, netVars, MarkStays, HonestDevice, Frame, Same
<1>4. CASE SwapMissed(d)
  <2>1. put[d] = NoPut
    BY <1>4 DEF SwapMissed, Answered, HonestDevice, HonestTask, NoReply
  <2>2. task'[d].pc \notin {"rewrite", "mark"} /\ \A e \in Devices \ {d} : task'[e] = task[e]
    <3>1. CASE task' = [task EXCEPT ![d] = [Merging(d, @.by) EXCEPT !.refused = TRUE]]
      <4>1. [Merging(d, task[d].by) EXCEPT !.refused = TRUE].pc = "merge"
        BY DEF Merging, Idle
      <4>. QED BY <3>1, <4>1 DEF Shapes
    <3>2. CASE task' = [task EXCEPT ![d].pc = "merge", ![d].tries = @ + 1, ![d].carried = TRUE]
      BY <3>2 DEF Shapes, Tasks
    <3>3. CASE task' = [task EXCEPT ![d].pc = "close"]
      BY <3>3 DEF Shapes, Tasks
    <3>. QED BY <1>4, <3>1, <3>2, <3>3 DEF SwapMissed, Goto
  <2>. QED BY <1>4, <2>1, <2>2, MarkStaysHonest
           DEF SwapMissed, storeVars, MarkStays, HonestDevice, Frame, Same, Shapes
<1>5. ASSUME NEW kind \in {"deleted", "name-taken"}, NEW asks, Refused(d, kind, asks)
      PROVE  /\ RevsKept => HonestMark(d)'
             /\ put'[d] = NoPut /\ reply'[d] = NoReply
             /\ task'[d].pc \notin {"rewrite", "mark"}
             /\ Frame(d) /\ UNCHANGED <<row, rev>>
  <2>1. put[d] = NoPut
    BY <1>5 DEF Refused, Answered, HonestDevice, HonestTask, NoReply
  <2>. QED BY <1>5, <2>1, EndQuiet, MarkStaysHonest
           DEF Refused, storeVars, MarkStays, HonestDevice, Frame, Same, Shapes
<1>. QED BY <1>2, <1>3, <1>4, <1>5

\* mergeWithServer reads one revision, and its writes record that one.
LEMMA MergeHonest ==
  ASSUME TypeOK, Honest, NEW d \in Devices,
         \/ MergeGone(d) \/ MergeFailed(d) \/ MergeAsks(d) \/ MergePlans(d)
         \/ Rewrite(d) \/ RewriteFails(d) \/ Remark(d) \/ Rebase(d) \/ MergePush(d)
         \/ Close(d)
  PROVE  Honest'
<1>. Shapes /\ HonestDevice(d) /\ RowHonest
  BY ShapesHold DEF Honest
<1>1. /\ put[d] = NoPut /\ reply[d] = NoReply /\ ~At(d, "sent")
      /\ UNCHANGED <<row, rev, reply>>
  BY DEF MergeGone, MergeFailed, MergeAsks, MergePlans, Readable, Rewrite, RewriteFails,
         Remark, Rebase, MergePush, Close, At, HonestDevice, HonestTask, netVars
<1>2. CASE MergePush(d)
  <2>1. task[d] \in Tasks /\ task[d].want \in FileSets
    BY DEF Shapes, Tasks
  <2>2. [task[d] EXCEPT !.pc = "close"] \in Tasks
    BY GotoType
  <2>3. [task[d] EXCEPT !.pc = "close"].pc = "close"
    BY <2>1 DEF Tasks
  <2>4. HonestDevice(d)'
    BY <1>1, <1>2, <2>1, <2>2, <2>3, PushHonest DEF MergePush
  <2>5. Frame(d)
    BY <1>2 DEF MergePush, Push, Frame, Same, Shapes
  <2>. QED BY <1>1, <2>4, <2>5, LocalHonest
<1>3. SUFFICES ASSUME ~MergePush(d)
               PROVE  /\ HonestMark(d)' /\ UNCHANGED put
                      /\ task'[d].pc \in {"rewrite", "mark"} =>
                           Exact(task[d].got.token, task[d].got.files)'
                      /\ \A e \in Devices \ {d} : mark'[e] = mark[e] /\ task'[e] = task[e]
  BY <1>1, <1>2, <1>3, QuietHonest, LocalHonest DEF Frame, Same
<1>4. RevsKept
  BY <1>1 DEF RevsKept
<1>5. CASE MergeGone(d) \/ MergeFailed(d) \/ MergeAsks(d)
  <2>1. UNCHANGED <<mark, put>> /\ task' = [task EXCEPT ![d].pc = "close"]
    BY <1>5 DEF MergeGone, MergeFailed, MergeAsks, storeVars, netVars, Goto
  <2>2. task'[d].pc = "close" /\ \A e \in Devices \ {d} : task'[e] = task[e]
    BY <2>1 DEF Shapes, Tasks
  <2>. QED BY <1>4, <2>1, <2>2, MarkStaysHonest DEF MarkStays, HonestDevice
<1>6. CASE MergePlans(d)
  <2>1. row.state = "live" /\ Exact(row.token, row.files)
    BY <1>6 DEF MergePlans, Readable, Usable, RowHonest
  <2>2. task'[d].got = row /\ \A e \in Devices \ {d} : task'[e] = task[e]
    BY <1>6 DEF MergePlans, Shapes, Tasks
  <2>3. UNCHANGED <<mark, put>>
    BY <1>6 DEF MergePlans, netVars
  <2>. QED BY <1>1, <1>4, <2>1, <2>2, <2>3, MarkStaysHonest DEF MarkStays, HonestDevice, Exact
<1>7. CASE Rewrite(d)
  <2>1. Exact(task[d].got.token, task[d].got.files)
    BY <1>7 DEF Rewrite, At, HonestDevice, HonestTask
  <2>2. task'[d].got = task[d].got /\ \A e \in Devices \ {d} : task'[e] = task[e]
    BY <1>7 DEF Rewrite, Shapes, Tasks
  <2>3. MarkStays(d) /\ (\A e \in Devices \ {d} : mark'[e] = mark[e]) /\ put' = put
    BY <1>7, FlagStays DEF Rewrite, Announce, Schedule, MarkStays, netVars
  <2>. QED BY <1>1, <1>4, <2>1, <2>2, <2>3, MarkStaysHonest DEF HonestDevice, Exact
<1>8. CASE RewriteFails(d)
  <2>1. task'[d].pc \in {"idle", "names"} /\ \A e \in Devices \ {d} : task'[e] = task[e]
    BY <1>8, EndQuiet DEF RewriteFails, Shapes
  <2>2. MarkStays(d) /\ (\A e \in Devices \ {d} : mark'[e] = mark[e]) /\ put' = put
    BY <1>8, FlagStays DEF RewriteFails, Announce, Schedule, MarkStays, netVars
  <2>. QED BY <1>4, <2>1, <2>2, MarkStaysHonest DEF HonestDevice, Idle
<1>9. CASE Remark(d)
  <2>1. Exact(task[d].got.token, task[d].got.files)
    BY <1>9 DEF Remark, At, HonestDevice, HonestTask
  <2>2. mark'[d].files = HashFiles(task[d].got.files) /\ mark'[d].token = task[d].got.token
    BY <1>9 DEF Remark, Agreed, Shapes
  <2>3. HonestMark(d)'
    BY <1>1, <2>1, <2>2 DEF HonestMark, Exact
  <2>4. /\ task'[d].pc = "base" /\ put' = put
        /\ \A e \in Devices \ {d} : mark'[e] = mark[e] /\ task'[e] = task[e]
    BY <1>9 DEF Remark, Goto, Shapes, Tasks, netVars
  <2>. QED BY <2>3, <2>4
<1>10. CASE Rebase(d)
  <2>1. task'[d].pc \notin {"rewrite", "mark"} /\ \A e \in Devices \ {d} : task'[e] = task[e]
    <3>1. CASE task' = [task EXCEPT ![d].pc = "push"]
      BY <3>1 DEF Shapes, Tasks
    <3>2. CASE task' = [task EXCEPT ![d].pc = "close"]
      BY <3>2 DEF Shapes, Tasks
    <3>3. CASE task' = [task EXCEPT ![d] = Ended(d, mark[d])]
      BY <3>3, EndQuiet DEF Shapes
    <3>. QED BY <1>10, <3>1, <3>2, <3>3 DEF Rebase, Goto
  <2>. QED BY <1>4, <1>10, <2>1, MarkStaysHonest DEF Rebase, MarkStays, HonestDevice, netVars
<1>11. CASE Close(d)
  <2>1. task'[d] = Ended(d, mark'[d]) /\ \A e \in Devices \ {d} : task'[e] = task[e]
    BY <1>11 DEF Close, Shapes
  <2>2. mark' = mark \/ mark' = [mark EXCEPT ![d] = Dirtied(@)]
    BY <1>11 DEF Close
  <2>3. MarkStays(d) /\ (\A e \in Devices \ {d} : mark'[e] = mark[e]) /\ put' = put
    BY <1>11, <2>2 DEF Close, MarkStays, Dirtied, Shapes, Marks, netVars
  <2>. QED BY <1>4, <2>1, <2>3, EndQuiet, MarkStaysHonest DEF HonestDevice
<1>. QED BY <1>3, <1>5, <1>6, <1>7, <1>8, <1>9, <1>10, <1>11

\* reconcile, and the answers that start an exchange.
LEMMA PassHonest ==
  ASSUME TypeOK, Honest, NEW d \in Devices,
         \/ Reconcile(d) \/ PassSkips(d) \/ PassTakes(d) \/ PassPushes(d)
         \/ PassDiverged(d) \/ SettleDelete(d) \/ Import(d) \/ Adopt(d) \/ SettleNames(d)
         \/ ResolveRetry(d) \/ \E side \in {"local", "server"} : ResolveSide(d, side)
  PROVE  Honest'
<1>. Shapes /\ HonestDevice(d) /\ RowHonest
  BY ShapesHold DEF Honest
<1>1. /\ put[d] = NoPut /\ reply[d] = NoReply /\ ~At(d, "sent")
      /\ UNCHANGED <<row, rev, reply>>
  BY DEF Reconcile, PassSkips, PassTakes, PassPushes, PassDiverged, SettleDelete, Import, Adopt,
         SettleNames, ResolveRetry, ResolveSide, Listed, Unlisted, IsIdle, At, HonestDevice,
         HonestTask, netVars
<1>2. RevsKept
  BY <1>1 DEF RevsKept
<1>3. ASSUME NEW t \in Tasks, NEW skipped \in Tasks, NEW asked,
             skipped.pc \notin {"rewrite", "mark"},
             Push(d, disk[d], t, skipped, asked), mark' = mark
      PROVE  Honest'
  <2>1. disk[d] \in FileSets
    BY DEF TypeOK, StoreTypeOK
  <2>2. HonestDevice(d)'
    BY <1>1, <1>3, <2>1, PushHonest
  <2>3. Frame(d)
    BY <1>1, <1>3 DEF Push, Frame, Same, Shapes
  <2>. QED BY <1>1, <2>2, <2>3, LocalHonest
<1>4. PassPush(d) \in Tasks /\ Ended(d, mark[d]) \in Tasks
        /\ Ended(d, mark[d]).pc \notin {"rewrite", "mark"} /\ Idle.pc = "idle"
  <2>1. task[d].listed \in AnyName
    BY DEF Shapes, Tasks
  <2>2. PassPush(d) \in Tasks
    BY <2>1, ConstantTypes DEF PassPush, Tasks
  <2>. QED BY <2>2, EndedType, EndQuiet DEF Idle
<1>5. CASE PassPushes(d)
  BY <1>3, <1>4, <1>5 DEF PassPushes
<1>6. CASE PassDiverged(d) /\ Push(d, disk[d], PassPush(d), Ended(d, mark[d]), question[d])
  BY <1>3, <1>4, <1>6 DEF PassDiverged
<1>7. CASE ResolveRetry(d)
  <2>1. [Idle EXCEPT !.job = "push", !.by = "answer", !.prev = question[d]] \in Tasks
    BY ConstantTypes DEF Tasks, TypeOK, TabTypeOK
  <2>. QED BY <1>3, <1>4, <1>7, <2>1, ConstantTypes DEF ResolveRetry
<1>8. ASSUME NEW t, t.pc \in {"rewrite", "mark"} => Exact(t.got.token, t.got.files),
             task' = [task EXCEPT ![d] = t], put' = put, MarkStays(d),
             \A e \in Devices \ {d} : mark'[e] = mark[e]
      PROVE  Honest'
  <2>1. task'[d] = t /\ Frame(d)
    BY <1>1, <1>8 DEF Shapes, Frame, Same
  <2>2. HonestDevice(d)'
    BY <1>1, <1>2, <1>8, <2>1, MarkStaysHonest, QuietHonest DEF HonestDevice, Exact
  <2>. QED BY <1>1, <2>1, <2>2, LocalHonest
<1>9. CASE Reconcile(d)
  <2>. DEFINE t == [Idle EXCEPT !.pc = "listed", !.by = "pass", !.got = row, !.listed = row.name]
  <2>1. t.pc = "listed" /\ task' = [task EXCEPT ![d] = t] /\ put' = put /\ mark' = mark
    BY <1>9 DEF Reconcile, Idle, storeVars, netVars
  <2>. HIDE DEF t
  <2>. QED BY <1>8, <2>1 DEF MarkStays
<1>10. CASE PassSkips(d)
  BY <1>4, <1>8, <1>10 DEF PassSkips, MarkStays, storeVars, netVars
<1>11. CASE PassTakes(d)
  <2>1. PICK pc \in {"import", "adopt"} : task' = [task EXCEPT ![d].pc = pc]
    BY <1>11 DEF PassTakes, Goto
  <2>2. task' = [task EXCEPT ![d] = [task[d] EXCEPT !.pc = pc]]
        /\ [task[d] EXCEPT !.pc = pc].pc = pc
    BY <2>1 DEF Shapes, Tasks
  <2>. QED BY <1>8, <1>11, <2>2 DEF PassTakes, MarkStays, storeVars, netVars
<1>12. CASE PassDiverged(d) /\ task' = [task EXCEPT ![d] = Merging(d, "pass")]
            /\ UNCHANGED put
  <2>1. Merging(d, "pass").pc = "merge"
    BY DEF Merging, Idle
  <2>. QED BY <1>8, <1>12, <2>1 DEF PassDiverged, MarkStays
<1>13. CASE SettleDelete(d)
  <2>1. MarkStays(d) /\ \A e \in Devices \ {d} : mark'[e] = mark[e]
    BY <1>13 DEF SettleDelete, Unmark, MarkStays, Shapes
  <2>. QED BY <1>4, <1>8, <1>13, <2>1 DEF SettleDelete, netVars
<1>14. CASE Import(d)
  <2>1. mark' = mark /\ put' = put
    BY <1>14 DEF Import, netVars
  <2>2. CASE task' = [task EXCEPT ![d] = Idle]
    BY <1>4, <1>8, <2>1, <2>2 DEF MarkStays
  <2>3. CASE /\ Usable(row)
             /\ task' = [task EXCEPT ![d].pc = "mark", ![d].job = "import",
                                     ![d].got = [row EXCEPT !.name = task[d].got.name],
                                     ![d].alias = wname'[d] # task[d].got.name]
    <3>. DEFINE t == [task[d] EXCEPT !.pc = "mark", !.job = "import",
                                     !.got = [row EXCEPT !.name = task[d].got.name],
                                     !.alias = wname'[d] # task[d].got.name]
    <3>1. t.got = [row EXCEPT !.name = task[d].got.name]
      BY DEF Shapes, Tasks
    <3>2. t.got.token = row.token /\ t.got.files = row.files
      BY <3>1 DEF TypeOK, Rows
    <3>3. task' = [task EXCEPT ![d] = t]
      BY <2>3
    <3>4. Exact(row.token, row.files)
      BY <2>3 DEF Usable, RowHonest
    <3>. HIDE DEF t
    <3>. QED BY <1>8, <2>1, <3>2, <3>3, <3>4 DEF MarkStays
  <2>. QED BY <1>14, <2>2, <2>3 DEF Import
<1>15. CASE Adopt(d)
  <2>1. mark' = mark /\ put' = put
    BY <1>15 DEF Adopt, storeVars, netVars
  <2>2. CASE task' = [task EXCEPT ![d] = Ended(d, mark[d])]
    BY <1>4, <1>8, <2>1, <2>2 DEF MarkStays
  <2>3. CASE /\ Usable(row)
             /\ task' = [task EXCEPT ![d].pc = "rewrite", ![d].job = "adopt", ![d].got = row,
                                ![d].first = disk[d], ![d].write = TRUE,
                                ![d].want = WithLocalKeypair(row.files, disk[d])]
    <3>. DEFINE t == [task[d] EXCEPT !.pc = "rewrite", !.job = "adopt", !.got = row,
                                !.first = disk[d], !.write = TRUE,
                                !.want = WithLocalKeypair(row.files, disk[d])]
    <3>1. t.got = row
      BY DEF Shapes, Tasks
    <3>2. task' = [task EXCEPT ![d] = t]
      BY <2>3
    <3>3. Exact(row.token, row.files)
      BY <2>3 DEF Usable, RowHonest
    <3>. HIDE DEF t
    <3>. QED BY <1>8, <2>1, <3>1, <3>2, <3>3 DEF MarkStays
  <2>. QED BY <1>15, <2>2, <2>3 DEF Adopt
<1>16. CASE SettleNames(d)
  <2>1. MarkStays(d) /\ \A e \in Devices \ {d} : mark'[e] = mark[e]
    <3>1. CASE mark' = mark
      BY <3>1 DEF MarkStays
    <3>2. CASE mark[d] # NoMark /\ mark' = [mark EXCEPT ![d].localName = NoName]
      BY <3>2 DEF MarkStays, Shapes, Marks
    <3>. QED BY <1>16, <3>1, <3>2 DEF SettleNames
  <2>. QED BY <1>4, <1>8, <1>16, <2>1 DEF SettleNames, netVars
<1>17. ASSUME NEW side \in {"local", "server"}, ResolveSide(d, side) PROVE Honest'
  <2>. DEFINE t == [Merging(d, "answer") EXCEPT !.prefer = side, !.asked = question[d].paths]
  <2>1. t.pc = "merge" /\ task' = [task EXCEPT ![d] = t] /\ put' = put /\ mark' = mark
    BY <1>17 DEF ResolveSide, Merging, Idle, storeVars, netVars
  <2>. HIDE DEF t
  <2>. QED BY <1>8, <2>1 DEF MarkStays
<1>18. CASE PassDiverged(d)
  BY <1>6, <1>12, <1>18 DEF PassDiverged
<1>. QED BY <1>5, <1>7, <1>9, <1>10, <1>11, <1>13, <1>14, <1>15, <1>16, <1>17, <1>18

-----------------------------------------------------------------------------
(* The theorems                                                            *)

\* Every device that starts in step with the account has an honest mark.
LEMMA InitHonest == Init => Honest
<1>. SUFFICES ASSUME Init PROVE Honest
  OBVIOUS
<1>1. PICK start \in Starts, d0 \in Devices :
        /\ here = [d \in Devices |-> start # "fresh" \/ d = d0]
        /\ row = IF start = "synced" THEN Stored ELSE NoRow
        /\ rev = IF start = "synced"
                   THEN [t \in {1} |-> [files |-> OneFile, name |-> OneName, base |-> NoToken]]
                   ELSE << >>
        /\ mark = [d \in Devices |-> IF start = "synced" THEN Agreed(Stored) ELSE NoMark]
  BY DEF Init
<1>2. \A d \in Devices : HonestTask(d) /\ HonestPut(d)
  BY DEF Init, HonestTask, HonestPut, Idle, At, NoReply
<1>3. CASE start = "synced"
  <2>1. DOMAIN rev = {1} /\ rev[1].files = OneFile
    BY <1>1, <1>3
  <2>2. row.token = 1 /\ row.files = OneFile
    BY <1>1, <1>3 DEF Stored
  <2>3. RevsNumbered
    <3>1. IsFiniteSet({1}) /\ Cardinality({1}) = 1
      BY FS_Singleton
    <3>2. {1} = 1 .. 1
      OBVIOUS
    <3>. QED BY <2>1, <3>1, <3>2 DEF RevsNumbered
  <2>4. \A d \in Devices : mark[d].token = 1 /\ mark[d].files = HashFiles(OneFile)
    BY <1>1, <1>3 DEF Agreed, Stored
  <2>. QED BY <1>2, <2>1, <2>2, <2>3, <2>4
           DEF Honest, HonestDevice, HonestMark, RowHonest, Exact
<1>4. CASE start # "synced"
  <2>1. RevsNumbered
    <3>1. DOMAIN rev = {} /\ IsFiniteSet({}) /\ Cardinality({}) = 0
      BY <1>1, <1>4, FS_EmptySet
    <3>. QED BY <3>1 DEF RevsNumbered
  <2>. QED BY <1>1, <1>2, <1>4, <2>1 DEF Honest, HonestDevice, HonestMark, RowHonest, NoRow
<1>. QED BY <1>3, <1>4

\* Every step keeps the inductive invariant.
LEMMA NextHonest == TypeOK /\ Honest /\ [Next]_vars => Honest'
<1>. SUFFICES ASSUME TypeOK, Honest, [Next]_vars PROVE Honest'
  OBVIOUS
<1>1. ASSUME NEW d \in Devices, TaskStep(d) PROVE Honest'
  BY <1>1, AnswerHonest, MergeHonest, PassHonest DEF TaskStep
<1>2. ASSUME NEW d \in Devices, Resolve(d) PROVE Honest'
  BY <1>2, UserHonest, PassHonest DEF Resolve
<1>3. CASE Next
  BY <1>1, <1>2, <1>3, UserHonest, NetHonest, AccountHonest, MergeHonest, PassHonest DEF Next
<1>4. CASE UNCHANGED vars
  <2>1. RevsKept /\ RevsNumbered' /\ RowHonest'
    BY <1>4 DEF vars, Honest, RevsKept, RevsNumbered, RowHonest, Exact
  <2>. QED BY <1>4, <2>1, SameHonest DEF vars, storeVars, netVars, Honest, MarkStays, Same
<1>. QED BY <1>3, <1>4

\* The inductive invariant: the account's row, every mark, every PUT in flight
\* and all that an exchange has read stand for one revision each (sync-mark.ts,
\* PgProjectSync._push).
THEOREM SyncHonest == Spec => [](TypeOK /\ Honest)
<1>1. Init => TypeOK /\ Honest
  BY InitTypes, InitHonest
<1>2. TypeOK /\ Honest /\ [Next]_vars => (TypeOK /\ Honest)'
  BY NextTypes, NextHonest
<1>. QED BY <1>1, <1>2, PTL DEF Spec

\* A PUT in flight stands for the whole copy its device is uploading.
THEOREM SyncPutHonest == Spec => []PutHonest
<1>1. Honest => PutHonest
  BY DEF Honest, HonestDevice, PutHonest
<1>. QED BY <1>1, SyncHonest, PTL

\* Only the account's answer makes a reply.
LEMMA ReplyStep ==
  ASSUME TypeOK, [Next]_vars, NEW d \in Devices
  PROVE  reply'[d] = reply[d] \/ reply'[d] = NoReply \/ Serve(d)
<1>. reply \in [Devices -> Replies]
  BY DEF TypeOK
<1>1. ASSUME NEW e \in Devices, UserStep(e) \/ Resolve(e) \/ SettleLocalDeletes(e)
             \/ PushCurrent(e) \/ Reconcile(e) \/ ListFails(e) \/ RewriteFails(e)
             \/ \E p \in Paths : Autosave(e, p)
      PROVE  reply' = reply
  BY <1>1 DEF UserStep, Type, CreateFile, DeleteFile, RenameWorkspace, ReleaseName,
       DeleteWorkspace, StartTutorial, Resolve, ResolveSide, ResolveDelete, ResolveKeep,
       ResolveRetry, SettleLocalDeletes, PushCurrent, Reconcile, ListFails, RewriteFails,
       Autosave, netVars
<1>2. ASSUME NEW e \in Devices, TaskStep(e)
      PROVE  reply' = reply \/ reply' = [reply EXCEPT ![e] = NoReply]
  BY <1>2 DEF TaskStep, PassSkips, PassTakes, PassPushes, PassDiverged, SettleDelete, Import,
       Adopt, SettleNames, AcceptMark, AcceptBase, SwapMissed, Refused, MergeGone, MergeFailed,
       MergeAsks, MergePlans, Rewrite, Remark, Rebase, MergePush, Close, netVars
<1>3. ASSUME NEW e \in Devices, Timeout(e) \/ Crash(e)
      PROVE  reply' = [reply EXCEPT ![e] = NoReply]
  BY <1>3 DEF Timeout, Crash
<1>4. ASSUME NEW e \in Devices, Serve(e), e # d PROVE reply'[d] = reply[d]
  BY <1>4 DEF Serve
<1>5. CASE ChatTurn \/ (\E b \in late : ServeLate(b)) \/ UNCHANGED vars
  BY <1>5 DEF ChatTurn, ServeLate, vars, netVars
<1>. QED BY <1>1, <1>2, <1>3, <1>4, <1>5 DEF Next

\* An accepted upload leaves the account with the whole copy that the device
\* had when it sent its patch, for any number of devices, files and edits.
THEOREM SyncUploadIsWhole == Spec => UploadIsWhole
<1>. DEFINE Whole == \A d \in Devices :
       reply[d].kind # "ok" /\ reply'[d].kind = "ok" =>
         row'.state = "live" /\ row'.files = task[d].want
<1>1. TypeOK /\ Honest /\ [Next]_vars => [Whole]_vars
  <2>. SUFFICES ASSUME TypeOK, Honest, [Next]_vars, NEW d \in Devices,
                       reply[d].kind # "ok", reply'[d].kind = "ok"
                PROVE  row'.state = "live" /\ row'.files = task[d].want
    OBVIOUS
  <2>1. Serve(d)
    BY ReplyStep DEF NoReply
  <2>2. reply \in [Devices -> Replies]
    BY DEF TypeOK
  <2>3. Accepts(put[d]) /\ SaveBody(put[d])
    BY <2>1, <2>2 DEF Serve, Refusals
  <2>. QED BY <2>1, <2>3, ServeWhole DEF Serve
<1>. QED BY <1>1, SyncHonest, PTL DEF Spec, UploadIsWhole

-----------------------------------------------------------------------------
(* A deleted project stays deleted                                         *)

\* What a device has been told of the row's state is still so.  The inductive
\* invariant behind OnlyUsersDelete: a device takes the project for deleted only
\* once it is, and asks how to merge only where there is something to merge with.
TaskTold(d) ==
  /\ At(d, "listed") /\ task[d].got.state = "deleted" => row.state = "deleted"
  /\ At(d, "listed") /\ task[d].got.state = "none" => mark[d] = NoMark
  /\ At(d, "merge") => row.state # "none"
  /\ task[d].prev.kind \in {"none", "name-taken"}

Told(d) ==
  /\ reply[d].kind = "conflict" => row.state # "none"
  /\ reply[d].kind = "deleted" => row.state = "deleted"
  /\ question[d].kind = "divergent" => row.state # "none"
  /\ question[d].kind = "deleted-elsewhere" => row.state = "deleted"
  /\ deleting[d] = "sync" => row.state = "deleted"

RowTold == row.state = "none" => DOMAIN rev = {}

Tombstone == RowTold /\ \A d \in Devices : TaskTold(d) /\ Told(d)

\* A row that was made stays, and one that was deleted stays deleted: what a
\* step may do to the state of a project's row.
RowStep == \/ UNCHANGED <<row, rev>>
           \/ row'.state # "none" /\ (row.state = "deleted" => row'.state = "deleted")

\* Of what devices do, only the answer to an upload and a delete reach the row.
LEMMA QuietRow ==
  ASSUME NEW e \in Devices,
         \/ UserStep(e) \/ Resolve(e) \/ PushCurrent(e) \/ TaskStep(e) \/ Reconcile(e)
         \/ ListFails(e) \/ RewriteFails(e) \/ Timeout(e) \/ Crash(e)
         \/ \E p \in Paths : Autosave(e, p)
  PROVE  UNCHANGED <<row, rev>>
<1>1. CASE \/ UserStep(e) \/ Resolve(e) \/ PushCurrent(e) \/ Reconcile(e) \/ ListFails(e)
           \/ RewriteFails(e) \/ Timeout(e) \/ Crash(e) \/ \E p \in Paths : Autosave(e, p)
  BY <1>1 DEF UserStep, Type, CreateFile, DeleteFile, RenameWorkspace, ReleaseName,
       DeleteWorkspace, StartTutorial, Resolve, ResolveSide, ResolveDelete, ResolveKeep,
       ResolveRetry, PushCurrent, Reconcile, ListFails, RewriteFails, Timeout, Crash, Autosave
<1>2. CASE TaskStep(e)
  BY <1>2 DEF TaskStep, PassSkips, PassTakes, PassPushes, PassDiverged, SettleDelete, Import,
       Adopt, SettleNames, AcceptMark, AcceptBase, SwapMissed, Refused, MergeGone, MergeFailed,
       MergeAsks, MergePlans, Rewrite, Remark, Rebase, MergePush, Close
<1>. QED BY <1>1, <1>2

\* An upload and a chat turn never take a project's tombstone (SWAP and CREATE of
\* projects.mjs).
LEMMA RowMoves ==
  ASSUME Kind = "project", TypeOK, [Next]_vars PROVE RowStep
<1>1. ASSUME NEW b, Accepts(b), SaveBody(b) PROVE RowStep
  BY <1>1 DEF Accepts, SaveBody, Written, Lands, RowStep
<1>4. ASSUME NEW e \in Devices, SettleLocalDeletes(e) PROVE RowStep
  <2>1. UNCHANGED <<row, rev>> \/ Delete
    BY <1>4 DEF SettleLocalDeletes
  <2>2. ASSUME Delete PROVE row'.state = "deleted"
    BY <2>2 DEF Delete, TypeOK, Rows
  <2>. QED BY <2>1, <2>2 DEF RowStep
<1>5. ASSUME NEW e \in Devices, Serve(e) PROVE RowStep
  <2>1. (Accepts(put[e]) /\ SaveBody(put[e])) \/ UNCHANGED <<row, rev>>
    BY <1>5 DEF Serve
  <2>. QED BY <1>1, <2>1 DEF RowStep
<1>6. ASSUME NEW b \in late, ServeLate(b) PROVE RowStep
  <2>1. (Accepts(b) /\ SaveBody(b)) \/ UNCHANGED <<row, rev>>
    BY <1>6 DEF ServeLate
  <2>. QED BY <1>1, <2>1 DEF RowStep
<1>7. ASSUME ChatTurn PROVE RowStep
  BY <1>7 DEF ChatTurn, EnsureParent, RowStep
<1>8. CASE UNCHANGED vars
  BY <1>8 DEF vars, RowStep
<1>. QED BY <1>4, <1>5, <1>6, <1>7, <1>8, QuietRow DEF Next, RowStep

\* Only settleLocalDeletes deletes a row that is there.
LEMMA DeleteStep ==
  ASSUME [Next]_vars, row.state = "live", row'.state = "deleted"
  PROVE  \E d \in Devices : SettleLocalDeletes(d)
<1>1. row' # row
  OBVIOUS
<1>2. ASSUME NEW b, SaveBody(b) PROVE FALSE
  BY <1>2 DEF SaveBody, Written
<1>. QED BY <1>1, <1>2, QuietRow DEF Next, vars, Serve, ServeLate, ChatTurn, EnsureParent

\* A project that was deleted stays deleted, whatever uploads, chat turns and
\* late requests reach the account afterwards (tombstones, projects.mjs).
THEOREM SyncStaysDeleted ==
  ASSUME Kind = "project" PROVE Spec => StaysDeleted
<1>1. TypeOK /\ [Next]_vars => [row.state = "deleted" => row'.state = "deleted"]_vars
  BY RowMoves DEF RowStep
<1>. QED BY <1>1, SyncTypes, PTL DEF Spec, StaysDeleted

\* What a device goes by is as it was, but that a mark may have gone.
Unheard(d) ==
  /\ task'[d] = task[d] /\ reply'[d] = reply[d]
  /\ question'[d] = question[d] /\ deleting'[d] = deleting[d]
  /\ mark[d] = NoMark => mark'[d] = NoMark

\* What a device was told stays true while it hears nothing.
LEMMA UnheardTold ==
  ASSUME RowStep, NEW d \in Devices, TaskTold(d), Told(d), Unheard(d)
  PROVE  TaskTold(d)' /\ Told(d)'
BY DEF RowStep, TaskTold, Told, Unheard, At

\* A task that neither has the list nor is about to merge goes by nothing.
LEMMA BusyTold ==
  ASSUME RowStep, NEW d \in Devices, Told(d), task'[d].pc \notin {"listed", "merge"},
         task'[d].prev.kind \in {"none", "name-taken"},
         reply'[d] = reply[d] \/ reply'[d] = NoReply,
         question'[d] = question[d] \/ question'[d].kind \in {"none", "name-taken"},
         deleting'[d] = deleting[d] \/ deleting'[d] # "sync"
  PROVE  TaskTold(d)' /\ Told(d)'
BY DEF RowStep, TaskTold, Told, At, NoReply

\* The types that the steps below use.
TellTypes ==
  /\ task \in [Devices -> Tasks] /\ reply \in [Devices -> Replies]
  /\ question \in [Devices -> Questions] /\ mark \in [Devices -> Marks]
  /\ deleting \in [Devices -> {"no", "user", "sync"}]

\* Only the device of a step is told anything by it.
LEMMA OthersUnheard ==
  ASSUME TypeOK, NEW d \in Devices, NEW e \in Devices \ {d},
         \/ UserStep(d) \/ (\E p \in Paths : Autosave(d, p)) \/ SettleLocalDeletes(d)
         \/ PushCurrent(d) \/ Reconcile(d) \/ ListFails(d) \/ Resolve(d) \/ TaskStep(d)
         \/ Serve(d) \/ Timeout(d) \/ RewriteFails(d) \/ Crash(d)
  PROVE  Unheard(e)
<1>. TellTypes
  BY DEF TypeOK, TabTypeOK, StoreTypeOK, TellTypes
<1>. USE DEF TellTypes, Unheard, storeVars, editorVars, effectVars, netVars
<1>1. ASSUME Flag(d) PROVE mark'[e] = mark[e]
  BY <1>1 DEF Flag
<1>2. ASSUME NEW files, Announce(d, files) PROVE mark'[e] = mark[e]
  BY <1>1, <1>2 DEF Announce, Schedule
<1>3. ASSUME \/ UserStep(d) \/ (\E p \in Paths : Autosave(d, p)) \/ SettleLocalDeletes(d)
             \/ ListFails(d)
      PROVE  Unheard(e)
  BY <1>1, <1>3 DEF UserStep, Type, CreateFile, DeleteFile, RenameWorkspace, ReleaseName,
       DeleteWorkspace, StartTutorial, Autosave, SettleLocalDeletes, ListFails, Schedule, Vanish
<1>4. ASSUME PushCurrent(d) \/ Reconcile(d) \/ Resolve(d) PROVE Unheard(e)
  BY <1>4 DEF PushCurrent, Push, Reconcile, Resolve, ResolveSide, ResolveDelete, ResolveKeep,
       ResolveRetry, Vanish, Unmark
<1>5. ASSUME Serve(d) \/ Timeout(d) \/ Crash(d) PROVE Unheard(e)
  BY <1>5 DEF Serve, Timeout, Crash
<1>6. ASSUME RewriteFails(d) \/ Rewrite(d) PROVE Unheard(e)
  BY <1>2, <1>6 DEF RewriteFails, Rewrite
<1>7. ASSUME \/ PassSkips(d) \/ PassTakes(d) \/ PassPushes(d) \/ PassDiverged(d)
             \/ SettleDelete(d) \/ Import(d) \/ Adopt(d) \/ SettleNames(d)
      PROVE  Unheard(e)
  BY <1>7 DEF PassSkips, PassTakes, PassPushes, PassDiverged, SettleDelete, Import, Adopt,
       SettleNames, Push, Goto, Vanish, Unmark, Raise
<1>8. ASSUME \/ AcceptMark(d) \/ AcceptBase(d) \/ SwapMissed(d)
             \/ Refused(d, "deleted", "deleted-elsewhere")
             \/ Refused(d, "name-taken", "name-taken")
             \/ MergeGone(d) \/ MergeFailed(d) \/ MergeAsks(d) \/ MergePlans(d)
      PROVE  Unheard(e)
  BY <1>8 DEF AcceptMark, AcceptBase, SwapMissed, Refused, MergeGone, MergeFailed, MergeAsks,
       MergePlans, Goto, Raise
<1>9. ASSUME Remark(d) \/ Rebase(d) \/ MergePush(d) \/ Close(d) PROVE Unheard(e)
  BY <1>9 DEF Remark, Rebase, MergePush, Push, Close, Goto
<1>. QED BY <1>3, <1>4, <1>5, <1>6, <1>7, <1>8, <1>9 DEF TaskStep

\* The user, the effect and the banner's answers to a delete: nothing is read, and
\* sync deletes a workspace only where the question says that the project is gone.
LEMMA UserTold ==
  ASSUME TypeOK, RowStep, NEW d \in Devices, TaskTold(d), Told(d),
         \/ UserStep(d) \/ (\E p \in Paths : Autosave(d, p)) \/ SettleLocalDeletes(d)
         \/ ListFails(d) \/ ResolveDelete(d) \/ ResolveKeep(d)
  PROVE  TaskTold(d)' /\ Told(d)'
<1>. TellTypes
  BY DEF TypeOK, TabTypeOK, StoreTypeOK, TellTypes
<1>. USE DEF Unheard, storeVars, editorVars, effectVars, netVars, TellTypes
<1>1. ASSUME Flag(d) PROVE mark[d] = NoMark => mark'[d] = NoMark
  BY <1>1 DEF Flag, Dirtied
<1>2. ASSUME \/ \E p \in Paths, r \in Regions : Type(d, p, r)
             \/ \E p \in Paths : Autosave(d, p) \/ CreateFile(d, p) \/ DeleteFile(d, p)
             \/ \E n \in Names : RenameWorkspace(d, n)
             \/ ReleaseName(d) \/ StartTutorial(d) \/ ListFails(d)
      PROVE  Unheard(d)
  BY <1>1, <1>2 DEF Type, Autosave, CreateFile, DeleteFile, RenameWorkspace, ReleaseName,
       StartTutorial, ListFails, Schedule
<1>3. ASSUME SettleLocalDeletes(d) \/ DeleteWorkspace(d) \/ ResolveKeep(d)
      PROVE  /\ task'[d] = task[d] /\ reply'[d] = reply[d]
             /\ question'[d] = question[d] \/ question'[d] = NoQuestion
             /\ deleting'[d] # "sync"
             /\ mark[d] = NoMark => mark'[d] = NoMark
  BY <1>3 DEF SettleLocalDeletes, DeleteWorkspace, ResolveKeep, Vanish
<1>4. CASE SettleLocalDeletes(d) \/ DeleteWorkspace(d) \/ ResolveKeep(d)
  BY <1>3, <1>4 DEF RowStep, TaskTold, Told, At, NoQuestion
<1>5. CASE ResolveDelete(d)
  <2>1. /\ task'[d] = task[d] /\ reply'[d] = reply[d] /\ question'[d] = NoQuestion
        /\ mark[d] = NoMark => mark'[d] = NoMark
        /\ question[d].kind = "deleted-elsewhere"
    BY <1>5 DEF ResolveDelete, Vanish, Unmark
  <2>. QED BY <2>1 DEF RowStep, TaskTold, Told, At, NoQuestion
<1>. QED BY <1>2, <1>4, <1>5, UnheardTold DEF UserStep

\* A push is not a merge, and takes down only a question about a name.
LEMMA PushTold ==
  ASSUME RowStep, NEW d \in Devices, Told(d), task \in [Devices -> Tasks],
         NEW f, NEW t \in Tasks, NEW skipped \in Tasks, NEW asked, Push(d, f, t, skipped, asked),
         t.prev.kind \in {"none", "name-taken"}, skipped.prev.kind \in {"none", "name-taken"},
         skipped.pc \notin {"listed", "merge"},
         reply'[d] = reply[d], deleting'[d] = deleting[d],
         question'[d] = question[d] \/ question'[d].kind \in {"none", "name-taken"}
  PROVE  TaskTold(d)' /\ Told(d)'
<1>1. CASE task' = [task EXCEPT ![d] = skipped]
  <2>1. task'[d] = skipped
    BY <1>1
  <2>. QED BY <2>1, BusyTold
<1>2. CASE task' = [task EXCEPT ![d] = [t EXCEPT !.pc = "sent", !.want = f]]
  <2>1. task'[d].pc = "sent" /\ task'[d].prev = t.prev
    BY <1>2 DEF Tasks
  <2>. QED BY <2>1, BusyTold
<1>. QED BY <1>1, <1>2 DEF Push

\* A task that ends has no question to put back.
LEMMA EndTold ==
  ASSUME TypeOK, NEW d \in Devices, TaskTold(d)
  PROVE  /\ Idle.prev.kind = "none"
         /\ \A m : Ended(d, m).prev.kind = "none" /\ Ended(d, m).pc \notin {"listed", "merge"}
         /\ AfterPush(d).prev.kind \in {"none", "name-taken"}
         /\ AfterPush(d).pc \notin {"listed", "merge"}
<1>1. Idle.prev.kind = "none" /\ Idle.pc = "idle"
  BY DEF Idle, NoQuestion
<1>2. ASSUME NEW m PROVE Ended(d, m).prev.kind = "none"
  <2>1. [Idle EXCEPT !.pc = "names", !.listed = task[d].listed].prev = Idle.prev
    BY DEF Idle
  <2>. QED BY <1>1, <2>1 DEF Ended
<1>3. [task[d] EXCEPT !.pc = "close"].prev = task[d].prev
  BY DEF TypeOK, TabTypeOK, Tasks
<1>. QED BY <1>1, <1>2, <1>3, EndQuiet DEF AfterPush, TaskTold

\* Requests and their answers.  A swap misses only where there is a row: a mark
\* carries a token that the account gave.
LEMMA NetTold ==
  ASSUME TypeOK, Honest, RowTold, RowStep, NEW d \in Devices, TaskTold(d), Told(d),
         PushCurrent(d) \/ ResolveRetry(d) \/ Serve(d) \/ Timeout(d) \/ Crash(d)
  PROVE  TaskTold(d)' /\ Told(d)'
<1>. TellTypes
  BY DEF TypeOK, TabTypeOK, StoreTypeOK, TellTypes
<1>. USE DEF storeVars, editorVars, effectVars, netVars, TellTypes
<1>1. CASE PushCurrent(d)
  <2>. DEFINE t == [Idle EXCEPT !.job = "push", !.by = "editor"]
  <2>1. t \in Tasks /\ t.prev = Idle.prev /\ Idle.pc = "idle"
    BY ConstantTypes DEF Tasks, Idle
  <2>2. Push(d, disk[d], t, Idle, question[d]) /\ UNCHANGED <<question, reply, deleting>>
    BY <1>1 DEF PushCurrent
  <2>. HIDE DEF t
  <2>. QED BY <2>1, <2>2, PushTold, EndTold, ConstantTypes
<1>2. CASE ResolveRetry(d)
  <2>. DEFINE t == [Idle EXCEPT !.job = "push", !.by = "answer", !.prev = question[d]]
  <2>1. t \in Tasks /\ t.prev = question[d] /\ Idle.pc = "idle"
    BY ConstantTypes DEF Tasks, Idle
  <2>2. /\ Push(d, disk[d], t, Idle, NoQuestion) /\ UNCHANGED <<reply, deleting>>
        /\ question[d].kind = "name-taken"
        /\ question'[d] = question[d] \/ question'[d] = NoQuestion
    BY <1>2 DEF ResolveRetry
  <2>3. question'[d] = question[d] \/ question'[d].kind = "none"
    BY <2>2 DEF NoQuestion
  <2>. HIDE DEF t
  <2>. QED BY <2>1, <2>2, <2>3, PushTold, EndTold, ConstantTypes
<1>3. CASE Serve(d)
  <2>1. UNCHANGED <<task, question, deleting, mark>> /\ put[d] # NoPut
    BY <1>3 DEF Serve
  <2>2. CASE reply' = [reply EXCEPT ![d] = [kind |-> "ok", token |-> NextToken]]
    <3>1. reply'[d].kind = "ok"
      BY <2>2
    <3>. QED BY <2>1, <3>1 DEF RowStep, TaskTold, Told, At
  <2>3. ASSUME NEW kind \in Refusals(put[d]), UNCHANGED <<row, rev>>,
               reply' = [reply EXCEPT ![d] = [kind |-> kind, token |-> NoToken]]
        PROVE  TaskTold(d)' /\ Told(d)'
    <3>1. reply'[d].kind = kind
      BY <2>3
    <3>2. put[d].base = NoToken \/ put[d].base \in DOMAIN rev
      BY <2>1 DEF Honest, HonestDevice, HonestPut
    <3>3. ~Lands(row, put[d].base) => row.state # "none"
      BY <3>2 DEF Lands, RowTold
    <3>4. /\ kind = "conflict" => row.state # "none"
          /\ kind = "deleted" => row.state = "deleted"
      BY <2>3, <3>3 DEF Refusals
    <3>. QED BY <2>1, <2>3, <3>1, <3>4 DEF TaskTold, Told, At
  <2>. QED BY <1>3, <2>2, <2>3 DEF Serve
<1>4. CASE Timeout(d)
  <2>1. /\ task'[d] = AfterPush(d) /\ reply'[d] = NoReply /\ UNCHANGED deleting
        /\ question'[d] = question[d] \/ question'[d] = task[d].prev
    BY <1>4 DEF Timeout
  <2>2. question'[d] = question[d] \/ question'[d].kind \in {"none", "name-taken"}
    BY <2>1 DEF TaskTold
  <2>. QED BY <2>1, <2>2, BusyTold, EndTold
<1>5. CASE Crash(d)
  <2>1. /\ task'[d] = Idle /\ reply'[d] = NoReply /\ deleting'[d] = "no"
        /\ question'[d] = NoQuestion
    BY <1>5 DEF Crash
  <2>. QED BY <2>1, BusyTold, EndTold DEF Idle, NoQuestion
<1>. QED BY <1>1, <1>2, <1>3, <1>4, <1>5

\* _push, from the answer on: a missed swap leads to a merge, and the account's
\* "deleted" to the question about a delete.
LEMMA AnswerTold ==
  ASSUME TypeOK, RowStep, NEW d \in Devices, TaskTold(d), Told(d),
         \/ AcceptMark(d) \/ AcceptBase(d) \/ SwapMissed(d)
         \/ Refused(d, "deleted", "deleted-elsewhere") \/ Refused(d, "name-taken", "name-taken")
  PROVE  TaskTold(d)' /\ Told(d)'
<1>. TellTypes
  BY DEF TypeOK, TabTypeOK, StoreTypeOK, TellTypes
<1>. task[d].prev.kind \in {"none", "name-taken"}
  BY DEF TaskTold
<1>. USE DEF storeVars, editorVars, effectVars, netVars, TellTypes
<1>1. CASE AcceptMark(d)
  <2>1. /\ task'[d].pc = "accepted" /\ task'[d].prev = task[d].prev /\ reply'[d] = NoReply
        /\ UNCHANGED <<question, deleting>>
    BY <1>1 DEF AcceptMark, Goto, Tasks
  <2>. QED BY <2>1, BusyTold
<1>2. CASE AcceptBase(d)
  <2>1. UNCHANGED <<reply, deleting>> /\ question'[d] = NoQuestion
    BY <1>2 DEF AcceptBase
  <2>2. \/ task'[d].pc = "close" /\ task'[d].prev = task[d].prev
        \/ task'[d] = Ended(d, mark[d])
    BY <1>2 DEF AcceptBase, Goto, Tasks
  <2>. QED BY <2>1, <2>2, BusyTold, EndTold DEF NoQuestion
<1>3. CASE SwapMissed(d)
  <2>1. reply'[d] = NoReply /\ UNCHANGED deleting /\ reply[d].kind = "conflict"
    BY <1>3 DEF SwapMissed, Answered
  <2>2. row.state # "none" /\ row'.state # "none"
    BY <2>1 DEF Told, RowStep
  <2>3. ASSUME NEW by PROVE Merging(d, by).pc = "merge" /\ Merging(d, by).prev = Idle.prev
    BY DEF Merging, Idle
  <2>4. /\ task'[d].pc \in {"merge", "close"}
        /\ task'[d].prev = task[d].prev \/ task'[d].prev = Idle.prev
    <3>1. CASE task' = [task EXCEPT ![d] = [Merging(d, task[d].by) EXCEPT !.refused = TRUE]]
      BY <3>1 DEF Merging, Idle
    <3>2. CASE task' = [task EXCEPT ![d].pc = "merge", ![d].tries = @ + 1, ![d].carried = TRUE]
      BY <3>2 DEF Tasks
    <3>3. CASE Goto(d, "close")
      BY <3>3 DEF Goto, Tasks
    <3>. QED BY <1>3, <3>1, <3>2, <3>3 DEF SwapMissed
  <2>5. question'[d] = question[d] \/ question'[d].kind \in {"none", "divergent"}
    BY <1>3 DEF SwapMissed, Raise, NoQuestion
  <2>. QED BY <2>1, <2>2, <2>4, <2>5, EndTold DEF RowStep, TaskTold, Told, At, NoReply
<1>4. ASSUME NEW kind, NEW asks, Refused(d, kind, asks)
      PROVE  /\ task'[d] = AfterPush(d) /\ reply'[d] = NoReply /\ UNCHANGED deleting
             /\ question'[d].kind = asks /\ reply[d].kind = kind
  BY <1>4 DEF Refused, Raise, Answered
<1>5. CASE Refused(d, "deleted", "deleted-elsewhere")
  <2>1. row.state = "deleted" /\ row'.state = "deleted"
    BY <1>4, <1>5 DEF Told, RowStep
  <2>. QED BY <1>4, <1>5, <2>1, EndTold DEF TaskTold, Told, At, NoReply
<1>6. CASE Refused(d, "name-taken", "name-taken")
  BY <1>4, <1>6, BusyTold, EndTold
<1>. QED BY <1>1, <1>2, <1>3, <1>5, <1>6

\* The task that goes on after a merge's upload.
LEMMA ClosingTask ==
  ASSUME NEW t \in Tasks
  PROVE  /\ [t EXCEPT !.pc = "close"] \in Tasks
         /\ [t EXCEPT !.pc = "close"].pc = "close" /\ [t EXCEPT !.pc = "close"].prev = t.prev
BY DEF Tasks

\* mergeWithServer and its rewrites: it asks about a delete only where the row is a
\* tombstone.
LEMMA MergeTold ==
  ASSUME TypeOK, RowStep, NEW d \in Devices, TaskTold(d), Told(d),
         \/ MergeGone(d) \/ MergeFailed(d) \/ MergeAsks(d) \/ MergePlans(d)
         \/ Rewrite(d) \/ RewriteFails(d) \/ Remark(d) \/ Rebase(d) \/ MergePush(d) \/ Close(d)
  PROVE  TaskTold(d)' /\ Told(d)'
<1>. TellTypes
  BY DEF TypeOK, TabTypeOK, StoreTypeOK, TellTypes
<1>. task[d].prev.kind \in {"none", "name-taken"}
  BY DEF TaskTold
<1>. USE DEF storeVars, editorVars, effectVars, netVars, TellTypes
<1>1. ASSUME NEW pc, Goto(d, pc) PROVE task'[d].pc = pc /\ task'[d].prev = task[d].prev
  BY <1>1 DEF Goto, Tasks
<1>2. CASE MergeGone(d) \/ MergeFailed(d) \/ MergeAsks(d)
  <2>1. /\ Goto(d, "close") /\ UNCHANGED <<row, reply, deleting>> /\ At(d, "merge")
        /\ \/ question' = question
           \/ question'[d].kind = "divergent"
           \/ question'[d].kind = "deleted-elsewhere" /\ row.state # "live"
    BY <1>2 DEF MergeGone, MergeFailed, MergeAsks, Raise, Readable
  <2>2. row.state # "none" /\ row.state \in {"none", "live", "deleted"}
    BY <2>1 DEF TaskTold, TypeOK, Rows
  <2>. QED BY <1>1, <2>1, <2>2 DEF TaskTold, Told, At
<1>3. ASSUME \/ MergePlans(d) \/ Rewrite(d) \/ Remark(d)
      PROVE  /\ task'[d].pc \in {"rewrite", "mark", "base"} /\ task'[d].prev = task[d].prev
             /\ UNCHANGED <<reply, question, deleting>>
  <2>1. CASE MergePlans(d)
    BY <2>1 DEF MergePlans, Tasks
  <2>2. CASE Rewrite(d)
    BY <2>2 DEF Rewrite, Tasks
  <2>3. CASE Remark(d)
    BY <1>1, <2>3 DEF Remark
  <2>. QED BY <1>3, <2>1, <2>2, <2>3
<1>4. CASE MergePlans(d) \/ Rewrite(d) \/ Remark(d)
  BY <1>3, <1>4, BusyTold
<1>5. CASE RewriteFails(d) \/ Close(d)
  <2>1. task'[d] = Ended(d, mark'[d]) /\ UNCHANGED <<reply, question, deleting>>
    BY <1>5 DEF RewriteFails, Close
  <2>. QED BY <2>1, BusyTold, EndTold
<1>6. CASE Rebase(d)
  <2>1. /\ task' = [task EXCEPT ![d] = Ended(d, mark[d])] \/ Goto(d, "push") \/ Goto(d, "close")
        /\ question'[d] = question[d] \/ question'[d] = NoQuestion
        /\ UNCHANGED <<reply, deleting>>
    BY <1>6 DEF Rebase
  <2>2. /\ task'[d].pc \notin {"listed", "merge"}
        /\ task'[d].prev.kind \in {"none", "name-taken"}
    BY <1>1, <2>1, EndTold
  <2>. QED BY <2>1, <2>2, BusyTold DEF NoQuestion
<1>7. CASE MergePush(d)
  <2>. DEFINE s == [task[d] EXCEPT !.pc = "close"]
  <2>. task[d] \in Tasks
    OBVIOUS
  <2>1. s \in Tasks /\ s.pc = "close" /\ s.prev = task[d].prev
    BY ONLY task[d] \in Tasks, ClosingTask
  <2>2. /\ Push(d, task[d].want, task[d], s, question[d])
        /\ UNCHANGED <<reply, deleting, question>>
    BY <1>7 DEF MergePush
  <2>. HIDE DEF s
  <2>. QED BY <2>1, <2>2, PushTold
<1>. QED BY <1>2, <1>4, <1>5, <1>6, <1>7

\* reconcile: a project that the list lacks was deleted, or this browser has no
\* mark of it; and the banner's answer about a merge.
LEMMA PassTold ==
  ASSUME TypeOK, Honest, RowTold, RowStep, NEW d \in Devices, TaskTold(d), Told(d),
         \/ Reconcile(d) \/ PassSkips(d) \/ PassTakes(d) \/ PassPushes(d) \/ PassDiverged(d)
         \/ SettleDelete(d) \/ Import(d) \/ Adopt(d) \/ SettleNames(d)
         \/ \E side \in {"local", "server"} : ResolveSide(d, side)
  PROVE  TaskTold(d)' /\ Told(d)'
<1>. TellTypes
  BY DEF TypeOK, TabTypeOK, StoreTypeOK, TellTypes
<1>. task[d].prev.kind \in {"none", "name-taken"} /\ Idle.prev.kind = "none"
  BY EndTold DEF TaskTold
<1>. USE DEF storeVars, editorVars, effectVars, netVars, TellTypes
<1>1. ASSUME NEW by PROVE Merging(d, by).pc = "merge" /\ Merging(d, by).prev = Idle.prev
  BY DEF Merging, Idle
<1>2. CASE Reconcile(d)
  <2>1. /\ task'[d] = [Idle EXCEPT !.pc = "listed", !.by = "pass", !.got = row,
                                   !.listed = row.name]
        /\ UNCHANGED <<row, mark, reply, question, deleting>>
    BY <1>2 DEF Reconcile
  <2>2. task'[d].pc = "listed" /\ task'[d].got = row /\ task'[d].prev = Idle.prev
    BY <2>1 DEF Idle
  <2>3. row.state = "none" => mark[d] = NoMark
    BY DEF Honest, HonestDevice, HonestMark, RowTold
  <2>. QED BY <2>1, <2>2, <2>3 DEF TaskTold, Told, At
<1>3. CASE PassSkips(d) \/ SettleNames(d) \/ Adopt(d) \/ Import(d) \/ PassTakes(d)
  <2>1. UNCHANGED <<reply, question, deleting>>
    BY <1>3 DEF PassSkips, SettleNames, Adopt, Import, PassTakes
  <2>2. /\ task'[d].pc \notin {"listed", "merge"}
        /\ task'[d].prev.kind \in {"none", "name-taken"}
    <3>1. CASE PassSkips(d) \/ SettleNames(d)
      BY <3>1, EndTold DEF PassSkips, SettleNames, Idle
    <3>2. CASE Adopt(d)
      <4>1. \/ task'[d] = Ended(d, mark[d])
            \/ task'[d].pc = "rewrite" /\ task'[d].prev = task[d].prev
        BY <3>2 DEF Adopt, Tasks
      <4>. QED BY <4>1, EndTold
    <3>3. CASE Import(d)
      <4>1. \/ task'[d] = Idle
            \/ task'[d].pc = "mark" /\ task'[d].prev = task[d].prev
        BY <3>3 DEF Import, Tasks
      <4>. QED BY <4>1 DEF Idle
    <3>4. CASE PassTakes(d)
      BY <3>4 DEF PassTakes, Goto, Tasks
    <3>. QED BY <1>3, <3>1, <3>2, <3>3, <3>4
  <2>. QED BY <2>1, <2>2, BusyTold
<1>4. PassPush(d) \in Tasks /\ PassPush(d).prev = Idle.prev
  <2>1. task[d].listed \in AnyName
    BY DEF Tasks
  <2>. QED BY <2>1, ConstantTypes DEF PassPush, Tasks, Idle
<1>5. ASSUME Push(d, disk[d], PassPush(d), Ended(d, mark[d]), question[d]),
             UNCHANGED <<reply, deleting, question>>
      PROVE  TaskTold(d)' /\ Told(d)'
  BY <1>4, <1>5, PushTold, EndTold, EndedType
<1>6. CASE PassPushes(d)
  BY <1>5, <1>6 DEF PassPushes
<1>7. CASE PassDiverged(d)
  <2>1. CASE Usable(row) /\ task' = [task EXCEPT ![d] = Merging(d, "pass")]
    <3>1. /\ task'[d] = Merging(d, "pass") /\ row.state = "live"
          /\ UNCHANGED <<row, reply, question, deleting>>
      BY <1>7, <2>1 DEF PassDiverged, Usable
    <3>. QED BY <1>1, <3>1 DEF TaskTold, Told, At
  <2>2. CASE Push(d, disk[d], PassPush(d), Ended(d, mark[d]), question[d])
    BY <1>5, <1>7, <2>2 DEF PassDiverged
  <2>. QED BY <1>7, <2>1, <2>2 DEF PassDiverged
<1>8. CASE SettleDelete(d)
  <2>1. /\ task'[d] = Idle /\ UNCHANGED <<row, reply>> /\ Unlisted(d) /\ mark[d] # NoMark
        /\ deleting'[d] = deleting[d] \/ deleting'[d] = "sync"
        /\ question'[d] = question[d] \/ question'[d].kind = "deleted-elsewhere"
    BY <1>8 DEF SettleDelete, Raise, Vanish
  <2>2. task[d].got.state \in {"none", "live", "deleted"}
    BY DEF Tasks, Rows
  <2>3. row.state = "deleted"
    BY <2>1, <2>2 DEF Unlisted, TaskTold
  <2>. QED BY <2>1, <2>3 DEF TaskTold, Told, At, Idle
<1>9. ASSUME NEW side, ResolveSide(d, side) PROVE TaskTold(d)' /\ Told(d)'
  <2>1. /\ task'[d] = [Merging(d, "answer") EXCEPT !.prefer = side, !.asked = question[d].paths]
        /\ UNCHANGED <<row, reply, question, deleting>> /\ question[d].kind = "divergent"
    BY <1>9 DEF ResolveSide
  <2>2. task'[d].pc = "merge" /\ task'[d].prev = Idle.prev
    BY <2>1 DEF Merging, Idle
  <2>. QED BY <2>1, <2>2 DEF TaskTold, Told, At
<1>. QED BY <1>2, <1>3, <1>6, <1>7, <1>8, <1>9

\* The account answers others, or makes the row for a chat turn.
LEMMA AwayTold ==
  ASSUME ChatTurn \/ (\E b \in late : ServeLate(b)) \/ UNCHANGED vars, NEW d \in Devices
  PROVE  Unheard(d)
BY DEF ChatTurn, ServeLate, vars, storeVars, effectVars, netVars, Unheard

\* Every step keeps it.
LEMMA NextTombstone ==
  ASSUME Kind = "project", TypeOK, Honest, Tombstone, [Next]_vars PROVE Tombstone'
<1>1. RowStep
  BY RowMoves
<1>2. RowTold'
  BY <1>1 DEF RowStep, RowTold, Tombstone
<1>3. ASSUME NEW e \in Devices PROVE TaskTold(e)' /\ Told(e)'
  <2>1. TaskTold(e) /\ Told(e) /\ RowTold
    BY <1>3 DEF Tombstone
  <2>2. ASSUME NEW d \in Devices, d # e,
               \/ UserStep(d) \/ (\E p \in Paths : Autosave(d, p)) \/ SettleLocalDeletes(d)
               \/ PushCurrent(d) \/ Reconcile(d) \/ ListFails(d) \/ Resolve(d) \/ TaskStep(d)
               \/ Serve(d) \/ Timeout(d) \/ RewriteFails(d) \/ Crash(d)
        PROVE  Unheard(e)
    BY <2>2, OthersUnheard
  <2>3. CASE \/ UserStep(e) \/ (\E p \in Paths : Autosave(e, p)) \/ SettleLocalDeletes(e)
             \/ PushCurrent(e) \/ Reconcile(e) \/ ListFails(e) \/ Resolve(e)
             \/ Serve(e) \/ Timeout(e) \/ RewriteFails(e) \/ Crash(e)
    BY <1>1, <2>1, <2>3, UserTold, NetTold, PassTold, MergeTold DEF Resolve
  <2>4. CASE TaskStep(e)
    BY <1>1, <2>1, <2>4, AnswerTold, MergeTold, PassTold DEF TaskStep
  <2>5. CASE ChatTurn \/ (\E b \in late : ServeLate(b)) \/ UNCHANGED vars
    BY <1>1, <2>1, <2>5, AwayTold, UnheardTold
  <2>. QED BY <1>1, <2>1, <2>2, <2>3, <2>4, <2>5, UnheardTold DEF Next
<1>. QED BY <1>2, <1>3 DEF Tombstone

\* At the start nothing has been told.
LEMMA InitTombstone == Init => Tombstone
<1>. SUFFICES ASSUME Init PROVE Tombstone
  OBVIOUS
<1>1. row = Stored \/ (row = NoRow /\ rev = << >>)
  BY DEF Init
<1>2. RowTold
  BY <1>1 DEF RowTold, Stored
<1>3. ASSUME NEW d \in Devices PROVE TaskTold(d) /\ Told(d)
  <2>1. task[d] = Idle /\ reply[d] = NoReply /\ question[d] = NoQuestion /\ deleting[d] = "no"
    BY DEF Init
  <2>2. Idle.pc = "idle" /\ Idle.prev.kind = "none"
    BY DEF Idle, NoQuestion
  <2>. QED BY <2>1, <2>2 DEF TaskTold, Told, At, NoReply, NoQuestion
<1>. QED BY <1>2, <1>3 DEF Tombstone

\* Only a user's delete takes a project off the account: a device that deletes its
\* copy because the project is gone never takes it from the others, through closed
\* tabs, failed lists and late requests (settleDeletes, settleLocalDeletes).
THEOREM SyncOnlyUsersDelete ==
  ASSUME Kind = "project" PROVE Spec => OnlyUsersDelete
<1>. DEFINE ByUser == row.state = "live" /\ row'.state = "deleted" =>
                        \E d \in Devices : deleting[d] = "user" /\ deleting'[d] = "no"
<1>1. TypeOK /\ Honest /\ Tombstone /\ [Next]_vars => [ByUser]_vars
  <2>. SUFFICES ASSUME TypeOK, Tombstone, [Next]_vars,
                       row.state = "live", row'.state = "deleted"
                PROVE  \E d \in Devices : deleting[d] = "user" /\ deleting'[d] = "no"
    OBVIOUS
  <2>1. PICK d \in Devices : SettleLocalDeletes(d)
    BY DeleteStep
  <2>2. deleting[d] \in {"user", "sync"} /\ deleting'[d] = "no"
    BY <2>1 DEF SettleLocalDeletes, TypeOK, TabTypeOK
  <2>3. deleting[d] # "sync"
    BY DEF Tombstone, Told
  <2>. QED BY <2>2, <2>3
<1>2. Tombstone /\ TypeOK /\ Honest /\ [Next]_vars => Tombstone'
  BY NextTombstone
<1>. QED BY <1>1, <1>2, InitTombstone, SyncHonest, PTL DEF Spec, OnlyUsersDelete

-----------------------------------------------------------------------------
(* A stand-in is never uploaded                                            *)

\* A name that a user gave, or an id: no stand-in.
Own(n) == \A m \in Names : Imported[m] # n

\* The steps of a task at which its workspace need not exist.
Loose == {"idle", "listed", "import", "names"}

\* A workspace under a stand-in is known to be: by its mark, or by the task that
\* gave it the name and is about to write the mark.
StandInKnown(d) ==
  Own(wname[d]) \/ IF At(d, "mark") THEN task[d].alias ELSE mark[d].localName = wname[d]

\* The names a device would send, or takes for the account's, are no stand-ins.
Named(d) ==
  /\ Own(mark[d].name) /\ Own(put[d].name)
  /\ Own(task[d].got.name) /\ Own(task[d].listed)
  /\ task[d].pc \notin Loose => here[d]
  /\ ~here[d] => Own(wname[d])
  /\ StandInKnown(d)

\* The inductive invariant behind StandInStays, while no tab is closed.
NamesOwn == /\ crashes = 0 /\ Own(row.name)
            /\ \A b \in late : Own(b.name)
            /\ \A d \in Devices : Named(d)

\* The names that sync starts from, and those that stand for none, are no stand-ins.
LEMMA OwnNames ==
  /\ Own(NoName) /\ Own(IdName) /\ Own("") /\ Own(OneName)
  /\ Own(Idle.got.name) /\ Own(Idle.listed)
<1>1. Own(OneName)
  BY SyncAssumption DEF Own, OneName
<1>. QED BY <1>1, SyncAssumption, StandInAssumption DEF Own, Idle, NoRow

\* What a device keeps of names is as it was, and its task is on its way.
SameNames(d) ==
  /\ here'[d] = here[d] /\ wname'[d] = wname[d]
  /\ mark'[d].name = mark[d].name /\ mark'[d].localName = mark[d].localName

SameTask(d) == task'[d] = task[d] /\ put'[d] = put[d]

\* A step that leaves the names alone, and a task that is not about to write a mark.
LEMMA QuietNamed ==
  ASSUME NEW d \in Devices, Named(d), SameNames(d), ~At(d, "mark"), task'[d].pc # "mark",
         task'[d].pc \in Loose \/ here[d], Own(put'[d].name),
         Own(task'[d].got.name), Own(task'[d].listed)
  PROVE  Named(d)'
BY DEF Named, SameNames, StandInKnown, At, Own

\* So does one that leaves the task alone too.
LEMMA StillNamed ==
  ASSUME NEW d \in Devices, Named(d), SameNames(d), SameTask(d) PROVE Named(d)'
BY DEF Named, SameNames, SameTask, StandInKnown, At, Own

\* A workspace that goes takes its name with it.
LEMMA VanishNamed ==
  ASSUME TypeOK, NEW d \in Devices, NEW who, Vanish(d, who), Named(d), put'[d] = put[d],
         Own(mark'[d].name), task'[d].pc \in Loose,
         Own(task'[d].got.name), Own(task'[d].listed)
  PROVE  Named(d)'
<1>1. wname'[d] = NoName /\ ~here'[d]
  BY DEF Vanish, TypeOK, StoreTypeOK
<1>. QED BY <1>1, OwnNames DEF Named, StandInKnown, At, Loose, Own

\* The types that these steps use.
NameTypes ==
  /\ task \in [Devices -> Tasks] /\ mark \in [Devices -> Marks]
  /\ put \in [Devices -> Puts] /\ wname \in [Devices -> AnyName]
  /\ here \in [Devices -> BOOLEAN]

\* Flagging a mark leaves its names.
LEMMA FlagNames ==
  ASSUME TypeOK, NEW d \in Devices, Flag(d) \/ (\E files : Announce(d, files))
  PROVE  mark'[d].name = mark[d].name /\ mark'[d].localName = mark[d].localName
<1>. mark \in [Devices -> Marks]
  BY DEF TypeOK, StoreTypeOK
<1>1. ASSUME Flag(d)
      PROVE  mark'[d].name = mark[d].name /\ mark'[d].localName = mark[d].localName
  BY <1>1 DEF Flag, Dirtied, Marks
<1>. QED BY <1>1 DEF Announce, Schedule

\* Only the device of a step has its names changed by it.
LEMMA OthersNamed ==
  ASSUME TypeOK, NEW d \in Devices, NEW e \in Devices \ {d},
         \/ UserStep(d) \/ (\E p \in Paths : Autosave(d, p)) \/ SettleLocalDeletes(d)
         \/ PushCurrent(d) \/ Reconcile(d) \/ ListFails(d) \/ Resolve(d) \/ TaskStep(d)
         \/ Serve(d) \/ Timeout(d)
  PROVE  SameNames(e) /\ SameTask(e)
<1>. NameTypes
  BY DEF TypeOK, TabTypeOK, StoreTypeOK, NameTypes
<1>. USE DEF NameTypes, SameNames, SameTask, storeVars, editorVars, effectVars, netVars
<1>1. ASSUME Flag(d) PROVE mark'[e] = mark[e]
  BY <1>1 DEF Flag
<1>2. ASSUME NEW files, Announce(d, files) PROVE mark'[e] = mark[e]
  BY <1>1, <1>2 DEF Announce, Schedule
<1>3. ASSUME \/ UserStep(d) \/ (\E p \in Paths : Autosave(d, p)) \/ SettleLocalDeletes(d)
             \/ ListFails(d)
      PROVE  SameNames(e) /\ SameTask(e)
  BY <1>1, <1>3 DEF UserStep, Type, CreateFile, DeleteFile, RenameWorkspace, ReleaseName,
       DeleteWorkspace, StartTutorial, Autosave, SettleLocalDeletes, ListFails, Schedule, Vanish
<1>4. ASSUME PushCurrent(d) \/ Reconcile(d) \/ Resolve(d) PROVE SameNames(e) /\ SameTask(e)
  BY <1>4 DEF PushCurrent, Push, Reconcile, Resolve, ResolveSide, ResolveDelete, ResolveKeep,
       ResolveRetry, Vanish, Unmark
<1>5. ASSUME Serve(d) \/ Timeout(d) PROVE SameNames(e) /\ SameTask(e)
  BY <1>5 DEF Serve, Timeout
<1>6. ASSUME Rewrite(d) PROVE SameNames(e) /\ SameTask(e)
  BY <1>2, <1>6 DEF Rewrite
<1>7. ASSUME \/ PassSkips(d) \/ PassTakes(d) \/ PassPushes(d) \/ PassDiverged(d)
             \/ SettleDelete(d) \/ Import(d) \/ Adopt(d) \/ SettleNames(d)
      PROVE  SameNames(e) /\ SameTask(e)
  BY <1>7 DEF PassSkips, PassTakes, PassPushes, PassDiverged, SettleDelete, Import, Adopt,
       SettleNames, Push, Goto, Vanish, Unmark, Raise
<1>8. ASSUME \/ AcceptMark(d) \/ AcceptBase(d) \/ SwapMissed(d)
             \/ Refused(d, "deleted", "deleted-elsewhere")
             \/ Refused(d, "name-taken", "name-taken")
             \/ MergeGone(d) \/ MergeFailed(d) \/ MergeAsks(d) \/ MergePlans(d)
      PROVE  SameNames(e) /\ SameTask(e)
  BY <1>8 DEF AcceptMark, AcceptBase, SwapMissed, Refused, MergeGone, MergeFailed, MergeAsks,
       MergePlans, Goto, Raise
<1>9. ASSUME Remark(d) \/ Rebase(d) \/ MergePush(d) \/ Close(d)
      PROVE  SameNames(e) /\ SameTask(e)
  BY <1>9 DEF Remark, Rebase, MergePush, Push, Close, Goto
<1>. QED BY <1>3, <1>4, <1>5, <1>6, <1>7, <1>8, <1>9 DEF TaskStep

\* The user, the effect and the banner's answers to a delete: the user's names are
\* no stand-ins, and a workspace without a mark is under such a name or is gone.
LEMMA UserNamed ==
  ASSUME TypeOK, NEW d \in Devices, Named(d),
         \/ UserStep(d) \/ (\E p \in Paths : Autosave(d, p)) \/ SettleLocalDeletes(d)
         \/ ListFails(d) \/ ResolveDelete(d) \/ ResolveKeep(d)
  PROVE  Named(d)'
<1>. NameTypes
  BY DEF TypeOK, TabTypeOK, StoreTypeOK, NameTypes
<1>. USE DEF NameTypes, storeVars, editorVars, effectVars, netVars
<1>1. Own(NoMark.name)
  BY OwnNames DEF NoMark
<1>2. ASSUME \/ \E p \in Paths, r \in Regions : Type(d, p, r)
             \/ \E p \in Paths : Autosave(d, p) \/ CreateFile(d, p) \/ DeleteFile(d, p)
             \/ ReleaseName(d) \/ ListFails(d)
      PROVE  SameNames(d) /\ SameTask(d)
  BY <1>2, FlagNames DEF Type, Autosave, CreateFile, DeleteFile, ReleaseName, ListFails,
       Schedule, SameNames, SameTask
<1>3. ASSUME NEW n \in Names, RenameWorkspace(d, n) PROVE Named(d)'
  <2>1. /\ wname'[d] = n /\ Own(n) /\ UNCHANGED <<here, task, put>> /\ IsIdle(d) /\ here[d]
        /\ Flag(d)
    BY <1>3 DEF RenameWorkspace, Schedule, Own
  <2>2. mark'[d].name = mark[d].name
    BY <2>1, FlagNames
  <2>. QED BY <2>1, <2>2 DEF Named, StandInKnown, Own
<1>4. CASE StartTutorial(d)
  <2>1. wname'[d] = OneName /\ UNCHANGED <<mark, task, put>> /\ here'[d]
    BY <1>4 DEF StartTutorial
  <2>. QED BY <2>1, OwnNames DEF Named, StandInKnown, Own
<1>5. CASE SettleLocalDeletes(d)
  <2>1. ~here[d] /\ mark'[d] = NoMark /\ UNCHANGED <<here, wname, task, put>>
    BY <1>5 DEF SettleLocalDeletes
  <2>. QED BY <1>1, <2>1 DEF Named, StandInKnown, Own
<1>6. CASE DeleteWorkspace(d) \/ ResolveDelete(d) \/ ResolveKeep(d)
  <2>1. /\ \E who : Vanish(d, who)
        /\ UNCHANGED <<task, put>> /\ IsIdle(d)
        /\ mark'[d] = mark[d] \/ mark'[d] = NoMark
    BY <1>6 DEF DeleteWorkspace, ResolveDelete, ResolveKeep, Unmark
  <2>. QED BY <1>1, <2>1, VanishNamed DEF Named, IsIdle, At, Loose, Own
<1>. QED BY <1>2, <1>3, <1>4, <1>5, <1>6, StillNamed DEF UserStep

\* _push sends the name that a stand-in stands in for.
LEMMA SentName ==
  ASSUME NEW d \in Devices, Named(d), ~At(d, "mark"), NEW files
  PROVE  Own(StoredName(d)) /\ Own(Body(d, files).name)
<1>1. Own(StoredName(d))
  BY DEF StoredName, Named, StandInKnown
<1>2. Body(d, files).name = StoredName(d)
  BY DEF Body
<1>. QED BY <1>1, <1>2

\* A push, from a workspace that is there.
LEMMA PushNamed ==
  ASSUME TypeOK, NEW d \in Devices, Named(d), SameNames(d), here[d], ~At(d, "mark"),
         NEW files, NEW t \in Tasks, NEW skipped \in Tasks, NEW asked,
         Push(d, files, t, skipped, asked),
         Own(t.got.name), Own(t.listed),
         skipped.pc # "mark", Own(skipped.got.name), Own(skipped.listed)
  PROVE  Named(d)'
<1>. NameTypes
  BY DEF TypeOK, TabTypeOK, StoreTypeOK, NameTypes
<1>1. CASE task' = [task EXCEPT ![d] = skipped] /\ put' = put
  <2>1. task'[d] = skipped /\ Own(put'[d].name)
    BY <1>1 DEF NameTypes, Named
  <2>. QED BY <2>1, QuietNamed
<1>2. CASE /\ task' = [task EXCEPT ![d] = [t EXCEPT !.pc = "sent", !.want = files]]
           /\ put' = [put EXCEPT ![d] = Body(d, files)]
  <2>1. task'[d].pc = "sent" /\ task'[d].got = t.got /\ task'[d].listed = t.listed
    BY <1>2 DEF Tasks, NameTypes
  <2>2. Own(put'[d].name)
    BY <1>2, SentName DEF NameTypes
  <2>. QED BY <2>1, <2>2, QuietNamed
<1>. QED BY <1>1, <1>2 DEF Push

\* Where a task ends it goes by no name but the one that the list gave.
LEMMA EndNamed ==
  ASSUME TypeOK, NEW d \in Devices, Named(d)
  PROVE  /\ Idle.pc = "idle" /\ Own(Idle.got.name) /\ Own(Idle.listed)
         /\ \A m : /\ Ended(d, m).pc \in {"idle", "names"}
                   /\ Own(Ended(d, m).got.name) /\ Own(Ended(d, m).listed)
         /\ AfterPush(d).pc \in {"idle", "names", "close"}
         /\ Own(AfterPush(d).got.name) /\ Own(AfterPush(d).listed)
<1>. task[d] \in Tasks
  BY DEF TypeOK, TabTypeOK
<1>1. Idle.pc = "idle" /\ Own(Idle.got.name) /\ Own(Idle.listed)
  BY OwnNames DEF Idle
<1>2. ASSUME NEW m
      PROVE  /\ Ended(d, m).pc \in {"idle", "names"}
             /\ Own(Ended(d, m).got.name) /\ Own(Ended(d, m).listed)
  <2>. DEFINE n == [Idle EXCEPT !.pc = "names", !.listed = task[d].listed]
  <2>1. n.pc = "names" /\ n.got = Idle.got /\ n.listed = task[d].listed
    BY DEF Idle
  <2>2. Ended(d, m) = n \/ Ended(d, m) = Idle
    BY DEF Ended
  <2>. HIDE DEF n
  <2>. QED BY <1>1, <2>1, <2>2 DEF Named
<1>3. LET c == [task[d] EXCEPT !.pc = "close"]
      IN  c.pc = "close" /\ c.got = task[d].got /\ c.listed = task[d].listed
  BY DEF Tasks
<1>4. AfterPush(d) = [task[d] EXCEPT !.pc = "close"] \/ AfterPush(d) = Ended(d, mark[d])
  BY DEF AfterPush
<1>. QED BY <1>1, <1>2, <1>3, <1>4 DEF Named

\* Requests, and a lost one.
LEMMA NetNamed ==
  ASSUME TypeOK, NEW d \in Devices, Named(d),
         PushCurrent(d) \/ ResolveRetry(d) \/ Serve(d) \/ Timeout(d)
  PROVE  Named(d)'
<1>. NameTypes
  BY DEF TypeOK, TabTypeOK, StoreTypeOK, NameTypes
<1>. USE DEF storeVars, editorVars, effectVars, netVars, NameTypes
<1>1. Own(NoPut.name)
  BY OwnNames DEF NoPut
<1>2. CASE PushCurrent(d)
  <2>. DEFINE t == [Idle EXCEPT !.job = "push", !.by = "editor"]
  <2>1. t \in Tasks /\ t.got = Idle.got /\ t.listed = Idle.listed
    BY ConstantTypes DEF Tasks, Idle
  <2>2. Push(d, disk[d], t, Idle, question[d]) /\ SameNames(d) /\ here[d] /\ ~At(d, "mark")
    BY <1>2 DEF PushCurrent, SameNames, IsIdle, At
  <2>. HIDE DEF t
  <2>. QED BY <2>1, <2>2, PushNamed, EndNamed, ConstantTypes
<1>3. CASE ResolveRetry(d)
  <2>. DEFINE t == [Idle EXCEPT !.job = "push", !.by = "answer", !.prev = question[d]]
  <2>1. question[d] \in Questions
    BY DEF TypeOK, TabTypeOK
  <2>2. t \in Tasks /\ t.got = Idle.got /\ t.listed = Idle.listed
    BY <2>1, ConstantTypes DEF Tasks, Idle
  <2>3. Push(d, disk[d], t, Idle, NoQuestion) /\ SameNames(d) /\ here[d] /\ ~At(d, "mark")
    BY <1>3 DEF ResolveRetry, SameNames, IsIdle, At
  <2>. HIDE DEF t
  <2>. QED BY <2>2, <2>3, PushNamed, EndNamed, ConstantTypes
<1>4. CASE Serve(d)
  <2>1. UNCHANGED <<task, mark, here, wname>> /\ put'[d] = NoPut
    BY <1>4 DEF Serve
  <2>. QED BY <1>1, <2>1 DEF Named, StandInKnown, At, Own
<1>5. CASE Timeout(d)
  <2>1. /\ SameNames(d) /\ put'[d] = NoPut /\ task'[d] = AfterPush(d) /\ task[d].pc = "sent"
    BY <1>5 DEF Timeout, SameNames, At
  <2>2. here[d]
    BY <2>1 DEF Named, Loose
  <2>. QED BY <1>1, <2>1, <2>2, QuietNamed, EndNamed DEF At
<1>. QED BY <1>2, <1>3, <1>4, <1>5

\* _push, from the answer on: the mark keeps the stand-in beside the name.
LEMMA AnswerNamed ==
  ASSUME TypeOK, NEW d \in Devices, Named(d),
         \/ AcceptMark(d) \/ AcceptBase(d) \/ SwapMissed(d)
         \/ Refused(d, "deleted", "deleted-elsewhere") \/ Refused(d, "name-taken", "name-taken")
  PROVE  Named(d)'
<1>. NameTypes
  BY DEF TypeOK, TabTypeOK, StoreTypeOK, NameTypes
<1>. USE DEF storeVars, editorVars, effectVars, netVars, NameTypes
<1>. task[d] \in Tasks /\ Own(put[d].name) /\ Own(task[d].got.name) /\ Own(task[d].listed)
  BY DEF Named
<1>1. task[d].pc \in {"sent", "accepted"} /\ here[d] /\ ~At(d, "mark")
  BY DEF AcceptMark, AcceptBase, SwapMissed, Refused, Answered, At, Named, Loose
<1>2. ASSUME NEW pc, Goto(d, pc)
      PROVE  task'[d].pc = pc /\ task'[d].got = task[d].got /\ task'[d].listed = task[d].listed
  BY <1>2 DEF Goto, Tasks
<1>3. CASE AcceptMark(d)
  <2>1. /\ Goto(d, "accepted") /\ UNCHANGED <<here, wname, put>>
        /\ mark'[d].name = StoredName(d)
        /\ mark'[d].localName = IF mark[d].localName = wname[d] THEN wname[d] ELSE NoName
    BY <1>3 DEF AcceptMark
  <2>2. Own(wname[d]) \/ mark'[d].localName = wname'[d]
    BY <1>1, <2>1 DEF Named, StandInKnown
  <2>3. Own(mark'[d].name)
    BY <1>1, <2>1, SentName
  <2>4. task'[d].pc = "accepted" /\ task'[d].got = task[d].got /\ task'[d].listed = task[d].listed
    BY <1>2, <2>1
  <2>. QED BY <1>1, <2>1, <2>2, <2>3, <2>4 DEF Named, StandInKnown, At, Own
<1>4. CASE AcceptBase(d)
  <2>1. SameNames(d) /\ put'[d] = put[d]
    BY <1>4 DEF AcceptBase, SameNames
  <2>2. Goto(d, "close") \/ task'[d] = Ended(d, mark[d])
    BY <1>4 DEF AcceptBase
  <2>. QED BY <1>1, <1>2, <2>1, <2>2, QuietNamed, EndNamed
<1>5. CASE SwapMissed(d)
  <2>1. SameNames(d) /\ put'[d] = put[d]
    BY <1>5 DEF SwapMissed, SameNames
  <2>2. /\ task'[d].pc \in {"merge", "close"}
        /\ task'[d].got = task[d].got \/ task'[d].got = Idle.got
        /\ task'[d].listed = task[d].listed
    <3>1. CASE task' = [task EXCEPT ![d] = [Merging(d, task[d].by) EXCEPT !.refused = TRUE]]
      BY <3>1 DEF Merging, Idle
    <3>2. CASE task' = [task EXCEPT ![d].pc = "merge", ![d].tries = @ + 1, ![d].carried = TRUE]
      BY <3>2 DEF Tasks
    <3>. QED BY <1>2, <1>5, <3>1, <3>2 DEF SwapMissed
  <2>. QED BY <1>1, <2>1, <2>2, QuietNamed, EndNamed
<1>6. ASSUME NEW kind, NEW asks, Refused(d, kind, asks) PROVE Named(d)'
  <2>1. SameNames(d) /\ put'[d] = put[d] /\ task'[d] = AfterPush(d)
    BY <1>6 DEF Refused, SameNames
  <2>. QED BY <1>1, <2>1, QuietNamed, EndNamed
<1>. QED BY <1>3, <1>4, <1>5, <1>6

\* renameToServer and the mark after it: a name that freeName stepped to is not the
\* account's, so the mark is written as a stand-in's.
LEMMA RewriteNamed ==
  ASSUME TypeOK, NEW d \in Devices, Named(d), Rewrite(d) \/ Remark(d)
  PROVE  Named(d)'
<1>. NameTypes
  BY DEF TypeOK, TabTypeOK, StoreTypeOK, NameTypes
<1>. USE DEF NameTypes
<1>. task[d] \in Tasks
  OBVIOUS
<1>1. here[d]
  BY DEF Rewrite, Remark, At, Named, Loose
<1>2. CASE Rewrite(d)
  <2>1. /\ UNCHANGED <<here, put>> /\ wname'[d] = NameAfter(d) /\ task[d].pc = "rewrite"
        /\ \E files : Announce(d, files)
    BY <1>2 DEF Rewrite, netVars, At
  <2>2. /\ task'[d].pc = "mark" /\ task'[d].got = task[d].got /\ task'[d].listed = task[d].listed
        /\ task'[d].alias <=> /\ wname'[d] # task[d].got.name
                              /\ task[d].job = "adopt" \/ Takes(d) \/ StandsIn(d)
    BY <1>2 DEF Rewrite, Tasks
  <2>3. mark'[d].name = mark[d].name
    BY <2>1, FlagNames
  <2>4. Own(wname[d]) \/ StandsIn(d)
    BY <2>1 DEF Named, StandInKnown, At, StandsIn
  <2>5. Own(wname'[d]) \/ Takes(d) \/ StandsIn(d)
    BY <2>1, <2>4 DEF NameAfter
  <2>6. Own(wname'[d]) \/ task'[d].alias
    BY <2>2, <2>5 DEF Named
  <2>. QED BY <1>1, <2>1, <2>2, <2>3, <2>6 DEF Named, StandInKnown, At, Own
<1>3. CASE Remark(d)
  <2>1. /\ task'[d].pc = "base" /\ task'[d].got = task[d].got /\ task'[d].listed = task[d].listed
        /\ UNCHANGED <<here, wname, put>> /\ task[d].pc = "mark"
    BY <1>3 DEF Remark, Goto, Tasks, netVars, At
  <2>2. /\ mark'[d].name = task[d].got.name
        /\ mark'[d].localName = IF task[d].alias THEN wname[d] ELSE NoName
    BY <1>3 DEF Remark, Agreed
  <2>. QED BY <1>1, <2>1, <2>2 DEF Named, StandInKnown, At, Own
<1>. QED BY <1>2, <1>3

\* mergeWithServer, and what follows its rewrites.
LEMMA MergeNamed ==
  ASSUME TypeOK, NEW d \in Devices, Own(row.name), Named(d),
         \/ MergeGone(d) \/ MergeFailed(d) \/ MergeAsks(d) \/ MergePlans(d)
         \/ Rebase(d) \/ MergePush(d) \/ Close(d)
  PROVE  Named(d)'
<1>. NameTypes
  BY DEF TypeOK, TabTypeOK, StoreTypeOK, NameTypes
<1>. USE DEF storeVars, editorVars, effectVars, netVars, NameTypes
<1>. task[d] \in Tasks /\ Own(put[d].name) /\ Own(task[d].got.name) /\ Own(task[d].listed)
  BY DEF Named
<1>1. task[d].pc \in {"merge", "base", "push", "close"} /\ here[d] /\ ~At(d, "mark")
  BY DEF MergeGone, MergeFailed, MergeAsks, MergePlans, Readable, Rebase, MergePush, Close,
       At, Named, Loose
<1>2. ASSUME NEW pc, Goto(d, pc)
      PROVE  task'[d].pc = pc /\ task'[d].got = task[d].got /\ task'[d].listed = task[d].listed
  BY <1>2 DEF Goto, Tasks
<1>3. CASE MergeGone(d) \/ MergeFailed(d) \/ MergeAsks(d)
  <2>1. SameNames(d) /\ put'[d] = put[d] /\ Goto(d, "close")
    BY <1>3 DEF MergeGone, MergeFailed, MergeAsks, SameNames
  <2>. QED BY <1>1, <1>2, <2>1, QuietNamed
<1>4. CASE MergePlans(d)
  <2>1. SameNames(d) /\ put'[d] = put[d]
    BY <1>4 DEF MergePlans, SameNames
  <2>2. task'[d].pc = "rewrite" /\ task'[d].got = row /\ task'[d].listed = task[d].listed
    BY <1>4 DEF MergePlans, Tasks
  <2>. QED BY <1>1, <2>1, <2>2, QuietNamed
<1>5. CASE Rebase(d)
  <2>1. SameNames(d) /\ put'[d] = put[d]
    BY <1>5 DEF Rebase, SameNames
  <2>2. Goto(d, "push") \/ Goto(d, "close") \/ task'[d] = Ended(d, mark[d])
    BY <1>5 DEF Rebase
  <2>. QED BY <1>1, <1>2, <2>1, <2>2, QuietNamed, EndNamed
<1>6. CASE MergePush(d)
  <2>. DEFINE s == [task[d] EXCEPT !.pc = "close"]
  <2>1. s \in Tasks /\ s.pc = "close" /\ s.got = task[d].got /\ s.listed = task[d].listed
    BY ONLY task[d] \in Tasks DEF Tasks
  <2>2. Push(d, task[d].want, task[d], s, question[d]) /\ SameNames(d)
    BY <1>6 DEF MergePush, SameNames
  <2>. HIDE DEF s
  <2>. QED BY <1>1, <2>1, <2>2, PushNamed
<1>7. CASE Close(d)
  <2>1. /\ UNCHANGED <<here, wname, put>> /\ task'[d] = Ended(d, mark'[d])
        /\ mark' = mark \/ mark' = [mark EXCEPT ![d] = Dirtied(@)]
    BY <1>7 DEF Close
  <2>2. mark'[d].name = mark[d].name /\ mark'[d].localName = mark[d].localName
    BY <2>1 DEF Dirtied, Marks
  <2>3. SameNames(d)
    BY <2>1, <2>2 DEF SameNames
  <2>. QED BY <1>1, <2>1, <2>3, QuietNamed, EndNamed
<1>. QED BY <1>3, <1>4, <1>5, <1>6, <1>7

\* reconcile: it reads the account's name, and importFresh makes a workspace that
\* its task knows to be under a stand-in.
LEMMA PassNamed ==
  ASSUME TypeOK, NEW d \in Devices, Own(row.name), Named(d),
         \/ Reconcile(d) \/ PassSkips(d) \/ PassTakes(d) \/ PassPushes(d) \/ PassDiverged(d)
         \/ SettleDelete(d) \/ Import(d) \/ Adopt(d) \/ SettleNames(d)
         \/ \E side \in {"local", "server"} : ResolveSide(d, side)
  PROVE  Named(d)'
<1>. NameTypes
  BY DEF TypeOK, TabTypeOK, StoreTypeOK, NameTypes
<1>. USE DEF storeVars, editorVars, effectVars, netVars, NameTypes
<1>. task[d] \in Tasks /\ Own(put[d].name) /\ Own(task[d].got.name) /\ Own(task[d].listed)
  BY DEF Named
<1>1. task[d].pc \in {"idle", "listed", "import", "adopt", "names"} /\ ~At(d, "mark")
  BY DEF Reconcile, PassSkips, PassTakes, PassPushes, PassDiverged, SettleDelete, Import, Adopt,
       SettleNames, ResolveSide, Listed, Unlisted, IsIdle, At
<1>2. ASSUME NEW by
      PROVE  /\ Merging(d, by).pc = "merge" /\ Merging(d, by).got = Idle.got
             /\ Merging(d, by).listed = task[d].listed
  BY DEF Merging, Idle
<1>3. CASE Reconcile(d)
  <2>1. /\ SameNames(d) /\ put'[d] = put[d]
        /\ task'[d] = [Idle EXCEPT !.pc = "listed", !.by = "pass", !.got = row,
                                   !.listed = row.name]
    BY <1>3 DEF Reconcile, SameNames
  <2>2. task'[d].pc = "listed" /\ task'[d].got = row /\ task'[d].listed = row.name
    BY <2>1 DEF Idle
  <2>. QED BY <1>1, <2>1, <2>2, QuietNamed DEF Loose
<1>4. CASE PassSkips(d)
  <2>1. SameNames(d) /\ put'[d] = put[d] /\ task'[d] = Ended(d, mark[d])
    BY <1>4 DEF PassSkips, SameNames
  <2>. QED BY <1>1, <2>1, QuietNamed, EndNamed DEF Loose
<1>5. CASE PassTakes(d)
  <2>1. SameNames(d) /\ put'[d] = put[d]
    BY <1>5 DEF PassTakes, SameNames
  <2>2. CASE Goto(d, "import")
    <3>1. /\ task'[d].pc = "import"
          /\ task'[d].got = task[d].got /\ task'[d].listed = task[d].listed
      BY <2>2 DEF Goto, Tasks
    <3>. QED BY <1>1, <2>1, <3>1, QuietNamed DEF Loose
  <2>3. CASE here[d] /\ Goto(d, "adopt")
    <3>1. /\ task'[d].pc = "adopt" /\ here[d]
          /\ task'[d].got = task[d].got /\ task'[d].listed = task[d].listed
      BY <2>3 DEF Goto, Tasks
    <3>. QED BY <1>1, <2>1, <3>1, QuietNamed
  <2>. QED BY <1>5, <2>2, <2>3 DEF PassTakes
<1>6. PassPush(d) \in Tasks /\ PassPush(d).got = Idle.got /\ PassPush(d).listed = task[d].listed
  <2>1. task[d].listed \in AnyName
    BY DEF Tasks
  <2>2. PassPush(d) \in Tasks
    BY ONLY <2>1, ConstantTypes DEF PassPush, Tasks
  <2>3. PassPush(d).got = Idle.got /\ PassPush(d).listed = task[d].listed
    BY ONLY TRUE DEF PassPush, Idle
  <2>. QED BY <2>2, <2>3
<1>7. ASSUME Push(d, disk[d], PassPush(d), Ended(d, mark[d]), question[d]), SameNames(d), here[d]
      PROVE  Named(d)'
  BY <1>1, <1>6, <1>7, PushNamed, EndNamed, EndedType
<1>8. CASE PassPushes(d)
  <2>1. SameNames(d) /\ here[d]
    BY <1>8 DEF PassPushes, SameNames
  <2>. QED BY <1>7, <1>8, <2>1 DEF PassPushes
<1>9. CASE PassDiverged(d)
  <2>1. SameNames(d) /\ here[d]
    BY <1>9 DEF PassDiverged, SameNames
  <2>2. CASE put' = put /\ task' = [task EXCEPT ![d] = Merging(d, "pass")]
    <3>1. task'[d] = Merging(d, "pass") /\ put'[d] = put[d]
      BY <2>2
    <3>. QED BY <1>1, <1>2, <2>1, <3>1, QuietNamed, EndNamed
  <2>. QED BY <1>7, <1>9, <2>1, <2>2 DEF PassDiverged
<1>10. CASE SettleDelete(d)
  <2>1. put'[d] = put[d] /\ task'[d] = Idle
    BY <1>10 DEF SettleDelete
  <2>2. mark'[d] = mark[d] \/ mark'[d] = NoMark
    BY <1>10 DEF SettleDelete, Unmark
  <2>3. Own(mark'[d].name)
    <3>1. Own(NoMark.name) /\ Own(mark[d].name)
      BY OwnNames DEF NoMark, Named
    <3>. QED BY <2>2, <3>1
  <2>4. CASE \E who : Vanish(d, who)
    BY <2>1, <2>3, <2>4, VanishNamed, EndNamed DEF Loose
  <2>5. CASE UNCHANGED <<here, wname>> /\ (mark' = mark \/ ~here[d])
    BY <1>1, <2>1, <2>3, <2>5, EndNamed DEF Named, StandInKnown, At, Loose, Own
  <2>. QED BY <1>10, <2>4, <2>5 DEF SettleDelete
<1>11. CASE Import(d)
  <2>1. UNCHANGED <<mark, put>> /\ task[d].pc = "import"
    BY <1>11 DEF Import, At
  <2>2. CASE task' = [task EXCEPT ![d] = Idle] /\ UNCHANGED <<here, wname>>
    <3>1. task'[d] = Idle /\ SameNames(d) /\ put'[d] = put[d]
      BY <2>1, <2>2 DEF SameNames
    <3>. QED BY <1>1, <3>1, QuietNamed, EndNamed DEF Loose
  <2>3. CASE /\ here' = [here EXCEPT ![d] = TRUE]
             /\ task' = [task EXCEPT ![d].pc = "mark", ![d].job = "import",
                                     ![d].got = [row EXCEPT !.name = task[d].got.name],
                                     ![d].alias = wname'[d] # task[d].got.name]
    <3>1. /\ here'[d] /\ task'[d].pc = "mark" /\ task'[d].listed = task[d].listed
          /\ task'[d].got = [row EXCEPT !.name = task[d].got.name]
          /\ task'[d].alias <=> wname'[d] # task[d].got.name
      BY <2>3 DEF Tasks
    <3>2. task'[d].got.name = task[d].got.name
      BY <3>1 DEF TypeOK, Rows
    <3>3. Own(wname'[d]) \/ task'[d].alias
      BY <3>1
    <3>. QED BY <2>1, <3>1, <3>2, <3>3 DEF Named, StandInKnown, At, Own
  <2>. QED BY <1>11, <2>2, <2>3 DEF Import
<1>12. CASE Adopt(d)
  <2>1. SameNames(d) /\ put'[d] = put[d] /\ here[d]
    BY <1>12 DEF Adopt, SameNames, At, Named, Loose
  <2>2. \/ task'[d] = Ended(d, mark[d])
        \/ task'[d].pc = "rewrite" /\ task'[d].got = row /\ task'[d].listed = task[d].listed
    BY <1>12 DEF Adopt, Tasks
  <2>. QED BY <1>1, <2>1, <2>2, QuietNamed, EndNamed
<1>13. CASE SettleNames(d)
  <2>1. put'[d] = put[d] /\ task'[d] = Idle /\ UNCHANGED here
    BY <1>13 DEF SettleNames
  <2>2. CASE UNCHANGED <<wname, mark>>
    BY <1>1, <2>1, <2>2, QuietNamed, EndNamed DEF SameNames, Loose
  <2>3. CASE /\ wname' = [wname EXCEPT ![d] = mark[d].name]
             /\ mark' = [mark EXCEPT ![d].localName = NoName]
    <3>1. wname'[d] = mark[d].name /\ mark'[d].name = mark[d].name
      BY <2>3 DEF Marks
    <3>. QED BY <2>1, <3>1, EndNamed DEF Named, StandInKnown, Loose, Own
  <2>. QED BY <1>13, <2>2, <2>3 DEF SettleNames
<1>14. ASSUME NEW side, ResolveSide(d, side) PROVE Named(d)'
  <2>1. /\ SameNames(d) /\ put'[d] = put[d] /\ here[d]
        /\ task'[d] = [Merging(d, "answer") EXCEPT !.prefer = side, !.asked = question[d].paths]
    BY <1>14 DEF ResolveSide, SameNames
  <2>2. task'[d].pc = "merge" /\ task'[d].got = Idle.got /\ task'[d].listed = task[d].listed
    BY <2>1 DEF Merging, Idle
  <2>. QED BY <1>1, <2>1, <2>2, QuietNamed, EndNamed
<1>. QED BY <1>3, <1>4, <1>5, <1>8, <1>9, <1>10, <1>11, <1>12, <1>13, <1>14

\* The account's row takes the name of an upload or, from a chat turn, the id.
LEMMA RowNamed ==
  ASSUME TypeOK, NamesOwn, [Next]_vars PROVE Own(row.name)'
<1>1. ASSUME NEW b, Own(b.name), SaveBody(b) PROVE Own(row'.name)
  BY <1>1 DEF SaveBody, Written
<1>2. ASSUME NEW e \in Devices, SettleLocalDeletes(e) PROVE Own(row'.name)
  <2>1. row' = row \/ row' = [row EXCEPT !.state = "deleted", !.files = NoFiles]
    BY <1>2 DEF SettleLocalDeletes, Delete
  <2>2. row'.name = row.name
    BY <2>1 DEF TypeOK, Rows
  <2>. QED BY <2>2 DEF NamesOwn
<1>3. ASSUME NEW e \in Devices, Serve(e) PROVE Own(row'.name)
  <2>1. SaveBody(put[e]) \/ row' = row
    BY <1>3 DEF Serve
  <2>. QED BY <1>1, <2>1 DEF NamesOwn, Named
<1>4. ASSUME NEW b \in late, ServeLate(b) PROVE Own(row'.name)
  <2>1. SaveBody(b) \/ row' = row
    BY <1>4 DEF ServeLate
  <2>. QED BY <1>1, <2>1 DEF NamesOwn
<1>5. ASSUME ChatTurn PROVE Own(row'.name)
  BY <1>5, OwnNames DEF ChatTurn, EnsureParent
<1>6. CASE row' = row
  BY <1>6 DEF NamesOwn
<1>7. row' = row \/ Own(row'.name)
  BY <1>2, <1>3, <1>4, <1>5, QuietRow DEF Next, vars
<1>. QED BY <1>6, <1>7 DEF Own

\* So do the uploads that nobody waits for: a timed-out one had its device's name.
LEMMA LateNamed ==
  ASSUME TypeOK, NamesOwn, [Next]_vars, NEW b \in late' PROVE Own(b.name)
<1>1. ASSUME NEW e \in Devices, Timeout(e) \/ Crash(e) PROVE Own(b.name)
  <2>1. late' = late \cup ({put[e]} \ {NoPut})
    BY <1>1 DEF Timeout, Crash
  <2>. QED BY <2>1 DEF NamesOwn, Named
<1>2. ASSUME NEW c \in late, ServeLate(c) PROVE late' \subseteq late
  BY <1>2 DEF ServeLate
<1>3. ASSUME NEW e \in Devices,
             \/ UserStep(e) \/ Resolve(e) \/ PushCurrent(e) \/ Reconcile(e) \/ ListFails(e)
             \/ RewriteFails(e) \/ Serve(e) \/ SettleLocalDeletes(e)
             \/ \E p \in Paths : Autosave(e, p)
      PROVE  late' = late
  BY <1>3 DEF UserStep, Type, CreateFile, DeleteFile, RenameWorkspace, ReleaseName,
       DeleteWorkspace, StartTutorial, Resolve, ResolveSide, ResolveDelete, ResolveKeep,
       ResolveRetry, PushCurrent, Reconcile, ListFails, RewriteFails, Serve, SettleLocalDeletes,
       Autosave, netVars
<1>4. ASSUME NEW e \in Devices, TaskStep(e) PROVE late' = late
  BY <1>4 DEF TaskStep, PassSkips, PassTakes, PassPushes, PassDiverged, SettleDelete, Import,
       Adopt, SettleNames, AcceptMark, AcceptBase, SwapMissed, Refused, MergeGone, MergeFailed,
       MergeAsks, MergePlans, Rewrite, Remark, Rebase, MergePush, Close, netVars
<1>5. ASSUME ChatTurn \/ UNCHANGED vars PROVE late' = late
  BY <1>5 DEF ChatTurn, vars, netVars
<1>6. Own(b.name) \/ late' \subseteq late
  BY <1>1, <1>2, <1>3, <1>4, <1>5 DEF Next
<1>. QED BY <1>6 DEF NamesOwn

\* No tab is closed where none may be.
LEMMA NoCrash ==
  ASSUME MaxCrashes = 0, crashes = 0, [Next]_vars
  PROVE  crashes' = 0 /\ \A e \in Devices : ~Crash(e)
<1>1. ASSUME NEW e \in Devices PROVE ~Crash(e)
  BY <1>1 DEF Crash
<1>2. ASSUME NEW e \in Devices,
             \/ UserStep(e) \/ Resolve(e) \/ PushCurrent(e) \/ Reconcile(e) \/ ListFails(e)
             \/ RewriteFails(e) \/ Serve(e) \/ SettleLocalDeletes(e) \/ Timeout(e)
             \/ \E p \in Paths : Autosave(e, p)
      PROVE  crashes' = crashes
  BY <1>2 DEF UserStep, Type, CreateFile, DeleteFile, RenameWorkspace, ReleaseName,
       DeleteWorkspace, StartTutorial, Resolve, ResolveSide, ResolveDelete, ResolveKeep,
       ResolveRetry, PushCurrent, Reconcile, ListFails, RewriteFails, Serve, SettleLocalDeletes,
       Autosave, Timeout, bounds
<1>3. ASSUME NEW e \in Devices, TaskStep(e) PROVE crashes' = crashes
  BY <1>3 DEF TaskStep, PassSkips, PassTakes, PassPushes, PassDiverged, SettleDelete, Import,
       Adopt, SettleNames, AcceptMark, AcceptBase, SwapMissed, Refused, MergeGone, MergeFailed,
       MergeAsks, MergePlans, Rewrite, Remark, Rebase, MergePush, Close, bounds
<1>4. ASSUME ChatTurn \/ (\E b \in late : ServeLate(b)) \/ UNCHANGED vars
      PROVE  crashes' = crashes
  BY <1>4 DEF ChatTurn, ServeLate, vars, bounds
<1>. QED BY <1>1, <1>2, <1>3, <1>4 DEF Next

\* Every step keeps the names apart.
LEMMA NextNamed ==
  ASSUME MaxCrashes = 0, StoreFails = FALSE, TypeOK, NamesOwn, [Next]_vars PROVE NamesOwn'
<1>1. crashes' = 0 /\ \A e \in Devices : ~Crash(e) /\ ~RewriteFails(e)
  BY NoCrash DEF NamesOwn, RewriteFails
<1>2. Own(row.name) /\ Own(row.name)' /\ \A b \in late' : Own(b.name)
  BY RowNamed, LateNamed DEF NamesOwn
<1>3. ASSUME NEW e \in Devices PROVE Named(e)'
  <2>1. Named(e)
    BY <1>3 DEF NamesOwn
  <2>2. ASSUME NEW d \in Devices, d # e,
               \/ UserStep(d) \/ (\E p \in Paths : Autosave(d, p)) \/ SettleLocalDeletes(d)
               \/ PushCurrent(d) \/ Reconcile(d) \/ ListFails(d) \/ Resolve(d) \/ TaskStep(d)
               \/ Serve(d) \/ Timeout(d)
        PROVE  Named(e)'
    BY <2>1, <2>2, OthersNamed, StillNamed
  <2>3. CASE \/ UserStep(e) \/ (\E p \in Paths : Autosave(e, p)) \/ SettleLocalDeletes(e)
             \/ PushCurrent(e) \/ Reconcile(e) \/ ListFails(e) \/ Resolve(e)
             \/ Serve(e) \/ Timeout(e)
    BY <1>2, <2>1, <2>3, UserNamed, NetNamed, PassNamed DEF Resolve
  <2>4. CASE TaskStep(e)
    BY <1>2, <2>1, <2>4, AnswerNamed, MergeNamed, RewriteNamed, PassNamed DEF TaskStep
  <2>5. CASE ChatTurn \/ (\E b \in late : ServeLate(b)) \/ UNCHANGED vars
    <3>1. SameNames(e) /\ SameTask(e)
      BY <2>5 DEF ChatTurn, ServeLate, vars, storeVars, netVars, SameNames, SameTask
    <3>. QED BY <2>1, <3>1, StillNamed
  <2>. QED BY <1>1, <2>2, <2>3, <2>4, <2>5 DEF Next
<1>. QED BY <1>1, <1>2, <1>3 DEF NamesOwn, Own

\* At the start no workspace is under a stand-in.
LEMMA InitNamed == Init => NamesOwn
<1>. SUFFICES ASSUME Init PROVE NamesOwn
  OBVIOUS
<1>1. Own(row.name) /\ late = {} /\ crashes = 0
  <2>1. Own(Stored.name) /\ Own(NoRow.name)
    BY OwnNames DEF Stored, NoRow
  <2>2. (row = Stored \/ row = NoRow) /\ late = {} /\ crashes = 0
    BY DEF Init
  <2>. QED BY <2>1, <2>2
<1>2. ASSUME NEW d \in Devices PROVE Named(d)
  <2>1. task[d] = Idle /\ put[d] = NoPut /\ (wname[d] = OneName \/ wname[d] = NoName)
    BY DEF Init
  <2>2. mark[d].name = OneName \/ mark[d].name = NoName
    BY DEF Init, NoMark, Agreed, Stored
  <2>3. Idle.pc = "idle" /\ NoPut.name = NoName
    BY DEF Idle, NoPut
  <2>. QED BY <2>1, <2>2, <2>3, OwnNames DEF Named, StandInKnown, Loose
<1>. QED BY <1>1, <1>2 DEF NamesOwn

\* A name that sync gave a workspace because another one held the account's is never
\* uploaded as a rename (SyncMark.localName), for any number of edits, renames, merges
\* and lost or late requests, as long as no tab is closed and no write of a workspace
\* fails between the rename and the mark that records it.
THEOREM SyncStandInStays ==
  ASSUME MaxCrashes = 0, StoreFails = FALSE PROVE Spec => []StandInStays
<1>1. TypeOK /\ NamesOwn /\ [Next]_vars => NamesOwn'
  BY NextNamed
<1>2. NamesOwn => StandInStays
  BY DEF NamesOwn, Own, StandInStays
<1>. QED BY <1>1, <1>2, InitNamed, SyncTypes, PTL DEF Spec
=============================================================================
