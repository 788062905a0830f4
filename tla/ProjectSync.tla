---------------------------- MODULE ProjectSync -----------------------------
(***************************************************************************)
(* The client side of project sync: features/persistence/model/            *)
(* project-sync.ts, project-restore.ts, sync-mark.ts, sync-base.ts and the *)
(* effect effects/project-sync, for one project kept on several devices.   *)
(*                                                                         *)
(* A device is a browser with one tab.  Its store (disk, mark, base) is    *)
(* kept across a reload, what the tab holds is not.  withSyncLock lets one *)
(* exchange run at a time (SyncLock), so a device has one task; the user   *)
(* goes on working while it runs.  The account's row is ProjectRow: every  *)
(* request is served in one step (ProjectStore has its transactions).      *)
(*                                                                         *)
(* A step of a task stands for what it does between two points where       *)
(* something else that matters can happen: the user edits, another device  *)
(* writes the row, the tab closes.                                         *)
(***************************************************************************)
EXTENDS ProjectRow, Merge

CONSTANTS
  Devices,
  NoName,        \* no name
  Imported,      \* Imported[n]: the name freeName steps to when n is held
  Starts,        \* the states to start in: "synced", "fresh", "apart"
  Elsewhere,     \* Elsewhere[d]: the name another workspace on d has, or NoName
  DuringRewrite, \* what the user does while sync rewrites: "type", "create"
  StoreFails,    \* whether writing a workspace can fail part-way
  MaxEdits,      \* bound on edits: edit i writes the value i
  MaxChanges,    \* bound on the other things a user does
  MaxFaults,     \* bound on requests lost or answered too late
  MaxCrashes,    \* bound on tabs closed or reloaded
  MergeAttempts  \* MERGE_ATTEMPTS

ASSUME SyncAssumption == /\ MaxEdits \in Nat /\ Vals = 0 .. MaxEdits
                         /\ 1 \in Tokens
                         /\ Imported \in [Names -> Names]
                         /\ \E n \in Names \ Taken : \A m \in Names : Imported[m] # n
                         /\ NoName \notin Names
                         /\ Elsewhere \in [Devices -> Names \cup {NoName}]
                         /\ MergeAttempts \in Nat \ {0}

\* A stand-in is "<name> imported", or that and a number: no id, and not empty
ASSUME StandInAssumption == \A n \in Names : Imported[n] \notin {IdName, ""}

VARIABLES
  \* the store of each device
  here,     \* here[d]: the workspace exists
  wname,    \* wname[d]: its name
  other,    \* other[d]: the name of another workspace there
  disk,     \* disk[d]: its files
  mark,     \* mark[d]: the sync mark
  base,     \* base[d]: the contents PgSyncBase keeps
  \* what a tab holds
  buf,      \* buf[d]: the editor's buffers
  typed,    \* typed[d]: the paths whose autosave is pending
  shadow,   \* shadow[d]: PgSyncBase._shadow
  flagged,  \* flagged[d]: `flagged` of the effect
  timer,    \* timer[d]: its debounce is pending
  fresh,    \* fresh[d]: loaded, and not reconciled yet: pushes are held
  question, \* question[d]: the conflict the banner shows
  deleting, \* deleting[d]: settleLocalDeletes is due, and who deleted
  task,     \* task[d]: the exchange that runs
  \* requests
  put,      \* put[d]: the PUT in flight
  reply,    \* reply[d]: its answer, on its way back
  late,     \* the PUTs nobody waits for that may still be served
  \* bounds and history
  edits,    \* edits made so far
  changes,  \* other things users did
  faults,
  crashes,
  saw,      \* saw[v]: the values that the author of edit v replaced knowingly
  saved,    \* the edits an autosave wrote
  gone      \* the edits a user gave up, or was told are dropped

storeVars == <<here, wname, other, disk, mark, base>>
editorVars == <<buf, typed, shadow>>
effectVars == <<flagged, timer, fresh, deleting>>
netVars == <<put, reply, late>>
bounds == <<edits, changes, faults, crashes>>
history == <<saw, saved, gone>>
vars == <<row, rev, storeVars, editorVars, effectVars, question, task, netVars,
          bounds, history>>

-----------------------------------------------------------------------------
NoMark == [files |-> NoFiles, name |-> NoName, localName |-> NoName,
           token |-> NoToken, dirty |-> FALSE]
NoQuestion == [kind |-> "none", paths |-> {}]
NoPut == [base |-> NoToken, name |-> NoName, whole |-> TRUE, files |-> NoFiles,
          removed |-> {}]
NoReply == [kind |-> "none", token |-> NoToken]

\* job: what runs; by: who started it; got: the row as it was read; first:
\* the local copy read first; want: the copy to write or sent; write: want is
\* not what the store holds; wrote: the store was rewritten; carried: a retry
\* starts from want; alias: the workspace's name stands in for got.name;
\* refused: a refused push started the merge; prev: the question to put back;
\* listed: the name that a pass read in the list
Idle == [pc |-> "idle", job |-> "none", by |-> "none", got |-> NoRow,
         first |-> NoFiles, want |-> NoFiles, write |-> FALSE, wrote |-> FALSE,
         carried |-> FALSE, alias |-> FALSE, tries |-> 0, prefer |-> "none",
         asked |-> Paths, refused |-> FALSE, prev |-> NoQuestion,
         listed |-> NoName]

Blanks == [r \in Regions |-> 0]
Values(files) == {files[p][r] : p \in Present(files), r \in Regions} \ {0}

\* Whoever gives an edit up gives up what it replaced
GivenUp(vs) == gone \cup vs \cup UNION {saw[v] : v \in vs}

At(d, pc) == task[d].pc = pc
IsIdle(d) == At(d, "idle")
Goto(d, pc) == task' = [task EXCEPT ![d].pc = pc]

\* A file that sync cannot have removed the last of: an empty copy is refused
Usable(r) == r.state = "live" /\ ~IsEmpty(r.files)

\* The first upload of every project
OneFile == [NoFiles EXCEPT ![CHOOSE p \in Paths : IsUserFile(p)] = Blanks]
OneName == CHOOSE n \in Names \ Taken : \A m \in Names : Imported[m] # n
Stored == [state |-> "live", name |-> OneName, token |-> 1, files |-> OneFile]
Agreed(r) == [files |-> HashFiles(r.files), name |-> r.name, localName |-> NoName,
              token |-> r.token, dirty |-> FALSE]

\* Every device has the project and agrees with the account; or one has it,
\* never uploaded; or each has started it on its own
Init ==
  /\ \E start \in Starts, d0 \in Devices :
       /\ here = [d \in Devices |-> start # "fresh" \/ d = d0]
       /\ row = IF start = "synced" THEN Stored ELSE NoRow
       /\ rev = IF start = "synced"
                  THEN [t \in {1} |-> [files |-> OneFile, name |-> OneName, base |-> NoToken]]
                  ELSE << >>
       /\ mark = [d \in Devices |-> IF start = "synced" THEN Agreed(Stored) ELSE NoMark]
  /\ wname = [d \in Devices |-> IF here[d] THEN OneName ELSE NoName]
  /\ other = Elsewhere
  /\ disk = [d \in Devices |-> IF here[d] THEN OneFile ELSE NoFiles]
  /\ base = [d \in Devices |-> NoFiles]
  /\ buf = disk
  /\ typed = [d \in Devices |-> {}]
  /\ shadow = disk
  /\ flagged = [d \in Devices |-> FALSE]
  /\ timer = [d \in Devices |-> FALSE]
  /\ fresh = [d \in Devices |-> TRUE]
  /\ question = [d \in Devices |-> NoQuestion]
  /\ deleting = [d \in Devices |-> "no"]
  /\ task = [d \in Devices |-> Idle]
  /\ put = [d \in Devices |-> NoPut]
  /\ reply = [d \in Devices |-> NoReply]
  /\ late = {}
  /\ edits = 0 /\ changes = 0 /\ faults = 0 /\ crashes = 0
  /\ saw = [v \in Vals |-> {}]
  /\ saved = {}
  /\ gone = {}

-----------------------------------------------------------------------------
(* The user, and the effect that notices                                   *)

\* flag and scheduleOnly: the mark is flagged once, until `flagged` is reset
Dirtied(m) == IF m = NoMark THEN m ELSE [m EXCEPT !.dirty = TRUE]

Flag(d) == /\ mark' = IF flagged[d] THEN mark ELSE [mark EXCEPT ![d] = Dirtied(@)]
           /\ flagged' = [flagged EXCEPT ![d] = TRUE]

Schedule(d) == Flag(d) /\ timer' = [timer EXCEPT ![d] = TRUE]

\* Whether the workspace is not being rewritten under the user's hands, or
\* this instance lets `what` happen then
Free(d, what) == task[d].job \in {"none", "push"} \/ what \in DuringRewrite

Type(d, p, r) ==
  /\ here[d] /\ IsUserFile(p) /\ buf[d][p] # Absent /\ Free(d, "type")
  /\ edits < MaxEdits
  /\ edits' = edits + 1
  /\ buf' = [buf EXCEPT ![d][p][r] = edits']
  /\ typed' = [typed EXCEPT ![d] = @ \cup {p}]
  /\ saw' = [saw EXCEPT ![edits'] = saw[buf[d][p][r]] \cup {buf[d][p][r]}]
  /\ UNCHANGED <<row, rev, storeVars, shadow, effectVars, question, task, netVars,
                 changes, faults, crashes, saved, gone>>

\* The editor's autosave, half a second after the last keystroke
Autosave(d, p) ==
  /\ p \in typed[d] /\ Free(d, "type")
  /\ disk' = [disk EXCEPT ![d][p] = buf[d][p]]
  /\ typed' = [typed EXCEPT ![d] = @ \ {p}]
  /\ saved' = saved \cup Values(Only(buf[d], {p}))
  /\ Schedule(d)
  /\ UNCHANGED <<row, rev, here, wname, other, base, buf, shadow, fresh, deleting,
                 question, task, netVars, bounds, saw, gone>>

\* A new file holds one edit, in every region.  A generated file is written by
\* the IDE: the first build makes the program's keypair
CreateFile(d, p) ==
  /\ here[d] /\ disk[d][p] = Absent /\ buf[d][p] = Absent /\ Free(d, "create")
  /\ edits < MaxEdits
  /\ edits' = edits + 1
  /\ LET text == [r \in Regions |-> edits']
     IN disk' = [disk EXCEPT ![d][p] = text] /\ buf' = [buf EXCEPT ![d][p] = text]
  /\ saved' = saved \cup {edits'}
  /\ Schedule(d)
  /\ UNCHANGED <<row, rev, here, wname, other, base, typed, shadow, fresh, deleting,
                 question, task, netVars, changes, faults, crashes, saw, gone>>

UserChange == changes < MaxChanges /\ changes' = changes + 1

DeleteFile(d, p) ==
  /\ here[d] /\ IsUserFile(p) /\ disk[d][p] # Absent /\ Free(d, "create")
  /\ \E q \in Paths \ {p} : disk[d][q] # Absent
  /\ UserChange
  /\ gone' = GivenUp(Values(Only(disk[d], {p})) \cup Values(Only(buf[d], {p})))
  /\ disk' = [disk EXCEPT ![d][p] = Absent]
  /\ buf' = [buf EXCEPT ![d][p] = Absent]
  /\ typed' = [typed EXCEPT ![d] = @ \ {p}]
  /\ Schedule(d)
  /\ UNCHANGED <<row, rev, here, wname, other, base, shadow, fresh, deleting,
                 question, task, netVars, edits, faults, crashes, saw, saved>>

RenameWorkspace(d, n) ==
  /\ here[d] /\ IsIdle(d)
  /\ n \notin {wname[d], other[d]} /\ \A m \in Names : Imported[m] # n
  /\ UserChange
  /\ wname' = [wname EXCEPT ![d] = n]
  /\ Schedule(d)
  /\ UNCHANGED <<row, rev, here, other, disk, base, editorVars, fresh, deleting,
                 question, task, netVars, edits, faults, crashes, history>>

\* The other workspace of the device is deleted, or renamed: its name is free
ReleaseName(d) ==
  /\ other[d] # NoName
  /\ UserChange
  /\ other' = [other EXCEPT ![d] = NoName]
  /\ UNCHANGED <<row, rev, here, wname, disk, mark, base, editorVars, effectVars,
                 question, task, netVars, edits, faults, crashes, history>>

\* deleteWorkspace: the tab goes on to another workspace
Vanish(d, who) ==
  /\ here' = [here EXCEPT ![d] = FALSE]
  /\ wname' = [wname EXCEPT ![d] = NoName]
  /\ disk' = [disk EXCEPT ![d] = NoFiles]
  /\ buf' = [buf EXCEPT ![d] = NoFiles]
  /\ typed' = [typed EXCEPT ![d] = {}]
  /\ shadow' = [shadow EXCEPT ![d] = NoFiles]
  /\ flagged' = [flagged EXCEPT ![d] = FALSE]
  /\ timer' = [timer EXCEPT ![d] = FALSE]
  /\ deleting' = [deleting EXCEPT ![d] = who]

DeleteWorkspace(d) ==
  /\ here[d] /\ IsIdle(d)
  /\ UserChange
  /\ gone' = GivenUp(Values(disk[d]) \cup Values(buf[d]))
  /\ Vanish(d, "user")
  /\ UNCHANGED <<row, rev, other, mark, base, fresh, question, task, netVars,
                 edits, faults, crashes, saw, saved>>

\* The DELETE of a project gives up what the account holds, when it was the
\* user who asked
Discarded(who) == IF who = "user" THEN GivenUp(Values(row.files)) ELSE gone

\* settleLocalDeletes: the account is told, if it can be, of every mark
\* without a workspace, and the mark goes
SettleLocalDeletes(d) ==
  /\ deleting[d] # "no" /\ ~here[d]
  /\ IF mark[d] # NoMark
       THEN \/ Delete /\ gone' = Discarded(deleting[d]) /\ UNCHANGED faults
            \/ /\ faults < MaxFaults /\ faults' = faults + 1
               /\ UNCHANGED <<row, rev, gone>>
       ELSE UNCHANGED <<row, rev, gone, faults>>
  /\ mark' = [mark EXCEPT ![d] = NoMark]
  /\ deleting' = [deleting EXCEPT ![d] = "no"]
  /\ UNCHANGED <<here, wname, other, disk, base, editorVars, flagged, timer, fresh,
                 question, task, netVars, edits, changes, crashes, saw, saved>>

\* A tutorial is started again under the same id
StartTutorial(d) ==
  /\ Kind = "tutorial" /\ ~here[d] /\ deleting[d] = "no" /\ IsIdle(d)
  /\ UserChange
  /\ here' = [here EXCEPT ![d] = TRUE]
  /\ wname' = [wname EXCEPT ![d] = OneName]
  /\ disk' = [disk EXCEPT ![d] = OneFile]
  /\ buf' = [buf EXCEPT ![d] = OneFile]
  /\ shadow' = [shadow EXCEPT ![d] = OneFile]
  /\ timer' = [timer EXCEPT ![d] = TRUE]
  /\ UNCHANGED <<row, rev, other, mark, base, typed, flagged, fresh, deleting, question,
                 task, netVars, edits, faults, crashes, history>>

-----------------------------------------------------------------------------
(* PgSyncBase and PgProjectSync._push                                      *)

\* capture: the agreed content of `paths`, from a copy whose hash is the mark's
Captured(kept, paths, hashes, from) ==
  [p \in Paths |->
     IF /\ kept[p] = Absent /\ p \in paths /\ IsUserFile(p)
        /\ from[p] # Absent /\ Sha256(from[p]) = hashes[p]
       THEN from[p] ELSE kept[p]]

\* Mutant of StoredName: the workspace's name goes up
StoredNameLocal(d) == wname[d]

\* A stand-in goes up as the name it stands in for
StoredName(d) == IF mark[d].localName = wname[d] THEN mark[d].name ELSE wname[d]

Patch(d, files) == DiffFiles(mark[d].files, HashFiles(files))

Body(d, files) ==
  IF mark[d] = NoMark
    THEN [base |-> NoToken, name |-> StoredName(d), whole |-> TRUE,
          files |-> files, removed |-> {}]
    ELSE [base |-> mark[d].token, name |-> StoredName(d), whole |-> FALSE,
          files |-> Only(files, Patch(d, files).changed),
          removed |-> Patch(d, files).removed]

\* Mutant of NothingToSend: an empty patch is sent too
SendAlways(d, files) == FALSE

NothingToSend(d, files) ==
  /\ mark[d] # NoMark
  /\ Patch(d, files) = [changed |-> {}, removed |-> {}]
  /\ mark[d].name = StoredName(d)

\* _push of `files` up to the request, as task t; `skipped` is where it goes on
\* when nothing is sent.  An outstanding question stops it, an answer does not
Push(d, files, t, skipped, asked) ==
  /\ base' = IF mark[d] = NoMark THEN base
             ELSE [base EXCEPT ![d] = Captured(@, Patch(d, files).changed,
                                               mark[d].files, shadow[d])]
  /\ IF IsEmpty(files) \/ asked # NoQuestion \/ NothingToSend(d, files)
       THEN task' = [task EXCEPT ![d] = skipped] /\ UNCHANGED put
       ELSE /\ put' = [put EXCEPT ![d] = Body(d, files)]
            /\ task' = [task EXCEPT ![d] = [t EXCEPT !.pc = "sent", !.want = files]]

\* Where a task ends.  A pass goes on to settleSteppedNames, which has
\* something to do where a name stands in
Ended(d, m) ==
  IF task[d].listed # NoName /\ m.localName # NoName
    THEN [Idle EXCEPT !.pc = "names", !.listed = task[d].listed] ELSE Idle

\* reloadCurrentFromDisk, before a pass, a merge or an adoption: the tab takes
\* over what the store holds, but not over typing that autosave has not
\* written.  Where files came or went it re-opens the workspace, or stands down
SamePaths(a, b) == \A p \in Paths : IsUserFile(p) => ((a[p] = Absent) <=> (b[p] = Absent))

Reload(d) ==
  IF SamePaths(disk[d], buf[d])
    THEN /\ buf' = [buf EXCEPT ![d] =
              [p \in Paths |-> IF p \in typed[d] THEN @[p] ELSE disk[d][p]]]
         /\ UNCHANGED <<shadow, flagged>>
    ELSE IF typed[d] = {}
    THEN /\ buf' = [buf EXCEPT ![d] = disk[d]]
         /\ shadow' = [shadow EXCEPT ![d] = disk[d]]
         /\ flagged' = [flagged EXCEPT ![d] = FALSE]
    ELSE UNCHANGED <<buf, shadow, flagged>>

\* The debounce fires: pushCurrent
PushCurrent(d) ==
  /\ timer[d] /\ here[d] /\ IsIdle(d) /\ ~fresh[d]
  /\ timer' = [timer EXCEPT ![d] = FALSE]
  /\ Push(d, disk[d], [Idle EXCEPT !.job = "push", !.by = "editor"], Idle, question[d])
  /\ UNCHANGED <<row, rev, here, wname, other, disk, mark, editorVars, flagged, fresh,
                 deleting, question, reply, late, bounds, history>>

-----------------------------------------------------------------------------
(* The account answers                                                     *)

NextToken == Cardinality(DOMAIN rev) + 1

Accepts(b) == Lands(row, b.base) /\ b.name \notin Taken /\ NextToken \in Tokens

SaveBody(b) == /\ row' = Written(row, b, NextToken)
               /\ Record(NextToken, row', b.base)

\* A tombstone names itself, unless the delete committed while the write was
\* waiting for the row (ProjectStore)
Refusals(b) ==
  IF Lands(row, b.base) THEN {"name-taken"}
  ELSE IF row.state = "deleted" THEN {"deleted", "conflict"}
  ELSE {"conflict"}

\* A patch never leaves the row without files (PutHonest), so "no-files" is
\* not among the answers
Serve(d) ==
  /\ put[d] # NoPut
  /\ put' = [put EXCEPT ![d] = NoPut]
  /\ \/ /\ Accepts(put[d])
        /\ SaveBody(put[d])
        /\ reply' = [reply EXCEPT ![d] = [kind |-> "ok", token |-> NextToken]]
     \/ /\ ~Lands(row, put[d].base) \/ put[d].name \in Taken
        /\ \E kind \in Refusals(put[d]) :
             reply' = [reply EXCEPT ![d] = [kind |-> kind, token |-> NoToken]]
        /\ UNCHANGED <<row, rev>>
  /\ UNCHANGED <<storeVars, editorVars, effectVars, question, task, late, bounds, history>>

\* A PUT that its device gave up on is served after all
ServeLate(b) ==
  /\ b \in late
  /\ late' = late \ {b}
  /\ IF Accepts(b) THEN SaveBody(b) ELSE UNCHANGED <<row, rev>>
  /\ UNCHANGED <<storeVars, editorVars, effectVars, question, task, put, reply,
                 bounds, history>>

-----------------------------------------------------------------------------
(* _push, from the answer on                                               *)

Answered(d, kind) == At(d, "sent") /\ reply[d].kind = kind

Raise(d, kind, paths) ==
  question' = [question EXCEPT ![d] = [kind |-> kind, paths |-> paths]]

\* Mutant of AcceptMark: the mark records the files that are there now
AcceptMarkLate(d) ==
  /\ Answered(d, "ok")
  /\ mark' = [mark EXCEPT ![d] =
       [files |-> HashFiles(disk[d]), name |-> StoredName(d),
        localName |-> IF @.localName = wname[d] THEN wname[d] ELSE NoName,
        token |-> reply[d].token, dirty |-> FALSE]]
  /\ reply' = [reply EXCEPT ![d] = NoReply]
  /\ Goto(d, "accepted")
  /\ UNCHANGED <<row, rev, here, wname, other, disk, base, editorVars, effectVars,
                 question, put, late, bounds, history>>

\* The mark records what the account has
AcceptMark(d) ==
  /\ Answered(d, "ok")
  /\ mark' = [mark EXCEPT ![d] =
       [files |-> HashFiles(task[d].want), name |-> StoredName(d),
        localName |-> IF @.localName = wname[d] THEN wname[d] ELSE NoName,
        token |-> reply[d].token, dirty |-> FALSE]]
  /\ reply' = [reply EXCEPT ![d] = NoReply]
  /\ Goto(d, "accepted")
  /\ UNCHANGED <<row, rev, here, wname, other, disk, base, editorVars, effectVars,
                 question, put, late, bounds, history>>

\* PgSyncBase.accepted, _clear, and back in the effect `flagged = false`
AcceptBase(d) ==
  /\ At(d, "accepted")
  /\ base' = [base EXCEPT ![d] = NoFiles]
  /\ shadow' = [shadow EXCEPT ![d] = task[d].want]
  /\ question' = [question EXCEPT ![d] = NoQuestion]
  /\ IF task[d].job = "merge"
       THEN Goto(d, "close") /\ UNCHANGED flagged
       ELSE /\ task' = [task EXCEPT ![d] = Ended(d, mark[d])]
            /\ flagged' = [flagged EXCEPT ![d] = @ /\ task[d].by # "editor"]
  /\ UNCHANGED <<row, rev, here, wname, other, disk, mark, buf, typed, timer, fresh,
                 deleting, netVars, bounds, history>>

Merging(d, by) == [Idle EXCEPT !.pc = "merge", !.job = "merge", !.by = by,
                               !.listed = task[d].listed]

\* The swap missed.  A push merges; a merge starts over from what it wrote,
\* and asks after MERGE_ATTEMPTS
SwapMissed(d) ==
  /\ Answered(d, "conflict")
  /\ reply' = [reply EXCEPT ![d] = NoReply]
  /\ \/ /\ task[d].job = "push"
        /\ task' = [task EXCEPT ![d] = [Merging(d, @.by) EXCEPT !.refused = TRUE]]
        /\ Reload(d)
        /\ UNCHANGED question
     \/ /\ task[d].job = "merge" /\ task[d].tries + 1 < MergeAttempts
        /\ task' = [task EXCEPT ![d].pc = "merge", ![d].tries = @ + 1, ![d].carried = TRUE]
        /\ question' = [question EXCEPT ![d] = NoQuestion]
        /\ UNCHANGED <<buf, shadow, flagged>>
     \/ /\ task[d].job = "merge" /\ task[d].tries + 1 = MergeAttempts
        /\ Raise(d, "divergent", Paths)
        /\ Goto(d, "close")
        /\ UNCHANGED <<buf, shadow, flagged>>
  /\ UNCHANGED <<row, rev, storeVars, typed, timer, fresh, deleting, put, late, bounds,
                 history>>

AfterPush(d) == IF task[d].job = "merge" THEN [task[d] EXCEPT !.pc = "close"]
                                         ELSE Ended(d, mark[d])

\* Deleted elsewhere, or the name is another project's
Refused(d, kind, asks) ==
  /\ Answered(d, kind)
  /\ Raise(d, asks, Paths)
  /\ reply' = [reply EXCEPT ![d] = NoReply]
  /\ task' = [task EXCEPT ![d] = AfterPush(d)]
  /\ UNCHANGED <<row, rev, storeVars, editorVars, effectVars, put, late, bounds, history>>

\* No answer in time (LOCKED_REQUEST_MS), or none at all: skipped.  The
\* question that a retry took down is put back
Timeout(d) ==
  /\ At(d, "sent")
  /\ faults < MaxFaults /\ faults' = faults + 1
  /\ late' = late \cup ({put[d]} \ {NoPut})
  /\ put' = [put EXCEPT ![d] = NoPut]
  /\ reply' = [reply EXCEPT ![d] = NoReply]
  /\ question' = IF task[d].prev = NoQuestion THEN question
                 ELSE [question EXCEPT ![d] = task[d].prev]
  /\ task' = [task EXCEPT ![d] = AfterPush(d)]
  /\ UNCHANGED <<row, rev, storeVars, editorVars, effectVars, edits, changes, crashes,
                 history>>

-----------------------------------------------------------------------------
(* mergeWithServer                                                         *)

Local(d) == IF task[d].carried THEN task[d].want ELSE disk[d]

\* Mutant of MergeBase: nothing is captured before the merge
MergeBaseKept(d) == base[d]

\* capture, on the first attempt
MergeBase(d) ==
  IF mark[d] = NoMark \/ task[d].carried THEN base[d]
  ELSE Captured(base[d], Patch(d, disk[d]).changed, mark[d].files, shadow[d])

Unsettled(d) == Conflicts(mark[d].files, MergeBase(d), Local(d), row.files)

\* answers: a side was picked, about every file that is in conflict now
Settled(d) == \/ Unsettled(d) = {}
              \/ task[d].prefer # "none" /\ Unsettled(d) \subseteq task[d].asked

Result(d) == SettleConflicts(mark[d].files, MergeBase(d), Local(d), row.files,
                             IF task[d].prefer = "local" THEN "local" ELSE "server")

\* The row is a tombstone
MergeGone(d) ==
  /\ At(d, "merge")
  /\ row.state # "live"
  /\ Raise(d, "deleted-elsewhere", Paths)
  /\ Goto(d, "close")
  /\ UNCHANGED <<row, rev, storeVars, editorVars, effectVars, netVars, bounds, history>>

\* Unreadable, or nothing to merge with or from, or nothing left: a refused
\* push asks the plain question, any other caller leaves it as it is
MergeFailed(d) ==
  /\ At(d, "merge")
  /\ \/ row.state = "live"
        /\ \/ ~Usable(row) \/ IsEmpty(Local(d))
           \/ Settled(d) /\ IsEmpty(Result(d))
        /\ UNCHANGED faults
     \/ faults < MaxFaults /\ faults' = faults + 1
  /\ IF task[d].refused THEN Raise(d, "divergent", Paths) ELSE UNCHANGED question
  /\ Goto(d, "close")
  /\ UNCHANGED <<row, rev, storeVars, editorVars, effectVars, netVars, edits, changes,
                 crashes, history>>

Readable(d) == At(d, "merge") /\ Usable(row) /\ ~IsEmpty(Local(d))

\* The user is asked about the files that cannot be merged; nothing is written
MergeAsks(d) ==
  /\ Readable(d) /\ ~Settled(d)
  /\ base' = [base EXCEPT ![d] = MergeBase(d)]
  /\ Raise(d, "divergent", Unsettled(d))
  /\ Goto(d, "close")
  /\ UNCHANGED <<row, rev, here, wname, other, disk, mark, editorVars, effectVars,
                 netVars, bounds, history>>

\* The side the user turned down
Refusable(d) == IF task[d].prefer = "local" THEN row.files ELSE Local(d)

MergePlans(d) ==
  /\ Readable(d) /\ Settled(d) /\ ~IsEmpty(Result(d))
  /\ base' = [base EXCEPT ![d] = MergeBase(d)]
  /\ task' = [task EXCEPT ![d].pc = "rewrite", ![d].got = row, ![d].want = Result(d),
                          ![d].first = IF task[d].tries = 0 THEN disk[d] ELSE @,
                          ![d].write = Result(d) # Local(d)]
  /\ gone' = GivenUp(Values(Only(Refusable(d), Unsettled(d))))
  /\ UNCHANGED <<row, rev, here, wname, other, disk, mark, editorVars, effectVars,
                 question, netVars, bounds, saw, saved>>

\* renameToServer: freeName steps around the other workspace
Held(d) == {other[d]} \ {NoName}
FreeName(d, n) == IF n \in Held(d) THEN Imported[n] ELSE n

StandsIn(d) == mark[d].localName = wname[d]

Takes(d) == TakesServerName(mark[d].name,
                            IF StandsIn(d) THEN mark[d].name ELSE wname[d],
                            task[d].got.name, task[d].prefer)

NameAfter(d) == IF Takes(d) /\ wname[d] # task[d].got.name
                  THEN FreeName(d, task[d].got.name) ELSE wname[d]

\* A rename and a write of a generated file announce themselves to the effect
Announce(d, files) ==
  IF wname' # wname \/ Present(files) \cap Generated # {}
    THEN Schedule(d) ELSE UNCHANGED <<mark, flagged, timer>>

\* The workspace takes the account's name, where only that moved, and the
\* wanted files: replaceWorkspaceFiles clears the directory first
Rewrite(d) ==
  /\ At(d, "rewrite")
  /\ wname' = [wname EXCEPT ![d] = NameAfter(d)]
  /\ disk' = IF task[d].write THEN [disk EXCEPT ![d] = task[d].want] ELSE disk
  /\ Announce(d, IF task[d].write THEN task[d].want ELSE NoFiles)
  /\ task' = [task EXCEPT
       ![d].pc = "mark",
       ![d].wrote = @ \/ task[d].write,
       ![d].alias = /\ wname'[d] # task[d].got.name
                    /\ task[d].job = "adopt" \/ Takes(d) \/ StandsIn(d)]
  /\ UNCHANGED <<row, rev, here, other, base, editorVars, fresh, deleting, question,
                 netVars, bounds, history>>

\* Writing the workspace throws part-way, before an adoption renames it and
\* after a merge has: the exchange is over, the old mark stands, and no buffer
\* is caught up
RewriteFails(d) ==
  /\ StoreFails
  /\ At(d, "rewrite") /\ task[d].write /\ ~task[d].wrote
  /\ wname' = IF task[d].job = "adopt" THEN wname ELSE [wname EXCEPT ![d] = NameAfter(d)]
  /\ \E done \in SUBSET Present(task[d].want) :
       /\ done # Present(task[d].want)
       /\ disk' = [disk EXCEPT ![d] = Only(task[d].want, done)]
  /\ Announce(d, disk'[d])
  /\ task' = [task EXCEPT ![d] = Ended(d, mark'[d])]
  /\ UNCHANGED <<row, rev, here, other, base, editorVars, fresh, deleting, question,
                 netVars, bounds, history>>

\* The server's copy is the agreement now; what the workspace has on top of
\* it is owed
Owes(d) == /\ task[d].job = "merge"
           /\ \/ task[d].want # task[d].got.files
              \/ wname[d] # task[d].got.name /\ ~task[d].alias

Remark(d) ==
  /\ At(d, "mark")
  /\ mark' = [mark EXCEPT ![d] =
       [Agreed(task[d].got) EXCEPT !.localName = IF task[d].alias THEN wname[d] ELSE NoName,
                                   !.dirty = Owes(d)]]
  /\ Goto(d, "base")
  /\ UNCHANGED <<row, rev, here, wname, other, disk, base, editorVars, effectVars,
                 question, netVars, bounds, history>>

Rebase(d) ==
  /\ At(d, "base")
  /\ \/ /\ task[d].job = "merge"
        /\ base' = [base EXCEPT ![d] = BaseAfterMerge(task[d].want, task[d].got.files)]
        /\ question' = [question EXCEPT ![d] = NoQuestion]
        /\ Goto(d, "push")
     \/ /\ task[d].job = "adopt"
        /\ base' = [base EXCEPT ![d] = NoFiles]
        /\ Goto(d, "close")
        /\ UNCHANGED question
     \/ /\ task[d].job = "import"
        /\ base' = [base EXCEPT ![d] = NoFiles]
        /\ task' = [task EXCEPT ![d] = Ended(d, mark[d])]
        /\ UNCHANGED question
  /\ UNCHANGED <<row, rev, here, wname, other, disk, mark, editorVars, effectVars,
                 netVars, bounds, history>>

\* The merge's own upload, of the merged copy
MergePush(d) ==
  /\ At(d, "push")
  /\ Push(d, task[d].want, task[d], [task[d] EXCEPT !.pc = "close"], question[d])
  /\ UNCHANGED <<row, rev, here, wname, other, disk, mark, editorVars, effectVars,
                 question, reply, late, bounds, history>>

\* _catchUp.  A buffer that is not the copy read first was typed into since:
\* it is folded into what sync wrote, or dropped where they overlap
Folded(first, buffer, wrote) ==
  IF \/ first = Absent \/ buffer = Absent \/ wrote = Absent
     \/ ~Merge3Clean(first, buffer, wrote)
    THEN wrote ELSE Merge3Text(first, buffer, wrote)

CaughtUp(d) == [p \in Paths |-> Folded(task[d].first[p], buf[d][p], task[d].want[p])]

\* The store is written too where an autosave may have got there first
Touched(d, p) == /\ task[d].want[p] # Absent /\ buf[d][p] # Absent
                 /\ buf[d][p] # task[d].first[p]
                 /\ ~(buf[d][p] = task[d].want[p] /\ CaughtUp(d)[p] = task[d].want[p])

DiskAfter(d) == [p \in Paths |-> IF Touched(d, p) THEN CaughtUp(d)[p] ELSE disk[d][p]]

Owed(d) == {p \in Paths : CaughtUp(d)[p] # task[d].want[p]}

\* The typing reported as dropped: it overlapped what sync wrote, or was in a
\* file that sync removed
Overlapped(d) ==
  {v \in Vals \ Values(CaughtUp(d)) :
     \E p \in Present(task[d].first) \cap Present(buf[d]), r \in Regions :
       v = buf[d][p][r] /\ v # task[d].first[p][r]}

\* The finally block: the editor and memory catch up with what was written,
\* the workspace is re-opened, and typing folded in is owed
Close(d) ==
  /\ At(d, "close")
  /\ IF task[d].wrote
       THEN /\ disk' = [disk EXCEPT ![d] = DiskAfter(d)]
            /\ buf' = [buf EXCEPT ![d] = DiskAfter(d)]
            /\ shadow' = [shadow EXCEPT ![d] = DiskAfter(d)]
            /\ typed' = [typed EXCEPT ![d] = {}]
            /\ flagged' = [flagged EXCEPT ![d] = FALSE]
            /\ base' = [base EXCEPT ![d] =
                 Captured(@, Owed(d), mark[d].files, task[d].want)]
            /\ mark' = IF \/ Owed(d) # {}
                          \/ task[d].job = "adopt" /\ task[d].want # task[d].got.files
                         THEN [mark EXCEPT ![d] = Dirtied(@)] ELSE mark
            /\ gone' = GivenUp(Overlapped(d))
       ELSE /\ flagged' = [flagged EXCEPT ![d] =
                 @ /\ ~(task[d].by = "editor" /\ question[d] = NoQuestion)]
            /\ UNCHANGED <<disk, editorVars, base, mark, gone>>
  /\ task' = [task EXCEPT ![d] = Ended(d, mark'[d])]
  /\ UNCHANGED <<row, rev, here, wname, other, timer, fresh, deleting, question,
                 netVars, bounds, saw, saved>>

-----------------------------------------------------------------------------
(* reconcile (project-restore.ts): one pass, for this project              *)

AgreedName(m) == IF m.localName = NoName THEN m.name ELSE m.localName

\* isCleanAgainst: generated files do not count
Clean(d) == /\ mark[d] # NoMark /\ AgreedName(mark[d]) = wname[d]
            /\ SameUserFiles(mark[d].files, HashFiles(disk[d]))

\* Mutant of Reconcile: a list that cannot be read is taken as empty
ReconcileUnread(d) ==
  /\ IsIdle(d)
  /\ \E got \in {row, NoRow} :
       task' = [task EXCEPT ![d] = [Idle EXCEPT !.pc = "listed", !.by = "pass", !.got = got,
                                                   !.listed = got.name]]
  /\ Reload(d)
  /\ fresh' = [fresh EXCEPT ![d] = FALSE]
  /\ UNCHANGED <<row, rev, storeVars, typed, timer, deleting, question, netVars, bounds,
                 history>>

\* The pass reads the list.  Run on load, on focus and on a switch
Reconcile(d) ==
  /\ IsIdle(d)
  /\ task' = [task EXCEPT ![d] = [Idle EXCEPT !.pc = "listed", !.by = "pass", !.got = row,
                                                 !.listed = row.name]]
  /\ Reload(d)
  /\ fresh' = [fresh EXCEPT ![d] = FALSE]
  /\ UNCHANGED <<row, rev, storeVars, typed, timer, deleting, question, netVars, bounds,
                 history>>

\* Without the list nothing is decided, and the pushes go on
ListFails(d) ==
  /\ IsIdle(d) /\ fresh[d]
  /\ faults < MaxFaults /\ faults' = faults + 1
  /\ fresh' = [fresh EXCEPT ![d] = FALSE]
  /\ UNCHANGED <<row, rev, storeVars, editorVars, flagged, timer, deleting, question,
                 task, netVars, edits, changes, crashes, history>>

Listed(d) == At(d, "listed") /\ task[d].got.state = "live"
Unlisted(d) == At(d, "listed") /\ task[d].got.state # "live"

Moved(d) == mark[d] = NoMark \/ mark[d].token # task[d].got.token

\* Mutant of Cheap: nothing pending here is enough
CheapByFlag(d) == mark[d] # NoMark /\ ~mark[d].dirty

\* The cheap path: nothing pending here, the row where it was left
Cheap(d) == ~Moved(d) /\ ~mark[d].dirty

\* Nothing to do
PassSkips(d) ==
  /\ \/ Listed(d) /\ here[d] /\ (Cheap(d) \/ (~Moved(d) /\ Clean(d)))
     \/ Unlisted(d) /\ ~here[d] /\ mark[d] = NoMark
  /\ task' = [task EXCEPT ![d] = Ended(d, mark[d])]
  /\ UNCHANGED <<row, rev, storeVars, editorVars, effectVars, question, netVars,
                 bounds, history>>

\* Only the account moved; or this browser has never had the project
PassTakes(d) ==
  /\ Listed(d)
  /\ \/ ~here[d] /\ Goto(d, "import") /\ UNCHANGED <<buf, shadow, flagged>>
     \/ here[d] /\ Moved(d) /\ Clean(d) /\ Goto(d, "adopt") /\ Reload(d)
  /\ UNCHANGED <<row, rev, storeVars, typed, timer, fresh, deleting, question, netVars,
                 bounds, history>>

PassPush(d) == [Idle EXCEPT !.job = "push", !.by = "pass", !.listed = task[d].listed]

\* Only this device moved; or the account has never had the project
PassPushes(d) ==
  /\ \/ Listed(d) /\ here[d] /\ ~Moved(d) /\ ~Cheap(d) /\ ~Clean(d)
     \/ Unlisted(d) /\ here[d] /\ mark[d] = NoMark
  /\ Push(d, disk[d], PassPush(d), Ended(d, mark[d]), question[d])
  /\ UNCHANGED <<row, rev, here, wname, other, disk, mark, editorVars, effectVars,
                 question, reply, late, bounds, history>>

\* settleDivergence: both moved.  A row that has no files, is gone by now or
\* cannot be read is pushed over; any other is merged
PassDiverged(d) ==
  /\ Listed(d) /\ here[d] /\ Moved(d) /\ ~Clean(d)
  /\ \/ /\ Usable(row)
        /\ task' = [task EXCEPT ![d] = Merging(d, "pass")]
        /\ Reload(d)
        /\ UNCHANGED <<base, put, faults>>
     \/ /\ \/ ~Usable(row) /\ UNCHANGED faults
           \/ faults < MaxFaults /\ faults' = faults + 1
        /\ Push(d, disk[d], PassPush(d), Ended(d, mark[d]), question[d])
        /\ UNCHANGED <<buf, shadow, flagged>>
  /\ UNCHANGED <<row, rev, here, wname, other, disk, mark, typed, timer, fresh, deleting,
                 question, reply, late, edits, changes, crashes, history>>

\* A workspace that sync deletes raises the event a user's delete raises.
\* settleLocalDeletes holds no lock: it may read the marks before or after the
\* exchange removes this one
Unmark(d) == mark' = [mark EXCEPT ![d] = NoMark] \/ UNCHANGED mark

\* settleDeletes: deleted elsewhere.  A clean copy follows, any other is asked
\* about
SettleDelete(d) ==
  /\ Unlisted(d) /\ mark[d] # NoMark
  /\ \/ /\ ~here[d]
        /\ mark' = [mark EXCEPT ![d] = NoMark]
        /\ UNCHANGED <<here, wname, disk, editorVars, flagged, timer, deleting, question>>
     \/ /\ here[d] /\ Clean(d)
        /\ Vanish(d, "sync") /\ Unmark(d)
        /\ UNCHANGED question
     \/ /\ here[d] /\ ~Clean(d)
        /\ Raise(d, "deleted-elsewhere", Paths)
        /\ UNCHANGED <<here, wname, disk, mark, editorVars, flagged, timer, deleting>>
  /\ task' = [task EXCEPT ![d] = Idle]
  /\ UNCHANGED <<row, rev, other, base, fresh, netVars, bounds, history>>

\* importFresh, under the name that the list gave
Import(d) ==
  /\ At(d, "import")
  /\ \/ /\ Usable(row)
        /\ here' = [here EXCEPT ![d] = TRUE]
        /\ wname' = [wname EXCEPT ![d] = FreeName(d, task[d].got.name)]
        /\ disk' = [disk EXCEPT ![d] = row.files]
        /\ buf' = [buf EXCEPT ![d] = row.files]
        /\ shadow' = [shadow EXCEPT ![d] = row.files]
        /\ task' = [task EXCEPT ![d].pc = "mark", ![d].job = "import",
                                ![d].got = [row EXCEPT !.name = task[d].got.name],
                                ![d].alias = wname'[d] # task[d].got.name]
        /\ UNCHANGED faults
     \/ /\ \/ ~Usable(row) /\ UNCHANGED faults
           \/ faults < MaxFaults /\ faults' = faults + 1
        /\ task' = [task EXCEPT ![d] = Idle]
        /\ UNCHANGED <<here, wname, disk, buf, shadow>>
  /\ UNCHANGED <<row, rev, other, mark, base, typed, effectVars, question, netVars,
                 edits, changes, crashes, history>>

\* Mutant of Adopt: the copy is not looked at again once the row has been read
AdoptBlindly(d) ==
  /\ At(d, "adopt")
  /\ \/ /\ Usable(row)
        /\ task' = [task EXCEPT ![d].pc = "rewrite", ![d].job = "adopt", ![d].got = row,
                                ![d].first = disk[d], ![d].write = TRUE,
                                ![d].want = WithLocalKeypair(row.files, disk[d])]
        /\ UNCHANGED faults
     \/ /\ \/ ~Usable(row) /\ UNCHANGED faults
           \/ faults < MaxFaults /\ faults' = faults + 1
        /\ task' = [task EXCEPT ![d] = Ended(d, mark[d])]
  /\ UNCHANGED <<row, rev, storeVars, editorVars, effectVars, question, netVars,
                 edits, changes, crashes, history>>

\* _adopt: only over a copy that is still clean once the row has been read
Adopt(d) ==
  /\ At(d, "adopt")
  /\ \/ /\ Usable(row) /\ Clean(d)
        /\ task' = [task EXCEPT ![d].pc = "rewrite", ![d].job = "adopt", ![d].got = row,
                                ![d].first = disk[d], ![d].write = TRUE,
                                ![d].want = WithLocalKeypair(row.files, disk[d])]
        /\ UNCHANGED faults
     \/ /\ \/ (~Usable(row) \/ ~Clean(d)) /\ UNCHANGED faults
           \/ faults < MaxFaults /\ faults' = faults + 1
        /\ task' = [task EXCEPT ![d] = Ended(d, mark[d])]
  /\ UNCHANGED <<row, rev, storeVars, editorVars, effectVars, question, netVars,
                 edits, changes, crashes, history>>

\* settleStandIn: the account's name has come free here
SettleNames(d) ==
  /\ At(d, "names")
  /\ IF /\ here[d] /\ mark[d] # NoMark /\ mark[d].localName = wname[d]
        /\ mark[d].name = task[d].listed /\ other[d] # task[d].listed
       THEN /\ wname' = [wname EXCEPT ![d] = mark[d].name]
            /\ mark' = [mark EXCEPT ![d].localName = NoName]
            /\ flagged' = [flagged EXCEPT ![d] = TRUE]
            /\ timer' = [timer EXCEPT ![d] = TRUE]
       ELSE UNCHANGED <<wname, mark, flagged, timer>>
  /\ task' = [task EXCEPT ![d] = Idle]
  /\ UNCHANGED <<row, rev, here, other, disk, base, editorVars, fresh, deleting,
                 question, netVars, bounds, history>>

-----------------------------------------------------------------------------
(* resolve: the user answers                                               *)

\* keep-local and take-server, about the files the banner named
ResolveSide(d, side) ==
  /\ IsIdle(d) /\ here[d] /\ question[d].kind = "divergent"
  /\ task' = [task EXCEPT ![d] =
       [Merging(d, "answer") EXCEPT !.prefer = side, !.asked = question[d].paths]]
  /\ Reload(d)
  /\ UNCHANGED <<row, rev, storeVars, typed, timer, fresh, deleting, question, netVars,
                 bounds, history>>

\* delete-local
ResolveDelete(d) ==
  /\ IsIdle(d) /\ here[d] /\ question[d].kind = "deleted-elsewhere"
  /\ gone' = GivenUp(Values(disk[d]) \cup Values(buf[d]))
  /\ Vanish(d, "sync") /\ Unmark(d)
  /\ base' = [base EXCEPT ![d] = NoFiles]
  /\ question' = [question EXCEPT ![d] = NoQuestion]
  /\ UNCHANGED <<row, rev, other, fresh, task, netVars, bounds, saw, saved>>

\* keep-as-new: the files go on under another id
ResolveKeep(d) ==
  /\ IsIdle(d) /\ here[d] /\ question[d].kind = "deleted-elsewhere"
  /\ ~IsEmpty(disk[d])
  /\ gone' = GivenUp(Values(disk[d]) \cup Values(buf[d]))
  /\ Vanish(d, "no")
  /\ mark' = [mark EXCEPT ![d] = NoMark]
  /\ base' = [base EXCEPT ![d] = NoFiles]
  /\ question' = [question EXCEPT ![d] = NoQuestion]
  /\ UNCHANGED <<row, rev, other, fresh, task, netVars, bounds, saw, saved>>

\* retry, once the workspace has another name
ResolveRetry(d) ==
  /\ IsIdle(d) /\ here[d] /\ question[d].kind = "name-taken" /\ ~fresh[d]
  /\ Push(d, disk[d], [Idle EXCEPT !.job = "push", !.by = "answer", !.prev = question[d]],
          Idle, NoQuestion)
  /\ question' = IF put' = put THEN question ELSE [question EXCEPT ![d] = NoQuestion]
  /\ UNCHANGED <<row, rev, here, wname, other, disk, mark, editorVars, effectVars,
                 reply, late, bounds, history>>

-----------------------------------------------------------------------------
\* The tab is closed or reloaded: the store stays, its request may be served
Crash(d) ==
  /\ crashes < MaxCrashes /\ crashes' = crashes + 1
  /\ task' = [task EXCEPT ![d] = Idle]
  /\ buf' = [buf EXCEPT ![d] = disk[d]]
  /\ typed' = [typed EXCEPT ![d] = {}]
  /\ shadow' = [shadow EXCEPT ![d] = disk[d]]
  /\ flagged' = [flagged EXCEPT ![d] = FALSE]
  /\ timer' = [timer EXCEPT ![d] = FALSE]
  /\ fresh' = [fresh EXCEPT ![d] = TRUE]
  /\ deleting' = [deleting EXCEPT ![d] = "no"]
  /\ question' = [question EXCEPT ![d] = NoQuestion]
  /\ late' = late \cup ({put[d]} \ {NoPut})
  /\ put' = [put EXCEPT ![d] = NoPut]
  /\ reply' = [reply EXCEPT ![d] = NoReply]
  /\ UNCHANGED <<row, rev, storeVars, edits, changes, faults, history>>

\* A chat turn makes the row before the first upload does
ChatTurn ==
  /\ UserChange
  /\ EnsureParent(NextToken)
  /\ UNCHANGED <<storeVars, editorVars, effectVars, question, task, netVars,
                 edits, faults, crashes, history>>

UserStep(d) ==
  \/ \E p \in Paths, r \in Regions : Type(d, p, r)
  \/ \E p \in Paths : CreateFile(d, p)
  \/ \E p \in Paths : DeleteFile(d, p)
  \/ \E n \in Names : RenameWorkspace(d, n)
  \/ ReleaseName(d)
  \/ DeleteWorkspace(d)
  \/ StartTutorial(d)

Resolve(d) ==
  \/ \E side \in {"local", "server"} : ResolveSide(d, side)
  \/ ResolveDelete(d)
  \/ ResolveKeep(d)
  \/ ResolveRetry(d)

\* The steps that an exchange takes on its own once it has begun
TaskStep(d) ==
  \/ PassSkips(d) \/ PassTakes(d) \/ PassPushes(d) \/ PassDiverged(d) \/ SettleDelete(d)
  \/ Import(d) \/ Adopt(d) \/ SettleNames(d)
  \/ AcceptMark(d) \/ AcceptBase(d) \/ SwapMissed(d)
  \/ Refused(d, "deleted", "deleted-elsewhere") \/ Refused(d, "name-taken", "name-taken")
  \/ MergeGone(d) \/ MergeFailed(d) \/ MergeAsks(d) \/ MergePlans(d)
  \/ Rewrite(d) \/ Remark(d) \/ Rebase(d) \/ MergePush(d) \/ Close(d)

Next ==
  \/ \E d \in Devices :
       \/ UserStep(d)
       \/ \E p \in Paths : Autosave(d, p)
       \/ SettleLocalDeletes(d)
       \/ PushCurrent(d)
       \/ Reconcile(d)
       \/ ListFails(d)
       \/ Resolve(d)
       \/ TaskStep(d)
       \/ Serve(d)
       \/ Timeout(d)
       \/ RewriteFails(d)
       \/ Crash(d)
  \/ \E b \in late : ServeLate(b)
  \/ ChatTurn

Spec == Init /\ [][Next]_vars

\* The user comes back to every device; autosave, timers, the lock and the
\* account serve everyone
Fairness ==
  \A d \in Devices :
    /\ WF_vars(\E p \in Paths : Autosave(d, p))
    /\ WF_vars(SettleLocalDeletes(d))
    /\ SF_vars(PushCurrent(d))
    /\ WF_vars(Reconcile(d))
    /\ WF_vars(TaskStep(d))
    /\ WF_vars(Serve(d))

FairSpec == Spec /\ Fairness

-----------------------------------------------------------------------------
AnyName == Names \cup {IdName, NoName, ""}
AnyToken == Tokens \cup {NoToken}
Marks == [files : Hashes, name : AnyName, localName : AnyName, token : AnyToken,
          dirty : BOOLEAN]
Questions == [kind : {"none", "divergent", "deleted-elsewhere", "name-taken"},
              paths : SUBSET Paths]
Rows == [state : {"none", "live", "deleted"}, name : AnyName, token : AnyToken,
         files : FileSets]
Revs == [files : FileSets, name : AnyName, base : AnyToken]
Puts == [base : AnyToken, name : AnyName, whole : BOOLEAN, files : FileSets,
         removed : SUBSET Paths]
Replies == [kind : {"none", "ok", "conflict", "deleted", "name-taken"}, token : AnyToken]
Tasks == [pc : {"idle", "listed", "import", "adopt", "merge", "rewrite", "mark", "base",
                "push", "sent", "accepted", "close", "names"},
          job : {"none", "push", "merge", "adopt", "import"},
          by : {"none", "editor", "pass", "answer"},
          got : Rows, first : FileSets, want : FileSets,
          write : BOOLEAN, wrote : BOOLEAN, carried : BOOLEAN, alias : BOOLEAN,
          tries : Nat, prefer : {"none", "local", "server"}, asked : SUBSET Paths,
          refused : BOOLEAN, prev : Questions, listed : AnyName]

StoreTypeOK ==
  /\ here \in [Devices -> BOOLEAN]
  /\ wname \in [Devices -> AnyName]
  /\ other \in [Devices -> Names \cup {NoName}]
  /\ disk \in [Devices -> FileSets] /\ base \in [Devices -> FileSets]
  /\ mark \in [Devices -> Marks]

TabTypeOK ==
  /\ buf \in [Devices -> FileSets] /\ shadow \in [Devices -> FileSets]
  /\ typed \in [Devices -> SUBSET Paths]
  /\ flagged \in [Devices -> BOOLEAN] /\ timer \in [Devices -> BOOLEAN]
  /\ fresh \in [Devices -> BOOLEAN]
  /\ deleting \in [Devices -> {"no", "user", "sync"}]
  /\ question \in [Devices -> Questions]
  /\ task \in [Devices -> Tasks]

TypeOK ==
  /\ row \in Rows /\ DOMAIN rev \subseteq Tokens /\ rev \in [DOMAIN rev -> Revs]
  /\ StoreTypeOK
  /\ TabTypeOK
  /\ put \in [Devices -> Puts] /\ late \subseteq Puts
  /\ reply \in [Devices -> Replies]
  /\ edits \in 0 .. MaxEdits
  /\ saw \in [Vals -> SUBSET Vals] /\ saved \subseteq Vals /\ gone \subseteq Vals

\* The revision with this token has these files
Exact(token, files) == token \in DOMAIN rev /\ rev[token].files = files

\* A mark describes the revision whose token it carries, file by file.  Every
\* patch is taken against it and the account checks only the token, so a mark
\* that said anything else would let a patch land on files it was not made for.
HonestMark(d) ==
  mark[d] # NoMark => /\ mark[d].token \in DOMAIN rev
                      /\ mark[d].files = HashFiles(rev[mark[d].token].files)

\* A PUT in flight, applied to the revision it names, gives the copy that its
\* device is uploading, although only a patch travels.  (So it never leaves the
\* row without files: an empty copy is not uploaded.)
HonestPut(d) ==
  put[d] # NoPut =>
    \/ put[d].base = NoToken /\ put[d].whole /\ put[d].files = task[d].want
    \/ /\ put[d].base \in DOMAIN rev
       /\ FilesAfter(rev[put[d].base].files, put[d]) = task[d].want

PutHonest == \A d \in Devices : HonestPut(d)

\* What the account holds once it has accepted an upload is the whole copy the
\* device had when it sent the patch.
UploadIsWhole ==
  [][\A d \in Devices :
       reply[d].kind # "ok" /\ reply'[d].kind = "ok" =>
         row'.state = "live" /\ row'.files = task[d].want]_vars

\* The inductive invariant behind PutHonest and UploadIsWhole: the account's
\* row and everything a task has read or been told is one revision, exactly.
RowHonest == row.state = "live" => Exact(row.token, row.files)

RevsNumbered == IsFiniteSet(DOMAIN rev) /\ DOMAIN rev = 1 .. Cardinality(DOMAIN rev)

HonestTask(d) ==
  /\ task[d].pc \in {"rewrite", "mark"} => Exact(task[d].got.token, task[d].got.files)
  /\ ~At(d, "sent") => put[d] = NoPut /\ reply[d] = NoReply
  /\ put[d] # NoPut => reply[d] = NoReply
  /\ reply[d].kind = "ok" => Exact(reply[d].token, task[d].want)

HonestDevice(d) == HonestMark(d) /\ HonestPut(d) /\ HonestTask(d)

Honest == RowHonest /\ RevsNumbered /\ \A d \in Devices : HonestDevice(d)

\* No accepted upload drops an edit from the account unless its author had
\* seen that edit and replaced it, or a user gave it up: the "stale writer"
\* that sync is there to survive (project-sync.ts).
AccountKeepsEdits ==
  [][\A p \in Paths, r \in Regions :
       LET old == IF row.files[p] = Absent THEN 0 ELSE row.files[p][r]
           new == IF row'.files[p] = Absent THEN 0 ELSE row'.files[p][r]
       IN old \in {0, new} \/ old \in saw[new] \/ old \in gone']_row

\* An edit that was saved is still somewhere, itself or under a later edit of
\* the same lines: on the account, on a disk or in an editor.
Holds(files, v) == \E w \in Values(files) : v = w \/ v \in saw[w]

NoLostEdit ==
  \A v \in saved \ gone :
    \/ Holds(row.files, v)
    \/ \E d \in Devices : Holds(disk[d], v) \/ Holds(buf[d], v)

\* "the user is asked only about lines both changed" (project-sync.ts): a
\* question about a file means both copies changed one region of it, apart from
\* deletes and from files with no agreed version.  "A capture that never
\* happened -- the tab crashed before any push -- is not repaired by guessing.
\* The file is simply asked about, as a whole" (sync-base.ts): only a closed tab
\* has that excuse, and only where neither the shadow nor the kept base holds
\* the agreed version any more.
AsksOnlyAboutOverlap ==
  [][\A d \in Devices : MergeAsks(d) /\ mark[d] # NoMark =>
       \A p \in question'[d].paths :
         LET agreed == rev[mark[d].token].files[p]
         IN \/ Absent \in {agreed, Local(d)[p], row.files[p]}
            \/ ~Merge3Clean(agreed, Local(d)[p], row.files[p])
            \/ crashes > 0 /\ agreed \notin {shadow[d][p], base[d][p]}]_task

\* An upload carries something a user did: sync never answers its own
\* rewrites with another upload ("a project being uploaded dozens of times a
\* second", project-sync.tsx).
NoUploadLoop ==
  Cardinality(DOMAIN rev) <= Cardinality(Devices) + edits + changes + crashes + faults

\* A stand-in that sync gave a workspace is never uploaded as a rename
\* (SyncMark.localName).
StandInStays == \A n \in Names : row.name # Imported[n]

\* Work that the account lacks is flagged, or an upload of it is on its way:
\* reconcile's cheap path skips a copy that is not flagged.
UnsentIsFlagged ==
  \A d \in Devices :
    /\ here[d] /\ IsIdle(d) /\ ~timer[d] /\ question[d] = NoQuestion
    /\ mark[d] # NoMark /\ mark[d].token = row.token /\ ~mark[d].dirty
    => SameUserFiles(disk[d], row.files)

\* A deleted project stays deleted (tombstones).
StaysDeleted == [][row.state = "deleted" => row'.state = "deleted"]_vars

\* Only a user's delete is sent: the one that follows another device's would
\* meet a tutorial that has been started again since (settleDeletes).
OnlyUsersDelete ==
  [][row.state = "live" /\ row'.state = "deleted" =>
       \E d \in Devices : deleting[d] = "user" /\ deleting'[d] = "no"]_vars

\* "The name it was stored under" (SyncMark.name): under the token it carries.
\* importFresh does not keep this: it takes the name from the list.
MarkNamesRevision ==
  \A d \in Devices : mark[d] # NoMark => mark[d].name = rev[mark[d].token].name

\* The keypair of the program in these files
KeyOf(files) == IF files[ProgramInfo] = Absent THEN Blank ELSE files[ProgramInfo][Key]

\* A device that has built the program keeps a keypair for it: taking the
\* account's copy does not throw "the only keypair there is" away.
KeypairKept ==
  [][\A d \in Devices : here[d] /\ here'[d] /\ KeyOf(disk[d]) # Blank =>
       KeyOf(disk'[d]) # Blank]_vars

\* Every device ends up with the account's copy or with a question on screen.
Level(d) == \/ question[d] # NoQuestion
            \/ row.state = "live" /\ SameUserFiles(disk[d], row.files)
            \/ row.state # "live" /\ ~here[d]

Converges == <>[](\A d \in Devices : Level(d))
=============================================================================
