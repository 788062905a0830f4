# Sync, conversations, the agent ledger and deploys of Solana Playground, in TLA+

Solana Playground is a Solana IDE in the browser. Its current client
(`src/client-v2`) keeps a user's projects and conversations in the browser and,
for a signed-in user, on the account too, so that two devices and several tabs
can work on one project without a lock between devices, without a server that
merges and without a connection that is always up; and it pays for the
assistant's turns from a daily allowance that concurrent requests share. A deploy
spends a user's SOL over many transactions that may be lost, while the user may
pause, resume or stop it. Those
parts decide whether work or money is lost, and they are the parts a test suite
reaches least: they are made of awaits, of other writers between them, and of
tabs and functions that end at any point. This project models them, model-checks
them with TLC on small instances and proves central invariants with TLAPS.

Contents: 1 inventory, 2 modules and how they correspond to the code, 3 runs,
4 bounds and fairness, 5 proofs, 6 findings, 7 what is not modelled, 8 plan.

File names below are relative to `src/client-v2/src/` unless they start
with `src/`; `model/` is `features/persistence/model/`.

## 1. Inventory

### The system

| Component | State it keeps | Operations | Talks to |
|---|---|---|---|
| Sync lock (`model/sync-lock.ts`) | per tab: `holders`, `held`, `release`; the browser's Web Lock `pg-project-sync` | `withSyncLock`, `acquire` | every exchange runs inside it |
| Project store (`model/projects.mjs`, `src/client-v2/api/projects.mjs`) | Postgres rows `projects` (name, `updated_at`, `deleted_at`) and `project_files` | `saveProject` (swap, create, patch), `deleteProject`, `listProjects`, `getProject` | called by the client; a chat turn makes its row |
| Project sync (`model/project-sync.ts`, `model/project-restore.ts`, `effects/project-sync`) | the question of the banner, push gate, generations, debounce, `flagged` | `pushCurrent`, `_push`, `mergeWithServer`, `_adopt`, `_catchUp`, `resolve`, `reconcile`, `importFresh`, `settleDeletes`, `settleLocalDeletes`, `settleSteppedNames` | explorer and editor below it, store above it |
| Marks and bases (`model/sync-mark.ts`, `model/sync-base.ts`) | per project, on disk: hashes, name, `localName`, token, `dirty`; the agreed content of files changed since | `set`, `markDirty`, `remove`, `capture`, `accepted`, `replace` | written by sync, by the effect and (removed) by deletes |
| Merge (`model/merge.ts`, `model/snapshot.ts`) | none | `planMerge`, `settleConflicts`, `baseAfterMerge`, `keepLocalKeypair`, `merge3`, `diffFiles`, `hashFiles`, `mergeName` | pure |
| Explorer and editor (`utils/explorer/explorer.ts`, Monaco autosave) | workspaces, files on disk, files in memory, buffers | create, rename, delete, `replaceWorkspaceFiles`, `renameWorkspaceById`, autosave | announces every write to the effect |
| Tab sync and reload (`model/tab-reload.ts`, `effects/tab-sync`) | none of its own | `reloadCurrentFromDisk`, broadcasts to the other tabs | explorer, editor |
| Session (`features/auth/model/session.ts`, `effects/session`) | who is signed in | holds pushes until the first reconcile; `adopt` on sign-in, `relinquish` and `releaseLocalProjects` on sign-out | sync, chat sync, the panel |
| Conversations, server (`model/conversations.mjs`) | Postgres rows of threads and messages, tombstones | `appendMessages`, `ensureThread`; `deleteProject` erases | makes a project row for its thread |
| Chat sync, client (`model/chat-sync.ts`, `model/thread-index.ts`, `model/chat-storage.ts`, `effects/chat-thread`) | thread files, the index from workspace to thread, hand-over hashes | open, fetch, fold in, adopt the account's thread, push, replace a deleted thread, `pushAll`, `forget` | panel, account |
| Assistant panel (`views/sidebar/assistant/store.ts`) | the open thread, its items, load number, write queue | `openThread`, `repointThread`, `closeThread`, `foldIn`, persist | chat sync, storage |
| Agent ledger (`features/agent/server`, `src/client-v2/api/agent.mjs`) | Postgres rows `agent_turn` and `agent_spend` of a user's UTC day | `reserve`, `settle`, `recordCapped`, `learnAccountAge` | wraps the relay to the upstream model |
| Deploy (`commands/deploy`, `features/deploy/model/stage-deploy.ts`) | `deployState`, the stage's answers; on the cluster the buffer account and the program | pre-checks, fund, make and write a buffer, deploy or upgrade; pause, resume, stop; retries | terminal, wallet, the cluster |
| Commands and terminal (`utils/command.ts`, `utils/terminal`) | the runs and their signals, the one open question | execute, `stop`, `lockStop`, `waitForInput` | every command |
| The rest | | flow stages, wallets and transactions, gist and share, MCP, skills, the build server (`src/server`), WASM packages, design system, the classic client (`src/client`) | |

### How an exchange works

The account's row has a token, `updated_at`. A device keeps a *mark*: the hashes
of the files the account had when the two last agreed, and that revision's
token. A push hashes the workspace, sends what differs from the mark with the
token it was made against, and the account accepts it if the token still
matches. If it does not, the device reads the row and merges three ways: what
the mark says is the base (its hashes; contents only for files changed since,
which `PgSyncBase` keeps), the workspace is ours and the row is theirs. Lines
that both changed are a question for the user. The result is written to the
workspace, then to the mark, then to the base, then uploaded. The editor goes on
all the while; what was typed is folded in at the end (`_catchUp`). `reconcile`,
on load, on focus and on every switch, compares the account's list with the
marks and pushes, adopts, imports, merges or deletes.

### What is hard, and what makes it correct

* *A patch is only as right as its mark.* Only the difference travels, and the
  account checks only the token. Correct: a mark describes exactly the revision
  whose token it carries, whatever was lost, late, closed or failed
  (`Honest`, `PutHonest`, `UploadIsWhole`: proved).
* *Two writers.* Two devices swap, or create, at once, one statement at a time
  on the server. Correct: what an accepted request leaves is what it sent, and
  the transactions behave as one atomic row (`AcceptedExactly`, `RowSpec`: a
  refinement of `ProjectRow`, in which one writer wins per token).
* *The user does not wait.* Edits land between any two awaits. Correct: a saved
  edit is still somewhere, itself or below a later edit of the same lines, or a
  user was told (`NoLostEdit`, `AccountKeepsEdits`).
* *A tab closes anywhere.* Correct: the next pass finishes the exchange
  (`Converges`) and the order of the writes loses nothing.
* *Deletes, tombstones, tutorials that restart under one id.* Correct: a deleted
  project stays deleted, and sync sends only a user's delete (`StaysDeleted`,
  `OnlyUsersDelete`).
* *Sync feeds itself.* Adopting re-opens the workspace, which writes files and
  asks for another pass. Correct: uploads are bounded by what users did
  (`NoUploadLoop`).
* *Tabs share one store.* Correct: one exchange at a time per browser, and
  nobody waits for himself (`Exclusion`, `EveryCallAnswered`); a tab never takes
  text over its own keystrokes (`TypedSomewhere`).
* *Calls of one tab share a lock they already hold.* A push, a pass, a merge and
  an answer run side by side, ordered only by the push gate, the generations and
  a queue of merges. Correct: no copy read before a rewrite goes up after it
  (`GuardedNeverReverts`), and the three never wait for each other
  (`SomeCallMoves`).
* *A push of messages meets a delete of the project.* Correct: what is deleted
  stays erased, what was answered is kept (`LockedStaysErased`, `AckedKept`).
  The code's own comments disagree about the first (section 6).
* *The user switches while a thread is read.* Correct: nothing typed is lost,
  filed under another workspace, shown twice or left unsaved (`QueueKeeps`,
  `FiledWhereTyped`, `FollowsSwitch`, `ShownOnce`, `ScreenStored`: all but
  `ShownOnce` proved).
* *Turns spend one allowance at once*, callers hang up, functions are killed and
  midnight passes. Correct: the cap holds and hanging up is not a discount
  (`CapHeld`, `HangUpNotFree`, `LedgerImplements`), the two tables agree and take
  every settle (`LedgerAgrees`, `SettleStorable`; all of these are proved), and a
  caller who has gone does not keep a turn open (`HangUpSettles`).

* *One command starts, pauses, resumes and is stopped*, while its transactions
  are lost, late or landed untold. Correct: one deploy at a time (`OneRun`), no
  last transaction without the whole program (`WholeBuffer`) or after a stop
  (`StopHolds`), a stop that ends (`StopSettles`) with a line that is true
  (`StoppedLine`), and no success that is not there (`DeployedIsThere`): all but
  `StopSettles` proved. The last three have exceptions that the code really has,
  named in the properties and in section 6.

`PROJECT.json` lists the hazards line by line with the properties that cover
each of them.

## 2. Modules

```
Files ──── Merge ─────────────┐
   └────── ProjectRow ────────┴── ProjectSync ── MCProjectSync   (4 cfgs)
                │                      │             └── MCSyncFaults
                │                      └──────── ProjectSyncProofs
                └── ProjectStore ──┬── MCProjectStore
                                   └── ProjectStoreProofs
TabGate ─────┬── MCTabGate    (2 cfgs)
             └── TabGateProofs
SyncLock ────┬── SyncLockProofs
             └── MCAnswers ──┐
Allowance ◁─ AgentLedger ────┘
                 └── AgentLedgerProofs
ChatStore, ChatPanel ── MCChat
    │          └── ChatPanelProofs
    └── ChatStoreProofs
Deploy ──┬── MCDeploy    (2 cfgs)
         └── DeployProofs
```

`◁` is a refinement, as is ProjectStore over ProjectRow.

**Files** — a project's files as a function from paths to contents, the patch of
`diffFiles`, and SHA-256 as an injective wrapper whose values are not contents.
A text is a function from *regions* to values. Regions are stretches of lines
that neither overlap nor touch, so two edits fall into one region exactly when
`merge3` would group their hunks: merging per region is what `merge3` does to
the text.

**Merge** — `planMerge`, `settleConflicts`, `baseAfterMerge`,
`keepLocalKeypair`, `mergeName`. The base is hashes plus kept contents, as in
the code, so a merge without the content of a file has to ask.

**ProjectRow** — what the store promises: the row of one project, and a write
as one atomic step that lands on the revision it names or is refused. `rev` is a
history variable: what each token stood for. Writes assume tokens are unique
(they are millisecond timestamps, see section 7).

**ProjectStore** — the transactions behind it: `SWAP` and `CREATE` with their
snapshots under READ COMMITTED, the wait for the row lock, the re-check on the
newest version, the second look of `CREATE` for files, the file statements, the
unique name, rollback, the two statements of `deleteProject` and `ensureThread`.
`RowSpec` says that this implements `ProjectRow`.

| ProjectStore | Code |
|---|---|
| `snap[t]`, `lock`, `pending[t]` | what the statement sees; the row lock; the uncommitted version |
| `SaveStart`, `Swap` / `Create`, `Recheck`, `WriteFiles`, `Commit`, `Abort` | `saveProject`, `SWAP` / `CREATE`, `HAS_FILES`, `writeProject`, COMMIT, ROLLBACK |
| `DeleteStart`, `Tombstone`, `Erase` | `deleteProject` |
| `Chat` | `pushItems` → `ensureThread` |

**SyncLock** — `withSyncLock` for every tab and every call, nested and side by
side; the Web Locks API is external (a FIFO queue of requests and one owner).

**ProjectSync** — the client, for one project on several devices, each a browser
with one tab. `withSyncLock` allows one exchange at a time (SyncLock), so a
device has one `task`, a small program counter. A step of a task is everything
between two points where something else that matters can happen. The user's
actions interleave with it, and a request is served at any time between being
sent and being given up, or after that (`late`).

| ProjectSync | Code |
|---|---|
| `here`, `wname`, `other`, `disk` | the explorer's workspaces and files |
| `mark`, `base`, `shadow` | `PgSyncMark`, `PgSyncBase` and its `_shadow` |
| `buf`, `typed` | Monaco's buffers, and those autosave has yet to write |
| `flagged`, `timer`, `fresh`, `deleting` | the effect's `flagged`, its debounce, the hold on pushes until the first reconcile, the pending `settleLocalDeletes` |
| `Type`, `Autosave`, `CreateFile`, `DeleteFile`, `RenameWorkspace`, `ReleaseName`, `DeleteWorkspace`, `StartTutorial` | the user |
| `Push`, `AcceptMark`, `AcceptBase`, `SwapMissed`, `Refused`, `Timeout` | `_push` up to the request, and each answer |
| `MergeGone`, `MergeFailed`, `MergeAsks`, `MergePlans`, `Rewrite`, `Remark`, `Rebase`, `MergePush`, `Close` | `mergeWithServer`: read and plan, files, mark, base, upload, `_catchUp` and the finally block |
| `Adopt` then `Rewrite` … `Close`; `Import` then `Remark`, `Rebase` | `_adopt`; `importFresh` |
| `Reconcile`, `ListFails`, `PassSkips`, `PassTakes`, `PassPushes`, `PassDiverged`, `SettleDelete`, `SettleNames` | `reconcile`, `settleDivergence`, `settleDeletes`, `settleSteppedNames` |
| `SettleLocalDeletes` | the effect on a deleted workspace |
| `ResolveSide`, `ResolveDelete`, `ResolveKeep`, `ResolveRetry` | `resolve` |
| `Reload` | `reloadCurrentFromDisk` |
| `RewriteFails`, `Crash` | a store that throws part-way; a closed or reloaded tab |

`saw`, `saved` and `gone` are history: what an edit knowingly replaced, what an
autosave wrote, and what a user gave up or was told is dropped. Edit number *i*
writes the value *i*, so that an edit can be found again wherever it went.

**TabGate** — the same exchanges from the other side: several tabs of one
browser, and several calls inside each. ProjectSync has one task per device; here
a `job` is one call of sync, several are inside the lock at once when they are of
one tab (which `withSyncLock` allows), and every step is the code between two
awaits. In return the data is small: one file, in which every edit is a line of
its own, so that a text is a set of edits and no merge has to ask.

| TabGate | Code |
|---|---|
| `onDisk`, `agreed` | the store and the mark, which all tabs share |
| `shown[t]`, `inState[t]` | the editor's buffer, the explorer's memory |
| `holds[t]`, `gens[t]`, `line[t]`, `question[t]` | `_holds`, `_generations`, `_tails` and `_merging`, `_conflicts` |
| `looking[t]`, `flagging[t]` | the queue of `reloadCurrentFromDisk`, the queue of the mark |
| `PushCurrent`, `PassGate`, `EnterLock`, `Snapshot`, `ReadMark`, `Check`, `Serve`, `ServeFails`, `Accepted`, `Missed` | `pushCurrent`, `_push`, with `retry` of `resolve` joining at `EnterLock` |
| `Refresh`, `List`, `Decide`, `SettleDivergence`, `ProbeFails` | `refresh` of the effect, `passUnlocked`, `settleDivergence` |
| `Look`, `LookApply`, `Hear` | `reloadCurrentFromDisk` as `_catchUpWithDisk`, at the start of a pass, and after a broadcast |
| `Fetch`, `FetchFails`, `ReadLocal`, `ReadBase`, `Rewrite`, `Remark` | `_mergeWithServer` and `_adopt` up to the upload |
| `Level`, `Reopen`, `FlagFolded`, `LeaveMerge` | `_catchUp` and the finally blocks |

`undone` is history: lines that were taken from the store by a buffer or a rewrite
based on an older text, or by a merge whose mark was newer than its row
(`TakenForRemoved`). Section 6 says when that happens.

**Allowance** — what the ledger promises: a turn is granted its worst case if it
fits under the account's limit, and is closed once, at what it is charged, on
the account it was granted from. An account is a user on a day.

**AgentLedger** — `/api/agent` and the tables behind it. `spent`, `reserved` and
`capped` are `agent_spend`; `outcome` and `charged` are `agent_turn`; `place` is
where a request is in the handler.

| AgentLedger | Code |
|---|---|
| `Take`, `Reserve`, `ReserveFails`, `RecordCapped` | `worstCaseCost`, `reserve`, its failures before and after the commit, `recordCapped` |
| `StartRelay`, `UpstreamTakes`, `UpstreamRefuses`, `UpstreamAnswers`, `FetchThrows` | the handler's fetch; what the upstream does is external |
| `ReadChunk`, `Drain`, `CloseEndsWait`, `ReadDone`, `ReadFails` | the stream to the caller, the wait for `drain` or `close` |
| `Settle`, `LearnAccountAge` | `settle` with its failures, `learnAccountAge` |
| `CallerLeaves`, `Kill`, `NewDay` | a hang-up, the platform, UTC midnight |

**ChatStore** — a push of messages against `deleteProject`, statement by
statement under READ COMMITTED: `FindParent`, `MakeParent` (the two halves of the
insert-and-select of `ensureThread`), `MakeThread`, `CheckThread`, `Upsert`,
`Touch`, `PushCommit`; `Tombstone`, `TombstoneThreads`, `EraseMessages`,
`DeleteCommit`; `AbortTx`; `StartAgain` for a tutorial. What Postgres does is
modelled from how the code relies on it, and stated at the head of the module.

**ChatPanel** — a conversation in one tab. The panel's methods (`load`,
`repoint`, `closeThread`, `keepOvertaken`, `foldIn`, ...) are operators on the
record `panel`, since the code runs them without an await; reads that are out are
`panel.loads`, the write queue is `panel.queue`. Every other asynchronous call is
an element of `tasks` with a program counter: opening a workspace's thread,
folding in the account's copy, adopting its thread, pushing, replacing a deleted
thread; `leave` is the sign-out. Storage and index are `files` and `index`, the
account is `account`, which takes a push or refuses it whole. A switch of
workspace is two steps, as in the explorer: `SwitchWorkspace` moves the id, and
`DidSwitchWorkspace` is its event, some awaits later, which opens the new
workspace's thread unless the panel was opened for it meanwhile (`effect.openedFor`;
a switch that fails before its event is one whose event never comes). Six variables or
fields are history, and name what the properties except: `trampled` is what a
write outside the queue took from a file or may take back (and what left a file
between the hash of a sign-out and its push), `replaced` the threads that
`replaceDeleted` opened and the ones a move went to from them, `givenUp` what the
code means to drop, `adrift` what section 6 says of a fold, `standIn` what a fold
or an overtaken move put into the list that stands in for a thread being read,
and `effect.crossed` that a switch began before the event of another had come.

**Deploy** — the deploy command. A *press* is one call of it, by the Deploy stage
or by anything else (`"typed"`); its handler deploys, pauses or resumes. A press
that pauses or resumes is one that was still in its pre-checks when the deploy
began: the stage makes none while a deploy loads, and the other callers only when
none is on. The cluster is external: a transaction that was sent is in `flight`
until it lands, which may be never, and may be after it was sent again; it lands
valid or not (`Valid`), and whoever waits for it is told or is not.

| Deploy | Code |
|---|---|
| `deployState`, `answers` | `PgGlobal.deployState`, `PgDeployRun._answers` |
| `at[p]`, `tx[p]`, `outcome[p]` | where a call is in the pre-checks and in `processDeploy`; the attempt of `sendAndConfirmTxWithRetries`; how it ended |
| `aborted[p]`, `locked[p]` | the run's signal, `lockStop` |
| `ask[p]` | `waitForInput`: one question is open at a time, a second one throws |
| `segs[p]`, `loaded[p]` | the calls of `loadBufferWithControl`, each with its own abort (`cut`), its listeners (`stops`, `answersNo`, `listens` with `prev`), its question and a "yes" that found none (`stray`); the promise that `processDeploy` awaits |
| `Press`, `ChecksAsk`, `ChecksReply`, `ChecksFail`, `Handle` | `_startWith`, `checkWallet`, `checkProgram`, the handler |
| `Fetched`, `AirdropReply`, `Airdropped`, `Funding` | `processDeploy` up to the buffer |
| `Send`, `Confirm`, `Check`, `KeptBalance` | an attempt, with `if (!txHash) return`; its confirmation, `checkConfirmation`, `keptLamportsOn`, each read from a node that may be behind |
| `SegmentStarts`, `Simulate`, `Load`, `Read`, `Continue`, `HandleFails`, `Loaded`, `CloseReply` | the write, its pauses, and what follows it |
| `Answer`, `Stop`, `SwitchProject`, `SwitchNetwork`, `Land` | the user and the cluster |

A change of `deployState` calls its listeners in the same step (`SetState`), since
`PgGlobal.update` does. A reply to a question and the end of the write are taken
up before anything else happens (`Settled`): the code resumes in the same turn.
`Load` is the top of the write's loop, where an abort ends it; `Read` is the read of
the buffer below it, which `tryUntilSuccess` repeats for ever, without looking at the
abort, until a node has the buffer. `made` (of a buffer), `reached` and `unseen` are
history; `unseen` has the steps that a run took for done with no sign of them, because
the send returned no hash or because a node that is behind read as if there were no
buffer.

**MCAnswers** and **MCChat** each run two modules in one model: a behaviour is of
one of them while the other stays in a fixed initial state. Neither half reads
what the other writes, so nothing is lost by it, and the properties of a half
hold trivially in the behaviours of the other.

**MCSyncFaults** and **MCDeploy** choose a *scenario* once, at the start: several
bounds in one run, where all of them together are out of TLC's reach. MCSyncFaults
has "typing" (three edits, typed into rewrites too) and "faults" (two edits, a
closed tab and a lost or late request); MCDeploy has "chain" (one press, and all
that payers, balances, the cluster, other projects and other networks can do),
"unseen" (one press on one project, which takes any of its steps for done with no
sign), "presses" (two presses, on one project and network) and "resume" (a third,
which resumes what the second paused; in these two the retries of a close are not
used up). A scenario only leaves
behaviours out, and each is a smaller instance of the same specification.

## 3. Runs

All state spaces of the passing runs are explored in full.

| Run | cfg | What it asks | Distinct states |
|---|---|---|---|
| `answers` | MCAnswers | lock: tabs exclude each other, every call answered; ledger: cap, hang-ups, agreement of the tables, storable settles, hang-ups settle, implements `Allowance` | 175 198 |
| `project_store` | MCProjectStore | exact results, implements `ProjectRow` | 694 561 |
| `sync_faults` | SyncFaults | three edits on two devices, typing during rewrites; or two with one closed tab and one lost or late request: no lost edit, the account keeps edits, no needless question | 633 909 |
| `sync_names` | SyncNames | first uploads that race each other and a chat turn, deletes, renames onto a name another workspace holds: the account keeps edits, deletes are users', deleted stays deleted, stand-ins stay | 829 685 |
| `sync_tutorial` | SyncTutorial | files come and go, a tutorial deleted and started again, rewrites that fail part-way: honest marks (`Honest`), whole uploads | 887 183 |
| `sync_converges` | SyncConverges | both devices edit, into rewrites too, and build; or one edit with a lost request and a closed tab: every device ends level or with a question (liveness), no lost keypair, no upload loop | 60 323 |
| `tabs` | MCTabGate | calls of two tabs: nothing guarded reverts another device, nothing typed goes missing, some call always moves | 834 309 |
| `chat` | MCChat | pushes against deletes on the server; switches, reads, folds, pushes, sign-ins and sign-outs in a tab | 2 542 695 |
| `deploy` | MCDeploy | one run with lost, late and repeated transactions, other projects and networks, and presses that meet: one run at a time, a whole buffer, a stop holds, ends (liveness) and its line is true, a success is there | 583 491 |
| `sync_flag_lost`, `tab_revert`, `deploy_stop_lost` | SyncFlagLost, TabRevert, DeployStopLost | violations, see section 6 | |

Every property of a passing run has a mutant in `PROJECT.json`: a plausible
mistake in the code (a dropped guard, a mark written from the wrong copy, a
patch that forgets removals) under which TLC finds it violated.

## 4. Bounds, environment, fairness

*Devices*: two; a third adds no new pair of writers, and a change of a third
party between two steps is there already, since the other device may go round
as often as its edits allow. Device symmetry is used in the safety runs, never
in the liveness runs; `sync_faults` also has symmetry of regions, which only a
`ProgramInfo` file would break. *Edits*: three where edits meet, which is one on each device and one
in the middle of the exchange that follows; two with faults and in the liveness run,
one where files, names and projects come and go. *Regions*: two where merging
matters, one elsewhere. *Paths*: two where files come and go. *Tokens* is larger
than any run needs (`NoUploadLoop` bounds it). `MaxChanges`, `MaxFaults`,
`MaxCrashes` are 0 to 2 and are spent anywhere. `MergeAttempts` is 3 as in the
code; giving up after three is reached in `tabs`, where four edits elsewhere
outrun a push.
*Requests* in ProjectStore: four, so that two writers, a delete and a restart
meet; the bodies take every branch of `writeProject`. *Calls and edits* in
TabGate come from `MCScenarios`: every pair of calls that can meet in one tab or
in two, and the three calls behind the finding of section 6, each with one edit
here and one elsewhere, which is what a revert needs. *Turns*: two, with a cap
that admits one of them for a newcomer and both for an established account, two
days, and reports of a charge below, above and outside what a column holds.
*Chat*: two pushes and two deletes, which is what a lost race for the first row
needs; in the tab, `MCBudgets` lists scenarios (how many messages, switches,
pushes, deletes elsewhere, failures, sign-ins and sign-outs), because all of them
together are out of reach. `MaxThreads` is five: the account's, one for each
workspace, and two that take the place of a deleted one. Message symmetry is used in `chat`, which has no
liveness. *Deploys*: two presses are a run and one that pauses it, or two runs one after the
other; a third resumes, and meets only a run that the second has paused. Which
press comes first makes no difference, so `p1` does. `MaxRetries` is 2 in place of
5: an attempt whose answer is lost and one that repeats it; a third repeats nothing
new. One chunk is a buffer that is made and not yet written, or whole. What follows from amounts of SOL is
a choice (`Short`, `Grows`), and so is a refusal by preflight:
`Preflight = FALSE` has the behaviours of TRUE too.

Two constants separate what holds from what section 6 shows does not:
`DuringRewrite` says what the user does in the moment in which sync rewrites the
workspace (`"type"` is on in `sync_converges` and in the scenario "typing" of
`sync_faults`), and `StoreFails` whether writing a workspace may throw (on in
`sync_tutorial`). With a crash and typing into a rewrite together
`AccountKeepsEdits` fails (section 6), so the scenario "faults" has only the
crash. `sync_converges` has faults and crashes with one edit only
(`OneEditWithFaults`), for finding 1 of section 6: with two, an edit may be left
unsent. `AsksOnlyAboutOverlap` is checked in `sync_faults`, which has no such
constraint: the states with two edits and a closed tab are where a merge has no base.
No fair action is cut off by that constraint, since none of them edits, and
those that may fail may also succeed.

`CHECK_DEADLOCK FALSE` is set for `answers`, `project_store`, `tabs`, `chat` and
`deploy`, whose calls, requests and presses run out (that no calls of tabs block each other is the
invariant `SomeCallMoves`); a device can always reconcile, so ProjectSync is
checked for deadlock.

Fairness. In ProjectSync: autosave and debounce timers fire, the account
answers, a task goes on, and the user comes back to each device, which is what
starts a pass (load, focus, switch). `PushCurrent` is strongly fair because
passes that keep coming take the lock in turns with it: the lock queue is FIFO.
Nothing is assumed about lost requests, crashes or answers of the user. In
SyncLock: the lock manager grants and frees, awaiters resume, and every `fn`
ends, because requests made under the lock time out (`LOCKED_REQUEST_MS`). In
AgentLedger (`LedgerFairness`): the steps of a handler are weakly fair, those
that an abort causes included (a fetch throws, a wait for `drain` ends by
`close`); nothing is assumed of the upstream's events, of `drain`, of kills or of
midnight, and `HangUpSettles` exempts a turn that was killed. In Deploy
(`ComesBack`, of each press): what a run has under way comes back, because a request
is answered or fails and the terminal arrives, and what it is told is taken up;
nothing is assumed of the user or of the cluster, so `StopSettles` holds of a cluster
that takes no transaction at all. `Read` is not fair: a failed read is repeated, and
nothing makes a node answer one. `StopSettles` therefore has a second alternative, a
stopped run that waits for its read for ever, which the code allows (section 6). TabGate and the conversations are checked for safety only.

## 5. Proofs

TLAPS checks these for all values of the constants. `SyncLockNoOrphan`,
`SyncTypes`, `SyncPutHonest`, `StoredStays` and `ChatTypes` are proved only: no run
repeats them.

**SyncLockProofs**: `SyncLockExclusion` and `SyncLockNoOrphan`, from
`SyncLockAssumption` (calls are finitely many; the null values are not tabs or
calls). `Exclusion` is not inductive: that two callers inside are in one tab
depends on whose promise they awaited. The inductive invariant `IInv` says that
`holders` is the number of callers waiting or inside (`Counted`, which needs
cardinalities), that each of them awaits the request that its tab's `held`
names (`Relies`), that this request owns the lock once granted (`HeldRequest`),
and that queue, owner and `release` agree with it (`LockState`). Two callers
inside then rely on requests that both own the one lock.

**AgentLedgerProofs**: `LedgerTypes`, `LedgerCapHeld`, `LedgerHangUp`,
`LedgerTablesAgree`, `LedgerSettles` and `LedgerRefines`, from `LedgerAssumption`:
the requests are finitely many, caps, prices and sizes are natural
numbers, what is missing is not a number, and the newcomer's cap is not above the
established one. The last holds of the defaults (`server-env.mjs`), and nothing
in the code checks it of a deployment's own values; with it the cap of a user
never falls, which `CapHeld` needs. The inductive invariant `LedgerInv` adds
`TurnStages`: what a request's place in the handler says about its row (none
before `reserve`, the reservation while it is started, "unfinished" until
something better is known). `LedgerRefines` maps a user's day to an account whose
use is `spent + reserved` and a turn's row to a grant, and shows that every step
is a grant, a close or a stutter (`RefineStep`); the lemma `StepKinds` says once
which steps touch the tables.

`LedgerAgrees` compares a column with a sum over a set of turns. It is inductive
given the types and `TurnStages`; what it needs is arithmetic of sums: a sum over
a finite set depends only on the values in the set (`TotalSame`), and grows or
shrinks by one value when an element joins or leaves (`TotalJoins`,
`TotalLeaves`). The library's sum picks its elements by CHOOSE, so that the order
does not matter is itself an induction over the size of the set
(`SumAnyOrder`), written as a least counterexample (`BySize`). `reserve` then moves
one turn into the rows of its day, `settle` moves it from the started rows to the
ended ones of the same day, and no other step moves a row (`AgreesStep`).
`SettleStorable` follows: a turn that settles is one of the started rows, so its
reservation is part of the day's sum; and a count that is no count is not priced,
so its charge is an amount (`StorableFrom`). `HangUpSettles` is liveness and stays
with TLC.

**ProjectSyncProofs**: `SyncTypes`, `SyncHonest`, `SyncPutHonest`
and `SyncUploadIsWhole`, for any number of devices, paths,
regions, edits, crashes and faults, with failing stores and every `Starts`;
then `SyncStaysDeleted`, `SyncOnlyUsersDelete` and `SyncStandInStays`.
Assumed are `FilesAssumption` (generated paths are paths; "absent" is neither a
content nor a hash), `RowAssumption`, `MergeAssumption` and `SyncAssumption`
(the values of the constants make sense: edits are values, the first token
exists, there is a name for a first upload). SHA-256 is assumed collision-free:
`Sha256` is injective by definition.

That every mark is honest (`HonestMark`) is not inductive. A mark is written from the answer to a PUT
or from a row read earlier, so the strengthening `Honest` says that the row is
the revision its token names (`RowHonest`), that revisions are numbered without
gaps so that a new token is new (`RevsNumbered`), that a PUT in flight applied
to the revision it names gives the copy its task is sending (`HonestPut`), and
that an exchange that has read a row, or been answered, holds exactly one
revision (`HonestTask`). A patch is right because it was taken between the
mark's hashes and the copy's (lemmas about `DiffFiles`, `HashFiles` and
`FilesAfter`), and it lands on the mark's revision because the compare-and-swap
says so; hence the accepted revision is the whole copy. `SyncTutorial.cfg` checks
`Honest` with TLC as well.

The proof is one lemma per family of actions for types and one for honesty
(`UserHonest`, `NetHonest`, `AccountHonest`, `AnswerHonest`, `MergeHonest`,
`PassHonest`), joined in `NextHonest`.

`SyncStaysDeleted` and `SyncOnlyUsersDelete` are about projects that are not
tutorials (`Kind = "project"`): a tutorial is started again on its tombstone, so
the first does not apply to it, and the second fails for it (section 6).
`StaysDeleted` follows from what each step may do to the row (`RowStep`): a
tombstone takes no swap and no create. `OnlyUsersDelete` is not inductive: that
the DELETE a device sends after removing its own copy meets a tombstone depends
on what it was told, perhaps long before. The strengthening `Tombstone` says of
every place where a device keeps such news (the list a pass has read, the answer
to an upload, the open question, the delete event that `settleDeletes` raises)
that the row is still as told: deleted where it says deleted, and there where it
says conflict. It uses `Honest` for the marks: a device with a mark has seen a
revision, so an absent row cannot be taken for a deleted one. TLC checked
`Tombstone` on `SyncNames.cfg` before it was proved.

`SyncStandInStays` is about a browser in which no tab is closed and no write of a
workspace fails (`MaxCrashes = 0`, `StoreFails = FALSE`), and needs both: section 6
has the run that refutes it without each. All other bounds are open, those on lost
and late requests too. It assumes besides that a stand-in is no id and not empty
(`StandInAssumption`: `freeName` makes "<name> imported" of a name). That the row is
not under a stand-in depends on what was known long before, when the name was sent.
The strengthening `NamesOwn` says that no name which can still reach the account is
one (the mark's, a PUT's, a late PUT's, the row's and the list's as a task has read
them), and that a workspace under a stand-in is known to be (`StandInKnown`): by its
mark's `localName`, or, between the rename and the mark that records it, by the
`alias` of the task that gave the name. That gap is where a closed tab or a failed
write breaks it. A workspace that does not exist has no stand-in, and every step of
a task past its decision has a workspace (`Loose` names the others), so that a mark
which is dropped leaves none unknown. As for `Tombstone`, there is one lemma per
group of actions and one that other devices are left alone (`OthersNamed`). TLC
checked `NamesOwn` on `SyncNames.cfg` before it was proved.

**ProjectStoreProofs**: `StoreAccepted` and `StoreRefinesRow`, for any number of
requests, bodies, paths and timestamps, of a project that is not a tutorial (for
a tutorial both fail, section 6). Assumed is `StoreAssumption` (the null
transaction is none, the bodies are bodies) with those of Files and ProjectRow,
and, in the model itself, that two requests never have one timestamp.
`AcceptedExactly` is not inductive: it is decided at a commit, from a version of
the row that was read statements before. The strengthening `StoreInv` says that
`now()` of an open transaction is a token that no revision has (`Clocked`), that
the committed row is the revision of its token (`RowIsRevision`), that whoever
writes holds the row and a delete that does not hold it has found a tombstone
(`Holders`), and that what a held write was checked against is still there
(`Writes`): the row lands on its token, and an adopted row has no files. The
refinement is then step by step: `Commit`, the erasing of a live row and a chat
turn that makes the row are steps of `ProjectRow`; starts, waits, refusals,
rollbacks and a second delete are stutters.

**ChatStoreProofs**: `LockedErasedTheorem` and `AckedTheorem`, for any number of
pushes, deletes, conversations and messages, for projects and tutorials. The
strengthening `LockInv` says that a push past its first statement holds the
project's row for share or wrote it, that nobody shares it with a delete that
writes it and that it is live while shared (`Locked`), that such a delete has
found every live thread and every message there is (`Swept`), and that a push has
written its message before it commits (`Upserted`). All but the last hold while
no push has lost the race for the project's first row (`blind`), which is the
case that `ErasedStaysErased` fails in and `LockedStaysErased` leaves out (section 6,
also on what the code's comments say of it).

**TabGateProofs**: `TabGateMoves`, for any number of tabs and calls, any
scenario and any failures, from `TabGateAssumption`. That nobody waits in a circle is
true only because of who can hold what: `GateInv` says that a tab's gate is held
once by its pass and once by its running merge and by nobody else (`HoldsOK`),
that both are then past every wait for the gate (`Place`), that all but the first
of a queue of `_exclusive` are waiting for their turn and every merge is in the
queue of its tab (`LineOK`, `Queued`), that a reload asked for by a call is what
that call waits for (`LookOK`), and that all calls inside the lock are of one tab
(`OneTab`; the lock itself is SyncLock's theorem). From there: whoever waits for
its turn has a first of the queue that moves; whoever waits for the gate has a
holder that moves or is itself waiting for the lock; and the lock is free or a
call inside it moves (`GateMoves`). Every action is one of seven kinds of step
(a call begins, advances, goes on inside the lock, lines up, takes its turn,
leaves the queue, returns), with one lemma each.

**DeployProofs**: `StopTheorem`, for any presses, projects, networks, chunks and
retries; no assumption on the constants is used. `StopHolds` is not inductive: a
last transaction that is in flight lands later, whatever the signal says by then.
The strengthening `LockFirst` says that a run in its last steps has called
`lockStop`, that a locked run is not aborted (`Stop` passes it over, and `Loaded`
looks at the signal before it locks), and that a last transaction in flight or
landed is a locked run's. Most actions only move a call elsewhere
(`ElsewhereKeeps`); `Send`, `Load`, `Loaded`, `Stop` and `Land` have lemmas of
their own.

The same module proves `OneRunTheorem`, `DeployedTheorem`, `StoppedLineTheorem` and
`WholeBufferTheorem`, for the same constants. Two inductive invariants. `SwitchInv`
is about `deployState`, the segments of the write and the question they ask: a
segment sets the state only while its own run is writing, since the others are
over, do not listen, or find the state where they began (`SegmentsOK`), and a
load is done only with the whole program written (`LoadedWhole`). `ChainInv` is
about transactions and accounts: every transaction in flight belongs to a run
that has come that far (`SentOK`), a buffer is there, gone or still to come as
the run's place says (`BufferOK`), and the last line says what it may (`LineOK`).
Where a run took a step for done with no sign (`unseen`), its place says nothing of
the buffer, and these parts ask for less; what they still say is what the two
theorems need. Each invariant uses the other: the first that a read finds the buffer
on the run's own network, the second that the network is held until the buffer is
made. So they are proved together.

**ChatPanelProofs**: `QueueKeepsTyped`, `StoredStays`, `SwitchFollowed`,
`ScreenIsStored`, `FiledWhereItWasTyped` and `ChatTypes`, for any number of
workspaces, threads, messages, tasks and every budget, from `ChatPanelAssumption`.
Each of the properties is about where the pieces of one conversation are, while
three queues (the panel's writes, the reads that are out, the tasks) hold older
copies of it. The inductive invariant `ChatInv` has these parts:

* `PlaceInv`: whatever the index, a task or the account says of a thread, it is
  the thread of that workspace, and a thread that was just minted is nobody's
  yet. With it `FollowsSwitch` is inductive: every step that opens a thread opens
  one of the current workspace or of the one that the panel was last opened for
  (`openedFor`), which are the same once no event is due, or is `replaceDeleted`'s.
  Switches that cross, of which one event can stand down for the other's workspace,
  are left out (`crossed`, section 6).
* `PanelInv` (`PanelOK`): a write that is queued takes nothing from its file, since
  the panel's list only grows while the thread is open and a read comes back with
  what the file had (`QueueOK`); the load that is current reads after every queued
  step of its thread (`ReadsLast`) and holds the list on screen, or what is on
  screen beyond it is in `adrift` when the thread is left (`LoadsOK`, `Adrift`);
  and what is on screen is stored, or the last queued write of the thread brings it
  (`Stores`).
* `KeptInv`: a typed message is in memory, stored, or excused.
* `LeaveInv`: what a sign-out drops is on the account (`Droppable`), for every
  step between the hash and the drop.

The panel is one record and its methods are operators on it, so most of the
work is one lemma per operator (`PanelOK` is kept, and what was held before is held
after: `Retains`), and one per action that puts them together. `StoredStays` is
the action property behind `ScreenIsStored`: no step takes anything out of files
and account together but what it adds to `trampled` or `givenUp`.

`FiledWhereTyped` needs more than where a message is stored now: a copy of it in a
read, in the queue or in a task will be stored later. `Fits(m, P)` says, for one
message and a set of workspaces, that every copy of it is under a workspace in P,
or in a place from which it can go only there; a panel without a thread is a place
from which it can go anywhere, so P then has all workspaces (`Broad`). Every step
keeps `Fits(m, P)` for every such P, but for the one that types m, which brings P
into being; `FiledInv` takes P as no workspace before m is typed, and as the one
it was typed in after.

*Only model-checked*: everything about liveness and fairness, `StopSettles`,
`HangUpSettles`, `EveryCallAnswered` and `Converges`; `NoLostEdit`,
`AccountKeepsEdits`, `NoUploadLoop`, `TypedSomewhere` and `GuardedNeverReverts`,
whose strengthening would track every copy of every edit through merges;
`ShownOnce`, which would need, for every message, the one place that is still to
hand it to the screen; and `KeypairKept`, which would need that no revision of the
account ever loses a keypair an earlier one had.

## 6. Findings

Three runs each refute one property; `PROJECT.json` quotes the comment that the
property states.

1. `sync_flag_lost` — an edit saved while an upload is in flight is not flagged,
   since `flagged` is still true from the edit before, and the answer clears the
   mark's flag. It is sent by the next debounce; if that request fails, or the
   tab closes first, the next pass takes its cheap path and the edit stays on
   this device, unsent, until the next edit.
2. `tab_revert` — two uploads give no generation: `settleDivergence`'s, when it
   cannot read the row, and the banner's retry. If a push of the same tab merges
   between their snapshot and their send, the older snapshot is measured against
   the mark that the merge wrote, passes the swap, and takes the other device's
   line off the account. `GuardedNeverReverts` says that every other upload is
   safe from that.
3. `deploy_stop_lost` — a press that pauses a deploy which is already stopping
   types "yes" into no question; that fails as a command, the write is rejected,
   and the run fails without closing its buffer.

Other properties and constants show more. None of these has a run of its own;
each is found by changing the named cfg as said. Where a line names an invariant or
a property, the cfg's own are replaced by it.

| Change | Refuted | What happens |
|---|---|---|
| SyncFaults, module MCProjectSync with `Spec`, `MaxFaults = 0` | `NoLostEdit`, `AccountKeepsEdits` | a tab is closed after typing into a rewrite: an autosave of a buffer from before the rewrite lands after it; the tab closes before `_catchUp`; the mark already names the server's revision, so the next pass uploads the old buffer as a change to it |
| SyncTutorial, `Kind = "project"`, `StoreFails = FALSE`, `DuringRewrite = {"create"}`, invariant `NoLostEdit` | `NoLostEdit` | a file created after `_adopt` has read the workspace goes when `replaceWorkspaceFiles` (explorer.ts) clears the directory |
| SyncTutorial, `Kind = "project"`, invariant `NoLostEdit` | `NoLostEdit` | a rewrite that throws leaves a cleared directory under the old mark: files not yet written look deleted here, and the next pass uploads that |
| SyncConverges, `StoreFails = TRUE` | `KeypairKept` | the same takes the only copy of a keypair |
| SyncConverges, `Kind = "tutorial"`, `MaxChanges = 2` | `KeypairKept` | a merge with a tutorial that was started again removes the keypair here |
| SyncTutorial, property `OnlyUsersDelete` | `OnlyUsersDelete` | `settleDeletes` removes the workspace before the mark; the delete event then sends a second DELETE, which a tutorial started again in between does not survive |
| SyncNames, `Kind = "tutorial"` | `AccountKeepsEdits` | the same, with an edit on the restarted run |
| SyncNames, `MaxCrashes = 1` | `StandInStays` | a tab is closed between `importFresh`'s creation of the workspace under a stand-in name and its mark |
| SyncNames, `StoreFails = TRUE`, `Paths = {p, q}`, `MaxEdits = 2`, `Vals = {0, 1, 2}`, `MaxChanges = 1`, `Starts = {"synced"}` | `StandInStays` | a merge renames the workspace to a stand-in and the write of its files throws: the old mark stands, and the next merge takes the stand-in for the user's rename and uploads it |
| MCProjectStore, `Kind = "tutorial"` | `RowSpec` | a second delete of a tutorial erases the files of a restarted run and leaves its row live. With a fifth request `AcceptedExactly` fails too: a patch from the restarted run's revision is applied to the erased files |
| SyncNames, invariant `MarkNamesRevision` | `MarkNamesRevision` | `importFresh` pairs the list's name with the token of a row it reads later |
| MCProjectStore, property `RefusalNamesTombstone` | `RefusalNamesTombstone` | a swap that waited for a delete is refused without `reason: "deleted"`; the client reaches the right question by a merge |
| SyncConverges without its CONSTRAINT | `Converges` | finding 1, through a failed request |
| MCChat, invariant `ErasedStaysErased` | `ErasedStaysErased` | `ensureThread`'s insert-and-select answers from its snapshot: a push that waited for another push's insert of the project's row locks nothing, and leaves a live thread under a project deleted meanwhile. `LockedStaysErased` says that every push which does hold the row is safe. The comments of the function disagree: lines 100-103 of `conversations.mjs` say that the lock orders a push and a delete either way, the docstring (78-81) that it is "An ordering, not a lock: under READ COMMITTED a `deleteProject` committing between the two statements still leaves such a thread". The first is true of every push that finds the row or makes it, the second of one that waited for another's insert of it: the docstring is out of date for the former, the comment too wide for the latter |
| MCChat, invariant `OnWorkspace` | `OnWorkspace` | `replaceDeleted` computes `showing` before it waits for the write queue and the lock, and opens the dead thread's workspace after them although the user has switched. TLC finds a shorter way first, which every switch takes: the id moves at explorer.ts:662 and the event that closes the thread comes at 685, after the writes and reads in between, so for that long the panel shows, and a message goes to, the workspace that was left (the case that chat-thread.tsx:20-21 names). `FollowsSwitch` says that no more than this can happen: while an event is due the thread is of one of the two workspaces, and afterwards of the current one |
| MCChat, `MCBudgets = {B(0, 2, 0, 0, 0, 1, 0)}` (two switches, one sign-in), invariant `FollowsSwitch` without `~effect.crossed` | that invariant | two switches cross: from B to A the id moves, a sign-in's re-open opens A's thread, and the user is back on B before either event. Both events find B current and B the workspace that the effect last opened, and stand down: A's thread stays on screen on B until the next switch |
| MCChat, invariant `TypedKept` | `TypedKept` | `storeMerged`, `adoptAccountThread` and `forget` write or remove a thread's file outside the panel's queue, of what they read before (`trampled`) |
| MCChat, `MCBudgets = {B(1, 5, 0, 0, 0, 0, 0)}` (one message, five switches), invariant `typed \subseteq Held \cup panel.givenUp \cup trampled` | that is, `QueueKeeps` without `adrift` | the switches A, B, A, B, A leave a fold of A waiting for a read that is overtaken; it lands on the list that stands in for the newer read of A and puts another list in its place (`foldIn`, store.ts). What is typed then is in the new list only, while the read holds the old one (`gap`): leaving the thread before the read lands drops it, though `_keepOvertaken` is there "so it is not dropped". Met as the step that a proof without `adrift` could not take; with four switches TLC finds no such behaviour |
| MCChat, invariant `NeverTwice` | `NeverTwice` | a fold into the list that stands in for a thread while it is read shows messages again when the read lands |
| DeployStopLost, invariant `PauseHolds` | `PauseHolds` | only a segment of the write listens to `deployState`, and one that starts while it is "paused" takes that as where it began: a press that pauses a deploy before its write is not noticed, the deploy finishes while the state says paused, and the press meant to resume it pauses it. `stage.ts` says "A second click while a deploy is already running pauses it" |
| DeployStopLost, `Short = TRUE`, invariant `TypedKeepsAsking` | `TypedKeepsAsking` | the stage's answers are one static field: a deploy started elsewhere while a press of the stage is in its pre-checks reads them, and ends with the error of the stage's funding card instead of asking. `run.ts` says that a typed deploy "keeps asking in the terminal" |
| DeployStopLost, `Networks = {n1, n2}`, `InScenario` without its line about `Here`, invariant `NetworkHeld` | `NetworkHeld` | the network may change in the state "cancelled" (`network-hold.ts`), in which the run still has its buffer to close: the close goes to the other network |

TabGate's `undone` counts three more ways in which a line leaves the store: a
tab that has not heard of another tab's write autosaves its own text over it; a
merge whose row was read before, and whose mark after, an upload of the same tab
was accepted takes that upload's lines for removed by the other device; and a
fold writes over what another tab saved during the merge. `markDirty`, whose
queue is one tab's, can put back the mark from before another tab's upload; the
next push then misses and merges. Two uploads of one tab can also put an older
snapshot of the tab's own edits on the account until its next push.

Deploy shows more of the same kind, for which the repository states no rule, and
which the properties have to leave room for:

* `if (!txHash) return` (deploy.ts:730) ends a step as done when the RPC returns no
  hash, which `run.ts:19` names as a case ("undefined when the RPC returned none").
  A last transaction that was never sent is then a successful deployment, a close
  that was never sent a closed buffer, and a create without a buffer goes on to the
  write, whose read never succeeds. `DeployedIsThere` and `StoppedLine` exempt the
  step (`unseen`); without the exemption TLC refutes both.
* `getAccountInfo` of a node that is behind is null, as the write's own comment says
  (bpf-loader-upgradeable.ts:191-192). `checkConfirmation` of a close, a reclaim or a
  last transaction takes null for success (deploy.ts:415, 463, 530, 547), so one that
  failed is confirmed; `keptLamportsOn` takes the zero balance of such a node for a
  closed buffer. These are in `unseen` as well.
* `tryUntilSuccess` (utils/common.ts:104-121) is `while (1)` around the read of the
  buffer and knows no abort. A run that is stopped while the node's reads fail goes on
  until one succeeds, and for ever if none does; and a segment that was paused in its
  read goes on reading after the run has closed the buffer. `StopSettles` is about
  every other point of a run.

An
attempt whose confirmation throws is repeated without asking `checkConfirmation`:
a create that was sent twice can land again after the stop has closed the buffer
(`StoppedLine` allows for exactly that), a last transaction that landed can end in
"Exceeded maximum amount of retries", and a transfer from a connected wallet is
paid twice. `upgrade` reads `PgProgramInfo.pk` when it sends, so a project opened
during the write gets the other project's bytes. A `waitForInput` that is refused
leaves the listener of its segment behind, which answers "yes" to whatever is
asked next.

In the ledger a fetch that throws while the caller is present is charged nothing,
though the upstream may have taken the request; `ledger.mjs` says of such turns
"never undercharge them". `HangUpNotFree` is about callers who left.

## 7. Not modelled, and abstractions

* ProjectSync has one tab per device; several tabs are TabGate's, which in turn
  has one file without conflicts: no questions about content, no deletes, renames
  or imports, no `keep-as-new`, no closed tabs. A workspace is rewritten in one
  step there, autosave writes state and store in one step (the file system runs a
  tab's operations in the order of its calls), and the session's own hold on the
  gate is left to ProjectSync.
* Several projects: another workspace is its name (`other`); other rows of the
  account are the names in `Taken`.
* The answer with merged content (`content`, with its pins), and the question
  about a project that is too large.
* The `no-files` refusal: `PutHonest` shows that the client never sends the
  patch that causes it. ProjectStore has it.
* Renaming or deleting a workspace while an exchange of it runs; a rename that
  fails; marks of other accounts; marks written before per-file hashes.
* A crash inside `replaceWorkspaceFiles` (the failing write is modelled, on the
  first rewrite of an exchange; a close in the middle is not).
* Tokens of equal milliseconds: tokens are assumed unique.
* Leaving a workspace and opening it again in the same tab: that takes a new shadow
  too (project-sync.tsx:118), so a file with edits that no push has taken up loses its
  base as it does by a closed tab, which is modelled (`AsksOnlyAboutOverlap`).
* `merge3` itself: see Files.
* ChatPanel: a thread's list is a set of messages, so an order and an edit of a
  message are not seen; writes to storage succeed and reads may fail; `push` reads the file and posts it in one step;
  `pushAll` is one step per outcome; `pending` is left out, so the open thread may
  be flushed at any time; only the shared workspace has a thread to adopt at
  sign-in. Turns, approvals, tool calls and the length cap are not modelled, and a
  410 for the project is a refusal like any other.
* ChatStore: one account; the list and the read of threads, titles, other users'
  thread ids and the splitting into batches are left out.
* AgentLedger: requests refused before `reserve` change nothing; a stream is the
  usage it reports, as a charge: the columns of its token counts are left out.
* Deploy: the wallet does not change during a run; a build that the pre-checks
  start, the transfer and the extension are one step each; a rate limit is a write
  that is not sent; amounts, the estimate, the history and the stage's cards are
  left out.
* Everything listed as `not_modelled` in `PROJECT.json`, with the reasons there.

## 8. Plan

Done: SyncLock with proofs; ProjectRow and ProjectStore with the proof of their
refinement; Files and Merge; ProjectSync with the proofs of honesty and of
deletes; AgentLedger with the proofs of all its safety properties and of its
refinement of Allowance; ChatStore and ChatPanel with proofs; TabGate with the
proof that some call moves; Deploy with the proofs of its safety properties.

Next, in this order:

1. Proofs: the generations (`GuardedNeverReverts`) for TabGate; `NoUploadLoop`
   for ProjectSync; `ShownOnce` for ChatPanel.
2. *Merge3*: the line diff and the grouping of hunks, as recursive functions,
   checked against the region semantics that Merge assumes.
3. ProjectSync: content answers with pins, too-large, renames and deletes during
   an exchange; ProjectStore: a run without unique tokens; TabGate: renames and
   deletes in another tab, closed tabs.
4. *Session*: sign-out of projects and claims (`releaseLocalProjects`).
5. *Command* (nested runs, the other stoppable commands) and the flow stages.
