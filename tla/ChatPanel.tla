----------------------------- MODULE ChatPanel ------------------------------
(***************************************************************************)
(* The assistant's conversation in one tab: which thread the panel has     *)
(* open, what it holds in memory, the queue of its writes, the thread      *)
(* files, the thread index, and the exchange with the account.             *)
(*                                                                         *)
(*   views/sidebar/assistant/store.ts     PgAssistant's thread handling    *)
(*   effects/chat-thread/*.ts             opening, flushing, replacing     *)
(*   features/persistence/model/chat-sync.ts, thread-index.ts,             *)
(*   chat-storage.ts                      what they do to storage          *)
(*                                                                         *)
(* An action is the code between two awaits.  A thread's list is a set of  *)
(* messages: mergeThreads is the union (a later version of an item counts  *)
(* as a message of its own), and a message that a list would hold twice is *)
(* recorded in `doubled`.  Writes to storage succeed; a read may fail.     *)
(***************************************************************************)
EXTENDS Naturals, Sequences, FiniteSets, FiniteSetsExt

CONSTANTS
  Workspaces,
  MaxThreads,  \* thread ids, in the order in which they are minted
  Messages,    \* what the user and the turn add in this tab
  Theirs,      \* what another device has put on the account
  Shared,      \* the workspace that the other device has too
  TaskIds,     \* asynchronous calls that can be out at once
  Budgets,     \* how often each outside event happens, one record per scenario
  NoThread

Threads == 1 .. MaxThreads
Items == Messages \cup Theirs

ASSUME ChatPanelAssumption ==
  /\ MaxThreads \in Nat
  /\ NoThread \notin Threads
  /\ Messages \cap Theirs = {}
  /\ Shared \in Workspaces
  /\ "none" \notin Workspaces
  /\ MaxThreads >= 2
  /\ TaskIds \subseteq Nat
  /\ \A b \in Budgets : DOMAIN b = {"type", "switch", "push", "delete", "fail", "signIn", "signOut"}

VARIABLES
  current,  \* PgExplorer.currentWorkspaceId
  effect,   \* chatThread: openedFor; due: the switches that have moved the id and
            \*   whose event has not come; crossed: history: one of them began while
            \*   another was under way, and `open` has opened nothing since
  session,  \* in, ending (the teardown of a sign-out) or out
  warm,     \* the thread index has been read into memory
  index,    \* index[w]: the thread that the index names for workspace w
  madeFor,  \* madeFor[t]: the workspace thread t was made for; absent until minted
  files,    \* files[t]: the stored thread, {} when there is no file
  account,  \* account[t]: the thread on the server
  panel,    \* the private state of PgAssistant
  tasks,    \* tasks[i]: an asynchronous call that is out
  leave,    \* the sign-out that is under way
  typed,    \* messages added so far
  home,     \* history: home[m]: the workspace whose thread was open then
  trampled, \* history: messages that a write or a removal outside the queue
            \*   took from a file
  replaced, \* history: threads opened in place of a deleted one, and the ones
            \*   that the panel moves to from those
  budget    \* what is left of each outside event

indexVars == <<warm, index, madeFor>>
pastVars == <<typed, home, trampled, replaced>>
panelVars == <<current, effect, session, indexVars, files, account, panel, tasks, leave,
               pastVars, budget>>

None == "none"

-----------------------------------------------------------------------------
(***************************************************************************)
(* PgAssistant.  s is the value of `panel`:                                *)
(*   thread, items, writes   _threadId, _items, _writes                    *)
(*   seq, loading            _loadSeq, and the load that _loading is       *)
(*   loads                   the reads that are out                        *)
(*   queue                   the steps on the write queue                  *)
(*   doubled, standIn        history: shown twice; put by a fold, or by a  *)
(*                           move that was overtaken, into the list that   *)
(*                           stands in for a thread while it is read       *)
(*   givenUp                 history: dropped where the panel says so      *)
(*                           (unsaved) or where the code means to          *)
(*   adrift                  history: gone with a list that a fold had put *)
(*                           in the place of the one that a read holds     *)
(***************************************************************************)
Enqueue(s, step) == [s EXCEPT !.queue = Append(@, step)]

WriteOf(t, list) == [kind |-> "write", thread |-> t, to |-> NoThread, items |-> list]
KeepOf(t, list) == [kind |-> "keep", thread |-> t, to |-> NoThread, items |-> list]
DropOf(t, to) == [kind |-> "drop", thread |-> t, to |-> to, items |-> {}]

Persist(s) ==
  IF s.thread = NoThread \/ s.writes # "open" THEN s
  ELSE Enqueue(s, WriteOf(s.thread, s.items))

\* The load that is current holds `_items` by reference; once the list is
\* replaced, it keeps the old one
LetGo(s) ==
  {IF l.seq = s.seq /\ l.shares THEN [l EXCEPT !.shares = FALSE, !.kept = s.items] ELSE l :
     l \in s.loads}

\* What is typed after a fold has replaced the list of the load that is current
\* is in the new list only
Adrift(s) == UNION {s.items \ l.kept : l \in {c \in s.loads : c.seq = s.seq /\ ~c.shares}}

\* What is typed into a thread that could not be read goes when it is left
Unsaved(s) == IF s.writes = "unreadable" THEN s.items ELSE {}

\* Mutant of closeThread: the panel goes on rendering the thread it has left
closeThreadKeeping(s) ==
  IF s.thread = NoThread THEN s
  ELSE [s EXCEPT !.thread = NoThread, !.seq = @ + 1, !.writes = "open", !.loads = LetGo(s),
                 !.givenUp = @ \cup Unsaved(s), !.adrift = @ \cup Adrift(s)]

closeThread(s) ==
  IF s.thread = NoThread THEN s
  ELSE [s EXCEPT !.thread = NoThread, !.seq = @ + 1, !.writes = "open", !.items = {},
                 !.loads = LetGo(s), !.givenUp = @ \cup Unsaved(s),
                 !.adrift = @ \cup Adrift(s)]

\* How many steps of the queue are to end before thread t's have
Behind(s, t) == Max({0} \cup {n \in DOMAIN s.queue : s.queue[n].thread = t})

Read(t, seq, from, orphans, s) ==
  [thread |-> t, seq |-> seq, from |-> from, orphans |-> orphans, shares |-> TRUE,
   kept |-> {}, behind |-> Behind(s, t), stage |-> "queue", ok |-> TRUE, got |-> {}]

\* _load, up to its first await
load(s, t) ==
  LET orphans == IF s.thread = NoThread THEN s.items ELSE {} IN
  [s EXCEPT !.thread = t, !.seq = @ + 1, !.items = {}, !.writes = "reading",
            !.loading = s.seq + 1,
            !.loads = LetGo(s) \cup {Read(t, s.seq + 1, NoThread, orphans, s)},
            !.givenUp = @ \cup Unsaved(s), !.adrift = @ \cup Adrift(s)]

\* repointThread, once the thread open now has been read
repoint(s, to) ==
  [s EXCEPT !.thread = to, !.seq = @ + 1, !.writes = "reading", !.loading = s.seq + 1,
            !.loads = LetGo(s) \cup {Read(to, s.seq + 1, s.thread, {}, s)}]

\* loadThread: a call for the thread that is open only waits for its read
Settled(s, t) ==
  IF \E l \in s.loads : l.seq = s.loading /\ l.thread = t THEN s.loading ELSE 0
loadThread(s, t) == IF s.thread = t THEN s ELSE load(s, t)
LoadWait(s, t) == IF s.thread = t THEN Settled(s, t) ELSE s.seq + 1

\* The promise of load number n has been resolved
Ended(s, n) == \A l \in s.loads : l.seq # n

\* Mutant of keepOvertaken: what was typed during the read goes with it
keepOvertakenNot(s, t, unwritten) == s

keepOvertaken(s, t, unwritten) ==
  IF unwritten = {} THEN s
  ELSE IF s.thread = t THEN Persist([s EXCEPT !.items = @ \cup unwritten])
  ELSE Enqueue(s, KeepOf(t, unwritten))

Finished(s, l) ==
  [s EXCEPT !.loads = @ \ {l}, !.loading = IF @ = l.seq THEN 0 ELSE @]

\* Mutant of Overtaken: told by the thread, not by the load
OvertakenByThread(s, l) == s.thread # l.thread

Overtaken(s, l) == s.seq # l.seq

\* Mutant of PersistAdopted: what the thread adopted is only shown
PersistAdoptedNot(s, adopted) == s

PersistAdopted(s, adopted) == IF adopted = {} THEN s ELSE Persist(s)

StandIn(s, t, list) == IF s.thread = t /\ s.writes = "reading" THEN list ELSE {}

\* _load, after its read
landLoad(s, l) ==
  LET done == Finished(s, l)
      adopted == l.orphans \cup s.items
      read == [done EXCEPT !.items = l.got \cup adopted,
                           !.writes = IF l.ok THEN "open" ELSE "unreadable",
                           !.doubled = @ \cup (l.got \cap adopted) \cup (l.orphans \cap s.items)]
  IN  IF Overtaken(s, l) THEN keepOvertaken(done, l.thread, l.orphans \cup l.kept)
      ELSE PersistAdopted(read, adopted)

\* _repoint, after its read; _dropMoved
landRepoint(s, l) ==
  LET done == Finished(s, l)
      live == IF l.shares THEN s.items ELSE l.kept
      moved == Persist([done EXCEPT !.items = l.got \cup live, !.adrift = @ \cup Adrift(s),
                                    !.writes = IF l.ok THEN "open" ELSE "unreadable"])
  IN  IF Overtaken(s, l)
      THEN keepOvertaken([done EXCEPT !.standIn = @ \cup StandIn(s, l.thread, l.kept)],
                         l.thread, l.kept)
      ELSE IF l.ok THEN Enqueue(moved, DropOf(l.from, l.thread))
      ELSE moved

\* foldIn, once the thread's read has landed; the list is a new one
foldIn(s, list) ==
  IF list \subseteq s.items THEN s
  ELSE Persist([s EXCEPT !.items = @ \cup list, !.loads = LetGo(s),
                         !.standIn = @ \cup StandIn(s, s.thread, list)])

-----------------------------------------------------------------------------
Gone == [state |-> None, items |-> {}]
Closed == [state |-> "deleted", items |-> {}]

NoTask == [pc |-> "free", ws |-> Shared, thread |-> NoThread, wait |-> 0, behind |-> 0,
           got |-> {}, read |-> {}, local |-> NoThread, remote |-> NoThread, after |-> None]

Staying == [pc |-> "no", behind |-> 0, hash |-> <<>>, handed |-> {}, drops |-> {}, all |-> FALSE]

\* Thread 1 is the one that the account may hold for the shared workspace;
\* thread 2 one that this device made for it while signed out
ChatPanelInit ==
  /\ current \in Workspaces
  /\ effect = [openedFor |-> current, due |-> 0, crossed |-> FALSE]
  /\ budget \in Budgets
  /\ session = IF budget.signIn > 0 THEN "out" ELSE "in"
  /\ warm = FALSE
  /\ \E t \in {NoThread, 1, 2} : index = [w \in Workspaces |-> IF w = Shared THEN t ELSE NoThread]
  /\ madeFor = [t \in Threads |-> IF t \in {1, 2} THEN Shared ELSE None]
  /\ account \in [Threads -> {Gone, [state |-> "live", items |-> Theirs]}]
  /\ \A t \in Threads : account[t] # Gone => t = 1
  /\ files = [t \in Threads |-> IF t = index[Shared] THEN account[t].items ELSE {}]
  /\ panel = [thread |-> NoThread, items |-> {}, writes |-> "open", seq |-> 0, loading |-> 0,
              loads |-> {}, queue |-> <<>>, doubled |-> {}, standIn |-> {}, givenUp |-> {},
              adrift |-> {}]
  /\ tasks = [i \in TaskIds |->
                IF i = 1 THEN [NoTask EXCEPT !.pc = "index", !.ws = current, !.after = "switch"]
                ELSE NoTask]
  /\ leave = Staying
  /\ typed = {}
  /\ home = [m \in Messages |-> None]
  /\ trampled = {}
  /\ replaced = {}

Spend(event) == budget[event] > 0 /\ budget' = [budget EXCEPT ![event] = @ - 1]

IsFree(i) == tasks[i].pc = "free" /\ \A j \in TaskIds : tasks[j].pc = "free" => i <= j
Become(i, task) == tasks' = [tasks EXCEPT ![i] = task]
End(i) == Become(i, NoTask)
At(i, pc) == tasks[i].pc = pc

\* _ready
Ready == session = "in"

-----------------------------------------------------------------------------
\* What the user and the turn do: addUserMessage and the other mutators
AddMessage(m) ==
  /\ m \notin typed
  /\ Spend("type")
  /\ typed' = typed \cup {m}
  /\ panel' = Persist([panel EXCEPT !.items = @ \cup {m}])
  /\ home' = [home EXCEPT ![m] = IF panel.thread = NoThread THEN None ELSE madeFor[panel.thread]]
  /\ UNCHANGED <<current, effect, session, indexVars, files, account, tasks, leave, trampled, replaced>>

\* PgThreadIndex._mint
Minted(w) ==
  IF index[w] # NoThread THEN index[w]
  ELSE Min({t \in Threads : madeFor[t] = None} \cup {MaxThreads})
Mint(w) ==
  /\ index[w] = NoThread => madeFor[MaxThreads] = None
  /\ index' = [index EXCEPT ![w] = Minted(w)]
  /\ madeFor' = [madeFor EXCEPT ![Minted(w)] = w]

\* openThread, up to its first await, on the panel as s has it
OpenThread(i, w, t, s) ==
  /\ panel' = loadThread(s, t)
  /\ Become(i, [NoTask EXCEPT !.pc = "fetch", !.ws = w, !.thread = t, !.wait = LoadWait(s, t)])

PushTask(t) == [NoTask EXCEPT !.pc = "persist", !.thread = t, !.behind = Len(panel.queue)]

\* open of chat-thread.tsx
Open(i, w) ==
  IF warm
  THEN Mint(w) /\ OpenThread(i, w, Minted(w), closeThread(panel)) /\ UNCHANGED warm
  ELSE /\ panel' = closeThread(panel)
       /\ Become(i, [NoTask EXCEPT !.pc = "index", !.ws = w, !.after = "switch"])
       /\ UNCHANGED indexVars

\* PgExplorer.switchWorkspace, up to the id.  The files of the workspace are read
\* before its event fires, and nothing waits for the end of another switch.  A
\* switch that fails in between is one whose event never comes.
SwitchWorkspace(w) ==
  /\ w # current
  /\ Spend("switch")
  /\ current' = w
  /\ effect' = [effect EXCEPT !.due = @ + 1, !.crossed = @ \/ effect.due > 0]
  /\ UNCHANGED <<session, indexVars, files, account, panel, tasks, leave, pastVars>>

\* onDidSwitchWorkspace.  The flush of the outgoing thread is FlushOpen, which
\* may come right before
DidSwitchWorkspace ==
  LET opened == effect.openedFor = current IN
  /\ effect.due > 0
  /\ effect' = [openedFor |-> current, due |-> effect.due - 1,
                crossed |-> effect.crossed /\ (opened \/ effect.due > 1)]
  /\ IF opened THEN UNCHANGED <<indexVars, panel, tasks>>
     ELSE \E i \in TaskIds : IsFree(i) /\ Open(i, current)
  /\ UNCHANGED <<current, session, files, account, leave, pastVars, budget>>

\* flush, and the push at the end of a turn
FlushOpen ==
  /\ panel.thread # NoThread
  /\ Spend("push")
  /\ \E i \in TaskIds : IsFree(i) /\ Become(i, PushTask(panel.thread))
  /\ UNCHANGED <<current, effect, session, indexVars, files, account, panel, leave, pastVars>>

-----------------------------------------------------------------------------
\* The reads and the queue of the store
BeginRead(l) ==
  /\ l.stage = "queue" /\ l.behind = 0
  /\ \/ /\ panel' = [panel EXCEPT !.loads = (@ \ {l}) \cup
                       {[l EXCEPT !.stage = "read", !.got = files[l.thread]]}]
        /\ UNCHANGED budget
     \/ /\ Spend("fail")
        /\ panel' = [panel EXCEPT !.loads = (@ \ {l}) \cup
                       {[l EXCEPT !.stage = "read", !.ok = FALSE]}]
  /\ UNCHANGED <<current, effect, session, indexVars, files, account, tasks, leave, pastVars>>

\* repointThread answers the openThread that waits for it
Moved(l) ==
  [i \in TaskIds |->
     IF ~(At(i, "moving") /\ tasks[i].wait = l.seq) THEN tasks[i]
     ELSE IF Overtaken(panel, l) THEN NoTask
     ELSE [tasks[i] EXCEPT !.pc = "fetch", !.thread = tasks[i].remote]]

Land(l) ==
  /\ l.stage = "read"
  /\ panel' = IF l.from = NoThread THEN landLoad(panel, l) ELSE landRepoint(panel, l)
  /\ tasks' = Moved(l)
  /\ UNCHANGED <<current, effect, session, indexVars, files, account, leave, pastVars, budget>>

Less(n) == IF n = 0 THEN 0 ELSE n - 1

\* What a step of the queue leaves of the files; a failed read leaves them alone
AfterStep(step) ==
  CASE step.kind = "write" -> [files EXCEPT ![step.thread] = step.items]
    [] step.kind = "keep" -> [files EXCEPT ![step.thread] = @ \cup step.items]
    [] step.kind = "drop" /\ files[step.thread] \subseteq files[step.to] ->
         [files EXCEPT ![step.thread] = {}]
    [] OTHER -> files

RunQueue ==
  /\ panel.queue # <<>>
  /\ LET step == Head(panel.queue)
         popped == [panel EXCEPT !.queue = Tail(@),
                                 !.loads = {[l EXCEPT !.behind = Less(@)] : l \in @}]
     IN  \/ files' = AfterStep(step) /\ panel' = popped /\ UNCHANGED budget
         \/ /\ step.kind # "write" /\ Spend("fail")
            /\ panel' = [popped EXCEPT !.givenUp = @ \cup step.items]
            /\ UNCHANGED files
  /\ tasks' = [i \in TaskIds |-> [tasks[i] EXCEPT !.behind = Less(@)]]
  /\ leave' = [leave EXCEPT !.behind = Less(@)]
  /\ UNCHANGED <<current, effect, session, indexVars, account, pastVars>>

-----------------------------------------------------------------------------
\* openThread and settleInto.

\* Mutant of SwitchedAway: the workspace is not asked for again
SwitchedAwayNot(t) == FALSE

\* `open`, after the index has been read, asks again for the workspace;
\* replaceDeleted does not
SwitchedAway(t) == t.after = "switch" /\ current # t.ws

EnsureThread(i) ==
  LET t == tasks[i] IN
  /\ At(i, "index")
  /\ warm' = TRUE
  /\ \/ /\ SwitchedAway(t)
        /\ End(i)
        /\ UNCHANGED <<index, madeFor, panel, replaced>>
     \/ /\ ~SwitchedAway(t)
        /\ Mint(t.ws)
        /\ OpenThread(i, t.ws, Minted(t.ws), panel)
        /\ replaced' = IF t.after = "replace" THEN replaced \cup {Minted(t.ws)} ELSE replaced
  /\ UNCHANGED <<current, effect, session, files, account, leave, typed, home, trampled, budget>>

\* loadThread's promise, then fetchThread
FetchThread(i) ==
  LET t == tasks[i] row == account[t.thread] IN
  /\ At(i, "fetch") /\ Ended(panel, t.wait)
  /\ \/ /\ Ready /\ row.state = "live"
        /\ Become(i, [t EXCEPT !.pc = "fold", !.got = row.items, !.wait = Settled(panel, t.thread)])
        /\ UNCHANGED budget
     \/ /\ Ready /\ row.state # "live" /\ t.remote = NoThread
        /\ Become(i, [t EXCEPT !.pc = "list", !.local = index[t.ws]])
        /\ UNCHANGED budget
     \/ /\ ~Ready \/ (row.state # "live" /\ t.remote # NoThread)
        /\ End(i) /\ UNCHANGED budget
     \/ Spend("fail") /\ End(i)
  /\ UNCHANGED <<current, effect, session, indexVars, files, account, panel, leave, pastVars>>

\* The three times settleInto asks whether the thread is open
FoldIn(i) ==
  LET t == tasks[i] IN
  /\ t.pc \in {"fold", "foldAgain", "foldLast"} /\ Ended(panel, t.wait)
  /\ \/ /\ panel.thread = t.thread
        /\ panel' = foldIn(panel, t.got)
        /\ End(i)
     \/ /\ panel.thread # t.thread
        /\ CASE t.pc = "fold" ->
                  Become(i, [t EXCEPT !.pc = "settle", !.behind = Len(panel.queue)])
             [] t.pc = "foldAgain" -> Become(i, [t EXCEPT !.pc = "storeRead"])
             [] OTHER -> End(i)
        /\ UNCHANGED panel
  /\ UNCHANGED <<current, effect, session, indexVars, files, account, leave, pastVars, budget>>

Persisted(i) ==
  /\ At(i, "settle") /\ tasks[i].behind = 0
  /\ Become(i, [tasks[i] EXCEPT !.pc = "foldAgain", !.wait = Settled(panel, tasks[i].thread)])
  /\ UNCHANGED <<current, effect, session, indexVars, files, account, panel, leave, pastVars, budget>>

\* storeMerged: its read, and its write
StoreRead(i) ==
  LET t == tasks[i] IN
  /\ At(i, "storeRead")
  /\ \/ Become(i, [t EXCEPT !.pc = "storeWrite", !.read = files[t.thread]]) /\ UNCHANGED budget
     \/ /\ Spend("fail")
        /\ Become(i, [t EXCEPT !.pc = "foldLast", !.wait = Settled(panel, t.thread)])
  /\ UNCHANGED <<current, effect, session, indexVars, files, account, panel, leave, pastVars>>

\* A write outside the queue, of what was read before.  It takes what has come
\* since from the file, and the panel's writes may take what it brings: the ones
\* that are queued all of it, the next one what the panel does not show
InUse(t) == panel.thread = t \/ Behind(panel, t) > 0
Shown(t) ==
  IF panel.thread = t /\ panel.writes = "open" /\ Behind(panel, t) = 0 THEN panel.items ELSE {}

Overwrite(t, list) ==
  /\ files' = [files EXCEPT ![t] = list]
  /\ trampled' = trampled \cup (files[t] \ list)
                          \cup (IF InUse(t) THEN list \ Shown(t) ELSE {})

StoreWrite(i) ==
  LET t == tasks[i] IN
  /\ At(i, "storeWrite")
  /\ Overwrite(t.thread, t.got \cup t.read)
  /\ Become(i, [t EXCEPT !.pc = "foldLast", !.wait = Settled(panel, t.thread)])
  /\ UNCHANGED <<current, effect, session, indexVars, account, panel, leave, typed, home, replaced, budget>>

-----------------------------------------------------------------------------
\* adoptAccountThread, for openThread and (after = "signIn") for a sign-in
Adopted(i, t) ==
  Become(i, IF t.after = "signIn" THEN [NoTask EXCEPT !.pc = "dump"]
            ELSE [t EXCEPT !.pc = "repoint", !.wait = Settled(panel, t.thread)])
NotAdopted(i) ==
  Become(i, IF tasks[i].after = "signIn" THEN [NoTask EXCEPT !.pc = "dump"] ELSE NoTask)

ListThreads(i) ==
  LET t == tasks[i]
      listed == {c \in Threads : madeFor[c] = t.ws /\ account[c].state = "live"}
  IN
  /\ At(i, "list")
  /\ \/ /\ Ready /\ t.local \notin listed
        /\ \E c \in listed :
             Become(i, [t EXCEPT !.pc = IF t.local = NoThread THEN "setIndex" ELSE "readLocal",
                                 !.remote = c])
        /\ UNCHANGED budget
     \/ (~Ready \/ listed = {} \/ t.local \in listed) /\ NotAdopted(i) /\ UNCHANGED budget
     \/ Spend("fail") /\ NotAdopted(i)
  /\ UNCHANGED <<current, effect, session, indexVars, files, account, panel, leave, pastVars>>

ReadLocal(i) ==
  LET t == tasks[i] IN
  /\ At(i, "readLocal")
  /\ \/ /\ Become(i, [t EXCEPT !.pc = IF files[t.local] = {} THEN "setIndex" ELSE "readRemote",
                              !.read = files[t.local]])
        /\ UNCHANGED budget
     \/ Spend("fail") /\ NotAdopted(i)
  /\ UNCHANGED <<current, effect, session, indexVars, files, account, panel, leave, pastVars>>

ReadRemote(i) ==
  LET t == tasks[i] IN
  /\ At(i, "readRemote")
  /\ \/ Become(i, [t EXCEPT !.pc = "writeRemote", !.got = files[t.remote]]) /\ UNCHANGED budget
     \/ Spend("fail") /\ NotAdopted(i)
  /\ UNCHANGED <<current, effect, session, indexVars, files, account, panel, leave, pastVars>>

WriteRemote(i) ==
  LET t == tasks[i] IN
  /\ At(i, "writeRemote")
  /\ Overwrite(t.remote, t.got \cup t.read)
  /\ Become(i, [t EXCEPT !.pc = "setIndex"])
  /\ UNCHANGED <<current, effect, session, indexVars, account, panel, leave, typed, home, replaced, budget>>

SetIndex(i) ==
  LET t == tasks[i] IN
  /\ At(i, "setIndex")
  /\ index' = [index EXCEPT ![t.ws] = t.remote]
  /\ IF t.local = NoThread THEN Adopted(i, t) ELSE Become(i, [t EXCEPT !.pc = "removeLocal"])
  /\ UNCHANGED <<current, effect, session, warm, madeFor, files, account, panel, leave, pastVars, budget>>

RemoveLocal(i) ==
  LET t == tasks[i] IN
  /\ At(i, "removeLocal")
  /\ files' = [files EXCEPT ![t.local] = {}]
  /\ trampled' = trampled \cup (files[t.local] \ files[t.remote])
  /\ Adopted(i, t)
  /\ UNCHANGED <<current, effect, session, indexVars, account, panel, leave, typed, home, replaced, budget>>

\* repointThread, after the wait for the read of the thread that is open
RepointThread(i) ==
  LET t == tasks[i] IN
  /\ At(i, "repoint") /\ Ended(panel, t.wait)
  /\ \/ panel.thread # t.thread /\ End(i) /\ UNCHANGED <<panel, replaced>>
     \/ /\ panel.thread = t.thread
        /\ panel' = repoint(panel, t.remote)
        /\ Become(i, [t EXCEPT !.pc = "moving", !.wait = panel.seq + 1])
        /\ replaced' = IF t.thread \in replaced THEN replaced \cup {t.remote} ELSE replaced
  /\ UNCHANGED <<current, effect, session, indexVars, files, account, leave, typed, home, trampled, budget>>

-----------------------------------------------------------------------------
\* pushThread: whenPersisted, then push; replaceDeleted, up to its first wait
WorkspaceOf(t) == {w \in Workspaces : index[w] = t}

Stored(t) == account' = [account EXCEPT ![t] = [state |-> "live", items |-> @.items \cup files[t]]]

PushThread(i) ==
  LET t == tasks[i].thread IN
  /\ At(i, "persist") /\ tasks[i].behind = 0
  /\ \/ /\ ~Ready \/ files[t] = {} \/ WorkspaceOf(t) = {}
        /\ End(i) /\ UNCHANGED <<account, panel, budget>>
     \/ Spend("fail") /\ End(i) /\ UNCHANGED <<account, panel>>
     \/ /\ Ready /\ files[t] # {} /\ WorkspaceOf(t) # {} /\ account[t].state # "deleted"
        /\ Stored(t)
        /\ End(i) /\ UNCHANGED <<panel, budget>>
     \/ /\ Ready /\ files[t] # {} /\ account[t].state = "deleted"
        /\ \E w \in WorkspaceOf(t) :
             LET showing == panel.thread = t /\ current = w IN
             /\ panel' = IF showing THEN closeThread(panel) ELSE panel
             /\ Become(i, [NoTask EXCEPT !.pc = "forgetFile", !.ws = w,
                                       !.behind = Len(panel.queue),
                                       !.after = IF showing THEN "replace" ELSE None])
        /\ UNCHANGED <<account, budget>>
  /\ UNCHANGED <<current, effect, session, indexVars, files, leave, pastVars>>

\* PgThreadIndex.forget: the file of the thread that the index names by then
Forgotten(i) ==
  IF tasks[i].after = "replace" THEN Become(i, [tasks[i] EXCEPT !.pc = "index"]) ELSE End(i)

ForgetFile(i) ==
  LET c == index[tasks[i].ws] IN
  /\ At(i, "forgetFile") /\ tasks[i].behind = 0
  /\ \/ /\ c = NoThread
        /\ Forgotten(i)
        /\ UNCHANGED <<files, panel, trampled>>
     \/ /\ c # NoThread
        /\ files' = [files EXCEPT ![c] = {}]
        /\ panel' = IF account[c] = Closed THEN [panel EXCEPT !.givenUp = @ \cup files[c]] ELSE panel
        /\ trampled' = IF account[c] = Closed THEN trampled ELSE trampled \cup files[c]
        /\ Become(i, [tasks[i] EXCEPT !.pc = "forgetEntry"])
  /\ UNCHANGED <<current, effect, session, indexVars, account, leave, typed, home, replaced, budget>>

ForgetEntry(i) ==
  /\ At(i, "forgetEntry")
  /\ index' = [index EXCEPT ![tasks[i].ws] = NoThread]
  /\ Forgotten(i)
  /\ UNCHANGED <<current, effect, session, warm, madeFor, files, account, panel, leave, pastVars, budget>>

\* Another device starts the tutorial again: its thread is closed, and the new
\* run may have one of its own
DeletedElsewhere(t) ==
  /\ account[t].state = "live"
  /\ Spend("delete")
  /\ \/ /\ account' = [account EXCEPT ![t] = Closed]
        /\ UNCHANGED madeFor
     \/ \E c \in Threads :
          /\ madeFor[c] = None /\ \A d \in Threads : madeFor[d] = None => c <= d
          /\ madeFor' = [madeFor EXCEPT ![c] = madeFor[t]]
          /\ account' = [account EXCEPT ![t] = Closed, ![c] = [state |-> "live", items |-> Theirs]]
  /\ panel' = [panel EXCEPT !.givenUp = @ \cup account[t].items]
  /\ UNCHANGED <<current, effect, session, warm, index, files, tasks, leave, pastVars>>

-----------------------------------------------------------------------------
\* A sign-in (adopt of session.tsx): adoptAccountThreads, of which only the
\* shared workspace's can find a thread; pushAll; and openThread of the thread
\* that the index names by then
SignIn ==
  /\ session = "out"
  /\ Spend("signIn")
  /\ session' = "in"
  /\ warm' = TRUE
  /\ \E i \in TaskIds :
       /\ IsFree(i)
       /\ Become(i, [NoTask EXCEPT !.pc = IF index[Shared] = NoThread THEN "dump" ELSE "list",
                                 !.local = index[Shared], !.after = "signIn"])
  /\ UNCHANGED <<current, effect, index, madeFor, files, account, panel, leave, pastVars>>

\* pushAll: thread t's outcome lets this device drop it
Indexed == {index[w] : w \in Workspaces} \ {NoThread}
Local == Indexed \cup {t \in Threads : files[t] # {}}
Takes(t) == t \in Indexed /\ files[t] # {} /\ account[t] # Closed
HandedOver(t) == files[t] = {} \/ t \in Indexed

Pushed(refused) ==
  account' = [t \in Threads |->
                IF Takes(t) /\ t \notin refused
                THEN [state |-> "live", items |-> account[t].items \cup files[t]]
                ELSE account[t]]

Dump(i) ==
  /\ At(i, "dump")
  /\ \/ Ready /\ Pushed({}) /\ UNCHANGED budget
     \/ ~Ready /\ UNCHANGED <<account, budget>>
     \/ Spend("fail") /\ \E t \in Local : Pushed({t})
  /\ Become(i, [NoTask EXCEPT !.pc = "reopen"])
  /\ UNCHANGED <<current, effect, session, indexVars, files, panel, leave, pastVars>>

Reopen(i) ==
  /\ At(i, "reopen")
  /\ IF panel.thread # NoThread /\ index[current] # NoThread
     THEN OpenThread(i, current, index[current], panel)
     ELSE End(i) /\ UNCHANGED panel
  /\ UNCHANGED <<current, effect, session, indexVars, files, account, leave, pastVars, budget>>

-----------------------------------------------------------------------------
\* A sign-out (relinquish): pushAll hashes what it pushes
SignOut ==
  /\ session = "in" /\ leave.pc = "no"
  /\ Spend("signOut")
  /\ leave' = [leave EXCEPT !.pc = "pushAll", !.hash = files]
  /\ UNCHANGED <<current, effect, session, indexVars, files, account, panel, tasks, pastVars>>

\* The push reads the files again: what has left one since the hash is not
\* handed over
HandOver ==
  /\ leave.pc = "pushAll"
  /\ \/ /\ Pushed({})
        /\ leave' = [leave EXCEPT !.pc = "request", !.handed = {t \in Local : HandedOver(t)},
                                  !.all = \A t \in Local : HandedOver(t)]
        /\ UNCHANGED budget
     \/ /\ Spend("fail")
        /\ \E t \in Local :
             /\ Pushed({t})
             /\ leave' = [leave EXCEPT !.pc = "request",
                                       !.handed = {c \in Local \ {t} : HandedOver(c)}]
  /\ trampled' = trampled \cup UNION {leave.hash[t] \ files[t] : t \in Threads}
  /\ UNCHANGED <<current, effect, session, indexVars, files, panel, tasks, typed, home, replaced>>

\* What relinquish does once the session is over: stopTurn, closeThread, clear
teardown(p) ==
  LET closed == closeThread(p) IN
  [closed EXCEPT !.items = {}, !.givenUp = @ \cup closed.items]

\* The request, and the teardown when it ended the session
EndSession ==
  /\ leave.pc = "request"
  /\ \/ /\ Spend("fail")
        /\ leave' = Staying
        /\ UNCHANGED <<session, panel>>
     \/ /\ session' = "ending"
        /\ panel' = teardown(panel)
        /\ leave' = [leave EXCEPT !.pc = "check", !.behind = Len(panel.queue)]
        /\ UNCHANGED budget
  /\ UNCHANGED <<current, effect, indexVars, files, account, tasks, pastVars>>

Unchanged == {t \in leave.handed : files[t] = leave.hash[t]}

\* forget of chat-sync.ts
CheckUnchanged ==
  /\ leave.pc = "check" /\ leave.behind = 0
  /\ leave' = [leave EXCEPT !.pc = "forget", !.drops = Unchanged, !.hash = files,
                            !.all = leave.all /\ Unchanged = leave.handed
                                    /\ \A t \in Threads : files[t] # {} => t \in Unchanged]
  /\ UNCHANGED <<current, effect, session, indexVars, files, account, panel, tasks, pastVars, budget>>

ForgetThreads ==
  LET drops == IF leave.all THEN Threads ELSE leave.drops IN
  /\ leave.pc = "forget"
  /\ files' = [t \in Threads |-> IF t \in drops THEN {} ELSE files[t]]
  /\ trampled' = trampled \cup UNION {files[t] \ leave.hash[t] : t \in drops}
  /\ panel' = [panel EXCEPT !.givenUp =
                 @ \cup UNION {files[t] : t \in {c \in drops : account[c] = Closed}}]
  /\ index' = IF leave.all THEN [w \in Workspaces |-> NoThread] ELSE index
  /\ warm' = (warm /\ ~leave.all)
  /\ leave' = [leave EXCEPT !.pc = "close"]
  /\ UNCHANGED <<current, effect, session, madeFor, account, tasks, typed, home, replaced, budget>>

\* The thread is closed again, the user is cleared, and the chat effect opens
\* the workspace's
SignedOut ==
  /\ leave.pc = "close"
  /\ session' = "out"
  /\ effect' = [effect EXCEPT !.openedFor = current]
  /\ \E i \in TaskIds : IsFree(i) /\ Open(i, current)
  /\ leave' = Staying
  /\ UNCHANGED <<current, files, account, pastVars, budget>>

\* A continuation whose promise is resolved runs before the next event
Resumes(i) ==
  \/ tasks[i].pc \in {"fold", "foldAgain", "foldLast", "repoint"} /\ Ended(panel, tasks[i].wait)
  \/ At(i, "settle") /\ tasks[i].behind = 0
  \/ At(i, "index") /\ warm
Continue(i) == EnsureThread(i) \/ FoldIn(i) \/ Persisted(i) \/ RepointThread(i)

\* An event of the page, an answer, or storage
Event ==
  \/ \E m \in Messages : AddMessage(m)
  \/ \E w \in Workspaces : SwitchWorkspace(w)
  \/ DidSwitchWorkspace
  \/ FlushOpen
  \/ \E l \in panel.loads : BeginRead(l) \/ Land(l)
  \/ RunQueue
  \/ \E i \in TaskIds :
       \/ EnsureThread(i) \/ FetchThread(i)
       \/ StoreRead(i) \/ StoreWrite(i)
       \/ ListThreads(i) \/ ReadLocal(i) \/ ReadRemote(i) \/ WriteRemote(i)
       \/ SetIndex(i) \/ RemoveLocal(i)
       \/ PushThread(i) \/ ForgetFile(i) \/ ForgetEntry(i)
       \/ Dump(i) \/ Reopen(i)
  \/ \E t \in Threads : DeletedElsewhere(t)
  \/ SignIn
  \/ SignOut \/ HandOver \/ EndSession \/ CheckUnchanged \/ ForgetThreads \/ SignedOut

ChatPanelNext ==
  \/ \E i \in TaskIds : Resumes(i) /\ Continue(i)
  \/ (\A i \in TaskIds : ~Resumes(i)) /\ Event

ChatPanelSpec == ChatPanelInit /\ [][ChatPanelNext]_panelVars

-----------------------------------------------------------------------------
LoadState == [thread : Threads, seq : Nat, from : Threads \cup {NoThread},
              orphans : SUBSET Items, shares : BOOLEAN, kept : SUBSET Items, behind : Nat,
              stage : {"queue", "read"}, ok : BOOLEAN, got : SUBSET Items]
StepState == [kind : {"write", "keep", "drop"}, thread : Threads, to : Threads \cup {NoThread},
              items : SUBSET Items]
PanelState == [thread : Threads \cup {NoThread}, items : SUBSET Items,
               writes : {"open", "reading", "unreadable"}, seq : Nat, loading : Nat,
               loads : SUBSET LoadState, queue : Seq(StepState), doubled : SUBSET Items,
               standIn : SUBSET Items, givenUp : SUBSET Items, adrift : SUBSET Items]

\* The load that is current is the only one that renders into the panel: while
\* the thread is closed to writes for a read, that read is out
ChatPanelTypeOK ==
  /\ current \in Workspaces
  /\ effect \in [openedFor : Workspaces, due : Nat, crossed : BOOLEAN]
  /\ session \in {"in", "ending", "out"}
  /\ index \in [Workspaces -> Threads \cup {NoThread}]
  /\ madeFor \in [Threads -> Workspaces \cup {None}]
  /\ files \in [Threads -> SUBSET Items]
  /\ account \in [Threads -> [state : {None, "live", "deleted"}, items : SUBSET Items]]
  /\ panel \in PanelState
  /\ panel.writes = "reading" => \E l \in panel.loads : l.seq = panel.seq /\ l.thread = panel.thread
  /\ typed \subseteq Messages
  /\ trampled \subseteq Items

InMemory == panel.items
            \cup (UNION {l.orphans \cup l.kept : l \in panel.loads})
            \cup (UNION {panel.queue[n].items : n \in DOMAIN panel.queue})
Held == InMemory \cup UNION {files[t] \cup account[t].items : t \in Threads}

\* Nothing the user typed is lost: it is in the panel, in a read that is out,
\* in the write queue, in a file or on the account, unless the panel said that
\* it is not saved or its thread was deleted.  The code does not keep it:
\* storeMerged, adoptAccountThread and forget write and remove files outside
\* the queue, of what they read before
TypedKept == typed \subseteq Held \cup panel.givenUp

\* The panel and its queue lose nothing: whatever switches, reads, moves, folds
\* and sign-outs overtake each other, a typed message goes only where one of
\* those writes outside the queue took it, or when it was typed into a list that
\* foldIn had put in the place of the one that the current read holds, and the
\* thread was left before the read landed
QueueKeeps == typed \subseteq Held \cup panel.givenUp \cup panel.adrift \cup trampled

\* "Otherwise a message sent right after a project switch lands in the previous
\* project's thread": the thread that is open is the current workspace's.  The
\* code does not keep it: in every switch the thread stays open from where the id
\* moves to where the event fires, and replaceDeleted asks before it waits for the
\* write queue and the lock, and opens the deleted thread's workspace after
OnWorkspace == panel.thread # NoThread => madeFor[panel.thread] = current

\* Once the event of the switch has come the thread is the current workspace's,
\* and until then that of the workspace left or entered, however late the index,
\* the storage or the server answers, unless replaceDeleted opened it (a move goes
\* on from the thread that is open) or two switches have crossed: `open` stands
\* down for the workspace it last opened, whatever a sign-in or a late read of the
\* index has opened while a switch was under way
FollowsSwitch ==
  ~effect.crossed /\ panel.thread \notin {NoThread} \cup replaced =>
    madeFor[panel.thread] \in {current} \cup IF effect.due = 0 THEN {} ELSE {effect.openedFor}

\* What is typed with a thread open is never filed under another workspace, on
\* this device or on the account: not by a switch during a read, not by the
\* thread that adopts what a panel without one holds
FiledWhereTyped ==
  \A m \in typed, t \in Threads :
    home[m] # None /\ (m \in files[t] \/ m \in account[t].items) => madeFor[t] = home[m]

\* No message is rendered twice.  The code does not keep it: a list that stands
\* in for a thread while it is read can be given messages that the read brings
NeverTwice == panel.doubled = {}

\* It keeps it otherwise: "A -> B -> A faster than a read" shows nothing twice
ShownOnce == panel.doubled \subseteq panel.standIn

\* A reload loses nothing that is on screen once the queue has run: a file, or
\* the account, holds it
ScreenStored ==
  panel.thread # NoThread /\ panel.writes = "open" /\ Behind(panel, panel.thread) = 0 =>
    panel.items \subseteq trampled \cup panel.givenUp
                          \cup UNION {files[t] \cup account[t].items : t \in Threads}

=============================================================================
