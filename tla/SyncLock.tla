------------------------------ MODULE SyncLock ------------------------------
(***************************************************************************)
(* features/persistence/model/sync-lock.ts: `withSyncLock`.                *)
(*                                                                         *)
(* The tabs of one browser share the sync marks, so a reconcile or an      *)
(* upload runs while its tab holds the one Web Lock "pg-project-sync".     *)
(* The lock is held per tab: the first caller of a tab asks for it, the    *)
(* callers that come while it is held or asked for share that request, and *)
(* the last one to leave releases it.  Web Locks are not re-entrant, and a *)
(* caller often runs inside another (a push that merges, a reconcile that  *)
(* pushes).                                                                *)
(*                                                                         *)
(* A call of `withSyncLock` is a member of Calls, and the request that it  *)
(* makes, if it makes one, is named after it.                              *)
(***************************************************************************)
EXTENDS Naturals, FiniteSets

CONSTANTS Tabs, Calls, NoTab, NoCall

ASSUME SyncLockAssumption == /\ NoTab \notin Tabs
                             /\ NoCall \notin Calls
                             /\ IsFiniteSet(Calls)

VARIABLES
  weblocks, \* whether `navigator.locks.request` exists in this browser
  open,     \* the tabs that have not been closed
  at,       \* at[c]: idle, waiting (await held), inside (await fn()), done, threw
  tab,      \* tab[c]: the tab c was called in
  parent,   \* parent[c]: the call whose fn made call c, or NoCall
  holders,  \* holders[t]: the module's counter in tab t
  held,     \* held[t]: the request whose promise is `held`, NoCall for null
  awaits,   \* awaits[c]: the request whose promise c awaits
  release,  \* release[t]: the request that `release` ends, NoCall for null
  promise,  \* promise[r]: state of the promise that acquire() returned
  queue,    \* the lock manager's waiting requests (external)
  ticket,   \* ticket[r]: the turn of request r in the queue (external)
  asks,     \* the number of requests made so far (external)
  owner,    \* the request that holds the Web Lock (external)
  ended     \* requests whose callback promise has been resolved by release()

tabVars == <<holders, held, release>>
callVars == <<at, tab, parent, awaits>>
queueVars == <<queue, ticket, asks>>
lockVars == <<promise, queueVars, owner, ended>>
vars == <<weblocks, open, tabVars, callVars, lockVars>>

Active(c) == at[c] \in {"waiting", "inside"}

\* fn of c is itself waiting for a nested call
Busy(c) == \E d \in Calls : parent[d] = c /\ Active(d)

Init ==
  /\ weblocks \in BOOLEAN
  /\ open = Tabs
  /\ at = [c \in Calls |-> "idle"]
  /\ tab = [c \in Calls |-> NoTab]
  /\ parent = [c \in Calls |-> NoCall]
  /\ holders = [t \in Tabs |-> 0]
  /\ held = [t \in Tabs |-> NoCall]
  /\ awaits = [c \in Calls |-> NoCall]
  /\ release = [t \in Tabs |-> NoCall]
  /\ promise = [c \in Calls |-> "pending"]
  /\ queue = {}
  /\ ticket = [c \in Calls |-> 0]
  /\ asks = 0
  /\ owner = NoCall
  /\ ended = {}

\* A call comes from an event handler of the tab (no parent), or from the fn
\* of a call that is inside and waits for it
MayCall(c, t, p) ==
  /\ at[c] = "idle"
  /\ t \in open
  /\ \/ p = NoCall
     \/ p \in Calls /\ at[p] = "inside" /\ tab[p] = t /\ ~Busy(p)

\* External: `locks.request` queues the request behind the earlier ones
Request(c) ==
  /\ queue' = queue \cup {c}
  /\ asks' = asks + 1
  /\ ticket' = [ticket EXCEPT ![c] = asks']

\* Mutant of Enter: every caller asks for the lock itself
EnterAlone(c, t, p) ==
  /\ weblocks
  /\ MayCall(c, t, p)
  /\ holders' = [holders EXCEPT ![t] = @ + 1]
  /\ held' = [held EXCEPT ![t] = c]
  /\ Request(c)
  /\ awaits' = [awaits EXCEPT ![c] = c]
  /\ at' = [at EXCEPT ![c] = "waiting"]
  /\ tab' = [tab EXCEPT ![c] = t]
  /\ parent' = [parent EXCEPT ![c] = p]
  /\ UNCHANGED <<weblocks, open, release, promise, owner, ended>>

\* holders++; held ??= acquire(locks); await held
Enter(c, t, p) ==
  /\ weblocks
  /\ MayCall(c, t, p)
  /\ holders' = [holders EXCEPT ![t] = @ + 1]
  /\ held' = [held EXCEPT ![t] = IF @ = NoCall THEN c ELSE @]
  /\ IF held[t] = NoCall THEN Request(c) ELSE UNCHANGED queueVars
  /\ awaits' = [awaits EXCEPT ![c] = held'[t]]
  /\ at' = [at EXCEPT ![c] = "waiting"]
  /\ tab' = [tab EXCEPT ![c] = t]
  /\ parent' = [parent EXCEPT ![c] = p]
  /\ UNCHANGED <<weblocks, open, release, promise, owner, ended>>

\* No Web Locks: `fn` just runs, and nothing is counted
EnterUnlocked(c, t, p) ==
  /\ ~weblocks
  /\ MayCall(c, t, p)
  /\ at' = [at EXCEPT ![c] = "inside"]
  /\ tab' = [tab EXCEPT ![c] = t]
  /\ parent' = [parent EXCEPT ![c] = p]
  /\ UNCHANGED <<weblocks, open, tabVars, awaits, lockVars>>

\* External: the lock manager runs the callback of its first request, which
\* stores `release` and settles `held`
Grant(r) ==
  /\ owner = NoCall
  /\ r \in queue
  /\ \A q \in queue : ticket[r] <= ticket[q]
  /\ owner' = r
  /\ queue' = queue \ {r}
  /\ release' = [release EXCEPT ![tab[r]] = r]
  /\ promise' = [promise EXCEPT ![r] = "acquired"]
  /\ UNCHANGED <<weblocks, open, holders, held, callVars, ticket, asks, ended>>

\* External: `locks.request` rejects, and `.catch(failed)` rejects `held`
Refuse(r) ==
  /\ r \in queue
  /\ queue' = queue \ {r}
  /\ promise' = [promise EXCEPT ![r] = "failed"]
  /\ UNCHANGED <<weblocks, open, tabVars, callVars, ticket, asks, owner, ended>>

\* `await held` returns, fn starts
Start(c) ==
  /\ at[c] = "waiting"
  /\ promise[awaits[c]] = "acquired"
  /\ at' = [at EXCEPT ![c] = "inside"]
  /\ UNCHANGED <<weblocks, open, tabVars, tab, parent, awaits, lockVars>>

\* Mutant of Finally: whoever leaves lets the lock go
FinallyEager(t) ==
  /\ holders' = [holders EXCEPT ![t] = @ - 1]
  /\ held' = [held EXCEPT ![t] = NoCall]
  /\ ended' = ended \cup ({release[t]} \ {NoCall})
  /\ release' = [release EXCEPT ![t] = NoCall]

\* The finally block: holders--, and the last one lets the lock go
Finally(t) ==
  /\ holders' = [holders EXCEPT ![t] = @ - 1]
  /\ IF holders[t] = 1
       THEN /\ held' = [held EXCEPT ![t] = NoCall]
            /\ ended' = ended \cup ({release[t]} \ {NoCall})
            /\ release' = [release EXCEPT ![t] = NoCall]
       ELSE UNCHANGED <<held, ended, release>>

\* fn returned or threw
Leave(c) ==
  /\ at[c] = "inside"
  /\ ~Busy(c)
  /\ at' = [at EXCEPT ![c] = "done"]
  /\ IF weblocks THEN Finally(tab[c]) ELSE UNCHANGED <<tabVars, ended>>
  /\ UNCHANGED <<weblocks, open, tab, parent, awaits, promise, queueVars, owner>>

\* `await held` threw
Throw(c) ==
  /\ at[c] = "waiting"
  /\ promise[awaits[c]] = "failed"
  /\ at' = [at EXCEPT ![c] = "threw"]
  /\ Finally(tab[c])
  /\ UNCHANGED <<weblocks, open, tab, parent, awaits, promise, queueVars, owner>>

\* External: the callback's promise has resolved, the lock is free again
Free ==
  /\ owner \in ended
  /\ owner' = NoCall
  /\ UNCHANGED <<weblocks, open, tabVars, callVars, promise, queueVars, ended>>

CallsOf(t) == {c \in Calls : tab[c] = t}

\* External: closing the document drops its requests and its lock; its
\* module state goes with it
Close(t) ==
  /\ t \in open
  /\ open' = open \ {t}
  /\ at' = [c \in Calls |-> IF tab[c] = t THEN "done" ELSE at[c]]
  /\ holders' = [holders EXCEPT ![t] = 0]
  /\ held' = [held EXCEPT ![t] = NoCall]
  /\ release' = [release EXCEPT ![t] = NoCall]
  /\ queue' = queue \ CallsOf(t)
  /\ owner' = IF owner \in CallsOf(t) THEN NoCall ELSE owner
  /\ UNCHANGED <<weblocks, tab, parent, awaits, promise, ticket, asks, ended>>

Parents == Calls \cup {NoCall}

Next ==
  \/ \E c \in Calls, t \in Tabs, p \in Parents : Enter(c, t, p)
  \/ \E c \in Calls, t \in Tabs, p \in Parents : EnterUnlocked(c, t, p)
  \/ \E r \in Calls : Grant(r)
  \/ \E r \in Calls : Refuse(r)
  \/ \E c \in Calls : Start(c)
  \/ \E c \in Calls : Leave(c)
  \/ \E c \in Calls : Throw(c)
  \/ Free
  \/ \E t \in Tabs : Close(t)

\* The lock manager answers, promises settle their awaiters, and every fn
\* ends: the requests made under the lock time out (LOCKED_REQUEST_MS)
Fairness ==
  /\ WF_vars(\E r \in Calls : Grant(r))
  /\ WF_vars(Free)
  /\ \A c \in Calls : WF_vars(Start(c)) /\ WF_vars(Leave(c)) /\ WF_vars(Throw(c))

Spec == Init /\ [][Next]_vars /\ Fairness

-----------------------------------------------------------------------------
TypeOK ==
  /\ weblocks \in BOOLEAN
  /\ open \subseteq Tabs
  /\ at \in [Calls -> {"idle", "waiting", "inside", "done", "threw"}]
  /\ tab \in [Calls -> Tabs \cup {NoTab}]
  /\ parent \in [Calls -> Parents]
  /\ holders \in [Tabs -> Nat]
  /\ held \in [Tabs -> Parents]
  /\ awaits \in [Calls -> Parents]
  /\ release \in [Tabs -> Parents]
  /\ promise \in [Calls -> {"pending", "acquired", "failed"}]
  /\ queue \subseteq Calls
  /\ ticket \in [Calls -> Nat]
  /\ asks \in Nat
  /\ owner \in Parents
  /\ ended \subseteq Calls

\* No two tabs are inside at once: "Run `fn` while no other tab of this
\* browser is deciding or writing" (sync-lock.ts).
Exclusion ==
  weblocks => \A c, d \in Calls :
                 at[c] = "inside" /\ at[d] = "inside" => tab[c] = tab[d]

\* The Web Lock is never kept by a tab with no caller left to release it:
\* that would stop the sync of every other tab for good.
NoOrphanLock ==
  owner # NoCall => owner \in ended \/ holders[tab[owner]] > 0

\* Every call gets its turn or its error, a nested one included: "a caller
\* that already holds it never waits for itself".
EveryCallAnswered == \A c \in Calls : at[c] = "waiting" ~> at[c] # "waiting"
=============================================================================
