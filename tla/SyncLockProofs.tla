--------------------------- MODULE SyncLockProofs ---------------------------
(***************************************************************************)
(* Mutual exclusion of the tabs, for any set of tabs and of calls.         *)
(*                                                                         *)
(* Why it holds: whoever is inside or waiting awaits the request that      *)
(* `held` of its tab names; a granted request that some `held` still names *)
(* owns the Web Lock; and the Web Lock has one owner, made in one tab.     *)
(* The counter matters because the reset of `held` must not happen under   *)
(* a caller that still relies on it: `holders` is exactly the number of    *)
(* callers waiting or inside.                                              *)
(***************************************************************************)
EXTENDS SyncLock, FiniteSetTheorems, TLAPS

ActiveIn(t) == {c \in Calls : Active(c) /\ tab[c] = t}

\* `holders` counts the callers waiting or inside, and `held` is non-null
\* exactly while there are some
Counted ==
  \A t \in Tabs : /\ holders[t] = Cardinality(ActiveIn(t))
                  /\ held[t] = NoCall <=> holders[t] = 0

\* A caller awaits the request its tab's `held` names, granted if it is inside
Relies ==
  \A c \in Calls : Active(c) =>
    /\ tab[c] \in open
    /\ awaits[c] = held[tab[c]]
    /\ awaits[c] \in Calls
    /\ at[c] = "inside" => promise[awaits[c]] = "acquired"

\* What `held` names: a request made in that tab, not ended, which owns the
\* lock once it is granted and which `release` then ends
HeldRequest ==
  \A t \in Tabs : held[t] # NoCall =>
    /\ tab[held[t]] = t
    /\ at[held[t]] # "idle"
    /\ held[t] \notin ended
    /\ promise[held[t]] = "acquired" => owner = held[t] /\ release[t] = held[t]
    /\ promise[held[t]] = "pending" => held[t] \in queue

\* A queued request is the one its tab waits for; an owner that has not ended
\* is still named by its tab; `release` ends what `held` names
LockState ==
  /\ \A r \in queue : /\ promise[r] = "pending"
                      /\ tab[r] \in Tabs
                      /\ held[tab[r]] = r
                      /\ release[tab[r]] = NoCall
  /\ owner # NoCall => /\ promise[owner] = "acquired"
                       /\ tab[owner] \in Tabs
                       /\ owner \notin ended => held[tab[owner]] = owner
  /\ \A t \in Tabs : release[t] # NoCall => release[t] = held[t]

\* A call that has not been made has left no trace
Unmade ==
  \A c \in Calls : at[c] = "idle" => /\ tab[c] = NoTab
                                     /\ promise[c] = "pending"
                                     /\ c \notin queue
                                     /\ c # owner
                                     /\ c \notin ended

\* Without Web Locks nothing is asked for and nobody waits
Unlocked == /\ owner = NoCall
            /\ queue = {}
            /\ \A c \in Calls : at[c] # "waiting"

IInv == /\ TypeOK
        /\ weblocks => Counted /\ Relies
        /\ ~weblocks => Unlocked
        /\ HeldRequest
        /\ LockState
        /\ Unmade

-----------------------------------------------------------------------------
\* The callers of a tab are finitely many, so counting them makes sense
LEMMA ActiveInFinite ==
  \A t : IsFiniteSet(ActiveIn(t)) /\ Cardinality(ActiveIn(t)) \in Nat
BY SyncLockAssumption, FS_Subset, FS_CardinalityType DEF ActiveIn

\* What taking a member out of a finite set does to its size
LEMMA MemberCount ==
  ASSUME NEW S, IsFiniteSet(S), NEW x \in S
  PROVE  /\ Cardinality(S) \in Nat \ {0}
         /\ Cardinality(S \ {x}) = Cardinality(S) - 1
         /\ Cardinality(S) = 1 => S = {x}
<1>1. Cardinality(S) \in Nat /\ Cardinality(S) # 0
  BY FS_CardinalityType, FS_EmptySet
<1>2. Cardinality(S \ {x}) = Cardinality(S) - 1
  BY FS_RemoveElement
<1>3. ASSUME Cardinality(S) = 1 PROVE S = {x}
  <2>1. PICK y : S = {y}
    BY <1>3, FS_Singleton
  <2> QED
    BY <2>1
<1> QED
  BY <1>1, <1>2, <1>3

\* The type invariant is inductive by itself
LEMMA TypeStep == TypeOK /\ IInv /\ [Next]_vars => TypeOK'
<1> SUFFICES ASSUME TypeOK, IInv, [Next]_vars PROVE TypeOK'
  OBVIOUS
<1> USE SyncLockAssumption DEF TypeOK, Parents
<1>1. ASSUME NEW c \in Calls, NEW t \in Tabs, NEW p \in Parents, Enter(c, t, p)
      PROVE TypeOK'
  BY <1>1 DEF Enter, MayCall, Request, queueVars
<1>2. ASSUME NEW c \in Calls, NEW t \in Tabs, NEW p \in Parents, EnterUnlocked(c, t, p)
      PROVE TypeOK'
  BY <1>2 DEF EnterUnlocked, MayCall, tabVars, lockVars, queueVars
<1>3. ASSUME NEW r \in Calls, Grant(r) PROVE TypeOK'
  BY <1>3 DEF Grant, callVars
<1>4. ASSUME NEW r \in Calls, Refuse(r) PROVE TypeOK'
  BY <1>4 DEF Refuse, tabVars, callVars
<1>5. ASSUME NEW c \in Calls, Start(c) PROVE TypeOK'
  BY <1>5 DEF Start, tabVars, lockVars, queueVars
<1>6. ASSUME NEW c \in Calls, weblocks, Active(c) PROVE holders[tab[c]] \in Nat \ {0}
  <2>1. tab[c] \in Tabs /\ c \in ActiveIn(tab[c])
    BY <1>6 DEF IInv, Relies, ActiveIn
  <2>2. holders[tab[c]] = Cardinality(ActiveIn(tab[c])) /\ holders[tab[c]] \in Nat
    BY <1>6, <2>1 DEF IInv, Counted
  <2> QED
    BY <2>1, <2>2, ActiveInFinite, FS_EmptySet
<1>7. ASSUME NEW c \in Calls, Leave(c) PROVE TypeOK'
  <2>1. CASE weblocks
    <3>1. tab[c] \in Tabs /\ holders[tab[c]] - 1 \in Nat
      BY <1>7, <1>6, <2>1 DEF Leave, Active, IInv, Relies
    <3> QED
      BY <1>7, <2>1, <3>1 DEF Leave, Finally, queueVars
  <2>2. CASE ~weblocks
    BY <1>7, <2>2 DEF Leave, tabVars, queueVars
  <2> QED
    BY <2>1, <2>2
<1>8. ASSUME NEW c \in Calls, Throw(c) PROVE TypeOK'
  <2>1. weblocks
    BY <1>8 DEF Throw, IInv, Unlocked
  <2>2. tab[c] \in Tabs /\ holders[tab[c]] - 1 \in Nat
    BY <1>8, <1>6, <2>1 DEF Throw, Active, IInv, Relies
  <2> QED
    BY <1>8, <2>2 DEF Throw, Finally, queueVars
<1>9. CASE Free
  BY <1>9 DEF Free, tabVars, callVars, queueVars
<1>10. ASSUME NEW t \in Tabs, Close(t) PROVE TypeOK'
  BY <1>10 DEF Close
<1>11. CASE UNCHANGED vars
  BY <1>11 DEF vars, tabVars, callVars, lockVars, queueVars
<1> QED
  BY <1>1, <1>2, <1>3, <1>4, <1>5, <1>7, <1>8, <1>9, <1>10, <1>11 DEF Next

\* The counter and `held` when the callers of one tab change by one
LEMMA CountedEnter ==
  ASSUME IInv, weblocks, NEW c \in Calls, NEW t \in Tabs, NEW p \in Parents,
         Enter(c, t, p)
  PROVE  Counted'
<1> USE SyncLockAssumption DEF IInv, TypeOK, Parents
<1>1. /\ c \notin ActiveIn(t)
      /\ ActiveIn(t)' = ActiveIn(t) \cup {c}
      /\ \A u \in Tabs \ {t} : ActiveIn(u)' = ActiveIn(u)
  BY DEF Enter, MayCall, ActiveIn, Active, Unmade
<1>2. Cardinality(ActiveIn(t)') = Cardinality(ActiveIn(t)) + 1
  BY <1>1, ActiveInFinite, FS_AddElement
<1>3. \A u \in Tabs : holders'[u] = Cardinality(ActiveIn(u)')
  BY <1>1, <1>2 DEF Enter, Counted
<1>4. \A u \in Tabs : held'[u] = NoCall <=> holders'[u] = 0
  BY DEF Enter, Counted
<1> QED
  BY <1>3, <1>4 DEF Counted

\* The same when a caller leaves: the last one empties `held`
LEMMA CountedFinally ==
  ASSUME IInv, weblocks, NEW c \in Calls, Active(c), Finally(tab[c]),
         NEW s \in {"done", "threw"}, at' = [at EXCEPT ![c] = s], tab' = tab
  PROVE  /\ Counted'
         /\ holders[tab[c]] = 1 => ActiveIn(tab[c]) = {c}
<1> USE SyncLockAssumption DEF IInv, TypeOK, Parents
<1> DEFINE t == tab[c]
<1>1. t \in Tabs /\ c \in ActiveIn(t)
  BY DEF Relies, ActiveIn
<1>2. /\ ActiveIn(t)' = ActiveIn(t) \ {c}
      /\ \A u \in Tabs \ {t} : ActiveIn(u)' = ActiveIn(u)
  BY <1>1 DEF ActiveIn, Active
<1>3. /\ Cardinality(ActiveIn(t)') = Cardinality(ActiveIn(t)) - 1
      /\ Cardinality(ActiveIn(t)) \in Nat \ {0}
  <2>1. IsFiniteSet(ActiveIn(t))
    BY ActiveInFinite
  <2> QED
    BY <1>1, <1>2, <2>1, MemberCount
<1>4. holders[t] = Cardinality(ActiveIn(t))
  BY <1>1 DEF Counted
<1>5. \A u \in Tabs : holders'[u] = Cardinality(ActiveIn(u)')
  BY <1>1, <1>2, <1>3, <1>4 DEF Finally, Counted
<1>6. \A u \in Tabs : held'[u] = NoCall <=> holders'[u] = 0
  BY <1>1, <1>3, <1>4 DEF Finally, Counted
<1>7. holders[t] = 1 => ActiveIn(t) = {c}
  <2>1. IsFiniteSet(ActiveIn(t))
    BY ActiveInFinite
  <2> HIDE DEF t
  <2> QED
    BY <1>1, <1>4, <2>1, MemberCount
<1> QED
  BY <1>5, <1>6, <1>7 DEF Counted

\* A caller leaves, with its result or with an error
LEMMA FinallyStep ==
  ASSUME IInv, weblocks, NEW c \in Calls, Active(c), Finally(tab[c]),
         NEW s \in {"done", "threw"}, at' = [at EXCEPT ![c] = s],
         UNCHANGED <<weblocks, open, tab, parent, awaits, promise, queueVars, owner>>,
         at[c] = "inside" \/ promise[awaits[c]] = "failed"
  PROVE  Relies' /\ HeldRequest' /\ LockState' /\ Unmade'
<1> USE SyncLockAssumption DEF IInv, TypeOK, Parents, queueVars
<1> DEFINE t == tab[c]
<1>1. /\ t \in Tabs
      /\ awaits[c] = held[t]
      /\ held[t] \in Calls
      /\ promise[held[t]] \in {"acquired", "failed"}
      /\ tab[held[t]] = t
  BY DEF Relies, HeldRequest
<1>2. holders[t] = 1 => ActiveIn(t) = {c}
  BY CountedFinally
<1>3. CASE holders[t] = 1
  <2>1. /\ held' = [held EXCEPT ![t] = NoCall]
        /\ release' = [release EXCEPT ![t] = NoCall]
        /\ ended' = ended \cup ({release[t]} \ {NoCall})
        /\ release[t] \in {NoCall, held[t]}
    BY <1>1, <1>3 DEF Finally, LockState
  <2>2. Relies'
    BY <1>1, <1>2, <1>3, <2>1 DEF Relies, ActiveIn, Active
  <2>3. HeldRequest'
    BY <1>1, <2>1 DEF HeldRequest
  <2>4. held[t] \notin queue
    BY <1>1 DEF LockState
  <2>5. owner = held[t] => release[t] = held[t] \/ owner \in ended
    BY <1>1 DEF LockState, HeldRequest, Relies
  <2>6. LockState'
    BY <1>1, <2>1, <2>4, <2>5 DEF LockState
  <2>7. Unmade'
    BY <1>1, <2>1 DEF Unmade, HeldRequest
  <2> QED
    BY <2>2, <2>3, <2>6, <2>7
<1>4. CASE holders[t] # 1
  <2>1. UNCHANGED <<held, ended, release>>
    BY <1>4 DEF Finally
  <2> QED
    BY <1>1, <2>1 DEF Relies, Active, HeldRequest, LockState, Unmade
<1> QED
  BY <1>3, <1>4

\* Every step keeps the inductive invariant
LEMMA InvStep == IInv /\ [Next]_vars => IInv'
<1> SUFFICES ASSUME IInv, [Next]_vars PROVE IInv'
  OBVIOUS
<1> DEFINE Rest == /\ weblocks => Counted /\ Relies
                   /\ ~weblocks => Unlocked
                   /\ HeldRequest
                   /\ LockState
                   /\ Unmade
<1>t. TypeOK'
  BY TypeStep DEF IInv
<1> USE SyncLockAssumption DEF IInv, TypeOK, Parents
<1>1. ASSUME NEW c \in Calls, NEW t \in Tabs, NEW p \in Parents, Enter(c, t, p)
      PROVE Rest'
  <2>1. weblocks /\ weblocks' /\ Counted'
    BY <1>1, CountedEnter DEF Enter
  <2>2. CASE held[t] = NoCall
    <3>1. /\ held' = [held EXCEPT ![t] = c]
          /\ queue' = queue \cup {c}
          /\ awaits' = [awaits EXCEPT ![c] = c]
          /\ at' = [at EXCEPT ![c] = "waiting"]
          /\ tab' = [tab EXCEPT ![c] = t]
          /\ UNCHANGED <<open, release, promise, owner, ended>>
          /\ at[c] = "idle" /\ t \in open
      BY <1>1, <2>2 DEF Enter, MayCall, Request
    <3>2. \A d \in Calls : Active(d) => d # c /\ tab[d] # t
      BY <2>1, <2>2, <3>1 DEF Relies, Active
    <3>3. Relies'
      BY <2>1, <3>1, <3>2 DEF Relies, Active
    <3>4. /\ HeldRequest' /\ Unmade'
      BY <3>1 DEF HeldRequest, Unmade
    <3>5. LockState'
      BY <2>2, <3>1 DEF LockState, Unmade
    <3> QED
      BY <2>1, <3>3, <3>4, <3>5
  <2>3. CASE held[t] # NoCall
    <3>1. /\ held' = held
          /\ queue' = queue
          /\ awaits' = [awaits EXCEPT ![c] = held[t]]
          /\ at' = [at EXCEPT ![c] = "waiting"]
          /\ tab' = [tab EXCEPT ![c] = t]
          /\ UNCHANGED <<open, release, promise, owner, ended>>
          /\ at[c] = "idle" /\ t \in open
      BY <1>1, <2>3 DEF Enter, MayCall, queueVars
    <3>2. Relies'
      BY <2>1, <2>3, <3>1 DEF Relies, Active
    <3>3. HeldRequest' /\ Unmade'
      BY <3>1 DEF HeldRequest, Unmade
    <3>4. LockState'
      BY <3>1 DEF LockState, Unmade
    <3> QED
      BY <2>1, <3>2, <3>3, <3>4
  <2> QED
    BY <2>2, <2>3
<1>2. ASSUME NEW c \in Calls, NEW t \in Tabs, NEW p \in Parents, EnterUnlocked(c, t, p)
      PROVE Rest'
  BY <1>2 DEF EnterUnlocked, MayCall, tabVars, lockVars, queueVars,
              Unlocked, HeldRequest, LockState, Unmade
<1>3. ASSUME NEW r \in Calls, Grant(r) PROVE Rest'
  <2>1. /\ weblocks /\ weblocks' = weblocks
        /\ tab[r] \in Tabs /\ held[tab[r]] = r /\ promise[r] = "pending"
        /\ at[r] # "idle" /\ r \notin ended
    BY <1>3 DEF Grant, Unlocked, LockState, Unmade, HeldRequest
  <2>2. Counted' /\ Relies'
    BY <1>3, <2>1 DEF Grant, callVars, Counted, Relies, ActiveIn, Active
  <2>3. HeldRequest'
    BY <1>3, <2>1 DEF Grant, callVars, HeldRequest
  <2>4. LockState'
    BY <1>3, <2>1 DEF Grant, callVars, LockState
  <2>5. Unmade'
    BY <1>3, <2>1 DEF Grant, callVars, Unmade
  <2> QED
    BY <2>1, <2>2, <2>3, <2>4, <2>5
<1>4. ASSUME NEW r \in Calls, Refuse(r) PROVE Rest'
  <2>1. /\ weblocks /\ weblocks' = weblocks
        /\ promise[r] = "pending" /\ at[r] # "idle"
    BY <1>4 DEF Refuse, Unlocked, LockState, Unmade
  <2>2. Counted' /\ Relies'
    BY <1>4, <2>1 DEF Refuse, tabVars, callVars, Counted, Relies, ActiveIn, Active
  <2>3. HeldRequest' /\ LockState' /\ Unmade'
    BY <1>4, <2>1 DEF Refuse, tabVars, callVars, HeldRequest, LockState, Unmade
  <2> QED
    BY <2>1, <2>2, <2>3
<1>5. ASSUME NEW c \in Calls, Start(c) PROVE Rest'
  <2>1. weblocks /\ weblocks' = weblocks
    BY <1>5 DEF Start, Unlocked
  <2>2. Counted'
    <3>1. \A t \in Tabs : ActiveIn(t)' = ActiveIn(t)
      BY <1>5 DEF Start, ActiveIn, Active
    <3> QED
      BY <1>5, <2>1, <3>1 DEF Start, tabVars, Counted
  <2>3. Relies' /\ HeldRequest' /\ LockState' /\ Unmade'
    BY <1>5, <2>1 DEF Start, tabVars, lockVars, queueVars,
                      Relies, Active, HeldRequest, LockState, Unmade
  <2> QED
    BY <2>1, <2>2, <2>3
<1>6. ASSUME NEW c \in Calls, Leave(c) PROVE Rest'
  <2>1. CASE weblocks
    <3>1. /\ Active(c) /\ Finally(tab[c]) /\ at[c] = "inside"
          /\ at' = [at EXCEPT ![c] = "done"]
          /\ UNCHANGED <<weblocks, open, tab, parent, awaits, promise, queueVars, owner>>
      BY <1>6, <2>1 DEF Leave, Active
    <3> QED
      BY <2>1, <3>1, CountedFinally, FinallyStep
  <2>2. CASE ~weblocks
    BY <1>6, <2>2 DEF Leave, tabVars, queueVars, Unlocked, HeldRequest, LockState, Unmade
  <2> QED
    BY <2>1, <2>2
<1>7. ASSUME NEW c \in Calls, Throw(c) PROVE Rest'
  <2>1. /\ weblocks /\ Active(c) /\ Finally(tab[c])
        /\ promise[awaits[c]] = "failed"
        /\ at' = [at EXCEPT ![c] = "threw"]
        /\ UNCHANGED <<weblocks, open, tab, parent, awaits, promise, queueVars, owner>>
    BY <1>7 DEF Throw, Active, Unlocked
  <2> QED
    BY <2>1, CountedFinally, FinallyStep
<1>8. ASSUME Free PROVE Rest'
  <2>1. weblocks /\ weblocks' = weblocks
    BY <1>8 DEF Free, Unlocked
  <2>2. Counted' /\ Relies'
    BY <1>8, <2>1 DEF Free, tabVars, callVars, Counted, Relies, ActiveIn, Active
  <2>3. HeldRequest' /\ LockState' /\ Unmade'
    BY <1>8 DEF Free, tabVars, callVars, queueVars, HeldRequest, LockState, Unmade
  <2> QED
    BY <2>1, <2>2, <2>3
<1>9. ASSUME NEW t \in Tabs, Close(t) PROVE Rest'
  <2>1. /\ at' = [c \in Calls |-> IF tab[c] = t THEN "done" ELSE at[c]]
        /\ tab' = tab /\ open' = open \ {t}
        /\ t \in Tabs /\ weblocks' = weblocks
    BY <1>9 DEF Close
  <2>2. ASSUME weblocks PROVE Counted'
    <3>1. /\ ActiveIn(t)' = {}
          /\ \A u \in Tabs \ {t} : ActiveIn(u)' = ActiveIn(u)
      BY <2>1 DEF ActiveIn, Active
    <3>2. Cardinality(ActiveIn(t)') = 0
      BY <3>1, FS_EmptySet
    <3> QED
      BY <1>9, <2>2, <3>1, <3>2 DEF Close, Counted
  <2>3. ASSUME weblocks PROVE Relies'
    BY <1>9, <2>3 DEF Close, Relies, Active
  <2>4. ~weblocks => Unlocked'
    BY <1>9 DEF Close, Unlocked
  <2>5. HeldRequest'
    BY <1>9 DEF Close, HeldRequest, CallsOf
  <2>6. LockState' /\ Unmade'
    BY <1>9 DEF Close, LockState, Unmade, CallsOf
  <2> QED
    BY <2>1, <2>2, <2>3, <2>4, <2>5, <2>6
<1>10. ASSUME UNCHANGED vars PROVE Rest'
  BY <1>10 DEF vars, tabVars, callVars, lockVars, queueVars, Counted, ActiveIn, Active,
               Relies, Unlocked, HeldRequest, LockState, Unmade
<1> QED
  BY <1>t, <1>1, <1>2, <1>3, <1>4, <1>5, <1>6, <1>7, <1>8, <1>9, <1>10 DEF Next

\* The invariant holds when the browser starts
LEMMA InvInit == Init => IInv
<1> SUFFICES ASSUME Init PROVE IInv
  OBVIOUS
<1>1. TypeOK
  BY SyncLockAssumption DEF Init, TypeOK, Parents
<1>2. \A t \in Tabs : ActiveIn(t) = {}
  BY DEF Init, ActiveIn, Active
<1>3. Counted
  BY <1>2, FS_EmptySet DEF Init, Counted
<1>4. Relies /\ Unmade /\ Unlocked
  BY SyncLockAssumption DEF Init, Relies, Active, Unmade, Unlocked
<1>5. HeldRequest /\ LockState
  BY DEF Init, HeldRequest, LockState
<1> QED
  BY <1>1, <1>3, <1>4, <1>5 DEF IInv

\* Two callers inside rely on requests that both own the one Web Lock
LEMMA InvExclusion == IInv => Exclusion
<1> SUFFICES ASSUME IInv, weblocks,
                    NEW c \in Calls, NEW d \in Calls,
                    at[c] = "inside", at[d] = "inside"
             PROVE  tab[c] = tab[d]
  BY DEF Exclusion
<1> DEFINE Owns(e) == owner = held[tab[e]] /\ tab[owner] = tab[e]
<1>1. ASSUME NEW e \in Calls, at[e] = "inside" PROVE Owns(e)
  BY <1>1, SyncLockAssumption DEF IInv, TypeOK, Relies, Active, HeldRequest
<1> QED
  BY <1>1

\* withSyncLock keeps the tabs of one browser apart, whatever calls, nested
\* calls, refusals and closed tabs there are.
THEOREM SyncLockExclusion == Spec => []Exclusion
<1>1. Init => IInv
  BY InvInit
<1>2. IInv /\ [Next]_vars => IInv'
  BY InvStep
<1>3. IInv => Exclusion
  BY InvExclusion
<1> QED
  BY <1>1, <1>2, <1>3, PTL DEF Spec

\* The Web Lock never stays with a tab that has nobody left to release it.
THEOREM SyncLockNoOrphan == Spec => []NoOrphanLock
<1>1. Init => IInv
  BY InvInit
<1>2. IInv /\ [Next]_vars => IInv'
  BY InvStep
<1>3. IInv => NoOrphanLock
  <2> SUFFICES ASSUME IInv, owner # NoCall, owner \notin ended
               PROVE  holders[tab[owner]] > 0
    BY DEF NoOrphanLock
  <2>1. weblocks /\ tab[owner] \in Tabs /\ held[tab[owner]] = owner
    BY DEF IInv, Unlocked, LockState
  <2>2. holders[tab[owner]] # 0 /\ holders[tab[owner]] \in Nat
    BY <2>1 DEF IInv, TypeOK, Counted
  <2> QED
    BY <2>2
<1> QED
  BY <1>1, <1>2, <1>3, PTL DEF Spec
=============================================================================
