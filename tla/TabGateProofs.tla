---------------------------- MODULE TabGateProofs ----------------------------
(***************************************************************************)
(* Proof that the calls of sync in the tabs of one browser never all wait  *)
(* for each other.                                                         *)
(*                                                                         *)
(* A push waits for the gate of its tab, then for the lock of the browser, *)
(* and for the gate again before it reads the mark; a pass holds the gate  *)
(* while it waits for the lock; a merge waits for the merges of its tab    *)
(* and then holds the gate.  The inductive invariant says who holds the    *)
(* gate and that those who do never wait for it.                           *)
(***************************************************************************)
EXTENDS TabGate, SequenceTheorems, TLAPS

-----------------------------------------------------------------------------
(* The inductive invariant                                                 *)

\* The places of a call that is inside _exclusive, and of one that is not; a push
\* is the same for both
InMerge == {"line", "fetch", "local", "base", "rewrite", "remark", "level", "reopen",
            "flag", "leave"}
NoMerge == {"idle", "gate", "lock", "snapshot", "look", "list", "decide", "probe", "done"}

Shaped == /\ DOMAIN job = Jobs /\ \A c \in Jobs : DOMAIN job[c] = DOMAIN Idle
          /\ DOMAIN line = Tabs /\ DOMAIN holds = Tabs /\ DOMAIN looking = Tabs

Place(c) ==
  /\ job[c].merging \in {"no", "merge", "adopt"}
  /\ Running(c) => T(c) \in Tabs
  /\ job[c].at \in InMerge => job[c].merging # "no"
  /\ job[c].at \in NoMerge => job[c].merging = "no"
  /\ job[c].kind = "pass" => job[c].at # "gate"

Queued(c) == job[c].merging # "no" => \E i \in 1 .. Len(line[T(c)]) : line[T(c)][i] = c

\* The queue of _exclusive holds calls of its tab, once each, and all but the first
\* wait
LineOK(t) ==
  /\ line[t] \in Seq(Jobs)
  /\ \A i, j \in 1 .. Len(line[t]) : line[t][i] = line[t][j] => i = j
  /\ \A i \in 1 .. Len(line[t]) :
       /\ job[line[t][i]].merging # "no" /\ T(line[t][i]) = t
       /\ i # 1 => job[line[t][i]].at = "line"

\* A reload that a call asked for ends that call's wait
LookOK(t) ==
  looking[t].by # 0 => /\ looking[t].by \in Jobs
                       /\ job[looking[t].by].at = "looking" /\ T(looking[t].by) = t

Passes(c) == job[c].kind = "pass" /\ Running(c)

\* A merge takes the gate before it reads the row, an adoption after
Merges(c) == /\ job[c].merging # "no" /\ job[c].at \notin {"line", "looking"}
             /\ ~(job[c].merging = "adopt" /\ job[c].at = "fetch")

OneTab == \A c, d \in Jobs : Inside(c) /\ Inside(d) => T(c) = T(d)
OnePass == \A c, d \in Jobs : Passes(c) /\ Passes(d) /\ T(c) = T(d) => c = d

PassIn(t) == \E c \in Jobs : Passes(c) /\ T(c) = t
MergeIn(t) == \E c \in Jobs : Merges(c) /\ T(c) = t

\* The gate is held once by the tab's pass and once by the merge that runs
HoldsOK(t) ==
  holds[t] = (IF PassIn(t) THEN 1 ELSE 0) + (IF MergeIn(t) THEN 1 ELSE 0)

GateInv == /\ Shaped
           /\ \A c \in Jobs : Place(c) /\ Queued(c)
           /\ \A t \in Tabs : LineOK(t) /\ LookOK(t) /\ HoldsOK(t)
           /\ OneTab /\ OnePass

-----------------------------------------------------------------------------
(* Who waits for whom                                                      *)

\* A call inside _exclusive that does not wait for its turn is the first of its tab.
LEMMA FirstInLine ==
  ASSUME GateInv, NEW c \in Jobs, job[c].merging # "no", job[c].at # "line"
  PROVE  /\ T(c) \in Tabs /\ line[T(c)] \in Seq(Jobs) /\ Len(line[T(c)]) > 0
         /\ line[T(c)][1] = c /\ Head(line[T(c)]) = c
<1>1. Place(c) /\ Queued(c)
  BY DEF GateInv
<1>2. T(c) \in Tabs
  BY <1>1 DEF Place, NoMerge, Running
<1>3. LineOK(T(c))
  BY <1>2 DEF GateInv
<1>4. PICK i \in 1 .. Len(line[T(c)]) : line[T(c)][i] = c
  BY <1>1 DEF Queued
<1>5. line[T(c)] \in Seq(Jobs) /\ Len(line[T(c)]) \in Nat
  BY <1>3 DEF LineOK
<1>6. i = 1
  BY <1>3, <1>4 DEF LineOK
<1>. QED BY <1>2, <1>4, <1>5, <1>6

\* At most one merge of a tab runs.
LEMMA OneMerge ==
  ASSUME GateInv, NEW c \in Jobs, NEW d \in Jobs, Merges(c), Merges(d), T(c) = T(d)
  PROVE  c = d
BY FirstInLine DEF Merges

\* A call that holds the queue, and one that is past its turn, does not wait.
LEMMA MergeMoves ==
  ASSUME GateInv, NEW c \in Jobs, job[c].merging # "no", job[c].at # "line"
  PROVE  Running(c) /\ ~Waiting(c)
<1>1. Place(c)
  BY DEF GateInv
<1>. QED BY <1>1 DEF Place, NoMerge, Running, Waiting, Immediate

\* Where a call waits for its turn, another one of its tab moves.
LEMMA LineMoves ==
  ASSUME GateInv, NEW c \in Jobs, job[c].at = "line"
  PROVE  \E d \in Jobs : Running(d) /\ ~Waiting(d)
<1>1. Place(c) /\ Queued(c)
  BY DEF GateInv
<1>2. T(c) \in Tabs /\ job[c].merging # "no"
  BY <1>1 DEF Place, InMerge, Running
<1>3. LineOK(T(c))
  BY <1>2 DEF GateInv
<1>4. PICK i \in 1 .. Len(line[T(c)]) : line[T(c)][i] = c
  BY <1>1, <1>2 DEF Queued
<1>. DEFINE h == line[T(c)][1]
<1>5. h \in Jobs /\ h = Head(line[T(c)]) /\ job[h].merging # "no" /\ T(h) = T(c)
  BY <1>3, <1>4 DEF LineOK
<1>6. CASE job[h].at = "line"
  BY <1>5, <1>6 DEF Running, Waiting
<1>7. CASE job[h].at # "line"
  BY <1>5, <1>7, MergeMoves
<1>. QED BY <1>6, <1>7

\* While there is a hold on the gate of a tab, the one that holds it moves, or waits
\* for the lock behind another tab.
LEMMA HolderMoves ==
  ASSUME GateInv, NEW t \in Tabs, holds[t] # 0
  PROVE  \/ \E d \in Jobs : Running(d) /\ ~Waiting(d)
         \/ \E d \in Jobs : T(d) = t /\ job[d].at = "lock"
<1>1. PassIn(t) \/ MergeIn(t)
  BY DEF GateInv, HoldsOK
<1>2. ASSUME NEW c \in Jobs, Merges(c) PROVE Running(c) /\ ~Waiting(c)
  BY <1>2, MergeMoves DEF Merges
<1>3. ASSUME NEW c \in Jobs, Passes(c), T(c) = t, job[c].at # "lock"
      PROVE  \E d \in Jobs : Running(d) /\ ~Waiting(d)
  <2>1. Place(c)
    BY DEF GateInv
  <2>2. CASE job[c].at = "line"
    BY <2>2, LineMoves
  <2>3. CASE job[c].at # "line"
    BY <1>3, <2>1, <2>3 DEF Passes, Waiting, Immediate, Place
  <2>. QED BY <2>2, <2>3
<1>. QED BY <1>1, <1>2, <1>3 DEF PassIn, MergeIn

\* Nobody waits in a circle.
LEMMA GateMoves == GateInv => SomeCallMoves
<1>. SUFFICES ASSUME GateInv, NEW c \in Jobs, Running(c)
              PROVE  \E d \in Jobs : Running(d) /\ ~Waiting(d)
  BY DEF SomeCallMoves
<1>1. Place(c) /\ T(c) \in Tabs
  BY DEF GateInv, Place
<1>2. ASSUME NEW d \in Jobs, Inside(d), Waiting(d)
      PROVE  \E e \in Jobs : Running(e) /\ ~Waiting(e)
  <2>1. Running(d) /\ T(d) \in Tabs
    BY <1>2 DEF Inside, Outside, Running, GateInv, Place
  <2>2. job[d].at = "line" \/ holds[T(d)] # 0
    BY <1>2 DEF Waiting, Inside, Outside
  <2>3. ASSUME NEW e \in Jobs, T(e) = T(d), job[e].at = "lock"
        PROVE  Running(e) /\ ~Waiting(e)
    BY <1>2, <2>3 DEF Waiting, Running, GateInv, OneTab
  <2>. QED BY <2>1, <2>2, <2>3, LineMoves, HolderMoves
<1>3. CASE \E d \in Jobs : Inside(d)
  <2>1. PICK d \in Jobs : Inside(d)
    BY <1>3
  <2>2. Running(d)
    BY <2>1 DEF Inside, Outside, Running
  <2>. QED BY <1>2, <2>1, <2>2
<1>4. CASE ~ \E d \in Jobs : Inside(d)
  <2>1. ASSUME NEW d \in Jobs, job[d].at = "lock" PROVE Running(d) /\ ~Waiting(d)
    BY <1>4, <2>1 DEF Running, Waiting
  <2>2. job[c].at \in {"gate", "lock"}
    BY <1>4 DEF Inside, Outside, Running
  <2>3. CASE job[c].at = "gate" /\ holds[T(c)] # 0
    BY <1>1, <2>1, <2>3, HolderMoves
  <2>4. CASE job[c].at = "gate" /\ holds[T(c)] = 0
    BY <2>4 DEF Waiting
  <2>. QED BY <2>1, <2>2, <2>3, <2>4
<1>. QED BY <1>3, <1>4

-----------------------------------------------------------------------------
(* What the steps of a call do to the gate, the lock and the queue         *)

\* Only call c moves.
Only(c) == /\ DOMAIN job' = Jobs /\ \A d \in Jobs : DOMAIN job'[d] = DOMAIN Idle
           /\ \A d \in Jobs \ {c} : job'[d] = job[d]

\* It is still the same call.
SameCall(c) == job'[c].tab = job[c].tab /\ job'[c].kind = job[c].kind

\* Setting fields of a call keeps its shape.
LEMMA OnlyOne ==
  ASSUME Shaped, NEW c \in Jobs, NEW r, DOMAIN r = DOMAIN Idle, job' = [job EXCEPT ![c] = r]
  PROVE  Only(c) /\ job'[c] = r
BY DEF Shaped, Only

\* What the other calls are stays.
LEMMA OthersStay ==
  ASSUME NEW c \in Jobs, Only(c), NEW d \in Jobs \ {c}
  PROVE  /\ Place(d)' = Place(d) /\ Passes(d)' = Passes(d) /\ Merges(d)' = Merges(d)
         /\ Inside(d)' = Inside(d) /\ T(d)' = T(d)
BY DEF Only, Place, Passes, Merges, Inside, T, Running

\* A step inside the lock that leaves the queue and the gate alone.
Within(c) ==
  /\ Only(c) /\ SameCall(c) /\ job'[c].merging = job[c].merging
  /\ job[c].at \notin {"idle", "gate", "lock", "done", "line", "looking"}
  /\ job'[c].at \notin {"idle", "gate", "lock", "done", "line", "looking"}
  /\ job'[c].at \in InMerge => job[c].merging # "no"
  /\ job'[c].at \in NoMerge => job[c].merging = "no"
  /\ job[c].merging = "adopt" => job[c].at # "fetch" /\ job'[c].at # "fetch"
  /\ UNCHANGED <<line, looking>>
  /\ DOMAIN holds' = Tabs /\ \A t \in Tabs : holds'[t] = holds[t]

\* Such a step keeps the invariant: it changes neither who is in the queue nor who
\* holds the gate.
LEMMA WithinGate ==
  ASSUME GateInv, NEW c \in Jobs, Within(c) PROVE GateInv'
<1>1. Place(c) /\ Only(c)
  BY DEF GateInv, Within
<1>2. /\ Place(c)' /\ Passes(c)' = Passes(c) /\ Merges(c)' = Merges(c) /\ T(c)' = T(c)
      /\ Inside(c)' /\ Inside(c)
  BY <1>1 DEF Within, SameCall, Place, Passes, Merges, T, Running, Inside, Outside
<1>3. ASSUME NEW d \in Jobs
      PROVE  /\ T(d)' = T(d) /\ Passes(d)' = Passes(d) /\ Merges(d)' = Merges(d)
             /\ Place(d)' /\ Inside(d)' = Inside(d) /\ job'[d].merging = job[d].merging
             /\ job[d].at \in {"line", "looking"} => job'[d].at = job[d].at
  <2>1. CASE d = c
    BY <1>2, <2>1 DEF Within
  <2>2. CASE d # c
    <3>1. Place(d) /\ job'[d] = job[d]
      BY <1>1, <2>2 DEF GateInv, Only
    <3>. QED BY <1>1, <2>2, <3>1, OthersStay
  <2>. QED BY <2>1, <2>2
<1>4. \A d \in Jobs : Queued(d)'
  BY <1>3 DEF Queued, GateInv, T, Within
<1>5. ASSUME NEW t \in Tabs PROVE LineOK(t)' /\ LookOK(t)' /\ HoldsOK(t)'
  <2>1. LineOK(t) /\ LookOK(t) /\ HoldsOK(t) /\ line' = line /\ looking' = looking
          /\ holds'[t] = holds[t]
    BY DEF GateInv, Within
  <2>2. line[t] \in Seq(Jobs) /\ \A i \in 1 .. Len(line[t]) : line[t][i] \in Jobs
    BY <2>1 DEF LineOK
  <2>3. LineOK(t)'
    BY <1>3, <2>1, <2>2 DEF LineOK, T
  <2>4. LookOK(t)'
    BY <1>3, <2>1 DEF LookOK, T
  <2>5. PassIn(t)' = PassIn(t) /\ MergeIn(t)' = MergeIn(t)
    BY <1>3 DEF PassIn, MergeIn
  <2>. QED BY <2>1, <2>3, <2>4, <2>5 DEF HoldsOK
<1>6. OneTab' /\ OnePass'
  BY <1>3 DEF OneTab, OnePass, GateInv
<1>7. Shaped'
  BY <1>1 DEF Shaped, Only, Within, GateInv
<1>. QED BY <1>3, <1>4, <1>5, <1>6, <1>7 DEF GateInv

\* The gate of a tab as call c finds it: whether another pass or merge holds it.
PassElse(c, t) == \E d \in Jobs \ {c} : Passes(d) /\ T(d) = t
MergeElse(c, t) == \E d \in Jobs \ {c} : Merges(d) /\ T(d) = t

\* A step of c changes what c holds only.
LEMMA GateStep ==
  ASSUME GateInv, NEW c \in Jobs, Only(c), NEW t \in Tabs
  PROVE  /\ PassIn(t) <=> PassElse(c, t) \/ (Passes(c) /\ T(c) = t)
         /\ PassIn(t)' <=> PassElse(c, t) \/ (Passes(c)' /\ T(c)' = t)
         /\ Passes(c) /\ T(c) = t => ~PassElse(c, t)
         /\ MergeIn(t) <=> MergeElse(c, t) \/ (Merges(c) /\ T(c) = t)
         /\ MergeIn(t)' <=> MergeElse(c, t) \/ (Merges(c)' /\ T(c)' = t)
         /\ Merges(c) /\ T(c) = t => ~MergeElse(c, t)
<1>1. \A d \in Jobs \ {c} : Passes(d)' = Passes(d) /\ Merges(d)' = Merges(d) /\ T(d)' = T(d)
  BY OthersStay
<1>2. /\ PassIn(t) <=> PassElse(c, t) \/ (Passes(c) /\ T(c) = t)
      /\ MergeIn(t) <=> MergeElse(c, t) \/ (Merges(c) /\ T(c) = t)
  BY DEF PassIn, PassElse, MergeIn, MergeElse
<1>3. PassIn(t)' <=> PassElse(c, t) \/ (Passes(c)' /\ T(c)' = t)
  BY <1>1 DEF PassIn, PassElse
<1>4. MergeIn(t)' <=> MergeElse(c, t) \/ (Merges(c)' /\ T(c)' = t)
  BY <1>1 DEF MergeIn, MergeElse
<1>5. Passes(c) /\ T(c) = t => ~PassElse(c, t)
  BY DEF PassElse, GateInv, OnePass
<1>6. Merges(c) /\ T(c) = t => ~MergeElse(c, t)
  BY OneMerge DEF MergeElse
<1>. QED BY <1>2, <1>3, <1>4, <1>5, <1>6

\* Where call c is in no queue, before and after, and nobody looks for it, the queues
\* and the reloads stay as they are.
LEMMA QueuesStay ==
  ASSUME GateInv, NEW c \in Jobs, Only(c), job[c].merging = "no", job'[c].merging = "no",
         job[c].at # "looking", UNCHANGED <<line, looking>>, NEW t \in Tabs
  PROVE  LineOK(t)' /\ LookOK(t)' /\ \A d \in Jobs : Queued(d)'
<1>1. LineOK(t) /\ LookOK(t) /\ \A d \in Jobs : Queued(d)
  BY DEF GateInv
<1>2. \A d \in Jobs \ {c} : job'[d] = job[d]
  BY DEF Only
<1>3. \A i \in 1 .. Len(line[t]) : line[t][i] \in Jobs \ {c}
  BY <1>1 DEF LineOK
<1>4. LineOK(t)'
  BY <1>1, <1>2, <1>3 DEF LineOK, T
<1>5. LookOK(t)'
  BY <1>1, <1>2 DEF LookOK, T
<1>6. \A d \in Jobs : Queued(d)'
  BY <1>1, <1>2 DEF Queued, T
<1>. QED BY <1>4, <1>5, <1>6

\* A call begins, a pass with a hold on the gate.
Begins(c, t, k) ==
  /\ Only(c) /\ job[c].at = "idle"
  /\ job'[c].tab = t /\ job'[c].kind = k /\ job'[c].merging = "no"
  /\ job'[c].at = (IF k = "push" THEN "gate" ELSE "lock")
  /\ k = "pass" => ~PassElse(c, t)
  /\ holds' = IF k = "pass" THEN [holds EXCEPT ![t] = @ + 1] ELSE holds
  /\ UNCHANGED <<line, looking>>

\* pushCurrent, refresh and resolve.
LEMMA BeginsGate ==
  ASSUME GateInv, NEW c \in Jobs, NEW t \in Tabs, NEW k, Begins(c, t, k) PROVE GateInv'
<1>1. Place(c) /\ Only(c) /\ Shaped
  BY DEF GateInv, Begins
<1>2. job[c].merging = "no" /\ ~Passes(c) /\ ~Merges(c) /\ ~Inside(c)
  BY <1>1 DEF Begins, Place, NoMerge, Passes, Merges, Running, Inside, Outside
<1>3. /\ Place(c)' /\ T(c)' = t /\ ~Merges(c)' /\ ~Inside(c)' /\ (Passes(c)' <=> k = "pass")
  BY DEF Begins, Place, NoMerge, InMerge, T, Running, Merges, Inside, Outside, Passes
<1>4. Shaped'
  BY <1>1 DEF Shaped, Only, Begins
<1>5. \A s \in Tabs : LineOK(s)' /\ LookOK(s)'
  BY <1>1, <1>2, QueuesStay DEF Begins
<1>6. \A d \in Jobs : Queued(d)'
  BY <1>1, <1>2, QueuesStay DEF Begins
<1>7. ASSUME NEW s \in Tabs PROVE HoldsOK(s)'
  <2>1. holds'[s] = IF k = "pass" /\ s = t THEN holds[s] + 1 ELSE holds[s]
    BY <1>1 DEF Begins, Shaped
  <2>2. /\ PassIn(s)' <=> PassIn(s) \/ (k = "pass" /\ t = s)
        /\ MergeIn(s)' <=> MergeIn(s)
        /\ k = "pass" /\ t = s => ~PassIn(s)
    BY <1>1, <1>2, <1>3, GateStep DEF Begins
  <2>. QED BY <2>1, <2>2 DEF GateInv, HoldsOK
<1>8. ASSUME NEW d \in Jobs \ {c}
      PROVE  Place(d)' /\ Passes(d)' = Passes(d) /\ Inside(d)' = Inside(d) /\ T(d)' = T(d)
  <2>1. Place(d)
    BY DEF GateInv
  <2>. QED BY <1>1, <2>1, OthersStay
<1>9. OneTab'
  BY <1>3, <1>8 DEF GateInv, OneTab
<1>10. OnePass'
  <2>1. ASSUME NEW d \in Jobs \ {c}, Passes(c)', Passes(d)', T(c)' = T(d)' PROVE FALSE
    BY <1>3, <1>8, <2>1 DEF Begins, PassElse
  <2>. QED BY <1>8, <2>1 DEF OnePass, GateInv
<1>. QED BY <1>3, <1>4, <1>5, <1>6, <1>7, <1>8, <1>9, <1>10 DEF GateInv

\* A call that is in no queue returns; a pass takes its hold off.
Returns(c) ==
  /\ Only(c) /\ job'[c] = Ended
  /\ Inside(c) /\ job[c].merging = "no" /\ job[c].at # "looking"
  /\ holds' = [holds EXCEPT ![T(c)] = IF job[c].kind = "pass" THEN @ - 1 ELSE @]
  /\ UNCHANGED <<line, looking>>

\* What is over holds nothing.
LEMMA EndedFree ==
  Ended.at = "done" /\ Ended.merging = "no" /\ Ended.kind = "push" /\ DOMAIN Ended = DOMAIN Idle
BY DEF Ended, Idle

\* The call is over.
LEMMA ReturnsGate ==
  ASSUME GateInv, NEW c \in Jobs, Returns(c) PROVE GateInv'
<1>1. Place(c) /\ Only(c) /\ Shaped
  BY DEF GateInv, Returns
<1>2. T(c) \in Tabs /\ ~Merges(c) /\ (Passes(c) <=> job[c].kind = "pass")
  BY <1>1 DEF Returns, Place, Passes, Merges, Running, Inside, Outside
<1>3. Place(c)' /\ ~Merges(c)' /\ ~Inside(c)' /\ ~Passes(c)' /\ job'[c].merging = "no"
  BY EndedFree DEF Returns, Place, NoMerge, InMerge, Running, Merges, Inside, Outside, Passes
<1>4. Shaped'
  BY <1>1 DEF Shaped, Only, Returns
<1>5. (\A s \in Tabs : LineOK(s)' /\ LookOK(s)') /\ \A d \in Jobs : Queued(d)'
  BY <1>1, <1>2, <1>3, QueuesStay DEF Returns
<1>6. ASSUME NEW s \in Tabs PROVE HoldsOK(s)'
  <2>1. holds'[s] = IF Passes(c) /\ T(c) = s THEN holds[s] - 1 ELSE holds[s]
    BY <1>1, <1>2 DEF Returns, Shaped
  <2>2. /\ PassIn(s) <=> PassIn(s)' \/ (Passes(c) /\ T(c) = s)
        /\ MergeIn(s)' <=> MergeIn(s)
        /\ Passes(c) /\ T(c) = s => ~PassIn(s)'
    BY <1>1, <1>2, <1>3, GateStep
  <2>3. HoldsOK(s)
    BY DEF GateInv
  <2>. QED BY <2>1, <2>2, <2>3 DEF HoldsOK
<1>7. ASSUME NEW d \in Jobs \ {c}
      PROVE  Place(d)' /\ Passes(d)' = Passes(d) /\ Inside(d)' = Inside(d) /\ T(d)' = T(d)
  <2>1. Place(d)
    BY DEF GateInv
  <2>. QED BY <1>1, <2>1, OthersStay
<1>8. OneTab' /\ OnePass'
  BY <1>3, <1>7 DEF GateInv, OneTab, OnePass
<1>. QED BY <1>3, <1>4, <1>5, <1>6, <1>7, <1>8 DEF GateInv

\* A call gets through the gate or into the lock.
Advances(c) ==
  /\ Only(c) /\ SameCall(c) /\ job[c].merging = "no" /\ job'[c].merging = "no"
  /\ job[c].at \in {"gate", "lock"} /\ job'[c].at \in {"lock", "snapshot", "look"}
  /\ job'[c].at # "lock" => \A d \in Jobs : Inside(d) => T(d) = T(c)
  /\ UNCHANGED <<line, holds, looking>>

\* The lock is taken only where no other tab is inside.
LEMMA AdvancesGate ==
  ASSUME GateInv, NEW c \in Jobs, Advances(c) PROVE GateInv'
<1>1. Place(c) /\ Only(c) /\ Shaped
  BY DEF GateInv, Advances
<1>2. /\ Place(c)' /\ T(c)' = T(c) /\ ~Merges(c)' /\ ~Merges(c) /\ Passes(c)' = Passes(c)
      /\ T(c) \in Tabs
      /\ Inside(c)' => \A d \in Jobs : Inside(d) => T(d) = T(c)
  BY <1>1 DEF Advances, SameCall, Place, NoMerge, InMerge, Running, Merges, Inside, Outside,
              Passes, T
<1>3. Shaped'
  BY <1>1 DEF Shaped, Only, Advances
<1>4. (\A s \in Tabs : LineOK(s)' /\ LookOK(s)') /\ \A d \in Jobs : Queued(d)'
  BY <1>1, <1>2, QueuesStay DEF Advances
<1>5. ASSUME NEW s \in Tabs PROVE HoldsOK(s)'
  <2>1. (PassIn(s)' <=> PassIn(s)) /\ (MergeIn(s)' <=> MergeIn(s))
    BY <1>1, <1>2, GateStep
  <2>. QED BY <2>1 DEF HoldsOK, GateInv, Advances
<1>6. ASSUME NEW d \in Jobs \ {c}
      PROVE  Place(d)' /\ Passes(d)' = Passes(d) /\ Inside(d)' = Inside(d) /\ T(d)' = T(d)
  <2>1. Place(d)
    BY DEF GateInv
  <2>. QED BY <1>1, <2>1, OthersStay
<1>7. OneTab' /\ OnePass'
  BY <1>2, <1>6 DEF GateInv, OneTab, OnePass
<1>. QED BY <1>2, <1>3, <1>4, <1>5, <1>6, <1>7 DEF GateInv

\* A call joins the queue of its tab, behind the merges that are there.
LinesUp(c) ==
  /\ Only(c) /\ SameCall(c) /\ job[c].merging = "no"
  /\ job'[c].at = "line" /\ job'[c].merging \in {"merge", "adopt"}
  /\ job[c].at \notin {"idle", "gate", "done", "looking"}
  /\ \A d \in Jobs : Inside(d) => T(d) = T(c)
  /\ line' = [line EXCEPT ![T(c)] = Append(@, c)]
  /\ UNCHANGED <<holds, looking>>

\* _exclusive: nobody is in the queue twice.
LEMMA LinesUpGate ==
  ASSUME GateInv, NEW c \in Jobs, LinesUp(c) PROVE GateInv'
<1>1. Place(c) /\ Only(c) /\ Shaped
  BY DEF GateInv, LinesUp
<1>2. /\ T(c)' = T(c) /\ ~Merges(c) /\ T(c) \in Tabs /\ Passes(c)' = Passes(c)
      /\ \A d \in Jobs : Inside(d) => T(d) = T(c)
  BY <1>1 DEF LinesUp, SameCall, Place, Merges, Running, Passes, T
<1>3. Place(c)' /\ ~Merges(c)'
  BY <1>1 DEF LinesUp, SameCall, Place, NoMerge, InMerge, Running, Merges, T
<1>4. Shaped'
  BY <1>1 DEF Shaped, Only, LinesUp
<1>5. ASSUME NEW d \in Jobs \ {c}
      PROVE  Place(d)' /\ Passes(d)' = Passes(d) /\ Inside(d)' = Inside(d) /\ T(d)' = T(d)
  <2>1. Place(d)
    BY DEF GateInv
  <2>. QED BY <1>1, <2>1, OthersStay
<1>6. OneTab' /\ OnePass'
  BY <1>2, <1>5 DEF GateInv, OneTab, OnePass
<1>7. ASSUME NEW s \in Tabs PROVE HoldsOK(s)'
  <2>1. (PassIn(s)' <=> PassIn(s)) /\ (MergeIn(s)' <=> MergeIn(s))
    BY <1>1, <1>2, <1>3, GateStep
  <2>. QED BY <2>1 DEF HoldsOK, GateInv, LinesUp
<1>8. ASSUME NEW s \in Tabs PROVE LookOK(s)'
  <2>1. LookOK(s) /\ looking' = looking
    BY DEF GateInv, LinesUp
  <2>2. looking[s].by # 0 => looking[s].by \in Jobs \ {c}
    BY <2>1 DEF LookOK, LinesUp
  <2>. QED BY <1>1, <2>1, <2>2 DEF LookOK, Only, T
<1>9. ASSUME NEW s \in Tabs
      PROVE  LineOK(s) /\ line[s] \in Seq(Jobs) /\ \A i \in 1 .. Len(line[s]) : line[s][i] \in Jobs \ {c}
  <2>1. LineOK(s)
    BY DEF GateInv
  <2>. QED BY <2>1 DEF LineOK, LinesUp
<1>10. ASSUME NEW s \in Tabs, s # T(c) PROVE LineOK(s)'
  <2>1. line'[s] = line[s]
    BY <1>1, <1>10 DEF LinesUp, Shaped
  <2>. QED BY <1>1, <1>9, <2>1 DEF LineOK, Only, T
<1>. PICK t \in Tabs : t = T(c)
  BY <1>2
<1>. DEFINE q == line[t]  n == Len(line[t])
<1>11. /\ n \in Nat /\ line'[t] = Append(q, c) /\ Append(q, c) \in Seq(Jobs)
       /\ Len(Append(q, c)) = n + 1 /\ Append(q, c)[n + 1] = c
       /\ \A i \in 1 .. n : Append(q, c)[i] = q[i]
  <2>1. line'[t] = Append(q, c)
    BY <1>1, <1>2 DEF LinesUp, Shaped
  <2>2. q \in Seq(Jobs)
    BY <1>2, <1>9
  <2>. QED BY <2>1, <2>2
<1>12. LineOK(t)'
  <2>1. \A i \in 1 .. (n + 1) : i \in 1 .. n \/ i = n + 1
    BY <1>11
  <2>2. \A i \in 1 .. n : q[i] \in Jobs \ {c} /\ job'[q[i]] = job[q[i]]
    BY <1>1, <1>2, <1>9 DEF Only
  <2>3. LineOK(t)
    BY <1>9
  <2>4. \A i, j \in 1 .. (n + 1) : Append(q, c)[i] = Append(q, c)[j] => i = j
    BY <1>11, <2>1, <2>2, <2>3 DEF LineOK
  <2>5. ASSUME NEW i \in 1 .. n
        PROVE  /\ job'[q[i]].merging # "no" /\ job'[q[i]].tab = t
               /\ i # 1 => job'[q[i]].at = "line"
    BY <2>2, <2>3 DEF LineOK, T
  <2>6. job'[c].merging # "no" /\ job'[c].tab = t /\ job'[c].at = "line"
    BY DEF LinesUp, SameCall, T
  <2>7. \A i \in 1 .. (n + 1) :
          /\ job'[Append(q, c)[i]].merging # "no" /\ job'[Append(q, c)[i]].tab = t
          /\ i # 1 => job'[Append(q, c)[i]].at = "line"
    BY <1>11, <2>1, <2>5, <2>6
  <2>. HIDE DEF q, n
  <2>. QED BY <1>2, <1>11, <2>4, <2>7 DEF LineOK, T
<1>13. ASSUME NEW d \in Jobs PROVE Queued(d)'
  <2>1. CASE d = c
    BY <1>2, <1>11, <2>1 DEF Queued
  <2>2. CASE d # c
    <3>1. Queued(d) /\ job'[d] = job[d] /\ T(d)' = T(d) /\ Place(d)
      BY <1>1, <1>5, <2>2 DEF GateInv, Only
    <3>2. CASE job[d].merging # "no"
      <4>1. T(d) \in Tabs
        BY <3>1, <3>2 DEF Place, NoMerge, Running
      <4>2. PICK i \in 1 .. Len(line[T(d)]) : line[T(d)][i] = d
        BY <3>1, <3>2 DEF Queued
      <4>3. CASE T(d) = T(c)
        <5>1. i \in 1 .. (n + 1) /\ Append(q, c)[i] = d
          BY <1>11, <4>2, <4>3
        <5>2. T(d)' = t /\ Len(line'[t]) = n + 1 /\ line'[t][i] = d
          BY <1>11, <3>1, <4>3, <5>1
        <5>. QED BY <5>1, <5>2 DEF Queued
      <4>4. CASE T(d) # T(c)
        <5>1. line'[T(d)] = line[T(d)]
          BY <1>1, <4>1, <4>4 DEF LinesUp, Shaped
        <5>. QED BY <3>1, <4>2, <5>1 DEF Queued
      <4>. QED BY <4>3, <4>4
    <3>. QED BY <3>1, <3>2 DEF Queued
  <2>. QED BY <2>1, <2>2
<1>. QED BY <1>3, <1>4, <1>5, <1>6, <1>7, <1>8, <1>10, <1>12, <1>13 DEF GateInv

\* The first of a queue leaves it, with the hold of its merge and, if it is a pass,
\* its own.
Leaves(c) ==
  /\ Only(c) /\ job'[c] = Ended
  /\ job[c].merging # "no" /\ job[c].at \notin {"line", "looking"}
  /\ holds' = [holds EXCEPT ![T(c)] = @ - (IF Passes(c) THEN 1 ELSE 0)
                                        - (IF Merges(c) THEN 1 ELSE 0)]
  /\ line' = [line EXCEPT ![T(c)] = Tail(@)]
  /\ UNCHANGED looking

\* The gate opens and the queue moves on.
LEMMA LeavesGate ==
  ASSUME GateInv, NEW c \in Jobs, Leaves(c) PROVE GateInv'
<1>1. Place(c) /\ Only(c) /\ Shaped
  BY DEF GateInv, Leaves
<1>. PICK t \in Tabs : t = T(c)
  BY FirstInLine DEF Leaves
<1>. DEFINE q == line[t]  n == Len(line[t])
<1>2. q \in Seq(Jobs) /\ n \in Nat /\ n > 0 /\ q[1] = c
  BY FirstInLine DEF Leaves
<1>3. Place(c)' /\ ~Merges(c)' /\ ~Inside(c)' /\ ~Passes(c)' /\ job'[c].merging = "no"
  BY EndedFree DEF Leaves, Place, NoMerge, InMerge, Running, Merges, Inside, Outside, Passes
<1>4. Shaped'
  BY <1>1 DEF Shaped, Only, Leaves
<1>5. ASSUME NEW d \in Jobs \ {c}
      PROVE  Place(d)' /\ Passes(d)' = Passes(d) /\ Inside(d)' = Inside(d) /\ T(d)' = T(d)
  <2>1. Place(d)
    BY DEF GateInv
  <2>. QED BY <1>1, <2>1, OthersStay
<1>6. OneTab' /\ OnePass'
  BY <1>3, <1>5 DEF GateInv, OneTab, OnePass
<1>7. ASSUME NEW s \in Tabs PROVE HoldsOK(s)'
  <2>. DEFINE x == IF PassIn(s) THEN 1 ELSE 0  y == IF MergeIn(s) THEN 1 ELSE 0
  <2>1. CASE T(c) # s
    <3>1. holds'[s] = holds[s]
      BY <1>1, <2>1 DEF Leaves, Shaped
    <3>2. (PassIn(s)' <=> PassIn(s)) /\ (MergeIn(s)' <=> MergeIn(s))
      BY <1>1, <1>3, <2>1, GateStep
    <3>. QED BY <3>1, <3>2 DEF HoldsOK, GateInv
  <2>2. CASE T(c) = s
    <3>1. /\ holds'[s] = holds[s] - (IF Passes(c) THEN 1 ELSE 0) - (IF Merges(c) THEN 1 ELSE 0)
          /\ HoldsOK(s)
      BY <1>1, <2>2 DEF Leaves, Shaped, GateInv
    <3>2. /\ PassIn(s) <=> PassIn(s)' \/ Passes(c)
          /\ MergeIn(s) <=> MergeIn(s)' \/ Merges(c)
          /\ Passes(c) => ~PassIn(s)'
          /\ Merges(c) => ~MergeIn(s)'
      BY <1>1, <1>3, <2>2, GateStep
    <3>. QED BY <3>1, <3>2 DEF HoldsOK
  <2>. QED BY <2>1, <2>2
<1>8. ASSUME NEW s \in Tabs PROVE LookOK(s)'
  <2>1. LookOK(s) /\ looking' = looking
    BY DEF GateInv, Leaves
  <2>2. looking[s].by # 0 => looking[s].by \in Jobs \ {c}
    BY <2>1 DEF LookOK, Leaves
  <2>. QED BY <1>1, <2>1, <2>2 DEF LookOK, Only, T
<1>9. ASSUME NEW s \in Tabs, s # t PROVE LineOK(s)' /\ line'[s] = line[s]
  <2>1. line'[s] = line[s] /\ LineOK(s)
    BY <1>1, <1>9 DEF Leaves, Shaped, GateInv
  <2>2. \A i \in 1 .. Len(line[s]) : line[s][i] \in Jobs \ {c}
    BY <1>9, <2>1 DEF LineOK
  <2>. QED BY <1>1, <2>1, <2>2 DEF LineOK, Only, T
<1>10. /\ line'[t] = Tail(q) /\ Tail(q) \in Seq(Jobs) /\ Len(Tail(q)) = n - 1
       /\ \A i \in 1 .. (n - 1) : Tail(q)[i] = q[i + 1] /\ i + 1 \in 1 .. n /\ i + 1 # 1
  <2>1. line'[t] = Tail(q)
    BY <1>1, <1>2 DEF Leaves, Shaped
  <2>2. q # << >>
    BY <1>2
  <2>. QED BY <1>2, <2>1, <2>2
<1>11. LineOK(t)
  BY DEF GateInv
<1>12. \A i \in 2 .. n : q[i] \in Jobs \ {c} /\ job'[q[i]] = job[q[i]]
  <2>1. \A i \in 2 .. n : q[i] \in Jobs /\ q[i] # c
    BY <1>2, <1>11 DEF LineOK
  <2>. QED BY <1>1, <2>1 DEF Only
<1>13. LineOK(t)'
  <2>1. \A i, j \in 1 .. (n - 1) : Tail(q)[i] = Tail(q)[j] => i = j
    BY <1>2, <1>10, <1>11 DEF LineOK
  <2>2. \A i \in 1 .. (n - 1) :
          /\ job'[Tail(q)[i]].merging # "no" /\ job'[Tail(q)[i]].tab = t
          /\ job'[Tail(q)[i]].at = "line"
    <3>1. ASSUME NEW i \in 1 .. (n - 1)
          PROVE  i + 1 \in 2 .. n
      BY <1>2, <3>1
    <3>. QED BY <1>2, <1>10, <1>11, <1>12, <3>1 DEF LineOK, T
  <2>3. line'[t] \in Seq(Jobs) /\ Len(line'[t]) = n - 1 /\ line'[t] = Tail(q)
    BY <1>10
  <2>. HIDE DEF q, n
  <2>4. \A i, j \in 1 .. Len(line'[t]) : line'[t][i] = line'[t][j] => i = j
    BY <2>1, <2>3
  <2>5. \A i \in 1 .. Len(line'[t]) :
          /\ job'[line'[t][i]].merging # "no" /\ job'[line'[t][i]].tab = t
          /\ job'[line'[t][i]].at = "line"
    BY <2>2, <2>3
  <2>. QED BY <2>3, <2>4, <2>5 DEF LineOK, T
<1>14. ASSUME NEW d \in Jobs PROVE Queued(d)'
  <2>1. CASE d = c
    BY <1>3, <2>1 DEF Queued
  <2>2. CASE d # c
    <3>1. Queued(d) /\ job'[d] = job[d] /\ T(d)' = T(d) /\ Place(d)
      BY <1>1, <1>5, <2>2 DEF GateInv, Only
    <3>2. CASE job[d].merging # "no"
      <4>1. T(d) \in Tabs
        BY <3>1, <3>2 DEF Place, NoMerge, Running
      <4>2. PICK i \in 1 .. Len(line[T(d)]) : line[T(d)][i] = d
        BY <3>1, <3>2 DEF Queued
      <4>3. CASE T(d) = T(c)
        <5>1. i # 1 /\ i - 1 \in 1 .. (n - 1) /\ Tail(q)[i - 1] = d
          BY <1>2, <1>10, <2>2, <4>2, <4>3
        <5>. QED BY <1>10, <3>1, <4>3, <5>1 DEF Queued
      <4>4. CASE T(d) # T(c)
        BY <1>9, <3>1, <4>1, <4>2, <4>4 DEF Queued
      <4>. QED BY <4>3, <4>4
    <3>. QED BY <3>1, <3>2 DEF Queued
  <2>. QED BY <2>1, <2>2
<1>. QED BY <1>3, <1>4, <1>5, <1>6, <1>7, <1>8, <1>9, <1>13, <1>14 DEF GateInv

\* The first of a queue, or a pass that is in none, moves on and may take the gate.
Turns(c) ==
  /\ Only(c) /\ SameCall(c) /\ job'[c].merging = job[c].merging
  /\ Inside(c) /\ Inside(c)' /\ job'[c].at # "line"
  /\ job[c].at = "line" => Head(line[T(c)]) = c
  /\ job'[c].at \in InMerge => job[c].merging # "no"
  /\ job'[c].at \in NoMerge => job[c].merging = "no"
  /\ ~Merges(c)
  /\ holds' = IF Merges(c)' THEN [holds EXCEPT ![T(c)] = @ + 1] ELSE holds
  /\ line' = line /\ DOMAIN looking' = Tabs

\* Taking one's turn: nobody else of the tab has the gate for a merge.
LEMMA TurnsGate ==
  ASSUME GateInv, NEW c \in Jobs, Turns(c), \A s \in Tabs : LookOK(s)' PROVE GateInv'
<1>1. Place(c) /\ Only(c) /\ Shaped
  BY DEF GateInv, Turns
<1>2. Inside(c)' = Inside(c) /\ Inside(c) /\ T(c)' = T(c) /\ Passes(c)' = Passes(c)
        /\ T(c) \in Tabs
  BY <1>1 DEF Turns, SameCall, T, Inside, Outside, Passes, Running, Place
<1>3. Place(c)'
  BY <1>1, <1>2 DEF Turns, SameCall, Place, Running, Inside, Outside, T
<1>4. Shaped'
  BY <1>1, <1>2 DEF Turns, Shaped, Only
<1>5. ASSUME NEW d \in Jobs \ {c}
      PROVE  Place(d)' /\ Passes(d)' = Passes(d) /\ Inside(d)' = Inside(d) /\ T(d)' = T(d)
  <2>1. Place(d)
    BY DEF GateInv
  <2>. QED BY <1>1, <2>1, OthersStay
<1>6. OneTab' /\ OnePass'
  BY <1>2, <1>5 DEF GateInv, OneTab, OnePass
<1>7. job[c].merging # "no" => line[T(c)] \in Seq(Jobs) /\ line[T(c)][1] = c /\ Len(line[T(c)]) > 0
  <2>1. CASE job[c].at # "line"
    BY <2>1, FirstInLine
  <2>2. CASE job[c].at = "line"
    <3>1. LineOK(T(c)) /\ Queued(c)
      BY <1>2 DEF GateInv
    <3>2. job[c].merging # "no" => Len(line[T(c)]) > 0 /\ line[T(c)] # << >>
      BY <3>1 DEF LineOK, Queued
    <3>. QED BY <2>2, <3>1, <3>2 DEF LineOK, Turns
  <2>. QED BY <2>1, <2>2
<1>8. ASSUME NEW s \in Tabs PROVE LineOK(s)'
  <2>1. LineOK(s) /\ line'[s] = line[s]
    BY DEF GateInv, Turns
  <2>2. line[s] \in Seq(Jobs) /\ \A i \in 1 .. Len(line[s]) : line[s][i] \in Jobs
    BY <2>1 DEF LineOK
  <2>3. ASSUME NEW i \in 1 .. Len(line[s]), line[s][i] = c PROVE i = 1
    <3>1. job[c].merging # "no" /\ T(c) = s
      BY <2>1, <2>3 DEF LineOK
    <3>2. 1 \in 1 .. Len(line[s]) /\ line[s][1] = c
      BY <1>7, <2>2, <3>1
    <3>. QED BY <2>1, <2>3, <3>2 DEF LineOK
  <2>4. ASSUME NEW i \in 1 .. Len(line[s])
        PROVE  /\ job'[line[s][i]].merging # "no" /\ job'[line[s][i]].tab = s
               /\ i # 1 => job'[line[s][i]].at = "line"
    <3>1. /\ job[line[s][i]].merging # "no" /\ job[line[s][i]].tab = s
          /\ i # 1 => job[line[s][i]].at = "line"
      BY <2>1 DEF LineOK, T
    <3>2. CASE line[s][i] = c
      BY <2>3, <3>1, <3>2 DEF Turns, SameCall
    <3>3. CASE line[s][i] # c
      BY <1>1, <2>2, <3>1, <3>3 DEF Only
    <3>. QED BY <3>2, <3>3
  <2>. QED BY <2>1, <2>4 DEF LineOK, T
<1>9. ASSUME NEW d \in Jobs PROVE Queued(d)'
  <2>1. Queued(d) /\ T(d)' = T(d) /\ line' = line /\ job'[d].merging = job[d].merging
    BY <1>1, <1>2, <1>5 DEF GateInv, Turns, Only
  <2>. QED BY <2>1 DEF Queued
<1>10. Merges(c)' => ~MergeElse(c, T(c))
  <2>1. ASSUME Merges(c)', NEW d \in Jobs \ {c}, Merges(d), T(d) = T(c) PROVE FALSE
    <3>1. job[c].merging # "no"
      BY <2>1 DEF Merges, Turns
    <3>2. line[T(d)][1] = d
      BY <2>1, FirstInLine DEF Merges
    <3>. QED BY <1>7, <2>1, <3>1, <3>2
  <2>. QED BY <2>1 DEF MergeElse
<1>11. ASSUME NEW s \in Tabs PROVE HoldsOK(s)'
  <2>1. holds'[s] = IF Merges(c)' /\ T(c) = s THEN holds[s] + 1 ELSE holds[s]
    BY <1>1, <1>2 DEF Turns, Shaped
  <2>2. /\ PassIn(s)' <=> PassIn(s)
        /\ MergeIn(s)' <=> MergeIn(s) \/ (Merges(c)' /\ T(c) = s)
        /\ Merges(c)' /\ T(c) = s => ~MergeIn(s)
    BY <1>1, <1>2, <1>10, GateStep DEF Turns
  <2>3. HoldsOK(s)
    BY DEF GateInv
  <2>. QED BY <2>1, <2>2, <2>3 DEF HoldsOK
<1>. QED BY <1>3, <1>4, <1>5, <1>6, <1>8, <1>9, <1>11 DEF GateInv

-----------------------------------------------------------------------------
(* The steps                                                               *)

\* The fields of a call.
LEMMA JobFields ==
  /\ {"tab", "kind", "at", "merging", "files", "first", "written", "base", "theirs",
      "rev", "gen", "guarded", "pushed", "tries", "failed"} = DOMAIN Idle
  /\ Idle.merging = "no"
BY DEF Idle

\* A push, from its snapshot to the answer: it stays inside the lock.
LEMMA PushWithin ==
  ASSUME GateInv, NEW c \in Jobs,
         \/ Snapshot(c) \/ ReadMark(c) \/ Serve(c) \/ (job[c].at = "check" /\ Check(c) /\ MaySend(c))
  PROVE  Within(c)
<1>. Shaped /\ Place(c) /\ DOMAIN job[c] = DOMAIN Idle
  BY DEF GateInv, Shaped
<1>1. CASE Snapshot(c)
  <2>1. /\ Only(c) /\ SameCall(c) /\ job'[c].merging = job[c].merging /\ job'[c].at = "mark"
    BY <1>1, JobFields DEF Snapshot, Only, SameCall, Shaped
  <2>. QED BY <1>1, <2>1 DEF Snapshot, Shaped, Within, gateVars, Place, NoMerge, InMerge
<1>2. CASE ReadMark(c)
  <2>1. /\ Only(c) /\ SameCall(c) /\ job'[c].merging = job[c].merging /\ job'[c].at = "check"
    BY <1>2, JobFields DEF ReadMark, Only, SameCall, Shaped
  <2>. QED BY <1>2, <2>1 DEF ReadMark, Shaped, Within, gateVars, Place, NoMerge, InMerge
<1>3. CASE Serve(c)
  <2>1. /\ Only(c) /\ SameCall(c) /\ job'[c].merging = job[c].merging
        /\ job'[c].at \in {"accepted", "missed"}
    BY <1>3, JobFields DEF Serve, To, Only, SameCall, Shaped
  <2>. QED BY <1>3, <2>1 DEF Serve, Shaped, Within, gateVars, Place, NoMerge, InMerge
<1>4. CASE job[c].at = "check" /\ Check(c) /\ MaySend(c)
  <2>1. /\ Only(c) /\ SameCall(c) /\ job'[c].merging = job[c].merging /\ job'[c].at = "sent"
    BY <1>4, JobFields DEF Check, To, Only, SameCall, Shaped
  <2>. QED BY <1>4, <2>1 DEF Check, Shaped, Within, Place, NoMerge, InMerge
<1>. QED BY <1>1, <1>2, <1>3, <1>4

\* Where a push ends, it returns to its merge or to its caller.
LEMMA EndsGate ==
  ASSUME GateInv, NEW c \in Jobs, NEW q, PushEnds(c, q), UNCHANGED <<line, looking>>,
         job[c].at \in {"check", "sent", "accepted"}
  PROVE  GateInv'
<1>. Shaped /\ Place(c) /\ DOMAIN job[c] = DOMAIN Idle
  BY DEF GateInv, Shaped
<1>1. CASE job[c].merging = "no"
  <2>1. job' = [job EXCEPT ![c] = Ended]
          /\ holds' = [holds EXCEPT ![T(c)] = IF job[c].kind = "pass" THEN @ - 1 ELSE @]
    BY <1>1 DEF PushEnds, Return
  <2>2. Only(c) /\ job'[c] = Ended
    BY <2>1, OnlyOne, EndedFree
  <2>3. Returns(c)
    BY <1>1, <2>1, <2>2 DEF Returns, Inside, Outside
  <2>. QED BY <2>3, ReturnsGate
<1>2. CASE job[c].merging # "no"
  <2>1. job' = [job EXCEPT ![c].at = "level"] /\ UNCHANGED holds
    BY <1>2 DEF PushEnds
  <2>2. Only(c) /\ SameCall(c) /\ job'[c].merging = job[c].merging /\ job'[c].at = "level"
    BY <2>1, JobFields DEF Only, SameCall, Shaped
  <2>3. Within(c)
    BY <1>2, <2>1, <2>2 DEF Within, NoMerge, InMerge, Shaped
  <2>. QED BY <2>3, WithinGate
<1>. QED BY <1>1, <1>2

\* A call that is inside the lock joins the queue.
LEMMA LineUpGate ==
  ASSUME GateInv, NEW c \in Jobs, NEW r, job' = [job EXCEPT ![c] = r], DOMAIN r = DOMAIN Idle,
         r.tab = job[c].tab, r.kind = job[c].kind, r.at = "line", r.merging \in {"merge", "adopt"},
         job[c].merging = "no", job[c].at \notin {"idle", "gate", "done", "looking"},
         \A d \in Jobs : Inside(d) => T(d) = T(c),
         line' = [line EXCEPT ![T(c)] = Append(@, c)], UNCHANGED <<holds, looking>>
  PROVE  GateInv'
<1>1. Only(c) /\ job'[c] = r
  BY OnlyOne DEF GateInv
<1>2. LinesUp(c)
  BY <1>1 DEF LinesUp, SameCall
<1>. QED BY <1>2, LinesUpGate

\* The push of a call.
LEMMA PushGate ==
  ASSUME GateInv, NEW c \in Jobs,
         \/ Snapshot(c) \/ ReadMark(c) \/ Check(c) \/ Serve(c) \/ ServeFails(c)
         \/ Accepted(c) \/ Missed(c)
  PROVE  GateInv'
<1>. Shaped /\ Place(c) /\ DOMAIN job[c] = DOMAIN Idle
  BY DEF GateInv, Shaped
<1>1. CASE Snapshot(c) \/ ReadMark(c) \/ Serve(c) \/ (Check(c) /\ MaySend(c))
  BY <1>1, PushWithin, WithinGate DEF Check
<1>2. CASE Check(c) /\ ~MaySend(c)
  BY <1>2, EndsGate DEF Check
<1>3. CASE ServeFails(c)
  BY <1>3, EndsGate DEF ServeFails
<1>4. CASE Accepted(c)
  BY <1>4, EndsGate DEF Accepted
<1>5. CASE Missed(c)
  <2>1. CASE /\ job[c].merging = "no" /\ line' = [line EXCEPT ![T(c)] = Append(@, c)]
             /\ job' = [job EXCEPT ![c].at = "line", ![c].merging = "merge", ![c].pushed = TRUE]
             /\ UNCHANGED <<question, holds>>
    <3>. DEFINE r == [job[c] EXCEPT !.at = "line", !.merging = "merge", !.pushed = TRUE]
    <3>1. job' = [job EXCEPT ![c] = r]
      BY <2>1
    <3>2. /\ DOMAIN r = DOMAIN Idle /\ r.tab = job[c].tab /\ r.kind = job[c].kind
          /\ r.at = "line" /\ r.merging = "merge"
      BY JobFields
    <3>3. job[c].at = "missed" /\ Inside(c) /\ looking' = looking
      BY <1>5 DEF Missed, Inside, Outside
    <3>4. \A d \in Jobs : Inside(d) => T(d) = T(c)
      BY <3>3 DEF GateInv, OneTab
    <3>. HIDE DEF r
    <3>. QED BY <2>1, <3>1, <3>2, <3>3, <3>4, LineUpGate
  <2>2. CASE /\ job[c].merging = "merge" /\ UNCHANGED <<holds, line>>
             /\ \/ job' = [job EXCEPT ![c].at = "fetch", ![c].tries = @ + 1]
                \/ job' = [job EXCEPT ![c].at = "level"]
    <3>1. /\ Only(c) /\ SameCall(c) /\ job'[c].merging = job[c].merging
          /\ job'[c].at \in {"fetch", "level"}
      BY <2>2, JobFields DEF Only, SameCall, Shaped
    <3>2. Within(c)
      BY <1>5, <2>2, <3>1 DEF Missed, Within, NoMerge, InMerge, Shaped
    <3>. QED BY <3>2, WithinGate
  <2>. QED BY <1>5, <2>1, <2>2 DEF Missed
<1>. QED BY <1>1, <1>2, <1>3, <1>4, <1>5

\* The fields that a step sets are not the call's tab and kind.
LEMMA SetAt ==
  ASSUME Shaped, NEW c \in Jobs, NEW r, DOMAIN r = DOMAIN Idle, r.tab = job[c].tab,
         r.kind = job[c].kind, r.merging = job[c].merging, job' = [job EXCEPT ![c] = r]
  PROVE  Only(c) /\ SameCall(c) /\ job'[c].merging = job[c].merging /\ job'[c].at = r.at
BY OnlyOne DEF SameCall

\* The gate and the lock.
LEMMA EnterGate ==
  ASSUME GateInv, NEW c \in Jobs, PassGate(c) \/ EnterLock(c)
  PROVE  GateInv'
<1>. Shaped /\ Place(c) /\ DOMAIN job[c] = DOMAIN Idle
  BY DEF GateInv, Shaped
<1>1. CASE PassGate(c)
  <2>1. Only(c) /\ SameCall(c) /\ job'[c].merging = job[c].merging /\ job'[c].at = "lock"
    BY <1>1, JobFields DEF PassGate, To, Only, SameCall, Shaped
  <2>2. Advances(c)
    BY <1>1, <2>1 DEF PassGate, To, Advances, Place, NoMerge, gateVars
  <2>. QED BY <2>2, AdvancesGate
<1>2. CASE EnterLock(c) /\ job[c].kind # "answer"
  <2>1. /\ Only(c) /\ SameCall(c) /\ job'[c].merging = job[c].merging
        /\ job'[c].at \in {"snapshot", "look"}
    BY <1>2, JobFields DEF EnterLock, Only, SameCall, Shaped
  <2>2. Advances(c)
    BY <1>2, <2>1 DEF EnterLock, Advances, Place, NoMerge
  <2>. QED BY <2>2, AdvancesGate
<1>3. CASE EnterLock(c) /\ job[c].kind = "answer"
  <2>. DEFINE r == [job[c] EXCEPT !.at = "line", !.merging = "merge"]
  <2>1. /\ job' = [job EXCEPT ![c] = r] /\ line' = [line EXCEPT ![T(c)] = Append(@, c)]
        /\ job[c].at = "lock" /\ UNCHANGED <<holds, looking>>
        /\ \A d \in Jobs : Inside(d) => T(d) = T(c)
    BY <1>3 DEF EnterLock, LineUp
  <2>2. /\ DOMAIN r = DOMAIN Idle /\ r.tab = job[c].tab /\ r.kind = job[c].kind
        /\ r.at = "line" /\ r.merging = "merge"
    BY JobFields
  <2>3. job[c].merging = "no"
    BY <2>1 DEF Place, NoMerge
  <2>. HIDE DEF r
  <2>. QED BY <2>1, <2>2, <2>3, LineUpGate
<1>. QED BY <1>1, <1>2, <1>3

\* A pass, from the list to its decision.
LEMMA PassStepGate ==
  ASSUME GateInv, NEW c \in Jobs,
         List(c) \/ Decide(c) \/ SettleDivergence(c) \/ ProbeFails(c)
  PROVE  GateInv'
<1>. Shaped /\ Place(c) /\ DOMAIN job[c] = DOMAIN Idle
  BY DEF GateInv, Shaped
<1>1. job[c].at \in {"list", "decide", "probe"} /\ Inside(c) /\ looking' = looking
  BY DEF List, Decide, SettleDivergence, ProbeFails, Inside, Outside
<1>2. job[c].merging = "no" /\ \A d \in Jobs : Inside(d) => T(d) = T(c)
  BY <1>1 DEF Place, NoMerge, GateInv, OneTab
<1>3. ASSUME NEW m \in {"merge", "adopt"}, LineUp(c, m), UNCHANGED holds
      PROVE  GateInv'
  <2>. DEFINE r == [job[c] EXCEPT !.at = "line", !.merging = m]
  <2>1. job' = [job EXCEPT ![c] = r] /\ line' = [line EXCEPT ![T(c)] = Append(@, c)]
    BY <1>3 DEF LineUp
  <2>2. /\ DOMAIN r = DOMAIN Idle /\ r.tab = job[c].tab /\ r.kind = job[c].kind
        /\ r.at = "line" /\ r.merging = m
    BY JobFields
  <2>. HIDE DEF r
  <2>. QED BY <1>1, <1>2, <1>3, <2>1, <2>2, LineUpGate
<1>4. ASSUME NEW r, DOMAIN r = DOMAIN Idle, r.tab = job[c].tab, r.kind = job[c].kind,
             r.merging = job[c].merging, job' = [job EXCEPT ![c] = r],
             r.at \in {"decide", "snapshot", "probe"}, UNCHANGED <<line, holds>>
      PROVE  GateInv'
  <2>1. Only(c) /\ SameCall(c) /\ job'[c].merging = job[c].merging /\ job'[c].at = r.at
    BY <1>4, SetAt
  <2>2. Within(c)
    BY <1>1, <1>2, <1>4, <2>1 DEF Within, InMerge, NoMerge, Shaped
  <2>. QED BY <2>2, WithinGate
<1>5. CASE List(c)
  <2>. DEFINE r == [job[c] EXCEPT !.at = "decide", !.rev = Len(past)]
  <2>1. job' = [job EXCEPT ![c] = r] /\ UNCHANGED <<line, holds>>
    BY <1>5 DEF List, gateVars
  <2>2. /\ DOMAIN r = DOMAIN Idle /\ r.tab = job[c].tab /\ r.kind = job[c].kind
        /\ r.merging = job[c].merging /\ r.at = "decide"
    BY JobFields
  <2>. HIDE DEF r
  <2>. QED BY <1>4, <2>1, <2>2
<1>6. CASE ProbeFails(c)
  <2>. DEFINE r == [job[c] EXCEPT !.at = "snapshot", !.guarded = FALSE]
  <2>1. job' = [job EXCEPT ![c] = r] /\ UNCHANGED <<line, holds>>
    BY <1>6 DEF ProbeFails, gateVars
  <2>2. /\ DOMAIN r = DOMAIN Idle /\ r.tab = job[c].tab /\ r.kind = job[c].kind
        /\ r.merging = job[c].merging /\ r.at = "snapshot"
    BY JobFields
  <2>. HIDE DEF r
  <2>. QED BY <1>4, <2>1, <2>2
<1>7. CASE SettleDivergence(c)
  BY <1>3, <1>7 DEF SettleDivergence
<1>8. CASE Decide(c)
  <2>1. CASE Return(c, question[T(c)]) /\ UNCHANGED line
    <3>1. /\ job' = [job EXCEPT ![c] = Ended]
          /\ holds' = [holds EXCEPT ![T(c)] = IF job[c].kind = "pass" THEN @ - 1 ELSE @]
      BY <2>1 DEF Return
    <3>2. Only(c) /\ job'[c] = Ended
      BY <3>1, OnlyOne, EndedFree
    <3>3. Returns(c)
      BY <1>1, <1>2, <2>1, <3>1, <3>2 DEF Returns
    <3>. QED BY <3>3, ReturnsGate
  <2>2. CASE /\ job' = [job EXCEPT ![c].at = "snapshot", ![c].gen = gens[T(c)]]
             /\ UNCHANGED <<holds, line>>
    <3>. DEFINE r == [job[c] EXCEPT !.at = "snapshot", !.gen = gens[T(c)]]
    <3>1. job' = [job EXCEPT ![c] = r]
      BY <2>2
    <3>2. /\ DOMAIN r = DOMAIN Idle /\ r.tab = job[c].tab /\ r.kind = job[c].kind
          /\ r.merging = job[c].merging /\ r.at = "snapshot"
      BY JobFields
    <3>. HIDE DEF r
    <3>. QED BY <1>4, <2>2, <3>1, <3>2
  <2>3. CASE LineUp(c, "adopt") /\ UNCHANGED holds
    BY <1>3, <2>3
  <2>4. CASE To(c, "decide", "probe") /\ UNCHANGED <<line, holds>>
    <3>. DEFINE r == [job[c] EXCEPT !.at = "probe"]
    <3>1. job' = [job EXCEPT ![c] = r]
      BY <2>4 DEF To
    <3>2. /\ DOMAIN r = DOMAIN Idle /\ r.tab = job[c].tab /\ r.kind = job[c].kind
          /\ r.merging = job[c].merging /\ r.at = "probe"
      BY JobFields
    <3>. HIDE DEF r
    <3>. QED BY <1>4, <2>4, <3>1, <3>2
  <2>. QED BY <1>8, <2>1, <2>2, <2>3, <2>4 DEF Decide
<1>. QED BY <1>5, <1>6, <1>7, <1>8

\* A merge or an adoption goes on, behind its hold of the gate.
LEMMA MergeGoesOn ==
  ASSUME GateInv, NEW c \in Jobs, NEW r, DOMAIN r = DOMAIN Idle, r.tab = job[c].tab,
         r.kind = job[c].kind, r.merging = job[c].merging, job' = [job EXCEPT ![c] = r],
         job[c].at \in InMerge \ {"line"}, job[c].merging = "adopt" => job[c].at # "fetch",
         r.at \in {"local", "base", "rewrite", "remark", "mark", "level", "reopen", "flag", "leave"},
         UNCHANGED <<line, looking>>, DOMAIN holds' = Tabs, \A t \in Tabs : holds'[t] = holds[t]
  PROVE  GateInv'
<1>1. Only(c) /\ SameCall(c) /\ job'[c].merging = job[c].merging /\ job'[c].at = r.at
  BY SetAt DEF GateInv
<1>2. job[c].merging # "no"
  BY DEF GateInv, Place
<1>3. Within(c)
  BY <1>1, <1>2 DEF Within, InMerge, NoMerge
<1>. QED BY <1>3, WithinGate

\* The holds of a merge that leaves are its own and, in a pass, the pass's.
LEMMA LeaveGate ==
  ASSUME GateInv, NEW c \in Jobs, NEW b, NEW q, LeaveLine(c, b, q), UNCHANGED looking,
         job[c].at \in {"base", "leave"}
  PROVE  GateInv'
<1>1. Shaped /\ Place(c) /\ T(c) \in Tabs
  BY DEF GateInv, Place, Running
<1>2. job[c].merging # "no" /\ Merges(c) /\ (Passes(c) <=> job[c].kind = "pass")
  BY <1>1 DEF Place, InMerge, Merges, Passes, Running
<1>. PICK t \in Tabs : t = T(c)
  BY <1>1
<1>3. holds[t] \in Nat
  BY DEF GateInv, HoldsOK
<1>4. job' = [job EXCEPT ![c] = Ended] /\ line' = [line EXCEPT ![T(c)] = Tail(@)]
  BY DEF LeaveLine
<1>5. Only(c) /\ job'[c] = Ended
  BY <1>1, <1>4, OnlyOne, EndedFree
<1>6. holds' = [holds EXCEPT ![t] = holds[t] - (IF job[c].kind = "pass" THEN 2 ELSE 1)]
  BY DEF LeaveLine
<1>7. holds[t] - (IF job[c].kind = "pass" THEN 2 ELSE 1)
        = holds[t] - (IF Passes(c) THEN 1 ELSE 0) - (IF Merges(c) THEN 1 ELSE 0)
  BY <1>2, <1>3
<1>8. holds' = [holds EXCEPT ![t] = holds[t] - (IF Passes(c) THEN 1 ELSE 0)
                                            - (IF Merges(c) THEN 1 ELSE 0)]
  BY <1>6, <1>7
<1>9. Leaves(c)
  BY <1>2, <1>4, <1>5, <1>8 DEF Leaves
<1>. QED BY <1>9, LeavesGate

\* The steps of a merge or an adoption that holds the gate.
LEMMA MergeStepGate ==
  ASSUME GateInv, NEW c \in Jobs,
         \/ ReadLocal(c) \/ ReadBase(c) \/ Rewrite(c) \/ Remark(c) \/ Level(c) \/ Reopen(c)
         \/ FlagFolded(c) \/ LeaveMerge(c)
  PROVE  GateInv'
<1>. Shaped /\ Place(c) /\ DOMAIN job[c] = DOMAIN Idle
  BY DEF GateInv, Shaped
<1>1. /\ job[c].at \in {"local", "base", "rewrite", "remark", "level", "reopen", "flag", "leave"}
      /\ looking' = looking
  BY DEF ReadLocal, ReadBase, Rewrite, Remark, Level, Reopen, FlagFolded, LeaveMerge, To
<1>2. ASSUME NEW r, DOMAIN r = DOMAIN Idle, r.tab = job[c].tab, r.kind = job[c].kind,
             r.merging = job[c].merging, job' = [job EXCEPT ![c] = r],
             r.at \in {"base", "rewrite", "remark", "mark", "level", "reopen", "flag", "leave"},
             UNCHANGED <<line, holds>>
      PROVE  GateInv'
  <2>1. DOMAIN holds' = Tabs /\ \A t \in Tabs : holds'[t] = holds[t]
    BY <1>2 DEF Shaped
  <2>2. job[c].at \in InMerge \ {"line"} /\ job[c].at # "fetch"
    BY <1>1 DEF InMerge
  <2>. QED BY <1>1, <1>2, <2>1, <2>2, MergeGoesOn
<1>3. CASE ReadLocal(c)
  <2>. DEFINE local == IF job[c].tries = 0 THEN onDisk ELSE job[c].files
              r == [job[c] EXCEPT !.at = "base", !.files = local,
                                  !.first = IF @ = NoText THEN local ELSE @]
  <2>1. job' = [job EXCEPT ![c] = r] /\ UNCHANGED <<line, holds>>
    BY <1>3 DEF ReadLocal, gateVars
  <2>2. /\ DOMAIN r = DOMAIN Idle /\ r.tab = job[c].tab /\ r.kind = job[c].kind
        /\ r.merging = job[c].merging /\ r.at = "base"
    BY JobFields
  <2>. HIDE DEF r
  <2>. QED BY <1>2, <2>1, <2>2
<1>4. CASE ReadBase(c)
  <2>1. CASE /\ job' = [job EXCEPT ![c].at = "rewrite", ![c].base = agreed.files]
             /\ UNCHANGED <<line, holds>>
    <3>. DEFINE r == [job[c] EXCEPT !.at = "rewrite", !.base = agreed.files]
    <3>1. job' = [job EXCEPT ![c] = r]
      BY <2>1
    <3>2. /\ DOMAIN r = DOMAIN Idle /\ r.tab = job[c].tab /\ r.kind = job[c].kind
          /\ r.merging = job[c].merging /\ r.at = "rewrite"
      BY JobFields
    <3>. HIDE DEF r
    <3>. QED BY <1>2, <2>1, <3>1, <3>2
  <2>2. CASE LeaveLine(c, 0, question[T(c)])
    BY <1>1, <1>4, <2>2, LeaveGate DEF ReadBase
  <2>. QED BY <1>4, <2>1, <2>2 DEF ReadBase, gateVars
<1>5. CASE Rewrite(c)
  <2>1. PICK text, w : job' = [job EXCEPT ![c].at = "remark", ![c].files = text, ![c].written = w]
    BY <1>5 DEF Rewrite
  <2>. DEFINE r == [job[c] EXCEPT !.at = "remark", !.files = text, !.written = w]
  <2>2. job' = [job EXCEPT ![c] = r] /\ UNCHANGED <<line, holds>>
    BY <1>5, <2>1 DEF Rewrite, gateVars
  <2>3. /\ DOMAIN r = DOMAIN Idle /\ r.tab = job[c].tab /\ r.kind = job[c].kind
        /\ r.merging = job[c].merging /\ r.at = "remark"
    BY JobFields
  <2>. HIDE DEF r
  <2>. QED BY <1>2, <2>2, <2>3
<1>6. ASSUME NEW to \in {"mark", "level", "leave", "flag"},
             job' = [job EXCEPT ![c].at = to], UNCHANGED <<line, holds>>
      PROVE  GateInv'
  <2>. DEFINE r == [job[c] EXCEPT !.at = to]
  <2>1. job' = [job EXCEPT ![c] = r]
    BY <1>6
  <2>2. /\ DOMAIN r = DOMAIN Idle /\ r.tab = job[c].tab /\ r.kind = job[c].kind
        /\ r.merging = job[c].merging /\ r.at = to
    BY JobFields
  <2>. HIDE DEF r
  <2>. QED BY <1>2, <1>6, <2>1, <2>2
<1>7. CASE Remark(c)
  BY <1>6, <1>7 DEF Remark
<1>8. CASE Level(c)
  <2>1. PICK f : \E to \in {"reopen", "leave"} : job' = [job EXCEPT ![c].at = to, ![c].files = f]
    BY <1>8 DEF Level
  <2>. PICK to \in {"reopen", "leave"} : job' = [job EXCEPT ![c].at = to, ![c].files = f]
    BY <2>1
  <2>. DEFINE r == [job[c] EXCEPT !.at = to, !.files = f]
  <2>2. job' = [job EXCEPT ![c] = r] /\ UNCHANGED <<line, holds>>
    <3>1. UNCHANGED <<line, holds>>
      BY <1>8 DEF Level, gateVars
    <3>2. job' = [job EXCEPT ![c] = r]
      OBVIOUS
    <3>. QED BY <3>1, <3>2
  <2>3. /\ DOMAIN r = DOMAIN Idle /\ r.tab = job[c].tab /\ r.kind = job[c].kind
        /\ r.merging = job[c].merging /\ r.at = to
    BY JobFields
  <2>. HIDE DEF r
  <2>. QED BY <1>2, <2>1, <2>2, <2>3
<1>9. CASE Reopen(c)
  BY <1>6, <1>9 DEF Reopen, To, gateVars
<1>10. CASE FlagFolded(c)
  BY <1>6, <1>10 DEF FlagFolded, To, gateVars
<1>11. CASE LeaveMerge(c)
  BY <1>1, <1>11, LeaveGate DEF LeaveMerge
<1>. QED BY <1>3, <1>4, <1>5, <1>7, <1>8, <1>9, <1>10, <1>11

\* The row is read, or cannot be.
LEMMA FetchGate ==
  ASSUME GateInv, NEW c \in Jobs, Fetch(c) \/ FetchFails(c)
  PROVE  GateInv'
<1>. Shaped /\ Place(c) /\ DOMAIN job[c] = DOMAIN Idle
  BY DEF GateInv, Shaped
<1>1. /\ job[c].at = "fetch" /\ looking' = looking /\ Inside(c) /\ T(c) \in Tabs
      /\ job[c].merging \in {"merge", "adopt"}
  BY DEF Fetch, FetchFails, Place, InMerge, Running, Inside, Outside
<1>2. \A s \in Tabs : looking[s].by # 0 => looking[s].by \in Jobs \ {c}
  BY <1>1 DEF GateInv, LookOK
<1>3. CASE Fetch(c)
  <2>. DEFINE r == [job[c] EXCEPT !.at = "local", !.theirs = Last(past), !.rev = Len(past)]
  <2>1. job' = [job EXCEPT ![c] = r] /\ UNCHANGED line
    BY <1>3 DEF Fetch
  <2>2. /\ DOMAIN r = DOMAIN Idle /\ r.tab = job[c].tab /\ r.kind = job[c].kind
        /\ r.merging = job[c].merging /\ r.at = "local"
    BY JobFields
  <2>. HIDE DEF r
  <2>3. CASE job[c].merging = "merge"
    <3>1. DOMAIN holds' = Tabs /\ \A t \in Tabs : holds'[t] = holds[t]
      BY <1>3, <2>3 DEF Fetch, Shaped
    <3>2. job[c].at \in InMerge \ {"line"}
      BY <1>1 DEF InMerge
    <3>. QED BY <1>1, <2>1, <2>2, <2>3, <3>1, <3>2, MergeGoesOn
  <2>4. CASE job[c].merging = "adopt"
    <3>1. Only(c) /\ SameCall(c) /\ job'[c].merging = job[c].merging /\ job'[c].at = "local"
      BY <2>1, <2>2, SetAt
    <3>2. ~Merges(c) /\ Merges(c)' /\ Inside(c)'
      BY <1>1, <2>4, <3>1 DEF Merges, Inside, Outside
    <3>3. holds' = [holds EXCEPT ![T(c)] = @ + 1]
      BY <1>3, <2>4 DEF Fetch
    <3>4. Turns(c)
      BY <1>1, <2>1, <2>4, <3>1, <3>2, <3>3 DEF Turns, NoMerge, Shaped
    <3>5. \A s \in Tabs : LookOK(s)'
      BY <1>1, <1>2, <3>1 DEF GateInv, LookOK, Only, T
    <3>. QED BY <3>4, <3>5, TurnsGate
  <2>. QED BY <1>1, <2>3, <2>4
<1>4. CASE FetchFails(c)
  <2>1. CASE /\ job[c].merging = "merge" /\ UNCHANGED <<question, holds, line>>
             /\ job' = [job EXCEPT ![c].at = "level", ![c].failed = TRUE]
    <3>. DEFINE r == [job[c] EXCEPT !.at = "level", !.failed = TRUE]
    <3>1. job' = [job EXCEPT ![c] = r]
      BY <2>1
    <3>2. /\ DOMAIN r = DOMAIN Idle /\ r.tab = job[c].tab /\ r.kind = job[c].kind
          /\ r.merging = job[c].merging /\ r.at = "level"
      BY JobFields
    <3>. HIDE DEF r
    <3>3. DOMAIN holds' = Tabs /\ \A t \in Tabs : holds'[t] = holds[t]
      BY <2>1 DEF Shaped
    <3>4. job[c].at \in InMerge \ {"line"}
      BY <1>1 DEF InMerge
    <3>. QED BY <1>1, <2>1, <3>1, <3>2, <3>3, <3>4, MergeGoesOn
  <2>2. CASE /\ job[c].merging = "adopt" /\ Return(c, question[T(c)])
             /\ line' = [line EXCEPT ![T(c)] = Tail(@)]
    <3>1. /\ job' = [job EXCEPT ![c] = Ended]
          /\ holds' = [holds EXCEPT ![T(c)] = IF job[c].kind = "pass" THEN @ - 1 ELSE @]
      BY <2>2 DEF Return
    <3>2. Only(c) /\ job'[c] = Ended
      BY <3>1, OnlyOne, EndedFree
    <3>. PICK t \in Tabs : t = T(c)
      BY <1>1
    <3>3. ~Merges(c) /\ (Passes(c) <=> job[c].kind = "pass") /\ holds[t] \in Nat
      BY <1>1, <2>2 DEF Merges, Passes, Running, GateInv, HoldsOK
    <3>4. (IF job[c].kind = "pass" THEN holds[t] - 1 ELSE holds[t])
            = holds[t] - (IF Passes(c) THEN 1 ELSE 0) - (IF Merges(c) THEN 1 ELSE 0)
      BY <3>3
    <3>5. holds' = [holds EXCEPT ![t] = holds[t] - (IF Passes(c) THEN 1 ELSE 0)
                                                - (IF Merges(c) THEN 1 ELSE 0)]
      BY <3>1, <3>4
    <3>6. Leaves(c)
      BY <1>1, <2>2, <3>2, <3>5 DEF Leaves
    <3>. QED BY <3>6, LeavesGate
  <2>. QED BY <1>4, <2>1, <2>2 DEF FetchFails
<1>. QED BY <1>3, <1>4

\* A call has its tab re-read the store.
LEMMA LookGate ==
  ASSUME GateInv, NEW c \in Jobs, Look(c) PROVE GateInv'
<1>. Shaped /\ Place(c) /\ DOMAIN job[c] = DOMAIN Idle
  BY DEF GateInv, Shaped
<1>1. /\ job[c].at \in {"look", "line"} /\ Inside(c) /\ T(c) \in Tabs
      /\ job[c].at = "line" => Head(line[T(c)]) = c
  BY DEF Look, Inside, Outside, Place, Running
<1>2. /\ Only(c) /\ SameCall(c) /\ job'[c].merging = job[c].merging /\ job'[c].at = "looking"
  BY JobFields DEF Look, Only, SameCall, Shaped
<1>3. ~Merges(c) /\ ~Merges(c)' /\ Inside(c)'
  BY <1>1, <1>2 DEF Place, NoMerge, Merges, Inside, Outside
<1>4. PICK x : x.by = c /\ looking' = [looking EXCEPT ![T(c)] = x]
  <2>. DEFINE x == [by |-> c, memory |-> inState[T(c)], disk |-> onDisk]
  <2>1. x.by = c /\ looking' = [looking EXCEPT ![T(c)] = x]
    BY DEF Look, LookFor
  <2>. HIDE DEF x
  <2>. QED BY <2>1
<1>5. Turns(c)
  BY <1>1, <1>2, <1>3, <1>4 DEF Turns, InMerge, NoMerge, Look, gateVars, Shaped
<1>6. ASSUME NEW s \in Tabs PROVE LookOK(s)'
  <2>1. CASE s = T(c)
    BY <1>2, <1>4, <2>1 DEF LookOK, T, SameCall, Shaped
  <2>2. CASE s # T(c)
    <3>1. LookOK(s) /\ looking'[s] = looking[s]
      BY <1>4, <2>2 DEF GateInv, Shaped
    <3>2. looking[s].by # 0 => looking[s].by \in Jobs \ {c}
      BY <1>1, <3>1 DEF LookOK
    <3>. QED BY <1>2, <3>1, <3>2 DEF LookOK, Only, T
  <2>. QED BY <2>1, <2>2
<1>. QED BY <1>5, <1>6, TurnsGate

\* A step that moves no call.
LEMMA StaysGate ==
  ASSUME GateInv, UNCHANGED <<job, line, holds>>, DOMAIN looking' = Tabs,
         \A s \in Tabs : LookOK(s)'
  PROVE  GateInv'
<1>1. Shaped'
  BY DEF GateInv, Shaped
<1>2. \A c \in Jobs : Place(c)' /\ Queued(c)'
  BY DEF GateInv, Place, Queued, Running, T
<1>3. \A t \in Tabs : LineOK(t)'
  BY DEF GateInv, LineOK, T
<1>4. ASSUME NEW t \in Tabs PROVE HoldsOK(t)'
  <2>1. HoldsOK(t)
    BY DEF GateInv
  <2>. QED BY <2>1 DEF HoldsOK, PassIn, MergeIn, Passes, Merges, Running, T
<1>5. OneTab' /\ OnePass'
  BY DEF GateInv, OneTab, OnePass, Inside, Passes, Running, T
<1>. QED BY <1>1, <1>2, <1>3, <1>4, <1>5 DEF GateInv

\* ... nor a reload.
LEMMA StillGate ==
  ASSUME GateInv, UNCHANGED <<job, line, holds, looking>> PROVE GateInv'
<1>1. DOMAIN looking' = Tabs
  BY DEF GateInv, Shaped
<1>2. \A s \in Tabs : LookOK(s)'
  BY DEF GateInv, LookOK, T
<1>. QED BY <1>1, <1>2, StaysGate

\* The broadcast of another tab's write begins a reload that no call waits for.
LEMMA HearGate ==
  ASSUME GateInv, NEW t \in Tabs, Hear(t) PROVE GateInv'
<1>1. PICK x : x.by = 0 /\ looking' = [looking EXCEPT ![t] = x]
  <2>. DEFINE x == [by |-> 0, memory |-> inState[t], disk |-> onDisk]
  <2>1. x.by = 0 /\ looking' = [looking EXCEPT ![t] = x]
    BY DEF Hear, LookFor
  <2>. HIDE DEF x
  <2>. QED BY <2>1
<1>2. UNCHANGED <<job, line, holds>> /\ DOMAIN looking = Tabs
  BY DEF Hear, gateVars, GateInv, Shaped
<1>3. \A s \in Tabs : LookOK(s)'
  BY <1>1, <1>2 DEF GateInv, LookOK, T
<1>4. DOMAIN looking' = Tabs
  BY <1>1, <1>2
<1>. QED BY <1>2, <1>3, <1>4, StaysGate

\* A reload ends, and the call that waited for it goes on.
LEMMA LookApplyGate ==
  ASSUME GateInv, NEW t \in Tabs, LookApply(t) PROVE GateInv'
<1>. Shaped /\ LookOK(t)
  BY DEF GateInv
<1>. PICK c : c = looking[t].by
  OBVIOUS
<1>1. /\ DOMAIN looking' = Tabs /\ looking'[t].by = 0 /\ line' = line
      /\ \A s \in Tabs \ {t} : looking'[s] = looking[s]
  BY DEF LookApply, NotLooking, Shaped
<1>2. CASE c = 0
  <2>1. UNCHANGED <<job, holds>>
    BY <1>2 DEF LookApply
  <2>2. \A s \in Tabs : LookOK(s)'
    BY <1>1, <2>1 DEF GateInv, LookOK, T
  <2>. QED BY <1>1, <2>1, <2>2, StaysGate
<1>3. CASE c # 0
  <2>1. c \in Jobs /\ job[c].at = "looking" /\ T(c) = t
    BY <1>3 DEF LookOK
  <2>2. Place(c) /\ DOMAIN job[c] = DOMAIN Idle
    BY <2>1 DEF GateInv, Shaped
  <2>. DEFINE to == IF job[c].merging = "no" THEN "list" ELSE "fetch"
  <2>3. /\ job' = [job EXCEPT ![c].at = to]
        /\ holds' = IF job[c].merging = "merge" THEN [holds EXCEPT ![t] = @ + 1] ELSE holds
    BY <1>3 DEF LookApply
  <2>4. Only(c) /\ SameCall(c) /\ job'[c].merging = job[c].merging /\ job'[c].at = to
    BY <2>1, <2>2, <2>3, JobFields DEF Only, SameCall, Shaped
  <2>5. ~Merges(c) /\ (Merges(c)' <=> job[c].merging = "merge") /\ Inside(c) /\ Inside(c)'
    BY <2>1, <2>2, <2>4 DEF Merges, Inside, Outside, Place
  <2>6. holds' = IF Merges(c)' THEN [holds EXCEPT ![T(c)] = @ + 1] ELSE holds
    BY <2>1, <2>3, <2>5
  <2>7. Turns(c)
    BY <1>1, <2>1, <2>4, <2>5, <2>6 DEF Turns, InMerge, NoMerge
  <2>8. ASSUME NEW s \in Tabs PROVE LookOK(s)'
    <3>1. CASE s = t
      BY <1>1, <3>1 DEF LookOK
    <3>2. CASE s # t
      <4>1. LookOK(s) /\ looking'[s] = looking[s]
        BY <1>1, <3>2 DEF GateInv
      <4>2. looking[s].by # 0 => looking[s].by \in Jobs \ {c}
        BY <2>1, <3>2, <4>1 DEF LookOK
      <4>. QED BY <2>4, <4>1, <4>2 DEF LookOK, Only, T
    <3>. QED BY <3>1, <3>2
  <2>. QED BY <2>1, <2>7, <2>8, TurnsGate
<1>. QED BY <1>2, <1>3

\* A call begins.
LEMMA BeginningGate ==
  ASSUME GateInv, NEW c \in Jobs, Beginning(c) PROVE GateInv'
<1>. Shaped
  BY DEF GateInv
<1>1. ASSUME NEW t \in Tabs, NEW k, BeginCall(c, t, k), k = "pass" => ~PassElse(c, t),
             holds' = IF k = "pass" THEN [holds EXCEPT ![t] = @ + 1] ELSE holds
      PROVE  GateInv'
  <2>. DEFINE r == [Idle EXCEPT !.tab = t, !.kind = k,
                                !.at = IF k = "push" THEN "gate" ELSE "lock"]
  <2>1. job' = [job EXCEPT ![c] = r] /\ job[c].at = "idle" /\ UNCHANGED <<line, looking>>
    BY <1>1 DEF BeginCall
  <2>2. /\ DOMAIN r = DOMAIN Idle /\ r.tab = t /\ r.kind = k /\ r.merging = "no"
        /\ r.at = IF k = "push" THEN "gate" ELSE "lock"
    BY JobFields
  <2>. HIDE DEF r
  <2>3. Only(c) /\ job'[c] = r
    BY <2>1, <2>2, OnlyOne
  <2>4. Begins(c, t, k)
    BY <1>1, <2>1, <2>2, <2>3 DEF Begins
  <2>. QED BY <2>4, BeginsGate
<1>2. PICK t \in Tabs : PushCurrent(c, t) \/ Refresh(c, t) \/ Resolve(c, t)
  BY DEF Beginning
<1>3. CASE PushCurrent(c, t)
  BY <1>1, <1>3 DEF PushCurrent
<1>4. CASE Refresh(c, t)
  <2>1. ~PassElse(c, t)
    BY <1>4 DEF Refresh, PassElse, Passes, Running
  <2>. QED BY <1>1, <1>4, <2>1 DEF Refresh
<1>5. CASE Resolve(c, t)
  BY <1>1, <1>5 DEF Resolve
<1>. QED BY <1>2, <1>3, <1>4, <1>5

-----------------------------------------------------------------------------
(* The theorem                                                             *)

\* At first no call has begun and every gate is open.
LEMMA InitGate == TabGateInit => GateInv
<1>. SUFFICES ASSUME TabGateInit PROVE GateInv
  OBVIOUS
<1>1. /\ DOMAIN job = Jobs /\ (\A c \in Jobs : job[c] = Idle)
      /\ DOMAIN line = Tabs /\ (\A t \in Tabs : line[t] = << >>)
      /\ DOMAIN holds = Tabs /\ (\A t \in Tabs : holds[t] = 0)
      /\ DOMAIN looking = Tabs /\ (\A t \in Tabs : looking[t].by = 0)
  BY DEF TabGateInit, NotLooking
<1>2. Idle.at = "idle" /\ Idle.merging = "no" /\ Idle.kind = "push"
  BY DEF Idle
<1>3. \A c \in Jobs : Place(c) /\ Queued(c) /\ ~Passes(c) /\ ~Merges(c) /\ ~Inside(c)
  BY <1>1, <1>2 DEF Place, Queued, Passes, Merges, Inside, Outside, Running, InMerge, NoMerge
<1>4. ASSUME NEW t \in Tabs PROVE LineOK(t) /\ LookOK(t) /\ HoldsOK(t)
  <2>1. LineOK(t)
    <3>1. line[t] = << >> /\ << >> \in Seq(Jobs) /\ 1 .. Len(line[t]) = {}
      BY <1>1
    <3>. QED BY <3>1 DEF LineOK
  <2>2. LookOK(t)
    BY <1>1 DEF LookOK
  <2>3. ~PassIn(t) /\ ~MergeIn(t)
    BY <1>3 DEF PassIn, MergeIn
  <2>4. HoldsOK(t)
    BY <1>1, <2>3 DEF HoldsOK
  <2>. QED BY <2>1, <2>2, <2>4
<1>. QED BY <1>1, <1>3, <1>4 DEF GateInv, Shaped, OneTab, OnePass

\* Every step keeps the invariant.
LEMMA NextGate == GateInv /\ [TabGateNext]_tabGateVars => GateInv'
<1>. SUFFICES ASSUME GateInv, [TabGateNext]_tabGateVars PROVE GateInv'
  OBVIOUS
<1>1. ASSUME NEW t \in Tabs, TabStep(t) PROVE GateInv'
  <2>1. CASE Hear(t)
    BY <2>1, HearGate
  <2>2. CASE LookApply(t)
    BY <2>2, LookApplyGate
  <2>3. CASE Autosave(t) \/ FlagRead(t) \/ FlagWrite(t) \/ \E e \in Typed : Type(t, e)
    <3>1. UNCHANGED <<job, line, holds, looking>>
      BY <2>3 DEF Autosave, FlagRead, FlagWrite, Type, gateVars
    <3>. QED BY <3>1, StillGate
  <2>. QED BY <1>1, <2>1, <2>2, <2>3 DEF TabStep
<1>2. ASSUME NEW c \in Jobs, JobStep(c) PROVE GateInv'
  BY <1>2, EnterGate, PushGate, PassStepGate, LookGate, FetchGate, MergeStepGate DEF JobStep
<1>3. ASSUME NEW c \in Jobs, Beginning(c) PROVE GateInv'
  BY <1>3, BeginningGate
<1>4. ASSUME NEW c \in Jobs, ServeFails(c) \/ ProbeFails(c) \/ FetchFails(c) PROVE GateInv'
  BY <1>4, PushGate, PassStepGate, FetchGate
<1>5. ASSUME NEW e \in Elsewhere, Upload(e) PROVE GateInv'
  <2>1. UNCHANGED <<job, line, holds, looking>>
    BY <1>5 DEF Upload, gateVars
  <2>. QED BY <2>1, StillGate
<1>6. CASE UNCHANGED tabGateVars
  <2>1. UNCHANGED <<job, line, holds, looking>>
    BY <1>6 DEF tabGateVars, gateVars
  <2>. QED BY <2>1, StillGate
<1>. QED BY <1>1, <1>2, <1>3, <1>4, <1>5, <1>6 DEF TabGateNext

\* For any number of tabs and calls, in whatever order they begin and whatever fails:
\* while a push, a pass, an answer or a retry of sync is under way, one of them is not
\* waiting for another.  The gate (holdPushes), the lock of the browser (withSyncLock)
\* and the queue of merges (_exclusive) never close a circle.
THEOREM TabGateMoves == TabGateSpec => []SomeCallMoves
<1>1. TabGateInit => GateInv
  BY InitGate
<1>2. GateInv /\ [TabGateNext]_tabGateVars => GateInv'
  BY NextGate
<1>3. GateInv => SomeCallMoves
  BY GateMoves
<1>. QED BY <1>1, <1>2, <1>3, PTL DEF TabGateSpec
=============================================================================
