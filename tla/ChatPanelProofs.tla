--------------------------- MODULE ChatPanelProofs --------------------------
(***************************************************************************)
(* The assistant's panel, for any workspaces, threads, messages, tasks and *)
(* bounds: nothing typed is lost on the way to a file, what is stored      *)
(* stays, the open thread follows the switch, what is on screen survives a *)
(* reload, and a message is filed where it was typed.                      *)
(*                                                                         *)
(* ChatInv is what makes them inductive:                                   *)
(*   PlaceInv    the index, the tasks and the account agree on which       *)
(*               workspace a thread is for, and a minted thread is new     *)
(*   PanelInv    a queued write takes nothing from its file, the current   *)
(*               load reads after every step of its thread and holds the   *)
(*               list on screen, and what is on screen is stored, or the   *)
(*               last queued write of its thread brings it                 *)
(*   KeptInv     a typed message is in memory, stored, or excused          *)
(*   LeaveInv    a sign-out drops only what the account has                *)
(* The panel is one record, and most actions are chains of operators on    *)
(* it; so the lemmas are about the operators (they keep PanelOK and retain *)
(* what was held), and the actions put them together.  FiledWhereTyped     *)
(* needs more: for one message m and a set P of workspaces that it may be  *)
(* filed under, Fits(m, P) says that every copy of m is in P.              *)
(***************************************************************************)
EXTENDS ChatPanel, TLAPS, SequenceTheorems, WellFoundedInduction

LEMMA LeastIs ==
  ASSUME NEW S \in SUBSET Nat, S # {}
  PROVE  Min(S) \in S /\ \A n \in S : Min(S) <= n
<1>1. \A y, z \in Nat : y < z => <<y, z>> \in OpToRel(<, Nat)
  BY Zenon DEF OpToRel
<1>2. \E R : IsWellFoundedOn(R, Nat) /\ \A y, z \in Nat : y < z => <<y, z>> \in R
  BY <1>1, NatLessThanWellFounded, Zenon
<1>3. PICK R : IsWellFoundedOn(R, Nat) /\ \A y, z \in Nat : y < z => <<y, z>> \in R
  BY ONLY <1>2
<1>4. PICK x \in S : \A y \in S : ~(<<y, x>> \in R)
  <2>1. S \subseteq Nat
    OBVIOUS
  <2>2. IsWellFoundedOn(R, Nat)
    BY <1>3
  <2> QED BY ONLY <2>1, <2>2, S # {}, WFMin, Zenon
<1>5. ASSUME NEW y \in S PROVE x <= y
  <2>1. x \in Nat /\ y \in Nat /\ ~(y < x)
    BY <1>3, <1>4
  <2> QED BY <2>1
<1> QED BY <1>5 DEF Min

LEMMA GreatestIs ==
  ASSUME NEW N \in Nat, NEW S \in SUBSET (0 .. N), S # {}
  PROVE  Max(S) \in S /\ \A n \in S : n <= Max(S)
<1> DEFINE T == {N - n : n \in S}
<1>1. /\ T \in SUBSET Nat
      /\ T # {}
  <2>1. \A n \in S : N - n \in Nat
    OBVIOUS
  <2> QED BY <2>1
<1>2. Min(T) \in T /\ \A n \in T : Min(T) <= n
  BY <1>1, LeastIs
<1>3. PICK x \in S : Min(T) = N - x
  BY <1>2
<1>4. \A n \in S : n <= x
  <2> SUFFICES ASSUME NEW n \in S PROVE n <= x
    OBVIOUS
  <2>1. N - x <= N - n
    BY <1>2, <1>3
  <2> QED BY <2>1
<1> QED BY <1>4 DEF Max

-----------------------------------------------------------------------------
\* The steps of the queue that are thread t's
StepsOf(q, t) == {n \in DOMAIN q : q[n].thread = t}

LEMMA QueueAppend ==
  ASSUME NEW q \in Seq(StepState), NEW step \in StepState
  PROVE  /\ Append(q, step) \in Seq(StepState)
         /\ DOMAIN Append(q, step) = DOMAIN q \cup {Len(q) + 1}
         /\ Append(q, step)[Len(q) + 1] = step
         /\ \A n \in DOMAIN q : n \in Nat /\ n < Len(q) + 1 /\ Append(q, step)[n] = q[n]
         /\ Len(q) \in Nat
OBVIOUS

LEMMA QueueTail ==
  ASSUME NEW q \in Seq(StepState), q # <<>>
  PROVE  /\ Tail(q) \in Seq(StepState) /\ Head(q) \in StepState
         /\ 1 \in DOMAIN q /\ Head(q) = q[1]
         /\ \A n \in DOMAIN Tail(q) : n \in Nat /\ n + 1 \in DOMAIN q /\ Tail(q)[n] = q[n + 1]
         /\ \A n \in DOMAIN q : n \in Nat /\ n > 0 /\ (n # 1 => n - 1 \in DOMAIN Tail(q))
OBVIOUS

LEMMA BehindIs ==
  ASSUME NEW s \in PanelState, NEW t
  PROVE  /\ Behind(s, t) \in Nat
         /\ \A n \in StepsOf(s.queue, t) : n \in Nat /\ n <= Behind(s, t)
         /\ Behind(s, t) = 0 <=> StepsOf(s.queue, t) = {}
<1> DEFINE S == {0} \cup StepsOf(s.queue, t)
<1>1. s.queue \in Seq(StepState)
  BY DEF PanelState
<1>2. Len(s.queue) \in Nat /\ DOMAIN s.queue = 1 .. Len(s.queue)
  BY <1>1
<1>3. S \in SUBSET (0 .. Len(s.queue)) /\ S # {}
  BY <1>2 DEF StepsOf
<1>4. Max(S) \in S /\ \A n \in S : n <= Max(S)
  BY <1>2, <1>3, GreatestIs
<1>5. Behind(s, t) = Max(S)
  BY DEF Behind, StepsOf
<1>6. \A n \in StepsOf(s.queue, t) : n \in Nat /\ n > 0
  BY <1>2 DEF StepsOf
<1>7. \A n : n \in S <=> n = 0 \/ n \in StepsOf(s.queue, t)
  OBVIOUS
<1> HIDE DEF S
<1>8. Behind(s, t) \in Nat
  BY <1>4, <1>5, <1>6, <1>7
<1>9. \A n \in StepsOf(s.queue, t) : n \in Nat /\ n <= Behind(s, t)
  BY <1>4, <1>5, <1>6, <1>7
<1>10. Behind(s, t) = 0 => StepsOf(s.queue, t) = {}
  BY <1>6, <1>9
<1>11. StepsOf(s.queue, t) = {} => Behind(s, t) = 0
  BY <1>4, <1>5, <1>7
<1> QED BY <1>8, <1>9, <1>10, <1>11

LEMMA StepsAreSteps ==
  ASSUME NEW t \in Threads, NEW to \in Threads \cup {NoThread}, NEW list \in SUBSET Items
  PROVE  WriteOf(t, list) \in StepState /\ KeepOf(t, list) \in StepState /\ DropOf(t, to) \in StepState
BY DEF WriteOf, KeepOf, DropOf, StepState

\* A load, once the list that it shares with the panel is no longer the panel's
LoadLetGo(s, l) ==
  IF l.seq = s.seq /\ l.shares THEN [l EXCEPT !.shares = FALSE, !.kept = s.items] ELSE l

\* The loads as they are once the panel has let go of its list
LetGoOf(s, loads) ==
  /\ \A k \in loads : \E l \in s.loads : k = LoadLetGo(s, l)
  /\ \A l \in s.loads :
       LET k == LoadLetGo(s, l) IN
       /\ k \in loads
       /\ k.thread = l.thread /\ k.seq = l.seq /\ k.from = l.from /\ k.orphans = l.orphans
       /\ k.behind = l.behind /\ k.stage = l.stage /\ k.ok = l.ok /\ k.got = l.got
       /\ l.seq = s.seq /\ l.shares => k.kept = s.items /\ k.shares = FALSE
       /\ ~(l.seq = s.seq /\ l.shares) => k.kept = l.kept /\ k.shares = l.shares

LEMMA LetGoIs ==
  ASSUME NEW s \in PanelState
  PROVE  LetGo(s) \in SUBSET LoadState /\ LetGoOf(s, LetGo(s))
<1>1. \A l \in s.loads : l \in LoadState /\ s.items \in SUBSET Items
  BY DEF PanelState
<1>2. LetGo(s) = {LoadLetGo(s, l) : l \in s.loads}
  BY DEF LetGo, LoadLetGo
<1>3. ASSUME NEW l \in s.loads
      PROVE  LET k == LoadLetGo(s, l) IN
              /\ k \in LoadState
              /\ k.thread = l.thread /\ k.seq = l.seq /\ k.from = l.from /\ k.orphans = l.orphans
              /\ k.behind = l.behind /\ k.stage = l.stage /\ k.ok = l.ok /\ k.got = l.got
              /\ l.seq = s.seq /\ l.shares => k.kept = s.items /\ k.shares = FALSE
              /\ ~(l.seq = s.seq /\ l.shares) => k.kept = l.kept /\ k.shares = l.shares
  BY <1>1 DEF LoadLetGo, LoadState
<1> QED BY <1>2, <1>3 DEF LetGoOf

LEMMA ReadIs ==
  ASSUME NEW s \in PanelState, NEW t \in Threads, NEW n \in Nat, NEW from \in Threads \cup {NoThread},
         NEW orphans \in SUBSET Items
  PROVE  LET l == Read(t, n, from, orphans, s) IN
         /\ l \in LoadState
         /\ l.thread = t /\ l.seq = n /\ l.from = from /\ l.orphans = orphans /\ l.shares
         /\ l.kept = {} /\ l.behind = Behind(s, t) /\ l.stage = "queue" /\ l.ok /\ l.got = {}
BY BehindIs DEF Read, LoadState

LEMMA SetsOfPanel ==
  ASSUME NEW s \in PanelState
  PROVE  Unsaved(s) \in SUBSET Items /\ Adrift(s) \in SUBSET Items
BY DEF PanelState, Unsaved, Adrift

LEMMA PersistIs ==
  ASSUME NEW s \in PanelState
  PROVE  /\ Persist(s) \in PanelState
         /\ Persist(s).thread = s.thread /\ Persist(s).items = s.items
         /\ Persist(s).writes = s.writes /\ Persist(s).seq = s.seq /\ Persist(s).loads = s.loads
         /\ Persist(s).givenUp = s.givenUp /\ Persist(s).adrift = s.adrift
         /\ Persist(s).queue = IF s.thread = NoThread \/ s.writes # "open" THEN s.queue
                               ELSE Append(s.queue, WriteOf(s.thread, s.items))
<1>1. CASE s.thread = NoThread \/ s.writes # "open"
  BY <1>1 DEF Persist
<1>2. CASE ~(s.thread = NoThread \/ s.writes # "open")
  <2>1. s.thread \in Threads /\ s.items \in SUBSET Items /\ s.queue \in Seq(StepState)
    BY <1>2 DEF PanelState
  <2>2. WriteOf(s.thread, s.items) \in StepState
    BY <2>1, StepsAreSteps
  <2>3. Append(s.queue, WriteOf(s.thread, s.items)) \in Seq(StepState)
    BY <2>1, <2>2, QueueAppend
  <2> QED BY <1>2, <2>3 DEF Persist, Enqueue, PanelState
<1> QED BY <1>1, <1>2

LEMMA EnqueueIs ==
  ASSUME NEW s \in PanelState, NEW step \in StepState
  PROVE  /\ Enqueue(s, step) \in PanelState
         /\ Enqueue(s, step).thread = s.thread /\ Enqueue(s, step).items = s.items
         /\ Enqueue(s, step).writes = s.writes /\ Enqueue(s, step).seq = s.seq
         /\ Enqueue(s, step).loads = s.loads
         /\ Enqueue(s, step).givenUp = s.givenUp /\ Enqueue(s, step).adrift = s.adrift
         /\ Enqueue(s, step).queue = Append(s.queue, step)
<1>1. Append(s.queue, step) \in Seq(StepState)
  BY QueueAppend DEF PanelState
<1> QED BY <1>1 DEF Enqueue, PanelState

LEMMA CloseIs ==
  ASSUME NEW s \in PanelState, s.thread # NoThread, ChatPanelAssumption
  PROVE  LET c == closeThread(s) IN
         /\ c \in PanelState
         /\ c.thread = NoThread /\ c.items = {} /\ c.writes = "open" /\ c.seq = s.seq + 1
         /\ c.loads = LetGo(s) /\ c.queue = s.queue
         /\ c.givenUp = s.givenUp \cup Unsaved(s) /\ c.adrift = s.adrift \cup Adrift(s)
<1>1. LetGo(s) \in SUBSET LoadState /\ Unsaved(s) \in SUBSET Items /\ Adrift(s) \in SUBSET Items
  BY LetGoIs, SetsOfPanel
<1>2. s.seq + 1 \in Nat
  BY DEF PanelState
<1> DEFINE c == [s EXCEPT !.thread = NoThread, !.seq = s.seq + 1, !.writes = "open",
                          !.items = {}, !.loads = LetGo(s),
                          !.givenUp = s.givenUp \cup Unsaved(s),
                          !.adrift = s.adrift \cup Adrift(s)]
<1>3. closeThread(s) = c
  BY DEF closeThread
<1>4. s.givenUp \cup Unsaved(s) \in SUBSET Items /\ s.adrift \cup Adrift(s) \in SUBSET Items
  BY <1>1 DEF PanelState
<1>5. c \in PanelState
  BY <1>1, <1>2, <1>4 DEF PanelState
<1>6. /\ c.thread = NoThread /\ c.items = {} /\ c.writes = "open" /\ c.seq = s.seq + 1
      /\ c.loads = LetGo(s) /\ c.queue = s.queue
      /\ c.givenUp = s.givenUp \cup Unsaved(s) /\ c.adrift = s.adrift \cup Adrift(s)
  BY DEF PanelState
<1> HIDE DEF c
<1> QED BY <1>3, <1>5, <1>6

LEMMA LoadIs ==
  ASSUME NEW s \in PanelState, NEW t \in Threads, ChatPanelAssumption
  PROVE  LET c == load(s, t)
             orphans == IF s.thread = NoThread THEN s.items ELSE {}
         IN
         /\ c \in PanelState
         /\ c.thread = t /\ c.items = {} /\ c.writes = "reading" /\ c.seq = s.seq + 1
         /\ c.loads = LetGo(s) \cup {Read(t, s.seq + 1, NoThread, orphans, s)}
         /\ c.queue = s.queue
         /\ c.givenUp = s.givenUp \cup Unsaved(s) /\ c.adrift = s.adrift \cup Adrift(s)
<1> DEFINE orphans == IF s.thread = NoThread THEN s.items ELSE {}
<1>1. LetGo(s) \in SUBSET LoadState /\ Unsaved(s) \in SUBSET Items /\ Adrift(s) \in SUBSET Items
  BY LetGoIs, SetsOfPanel
<1>2. orphans \in SUBSET Items /\ s.seq + 1 \in Nat
  BY DEF PanelState
<1>3. Read(t, s.seq + 1, NoThread, orphans, s) \in LoadState
  BY <1>2, ReadIs
<1>4. LetGo(s) \cup {Read(t, s.seq + 1, NoThread, orphans, s)} \in SUBSET LoadState
  BY <1>1, <1>3
<1> QED BY <1>1, <1>2, <1>4 DEF load, PanelState

LEMMA RepointIs ==
  ASSUME NEW s \in PanelState, s.thread # NoThread, NEW to \in Threads, ChatPanelAssumption
  PROVE  LET c == repoint(s, to) IN
         /\ c \in PanelState
         /\ c.thread = to /\ c.items = s.items /\ c.writes = "reading" /\ c.seq = s.seq + 1
         /\ c.loads = LetGo(s) \cup {Read(to, s.seq + 1, s.thread, {}, s)}
         /\ c.queue = s.queue
         /\ c.givenUp = s.givenUp /\ c.adrift = s.adrift
<1>1. LetGo(s) \in SUBSET LoadState
  BY LetGoIs
<1>2. s.seq + 1 \in Nat /\ s.thread \in Threads \cup {NoThread}
  BY DEF PanelState
<1>3. Read(to, s.seq + 1, s.thread, {}, s) \in LoadState
  BY <1>2, ReadIs
<1>4. LetGo(s) \cup {Read(to, s.seq + 1, s.thread, {}, s)} \in SUBSET LoadState
  BY <1>1, <1>3
<1> QED BY <1>2, <1>4 DEF repoint, PanelState

-----------------------------------------------------------------------------
(***************************************************************************)
(* The panel and its queue.  f is the files; safe what is in a file or on  *)
(* the account, or excused; excused what was given up or trampled.         *)
(***************************************************************************)

\* A load renders into the panel only while it is the last one, and it alone then
\* holds the list on screen, or an older part of it
LoadsOK(s) ==
  /\ \A l \in s.loads : l.seq <= s.seq
  /\ \A l, k \in s.loads : l.seq = k.seq => l = k
  /\ \A l \in s.loads : l.shares => l.seq = s.seq /\ l.kept = {}
  /\ \A l \in s.loads : l.seq = s.seq => l.thread = s.thread /\ s.writes = "reading"
  /\ s.writes = "reading" => \E l \in s.loads : l.seq = s.seq
  /\ \A l \in s.loads : l.seq = s.seq /\ ~l.shares => l.kept \subseteq s.items
  /\ \A l \in s.loads : l.from # l.thread /\ (l.from # NoThread => l.orphans = {})

\* A queued write takes nothing from its file: before it there are only writes, of less
QueueOK(q, f, excused) ==
  /\ \A n \in DOMAIN q : q[n].kind = "drop" =>
       q[n].thread # q[n].to /\ q[n].to # NoThread /\ q[n].items = {}
  /\ \A n \in DOMAIN q : q[n].kind = "write" => f[q[n].thread] \subseteq q[n].items \cup excused
  /\ \A n, k \in DOMAIN q :
       q[n].kind = "write" /\ k < n /\ q[k].thread = q[n].thread =>
         q[k].kind = "write" /\ q[k].items \subseteq q[n].items \cup excused

IsOpen(s) == s.thread # NoThread /\ s.writes = "open"

\* A thread that is open to writes is on screen whole, and so are its queued writes
ShowsAll(s, f, excused) ==
  IsOpen(s) =>
    /\ f[s.thread] \subseteq s.items \cup excused
    /\ \A n \in StepsOf(s.queue, s.thread) :
         s.queue[n].kind = "write" /\ s.queue[n].items \subseteq s.items

\* ... and what is on screen is stored, or the last of the queued writes brings it
Brings(s, n) ==
  /\ n \in StepsOf(s.queue, s.thread)
  /\ s.queue[n].items = s.items
  /\ \A k \in StepsOf(s.queue, s.thread) : k <= n

Stores(s, safe) ==
  IsOpen(s) => \/ StepsOf(s.queue, s.thread) = {} /\ s.items \subseteq safe
               \/ \E n \in DOMAIN s.queue : Brings(s, n)

\* The load that is current reads its thread after all that is queued for it
ReadsLast(s, f, safe, excused) ==
  \A l \in s.loads : l.seq = s.seq =>
    /\ \A n \in StepsOf(s.queue, l.thread) : l.stage = "queue" /\ n <= l.behind
    /\ l.stage = "read" /\ l.ok => f[l.thread] \subseteq l.got \cup excused
    /\ l.got \subseteq safe

\* All of it but Stores, which a write restores
PanelReady(s, f, safe, excused) ==
  /\ LoadsOK(s)
  /\ QueueOK(s.queue, f, excused)
  /\ ShowsAll(s, f, excused)
  /\ ReadsLast(s, f, safe, excused)

PanelOK(s, f, safe, excused) == PanelReady(s, f, safe, excused) /\ Stores(s, safe)

\* What the panel has in memory
InMem(s, m) ==
  \/ m \in s.items
  \/ \E l \in s.loads : m \in l.orphans \/ m \in l.kept
  \/ \E n \in DOMAIN s.queue : m \in s.queue[n].items

\* What goes from memory is stored, given up or adrift
Retains(s, r, safe) ==
  \A m : InMem(s, m) => InMem(r, m) \/ m \in safe \/ m \in r.givenUp \/ m \in r.adrift

LEMMA MoreSafe ==
  ASSUME NEW s, NEW f, NEW safe, NEW excused, NEW more, NEW also,
         PanelOK(s, f, safe, excused), safe \subseteq more, excused \subseteq also
  PROVE  PanelOK(s, f, more, also)
<1>1. QueueOK(s.queue, f, also)
  BY DEF PanelOK, PanelReady, QueueOK
<1>2. ShowsAll(s, f, also)
  BY DEF PanelOK, PanelReady, ShowsAll
<1>3. ReadsLast(s, f, more, also)
  BY DEF PanelOK, PanelReady, ReadsLast
<1>4. Stores(s, more)
  BY DEF PanelOK, Stores
<1> QED BY <1>1, <1>2, <1>3, <1>4 DEF PanelOK, PanelReady

LEMMA PersistKeeps ==
  ASSUME NEW s \in PanelState, NEW f, NEW safe, NEW excused, PanelReady(s, f, safe, excused)
  PROVE  PanelOK(Persist(s), f, safe, excused)
<1> DEFINE r == Persist(s)
           w == WriteOf(s.thread, s.items)
<1>0. /\ r.thread = s.thread /\ r.items = s.items /\ r.writes = s.writes /\ r.seq = s.seq
      /\ r.loads = s.loads
      /\ r.queue = IF s.thread = NoThread \/ s.writes # "open" THEN s.queue
                   ELSE Append(s.queue, w)
  BY PersistIs
<1>1. CASE ~IsOpen(s)
  <2>1. r = s
    BY <1>1 DEF Persist, IsOpen
  <2>2. Stores(s, safe)
    BY <1>1 DEF Stores
  <2> QED BY <2>1, <2>2 DEF PanelOK
<1>2. CASE IsOpen(s)
  <2> DEFINE e == Len(s.queue) + 1
  <2>1. s.queue \in Seq(StepState) /\ s.thread \in Threads /\ s.items \in SUBSET Items
    BY <1>2 DEF PanelState, IsOpen
  <2>2. w \in StepState /\ w.kind = "write" /\ w.thread = s.thread /\ w.items = s.items
    BY <2>1, StepsAreSteps DEF WriteOf
  <2>3. r.queue = Append(s.queue, w)
    BY <1>0, <1>2 DEF IsOpen
  <2> HIDE DEF r, w
  <2>4. /\ DOMAIN r.queue = DOMAIN s.queue \cup {e} /\ r.queue[e] = w
        /\ \A n \in DOMAIN s.queue : n \in Nat /\ n < e /\ r.queue[n] = s.queue[n]
        /\ e \in Nat
    BY <2>1, <2>2, <2>3, QueueAppend
  <2> HIDE DEF e
  <2>5. LoadsOK(r)
    BY <1>0 DEF PanelReady, LoadsOK
  <2>6. QueueOK(r.queue, f, excused)
    <3>1. \A n \in DOMAIN r.queue :
            r.queue[n].kind = "drop" =>
              /\ r.queue[n].thread # r.queue[n].to /\ r.queue[n].to # NoThread
              /\ r.queue[n].items = {}
      BY <2>2, <2>4 DEF PanelReady, QueueOK
    <3>2. \A n \in DOMAIN r.queue :
            r.queue[n].kind = "write" => f[r.queue[n].thread] \subseteq r.queue[n].items \cup excused
      BY <1>2, <2>2, <2>4 DEF PanelReady, QueueOK, ShowsAll
    <3>3. ASSUME NEW n \in DOMAIN r.queue, NEW k \in DOMAIN r.queue,
                 r.queue[n].kind = "write", k < n, r.queue[k].thread = r.queue[n].thread
          PROVE  r.queue[k].kind = "write" /\ r.queue[k].items \subseteq r.queue[n].items \cup excused
      <4>1. k \in DOMAIN s.queue
        BY <2>4, <3>3
      <4>2. CASE n = e
        BY <1>2, <2>2, <2>4, <3>3, <4>1, <4>2 DEF PanelReady, ShowsAll, StepsOf
      <4>3. CASE n # e
        BY <2>4, <3>3, <4>1, <4>3 DEF PanelReady, QueueOK
      <4> QED BY <4>2, <4>3
    <3> QED BY <3>1, <3>2, <3>3 DEF QueueOK
  <2>7. ShowsAll(r, f, excused)
    BY <1>0, <1>2, <2>2, <2>4 DEF PanelReady, ShowsAll, StepsOf, IsOpen
  <2>8. ReadsLast(r, f, safe, excused)
    BY <1>0, <1>2, <2>5 DEF LoadsOK, ReadsLast, IsOpen
  <2>9. Brings(r, e)
    BY <1>0, <2>2, <2>4 DEF Brings, StepsOf
  <2>10. Stores(r, safe)
    BY <2>4, <2>9 DEF Stores
  <2> QED BY <2>5, <2>6, <2>7, <2>8, <2>10 DEF PanelOK, PanelReady, r
<1> QED BY <1>1, <1>2

LEMMA PersistRetains ==
  ASSUME NEW s \in PanelState, NEW m, InMem(s, m)
  PROVE  InMem(Persist(s), m)
<1>1. CASE Persist(s).queue = s.queue
  BY <1>1, PersistIs DEF InMem
<1>2. CASE Persist(s).queue # s.queue
  <2>1. s.queue \in Seq(StepState) /\ s.thread \in Threads /\ s.items \in SUBSET Items
    BY <1>2, PersistIs DEF PanelState
  <2>2. Persist(s).queue = Append(s.queue, WriteOf(s.thread, s.items))
    BY <1>2, PersistIs
  <2>3. \A n \in DOMAIN s.queue :
          n \in DOMAIN Persist(s).queue /\ Persist(s).queue[n] = s.queue[n]
    BY <2>1, <2>2, StepsAreSteps, QueueAppend
  <2> QED BY <2>3, PersistIs DEF InMem
<1> QED BY <1>1, <1>2

-----------------------------------------------------------------------------
\* What the panel's functions do

LEMMA GrowIs ==
  ASSUME NEW s \in PanelState, NEW list \in SUBSET Items
  PROVE  LET u == [s EXCEPT !.items = @ \cup list] IN
         /\ u \in PanelState
         /\ u.thread = s.thread /\ u.items = s.items \cup list /\ u.writes = s.writes
         /\ u.seq = s.seq /\ u.loads = s.loads /\ u.queue = s.queue
         /\ u.givenUp = s.givenUp /\ u.adrift = s.adrift
<1>1. s.items \cup list \in SUBSET Items
  BY DEF PanelState
<1> QED BY <1>1 DEF PanelState

LEMMA GrowKeeps ==
  ASSUME NEW s \in PanelState, NEW list \in SUBSET Items, NEW f, NEW safe, NEW excused,
         PanelOK(s, f, safe, excused)
  PROVE  LET r == Persist([s EXCEPT !.items = @ \cup list]) IN
         /\ r \in PanelState /\ PanelOK(r, f, safe, excused)
         /\ r.thread = s.thread /\ r.givenUp = s.givenUp /\ r.adrift = s.adrift
         /\ r.loads = s.loads /\ r.items = s.items \cup list
         /\ Retains(s, r, safe)
         /\ r.queue = IF IsOpen(s) THEN Append(s.queue, WriteOf(s.thread, s.items \cup list))
                      ELSE s.queue
<1> DEFINE u == [s EXCEPT !.items = @ \cup list]
<1>1. /\ u \in PanelState
      /\ u.thread = s.thread /\ u.items = s.items \cup list /\ u.writes = s.writes
      /\ u.seq = s.seq /\ u.loads = s.loads /\ u.queue = s.queue
      /\ u.givenUp = s.givenUp /\ u.adrift = s.adrift
  BY GrowIs
<1> HIDE DEF u
<1>2. LoadsOK(u)
  BY <1>1 DEF PanelOK, PanelReady, LoadsOK
<1>3. QueueOK(u.queue, f, excused)
  BY <1>1 DEF PanelOK, PanelReady
<1>4. ShowsAll(u, f, excused)
  BY <1>1 DEF PanelOK, PanelReady, ShowsAll, IsOpen
<1>5. ReadsLast(u, f, safe, excused)
  BY <1>1 DEF PanelOK, PanelReady, ReadsLast
<1>6. PanelOK(Persist(u), f, safe, excused)
  BY <1>1, <1>2, <1>3, <1>4, <1>5, PersistKeeps DEF PanelReady
<1>7. \A m : InMem(s, m) => InMem(Persist(u), m)
  BY <1>1, PersistRetains DEF InMem
<1>8. Persist(u).queue = IF IsOpen(s) THEN Append(s.queue, WriteOf(s.thread, s.items \cup list))
                         ELSE s.queue
  BY <1>1, PersistIs DEF IsOpen
<1> QED BY <1>1, <1>6, <1>7, <1>8, PersistIs DEF Retains, u

LEMMA CloseKeeps ==
  ASSUME NEW s \in PanelState, NEW f, NEW safe, NEW excused, ChatPanelAssumption,
         PanelOK(s, f, safe, excused), s.thread # NoThread
  PROVE  LET c == closeThread(s) IN
         /\ PanelOK(c, f, safe, excused)
         /\ Retains(s, c, safe)
<1> DEFINE c == closeThread(s)
<1>1. /\ c \in PanelState
      /\ c.thread = NoThread /\ c.items = {} /\ c.writes = "open" /\ c.seq = s.seq + 1
      /\ c.loads = LetGo(s) /\ c.queue = s.queue
      /\ c.givenUp = s.givenUp \cup Unsaved(s) /\ c.adrift = s.adrift \cup Adrift(s)
  BY CloseIs
<1> HIDE DEF c
<1>2. LetGoOf(s, c.loads)
  BY <1>1, LetGoIs
<1> USE DEF LetGoOf
<1>3. s.seq \in Nat /\ \A l \in s.loads : l.seq \in Nat
  BY DEF PanelState, LoadState
<1>4. \A l \in s.loads : l.seq <= s.seq /\ l.seq # c.seq
  BY <1>1, <1>3 DEF PanelOK, PanelReady, LoadsOK
<1>5. LoadsOK(c)
  BY <1>1, <1>2, <1>3, <1>4 DEF PanelOK, PanelReady, LoadsOK
<1>6. PanelOK(c, f, safe, excused)
  BY <1>1, <1>2, <1>4, <1>5
     DEF PanelOK, PanelReady, ShowsAll, Stores, ReadsLast, IsOpen
<1>7. Retains(s, c, safe)
  <2> SUFFICES ASSUME NEW m, InMem(s, m)
               PROVE  InMem(c, m) \/ m \in safe \/ m \in c.givenUp \/ m \in c.adrift
    BY DEF Retains
  <2>1. CASE \E n \in DOMAIN s.queue : m \in s.queue[n].items
    BY <1>1, <2>1 DEF InMem
  <2>2. ASSUME NEW l \in s.loads, m \in l.orphans \/ m \in l.kept
        PROVE  InMem(c, m) \/ m \in c.adrift
    <3>1. l.shares => l.kept = {}
      BY DEF PanelOK, PanelReady, LoadsOK
    <3> QED BY <1>2, <2>2, <3>1 DEF InMem
  <2>3. CASE m \in s.items
    <3>1. CASE s.writes = "open"
      BY <1>1, <2>3, <3>1 DEF PanelOK, Stores, IsOpen, Brings, InMem, StepsOf
    <3>2. CASE s.writes = "unreadable"
      BY <1>1, <2>3, <3>2 DEF Unsaved
    <3>3. CASE s.writes = "reading"
      <4>1. PICK l \in s.loads : l.seq = s.seq
        BY <3>3 DEF PanelOK, PanelReady, LoadsOK
      <4>2. CASE l.shares
        BY <1>2, <2>3, <4>1, <4>2 DEF InMem
      <4>3. CASE ~l.shares /\ m \in l.kept
        BY <1>2, <4>1, <4>3 DEF InMem
      <4>4. CASE ~l.shares /\ m \notin l.kept
        BY <1>1, <2>3, <4>1, <4>4 DEF Adrift
      <4> QED BY <4>2, <4>3, <4>4
    <3> QED BY <3>1, <3>2, <3>3 DEF PanelState
  <2> QED BY <2>1, <2>2, <2>3 DEF InMem
<1> QED BY <1>6, <1>7 DEF c

LEMMA LoadKeeps ==
  ASSUME NEW s \in PanelState, NEW t \in Threads, NEW f, NEW safe, NEW excused,
         ChatPanelAssumption, PanelOK(s, f, safe, excused)
  PROVE  LET c == load(s, t) IN
         /\ PanelOK(c, f, safe, excused)
         /\ Retains(s, c, safe)
<1> DEFINE c == load(s, t)
           orphans == IF s.thread = NoThread THEN s.items ELSE {}
           new == Read(t, s.seq + 1, NoThread, orphans, s)
<1>1. /\ c \in PanelState
      /\ c.thread = t /\ c.items = {} /\ c.writes = "reading" /\ c.seq = s.seq + 1
      /\ c.loads = LetGo(s) \cup {new} /\ c.queue = s.queue
      /\ c.givenUp = s.givenUp \cup Unsaved(s) /\ c.adrift = s.adrift \cup Adrift(s)
  BY LoadIs
<1>2. LetGoOf(s, LetGo(s))
  BY LetGoIs
<1>3. s.seq \in Nat /\ s.seq + 1 \in Nat /\ orphans \in SUBSET Items /\ \A l \in s.loads : l.seq \in Nat
  BY DEF PanelState, LoadState
<1>4. /\ new.thread = t /\ new.seq = s.seq + 1 /\ new.from = NoThread /\ new.orphans = orphans
      /\ new.shares /\ new.kept = {} /\ new.behind = Behind(s, t) /\ new.stage = "queue"
      /\ new.got = {}
  BY <1>3, ReadIs
<1>5. s.thread = NoThread => new.orphans = s.items
  BY <1>4
<1> HIDE DEF c, new, orphans
<1>6. \A l \in s.loads : l.seq <= s.seq /\ l.seq # c.seq
  BY <1>1, <1>3 DEF PanelOK, PanelReady, LoadsOK
<1>7. \A k \in c.loads : k = new \/ \E l \in s.loads : k = LoadLetGo(s, l)
  BY <1>1, <1>2 DEF LetGoOf
<1>8. \A l \in s.loads :
        LET k == LoadLetGo(s, l) IN
        /\ k \in c.loads
        /\ k.thread = l.thread /\ k.seq = l.seq /\ k.from = l.from /\ k.orphans = l.orphans
        /\ ~k.shares
        /\ l.seq = s.seq /\ l.shares => k.kept = s.items
        /\ ~(l.seq = s.seq /\ l.shares) => k.kept = l.kept
  BY <1>1, <1>2 DEF LetGoOf, PanelOK, PanelReady, LoadsOK
<1>9. LoadsOK(c)
  <2>1. NoThread # t
    BY DEF ChatPanelAssumption
  <2>2. \A l \in c.loads :
          /\ l.seq <= c.seq /\ (l # new => l.seq # c.seq /\ ~l.shares)
          /\ l.from # l.thread /\ (l.from # NoThread => l.orphans = {})
    BY <1>1, <1>3, <1>4, <1>6, <1>7, <1>8, <2>1 DEF PanelOK, PanelReady, LoadsOK
  <2>3. \A l, k \in c.loads : l.seq = k.seq => l = k
    BY <1>1, <1>4, <1>6, <1>7, <1>8, <2>2 DEF PanelOK, PanelReady, LoadsOK
  <2> QED BY <1>1, <1>4, <2>2, <2>3 DEF LoadsOK
<1>10. ReadsLast(c, f, safe, excused)
  <2>1. \A n \in StepsOf(c.queue, t) : n <= new.behind
    BY <1>1, <1>4, BehindIs
  <2>2. \A l \in c.loads : l.seq = c.seq => l = new
    BY <1>1, <1>4, <1>9 DEF LoadsOK
  <2> QED BY <1>4, <2>1, <2>2 DEF ReadsLast
<1>11. PanelOK(c, f, safe, excused)
  BY <1>1, <1>9, <1>10 DEF PanelOK, PanelReady, ShowsAll, Stores, IsOpen
<1>12. Retains(s, c, safe)
  <2> SUFFICES ASSUME NEW m, InMem(s, m)
               PROVE  InMem(c, m) \/ m \in safe \/ m \in c.givenUp \/ m \in c.adrift
    BY DEF Retains
  <2>1. CASE \E n \in DOMAIN s.queue : m \in s.queue[n].items
    BY <1>1, <2>1 DEF InMem
  <2>2. ASSUME NEW l \in s.loads, m \in l.orphans \/ m \in l.kept
        PROVE  InMem(c, m)
    <3>1. l.shares => l.kept = {}
      BY DEF PanelOK, PanelReady, LoadsOK
    <3> QED BY <1>8, <2>2, <3>1 DEF InMem
  <2>3. CASE m \in s.items /\ s.thread = NoThread
    BY <1>1, <1>5, <2>3 DEF InMem
  <2>4. CASE m \in s.items /\ s.thread # NoThread
    <3>1. CASE s.writes = "open"
      BY <1>1, <2>4, <3>1 DEF PanelOK, Stores, IsOpen, Brings, InMem, StepsOf
    <3>2. CASE s.writes = "unreadable"
      BY <1>1, <2>4, <3>2 DEF Unsaved
    <3>3. CASE s.writes = "reading"
      <4>1. PICK l \in s.loads : l.seq = s.seq
        BY <3>3 DEF PanelOK, PanelReady, LoadsOK
      <4>2. CASE l.shares
        BY <1>8, <2>4, <4>1, <4>2 DEF InMem
      <4>3. CASE ~l.shares /\ m \in l.kept
        BY <1>8, <4>1, <4>3 DEF InMem
      <4>4. CASE ~l.shares /\ m \notin l.kept
        BY <1>1, <2>4, <4>1, <4>4 DEF Adrift
      <4> QED BY <4>2, <4>3, <4>4
    <3> QED BY <3>1, <3>2, <3>3 DEF PanelState
  <2> QED BY <2>1, <2>2, <2>3, <2>4 DEF InMem
<1> QED BY <1>11, <1>12 DEF c

LEMMA RepointKeeps ==
  ASSUME NEW s \in PanelState, NEW to \in Threads, NEW f, NEW safe, NEW excused,
         ChatPanelAssumption, PanelOK(s, f, safe, excused),
         s.thread # NoThread, s.thread # to
  PROVE  LET c == repoint(s, to) IN
         /\ PanelOK(c, f, safe, excused)
         /\ Retains(s, c, safe)
<1> DEFINE c == repoint(s, to)
           new == Read(to, s.seq + 1, s.thread, {}, s)
<1>1. /\ c \in PanelState
      /\ c.thread = to /\ c.items = s.items /\ c.writes = "reading" /\ c.seq = s.seq + 1
      /\ c.loads = LetGo(s) \cup {new} /\ c.queue = s.queue
      /\ c.givenUp = s.givenUp /\ c.adrift = s.adrift
  BY RepointIs
<1>2. LetGoOf(s, LetGo(s))
  BY LetGoIs
<1>3. /\ s.seq \in Nat /\ s.seq + 1 \in Nat /\ s.thread \in Threads \cup {NoThread}
      /\ \A l \in s.loads : l.seq \in Nat
  BY DEF PanelState, LoadState
<1>4. /\ new.thread = to /\ new.seq = s.seq + 1 /\ new.from = s.thread /\ new.orphans = {}
      /\ new.shares /\ new.kept = {} /\ new.behind = Behind(s, to) /\ new.stage = "queue"
      /\ new.got = {}
  BY <1>3, ReadIs
<1> HIDE DEF c, new
<1>6. \A l \in s.loads : l.seq <= s.seq /\ l.seq # c.seq
  BY <1>1, <1>3 DEF PanelOK, PanelReady, LoadsOK
<1>7. \A k \in c.loads : k = new \/ \E l \in s.loads : k = LoadLetGo(s, l)
  BY <1>1, <1>2 DEF LetGoOf
<1>8. \A l \in s.loads :
        LET k == LoadLetGo(s, l) IN
        /\ k \in c.loads
        /\ k.thread = l.thread /\ k.seq = l.seq /\ k.from = l.from /\ k.orphans = l.orphans
        /\ ~k.shares
        /\ l.seq = s.seq /\ l.shares => k.kept = s.items
        /\ ~(l.seq = s.seq /\ l.shares) => k.kept = l.kept
  BY <1>1, <1>2 DEF LetGoOf, PanelOK, PanelReady, LoadsOK
<1>9. LoadsOK(c)
  <2>2. \A l \in c.loads :
          /\ l.seq <= c.seq /\ (l # new => l.seq # c.seq /\ ~l.shares)
          /\ l.from # l.thread /\ (l.from # NoThread => l.orphans = {})
    BY <1>1, <1>3, <1>4, <1>6, <1>7, <1>8 DEF PanelOK, PanelReady, LoadsOK
  <2>3. \A l, k \in c.loads : l.seq = k.seq => l = k
    BY <1>1, <1>4, <1>6, <1>7, <1>8, <2>2 DEF PanelOK, PanelReady, LoadsOK
  <2> QED BY <1>1, <1>4, <2>2, <2>3 DEF LoadsOK
<1>10. ReadsLast(c, f, safe, excused)
  <2>1. \A n \in StepsOf(c.queue, to) : n <= new.behind
    BY <1>1, <1>4, BehindIs
  <2>2. \A l \in c.loads : l.seq = c.seq => l = new
    BY <1>1, <1>4, <1>9 DEF LoadsOK
  <2> QED BY <1>4, <2>1, <2>2 DEF ReadsLast
<1>11. PanelOK(c, f, safe, excused)
  BY <1>1, <1>9, <1>10 DEF PanelOK, PanelReady, ShowsAll, Stores, IsOpen
<1>12. Retains(s, c, safe)
  <2> SUFFICES ASSUME NEW m, InMem(s, m) PROVE InMem(c, m)
    BY DEF Retains
  <2>1. ASSUME NEW l \in s.loads, m \in l.orphans \/ m \in l.kept
        PROVE  InMem(c, m)
    <3>1. l.shares => l.kept = {}
      BY DEF PanelOK, PanelReady, LoadsOK
    <3> QED BY <1>8, <2>1, <3>1 DEF InMem
  <2> QED BY <1>1, <2>1 DEF InMem
<1> QED BY <1>11, <1>12 DEF c

\* A step that is not of the thread on screen, and is no write
LEMMA EnqueueKeeps ==
  ASSUME NEW s \in PanelState, NEW step \in StepState, NEW f, NEW safe, NEW excused,
         PanelOK(s, f, safe, excused), step.kind # "write", step.thread # s.thread,
         step.kind = "drop" => step.thread # step.to /\ step.to # NoThread /\ step.items = {}
  PROVE  LET r == Enqueue(s, step) IN
         /\ r \in PanelState /\ PanelOK(r, f, safe, excused)
         /\ Retains(s, r, safe)
         /\ \A m \in step.items : InMem(r, m)
<1> DEFINE r == Enqueue(s, step)
           e == Len(s.queue) + 1
<1>1. /\ r \in PanelState
      /\ r.thread = s.thread /\ r.items = s.items /\ r.writes = s.writes /\ r.seq = s.seq
      /\ r.loads = s.loads /\ r.queue = Append(s.queue, step)
  BY EnqueueIs
<1>2. /\ DOMAIN r.queue = DOMAIN s.queue \cup {e} /\ r.queue[e] = step
      /\ \A n \in DOMAIN s.queue : n \in Nat /\ n < e /\ r.queue[n] = s.queue[n]
      /\ e \in Nat
  BY <1>1, QueueAppend DEF PanelState
<1> HIDE DEF r, e
<1>3. LoadsOK(r)
  BY <1>1 DEF PanelOK, PanelReady, LoadsOK
<1>4. QueueOK(r.queue, f, excused)
  <2>1. \A n \in DOMAIN r.queue :
          r.queue[n].kind = "drop" =>
              /\ r.queue[n].thread # r.queue[n].to /\ r.queue[n].to # NoThread
              /\ r.queue[n].items = {}
    BY <1>2 DEF PanelOK, PanelReady, QueueOK
  <2>2. \A n \in DOMAIN r.queue :
          r.queue[n].kind = "write" => f[r.queue[n].thread] \subseteq r.queue[n].items \cup excused
    BY <1>2 DEF PanelOK, PanelReady, QueueOK
  <2>3. ASSUME NEW n \in DOMAIN r.queue, NEW k \in DOMAIN r.queue,
               r.queue[n].kind = "write", k < n, r.queue[k].thread = r.queue[n].thread
        PROVE  r.queue[k].kind = "write" /\ r.queue[k].items \subseteq r.queue[n].items \cup excused
    <3>1. n \in DOMAIN s.queue
      BY <1>2, <2>3
    <3>2. k \in DOMAIN s.queue
      BY <1>2, <2>3, <3>1
    <3> QED BY <1>2, <2>3, <3>1, <3>2 DEF PanelOK, PanelReady, QueueOK
  <2> QED BY <2>1, <2>2, <2>3 DEF QueueOK
<1>5. StepsOf(r.queue, s.thread) = StepsOf(s.queue, s.thread)
  BY <1>2 DEF StepsOf
<1>6. \A n \in StepsOf(r.queue, s.thread) : r.queue[n] = s.queue[n]
  BY <1>2, <1>5 DEF StepsOf
<1>7. ShowsAll(r, f, excused)
  BY <1>1, <1>5, <1>6 DEF PanelOK, PanelReady, ShowsAll, IsOpen
<1>8. \A l \in s.loads : l.seq = s.seq => l.thread = s.thread
  BY DEF PanelOK, PanelReady, LoadsOK
<1>9. ReadsLast(r, f, safe, excused)
  BY <1>1, <1>5, <1>8 DEF PanelOK, PanelReady, ReadsLast
<1>10. Stores(r, safe)
  BY <1>1, <1>2, <1>5, <1>6 DEF PanelOK, Stores, IsOpen, Brings
<1>11. Retains(s, r, safe)
  BY <1>1, <1>2 DEF Retains, InMem
<1>12. \A m \in step.items : InMem(r, m)
  BY <1>2 DEF InMem
<1> QED BY <1>1, <1>3, <1>4, <1>7, <1>9, <1>10, <1>11, <1>12 DEF PanelOK, PanelReady, r

LEMMA KeepKeeps ==
  ASSUME NEW s \in PanelState, NEW t \in Threads, NEW list \in SUBSET Items,
         NEW f, NEW safe, NEW excused, PanelOK(s, f, safe, excused)
  PROVE  LET r == keepOvertaken(s, t, list) IN
         /\ r \in PanelState /\ PanelOK(r, f, safe, excused)
         /\ Retains(s, r, safe)
         /\ \A m \in list : InMem(r, m)
         /\ r.thread = s.thread /\ r.givenUp = s.givenUp /\ r.adrift = s.adrift
<1>1. CASE list = {}
  BY <1>1 DEF keepOvertaken, Retains
<1>2. CASE list # {} /\ s.thread = t
  <2>1. keepOvertaken(s, t, list) = Persist([s EXCEPT !.items = @ \cup list])
    BY <1>2 DEF keepOvertaken
  <2> DEFINE r == Persist([s EXCEPT !.items = @ \cup list])
  <2>2. /\ r \in PanelState /\ PanelOK(r, f, safe, excused)
        /\ r.thread = s.thread /\ r.givenUp = s.givenUp /\ r.adrift = s.adrift
        /\ r.items = s.items \cup list
        /\ Retains(s, r, safe)
    BY GrowKeeps
  <2>3. keepOvertaken(s, t, list) = r
    BY <2>1
  <2> HIDE DEF r
  <2> QED BY <2>2, <2>3 DEF InMem
<1>3. CASE list # {} /\ s.thread # t
  <2>1. keepOvertaken(s, t, list) = Enqueue(s, KeepOf(t, list))
    BY <1>3 DEF keepOvertaken
  <2>2. /\ KeepOf(t, list) \in StepState /\ KeepOf(t, list).kind = "keep"
        /\ KeepOf(t, list).thread = t /\ KeepOf(t, list).items = list
    BY ChatPanelAssumption, StepsAreSteps DEF KeepOf
  <2> QED BY <1>3, <2>1, <2>2, EnqueueKeeps, EnqueueIs
<1> QED BY <1>1, <1>2, <1>3

LEMMA FoldIs ==
  ASSUME NEW s \in PanelState, NEW list \in SUBSET Items
  PROVE  LET u == [s EXCEPT !.items = @ \cup list, !.loads = LetGo(s),
                            !.standIn = @ \cup StandIn(s, s.thread, list)] IN
         /\ u \in PanelState
         /\ u.thread = s.thread /\ u.items = s.items \cup list /\ u.writes = s.writes
         /\ u.seq = s.seq /\ u.loads = LetGo(s) /\ u.queue = s.queue
         /\ u.givenUp = s.givenUp /\ u.adrift = s.adrift
<1>1. s.items \cup list \in SUBSET Items /\ s.standIn \cup StandIn(s, s.thread, list) \in SUBSET Items
  BY DEF PanelState, StandIn
<1> QED BY <1>1, LetGoIs DEF PanelState

LEMMA FoldKeeps ==
  ASSUME NEW s \in PanelState, NEW list \in SUBSET Items, NEW f, NEW safe, NEW excused,
         PanelOK(s, f, safe, excused)
  PROVE  LET r == foldIn(s, list) IN
         /\ r \in PanelState /\ PanelOK(r, f, safe, excused)
         /\ Retains(s, r, safe)
         /\ r.thread = s.thread /\ r.givenUp = s.givenUp /\ r.adrift = s.adrift
<1>1. CASE list \subseteq s.items
  BY <1>1 DEF foldIn, Retains
<1>2. CASE ~(list \subseteq s.items)
  <2> DEFINE u == [s EXCEPT !.items = @ \cup list, !.loads = LetGo(s),
                            !.standIn = @ \cup StandIn(s, s.thread, list)]
  <2>1. foldIn(s, list) = Persist(u)
    BY <1>2 DEF foldIn
  <2>2. /\ u \in PanelState
        /\ u.thread = s.thread /\ u.items = s.items \cup list /\ u.writes = s.writes
        /\ u.seq = s.seq /\ u.loads = LetGo(s) /\ u.queue = s.queue
        /\ u.givenUp = s.givenUp /\ u.adrift = s.adrift
    BY FoldIs
  <2> HIDE DEF u
  <2>3. LetGoOf(s, u.loads)
    BY <2>2, LetGoIs
  <2>4. \A l \in s.loads : LoadLetGo(s, l).shares = FALSE
    BY <2>3 DEF LetGoOf, PanelOK, PanelReady, LoadsOK, PanelState, LoadState
  <2>5. LoadsOK(u)
    <3>1. \A l, k \in u.loads : l.seq = k.seq => l = k
      BY <2>3 DEF LetGoOf, PanelOK, PanelReady, LoadsOK
    <3>2. \A k \in u.loads :
            /\ k.seq <= u.seq /\ k.shares = FALSE
            /\ k.seq = u.seq => k.thread = u.thread /\ u.writes = "reading"
            /\ k.from # k.thread /\ (k.from # NoThread => k.orphans = {})
      BY <2>2, <2>3, <2>4 DEF LetGoOf, PanelOK, PanelReady, LoadsOK
    <3>3. u.writes = "reading" => \E l \in u.loads : l.seq = u.seq
      BY <2>2, <2>3 DEF LetGoOf, PanelOK, PanelReady, LoadsOK
    <3>4. \A k \in u.loads : k.seq = u.seq => k.kept \subseteq u.items
      BY <2>2, <2>3 DEF LetGoOf, PanelOK, PanelReady, LoadsOK
    <3> QED BY <3>1, <3>2, <3>3, <3>4 DEF LoadsOK
  <2>6. QueueOK(u.queue, f, excused)
    BY <2>2 DEF PanelOK, PanelReady
  <2>7. ShowsAll(u, f, excused)
    BY <2>2 DEF PanelOK, PanelReady, ShowsAll, IsOpen
  <2>8. ReadsLast(u, f, safe, excused)
    BY <2>2, <2>3 DEF LetGoOf, PanelOK, PanelReady, ReadsLast
  <2>9. PanelOK(Persist(u), f, safe, excused)
    BY <2>2, <2>5, <2>6, <2>7, <2>8, PersistKeeps DEF PanelReady
  <2>10. ASSUME NEW m, InMem(s, m) PROVE InMem(u, m)
    <3>1. \A l \in s.loads : l.shares => l.kept = {}
      BY DEF PanelOK, PanelReady, LoadsOK
    <3>2. ASSUME NEW l \in s.loads, m \in l.orphans \/ m \in l.kept
          PROVE  InMem(u, m)
      BY <2>3, <3>1, <3>2 DEF LetGoOf, InMem
    <3> QED BY <2>2, <2>10, <3>2 DEF InMem
  <2>11. Retains(s, Persist(u), safe)
    BY <2>2, <2>10, PersistRetains DEF Retains
  <2> QED BY <2>1, <2>2, <2>9, <2>11, PersistIs
<1> QED BY <1>1, <1>2

LEMMA FinishedIs ==
  ASSUME NEW s \in PanelState, NEW l \in s.loads
  PROVE  LET d == Finished(s, l) IN
         /\ d \in PanelState
         /\ d.thread = s.thread /\ d.items = s.items /\ d.writes = s.writes
         /\ d.seq = s.seq /\ d.loads = s.loads \ {l} /\ d.queue = s.queue
         /\ d.givenUp = s.givenUp /\ d.adrift = s.adrift
<1>1. s.loads \ {l} \in SUBSET LoadState /\ (IF s.loading = l.seq THEN 0 ELSE s.loading) \in Nat
  BY DEF PanelState
<1> QED BY <1>1 DEF Finished, PanelState

\* The end of a load that another has overtaken changes nothing on screen
LEMMA FinishedKeeps ==
  ASSUME NEW s \in PanelState, NEW l \in s.loads, NEW d \in PanelState,
         NEW f, NEW safe, NEW excused, PanelOK(s, f, safe, excused), l.seq # s.seq,
         d.thread = s.thread, d.items = s.items, d.writes = s.writes,
         d.seq = s.seq, d.loads = s.loads \ {l}, d.queue = s.queue
  PROVE  PanelOK(d, f, safe, excused)
<1>1. LoadsOK(d)
  BY DEF PanelOK, PanelReady, LoadsOK
<1>2. ShowsAll(d, f, excused) /\ Stores(d, safe)
  BY DEF PanelOK, PanelReady, ShowsAll, Stores, IsOpen, Brings
<1>3. ReadsLast(d, f, safe, excused)
  BY DEF PanelOK, PanelReady, ReadsLast
<1> QED BY <1>1, <1>2, <1>3 DEF PanelOK, PanelReady

\* The end of the load that is current: u is the panel with what was read
LEMMA LandedReady ==
  ASSUME NEW s \in PanelState, NEW l \in s.loads, NEW u \in PanelState,
         NEW f, NEW safe, NEW excused, PanelOK(s, f, safe, excused), l.seq = s.seq,
         l.stage = "read",
         u.thread = s.thread, u.writes = IF l.ok THEN "open" ELSE "unreadable",
         u.seq = s.seq, u.loads = s.loads \ {l}, u.queue = s.queue,
         l.got \subseteq u.items
  PROVE  /\ PanelReady(u, f, safe, excused)
         /\ StepsOf(u.queue, u.thread) = {}
<1>1. /\ \A k \in u.loads : k.seq # u.seq /\ k \in s.loads
      /\ l.thread = s.thread
  BY DEF PanelOK, PanelReady, LoadsOK
<1>2. u.writes # "reading"
  OBVIOUS
<1>3. LoadsOK(u)
  BY <1>1, <1>2 DEF PanelOK, PanelReady, LoadsOK
<1>4. StepsOf(u.queue, u.thread) = {}
  BY <1>1 DEF PanelOK, PanelReady, ReadsLast
<1>5. ShowsAll(u, f, excused)
  <2> SUFFICES ASSUME IsOpen(u) PROVE f[u.thread] \subseteq u.items \cup excused
    BY <1>4 DEF ShowsAll
  <2>1. l.ok
    BY DEF IsOpen
  <2> QED BY <1>1, <2>1 DEF PanelOK, PanelReady, ReadsLast
<1>6. ReadsLast(u, f, safe, excused)
  BY <1>1 DEF ReadsLast
<1> QED BY <1>3, <1>4, <1>5, <1>6 DEF PanelOK, PanelReady

LEMMA LoadLanded ==
  ASSUME NEW s \in PanelState, NEW l \in s.loads, NEW f, NEW safe, NEW excused,
         PanelOK(s, f, safe, excused), l.stage = "read", l.from = NoThread, ~Overtaken(s, l)
  PROVE  LET r == landLoad(s, l) IN
         /\ r \in PanelState /\ PanelOK(r, f, safe, excused)
         /\ Retains(s, r, safe)
         /\ r.thread = s.thread /\ r.givenUp = s.givenUp /\ r.adrift = s.adrift
<1> DEFINE done == Finished(s, l)
           adopted == l.orphans \cup s.items
           u == [done EXCEPT !.items = l.got \cup adopted,
                             !.writes = IF l.ok THEN "open" ELSE "unreadable",
                             !.doubled = @ \cup (l.got \cap adopted) \cup (l.orphans \cap s.items)]
<1>1. landLoad(s, l) = PersistAdopted(u, adopted)
  BY DEF landLoad
<1>2. /\ done \in PanelState
      /\ done.thread = s.thread /\ done.items = s.items /\ done.writes = s.writes
      /\ done.seq = s.seq /\ done.loads = s.loads \ {l} /\ done.queue = s.queue
      /\ done.givenUp = s.givenUp /\ done.adrift = s.adrift
  BY FinishedIs
<1>3. /\ l \in LoadState /\ adopted \in SUBSET Items /\ l.got \cup adopted \in SUBSET Items
      /\ (l.orphans \cap s.items) \in SUBSET Items
  BY DEF PanelState, LoadState
<1> HIDE DEF done, adopted
<1>4. /\ u \in PanelState
      /\ u.thread = s.thread /\ u.items = l.got \cup adopted
      /\ u.writes = IF l.ok THEN "open" ELSE "unreadable"
      /\ u.seq = s.seq /\ u.loads = s.loads \ {l} /\ u.queue = s.queue
      /\ u.givenUp = s.givenUp /\ u.adrift = s.adrift
  BY <1>2, <1>3 DEF PanelState
<1> HIDE DEF u
<1>5. l.seq = s.seq
  BY DEF Overtaken
<1>6. PanelReady(u, f, safe, excused) /\ StepsOf(u.queue, u.thread) = {}
  BY <1>4, <1>5, LandedReady
<1>7. ASSUME NEW m, InMem(s, m) PROVE InMem(u, m)
  <2>1. l.kept \subseteq s.items
    BY <1>5 DEF PanelOK, PanelReady, LoadsOK
  <2>2. s.items \subseteq u.items /\ l.orphans \subseteq u.items
    BY <1>4 DEF adopted
  <2> QED BY <1>4, <1>7, <2>1, <2>2 DEF InMem
<1>8. CASE adopted = {}
  <2>1. landLoad(s, l) = u
    BY <1>1, <1>8 DEF PersistAdopted
  <2>2. l.got \subseteq safe
    BY <1>5 DEF PanelOK, PanelReady, ReadsLast
  <2>3. Stores(u, safe)
    BY <1>4, <1>6, <1>8, <2>2 DEF Stores
  <2> QED BY <1>4, <1>6, <1>7, <2>1, <2>3 DEF PanelOK, Retains
<1>9. CASE adopted # {}
  <2>1. landLoad(s, l) = Persist(u)
    BY <1>1, <1>9 DEF PersistAdopted
  <2> QED BY <1>4, <1>6, <1>7, <2>1, PersistKeeps, PersistIs, PersistRetains DEF Retains
<1> QED BY <1>8, <1>9

LEMMA LoadOvertaken ==
  ASSUME NEW s \in PanelState, NEW l \in s.loads, NEW f, NEW safe, NEW excused,
         PanelOK(s, f, safe, excused), Overtaken(s, l)
  PROVE  LET r == landLoad(s, l) IN
         /\ r \in PanelState /\ PanelOK(r, f, safe, excused)
         /\ Retains(s, r, safe)
         /\ r.thread = s.thread /\ r.givenUp = s.givenUp /\ r.adrift = s.adrift
<1> DEFINE d == Finished(s, l)
           list == l.orphans \cup l.kept
           r == keepOvertaken(d, l.thread, list)
<1>1. landLoad(s, l) = r
  BY DEF landLoad
<1>2. /\ d \in PanelState
      /\ d.thread = s.thread /\ d.items = s.items /\ d.writes = s.writes
      /\ d.seq = s.seq /\ d.loads = s.loads \ {l} /\ d.queue = s.queue
      /\ d.givenUp = s.givenUp /\ d.adrift = s.adrift
  BY FinishedIs
<1>3. l.thread \in Threads /\ list \in SUBSET Items
  BY DEF PanelState, LoadState
<1> HIDE DEF d
<1>4. PanelOK(d, f, safe, excused)
  BY <1>2, FinishedKeeps DEF Overtaken
<1>5. /\ r \in PanelState /\ PanelOK(r, f, safe, excused)
      /\ Retains(d, r, safe)
      /\ \A m \in list : InMem(r, m)
      /\ r.thread = d.thread /\ r.givenUp = d.givenUp /\ r.adrift = d.adrift
  BY <1>2, <1>3, <1>4, KeepKeeps
<1> HIDE DEF r
<1>6. ASSUME NEW m, InMem(s, m) PROVE InMem(d, m) \/ m \in list
  BY <1>2, <1>6 DEF InMem
<1>7. Retains(s, r, safe)
  BY <1>5, <1>6 DEF Retains
<1> QED BY <1>1, <1>2, <1>5, <1>7

LEMMA MoveLanded ==
  ASSUME NEW s \in PanelState, NEW l \in s.loads, NEW f, NEW safe, NEW excused,
         PanelOK(s, f, safe, excused), l.stage = "read", l.from # NoThread, ~Overtaken(s, l),
         ChatPanelAssumption
  PROVE  LET r == landRepoint(s, l) IN
         /\ r \in PanelState /\ PanelOK(r, f, safe, excused)
         /\ Retains(s, r, safe)
         /\ r.thread = s.thread /\ r.givenUp = s.givenUp /\ s.adrift \subseteq r.adrift
<1> DEFINE done == Finished(s, l)
           live == IF l.shares THEN s.items ELSE l.kept
           u == [done EXCEPT !.items = l.got \cup live, !.adrift = @ \cup Adrift(s),
                             !.writes = IF l.ok THEN "open" ELSE "unreadable"]
           step == DropOf(l.from, l.thread)
           r == landRepoint(s, l)
<1>1. r = IF l.ok THEN Enqueue(Persist(u), step) ELSE Persist(u)
  BY DEF landRepoint
<1>2. /\ done \in PanelState
      /\ done.thread = s.thread /\ done.items = s.items /\ done.writes = s.writes
      /\ done.seq = s.seq /\ done.loads = s.loads \ {l} /\ done.queue = s.queue
      /\ done.givenUp = s.givenUp /\ done.adrift = s.adrift
  BY FinishedIs
<1>3. /\ l \in LoadState /\ l.got \cup live \in SUBSET Items /\ Adrift(s) \in SUBSET Items
      /\ l.from \in Threads /\ l.thread \in Threads
  BY SetsOfPanel DEF PanelState, LoadState
<1>4. /\ l.shares => live = s.items
      /\ ~l.shares => live = l.kept
  OBVIOUS
<1> HIDE DEF done, live
<1>5. /\ u \in PanelState
      /\ u.thread = s.thread /\ u.items = l.got \cup live
      /\ u.writes = IF l.ok THEN "open" ELSE "unreadable"
      /\ u.seq = s.seq /\ u.loads = s.loads \ {l} /\ u.queue = s.queue
      /\ u.givenUp = s.givenUp /\ u.adrift = s.adrift \cup Adrift(s)
  BY <1>2, <1>3 DEF PanelState
<1> HIDE DEF u, r
<1>6. l.seq = s.seq /\ l.thread = s.thread /\ l.from # l.thread /\ l.orphans = {}
  BY DEF Overtaken, PanelOK, PanelReady, LoadsOK
<1>7. PanelReady(u, f, safe, excused)
  BY <1>5, <1>6, LandedReady
<1>8. ASSUME NEW m, InMem(s, m) PROVE InMem(u, m) \/ m \in u.adrift
  <2>1. CASE m \in s.items
    <3>1. CASE m \in live
      BY <1>5, <3>1 DEF InMem
    <3>2. CASE m \notin live
      <4>1. ~l.shares /\ m \in s.items \ l.kept
        BY <1>4, <2>1, <3>2
      <4>2. m \in Adrift(s)
        BY <1>6, <4>1 DEF Adrift
      <4> QED BY <1>5, <4>2
    <3> QED BY <3>1, <3>2
  <2>2. CASE m \in l.kept
    <3>1. ~l.shares
      BY <2>2 DEF PanelOK, PanelReady, LoadsOK
    <3> QED BY <1>4, <1>5, <2>2, <3>1 DEF InMem
  <2>3. CASE m \notin s.items /\ m \notin l.kept
    BY <1>5, <1>6, <1>8, <2>3 DEF InMem
  <2> QED BY <2>1, <2>2, <2>3
<1>9. /\ Persist(u) \in PanelState /\ PanelOK(Persist(u), f, safe, excused)
      /\ Persist(u).thread = s.thread /\ Persist(u).givenUp = s.givenUp
      /\ Persist(u).adrift = u.adrift
  BY <1>5, <1>7, PersistKeeps, PersistIs
<1>10. \A m : InMem(s, m) => InMem(Persist(u), m) \/ m \in u.adrift
  BY <1>5, <1>8, PersistRetains
<1>11. CASE ~l.ok
  BY <1>1, <1>5, <1>9, <1>10, <1>11 DEF Retains, r
<1>12. CASE l.ok
  <2>1. /\ step \in StepState /\ step.kind = "drop" /\ step.thread = l.from /\ step.to = l.thread
        /\ step.items = {}
    BY <1>3, StepsAreSteps DEF DropOf
  <2>2. l.thread # NoThread
    BY <1>3 DEF ChatPanelAssumption
  <2> HIDE DEF step
  <2>3. r = Enqueue(Persist(u), step)
    BY <1>1, <1>12
  <2>4. /\ r \in PanelState /\ PanelOK(r, f, safe, excused)
        /\ Retains(Persist(u), r, safe)
    BY <1>6, <1>9, <2>1, <2>2, <2>3, EnqueueKeeps
  <2>5. r.thread = s.thread /\ r.givenUp = s.givenUp /\ r.adrift = u.adrift
    BY <1>9, <2>1, <2>3, EnqueueIs
  <2>6. Retains(s, r, safe)
    BY <1>10, <2>4, <2>5 DEF Retains
  <2> QED BY <1>5, <2>4, <2>5, <2>6 DEF r
<1> QED BY <1>11, <1>12

LEMMA MoveOvertaken ==
  ASSUME NEW s \in PanelState, NEW l \in s.loads, NEW f, NEW safe, NEW excused,
         PanelOK(s, f, safe, excused), l.from # NoThread, Overtaken(s, l)
  PROVE  LET r == landRepoint(s, l) IN
         /\ r \in PanelState /\ PanelOK(r, f, safe, excused)
         /\ Retains(s, r, safe)
         /\ r.thread = s.thread /\ r.givenUp = s.givenUp /\ r.adrift = s.adrift
<1> DEFINE done == Finished(s, l)
           d == [done EXCEPT !.standIn = @ \cup StandIn(s, l.thread, l.kept)]
           r == keepOvertaken(d, l.thread, l.kept)
<1>1. landRepoint(s, l) = r
  BY DEF landRepoint
<1>2. /\ done \in PanelState
      /\ done.thread = s.thread /\ done.items = s.items /\ done.writes = s.writes
      /\ done.seq = s.seq /\ done.loads = s.loads \ {l} /\ done.queue = s.queue
      /\ done.givenUp = s.givenUp /\ done.adrift = s.adrift
  BY FinishedIs
<1>3. l.thread \in Threads /\ l.kept \in SUBSET Items /\ StandIn(s, l.thread, l.kept) \in SUBSET Items
  BY DEF PanelState, LoadState, StandIn
<1> HIDE DEF done
<1>4. /\ d \in PanelState
      /\ d.thread = s.thread /\ d.items = s.items /\ d.writes = s.writes
      /\ d.seq = s.seq /\ d.loads = s.loads \ {l} /\ d.queue = s.queue
      /\ d.givenUp = s.givenUp /\ d.adrift = s.adrift
  BY <1>2, <1>3 DEF PanelState
<1> HIDE DEF d
<1>5. PanelOK(d, f, safe, excused)
  BY <1>4, FinishedKeeps DEF Overtaken
<1>6. /\ r \in PanelState /\ PanelOK(r, f, safe, excused)
      /\ Retains(d, r, safe)
      /\ \A m \in l.kept : InMem(r, m)
      /\ r.thread = d.thread /\ r.givenUp = d.givenUp /\ r.adrift = d.adrift
  BY <1>3, <1>4, <1>5, KeepKeeps
<1> HIDE DEF r
<1>7. l.orphans = {}
  BY DEF PanelOK, PanelReady, LoadsOK
<1>8. ASSUME NEW m, InMem(s, m) PROVE InMem(d, m) \/ m \in l.kept
  BY <1>4, <1>7, <1>8 DEF InMem
<1>9. Retains(s, r, safe)
  BY <1>6, <1>8 DEF Retains
<1> QED BY <1>1, <1>4, <1>6, <1>9

\* A read that begins, and finds file g or fails
LEMMA ReadKeeps ==
  ASSUME NEW s \in PanelState, NEW l \in s.loads, NEW k \in LoadState, NEW f, NEW safe, NEW excused,
         PanelOK(s, f, safe, excused), l.stage = "queue", l.behind = 0,
         k.thread = l.thread, k.seq = l.seq, k.from = l.from, k.orphans = l.orphans,
         k.shares = l.shares, k.kept = l.kept, k.stage = "read",
         \/ k.got = f[l.thread] /\ f[l.thread] \subseteq safe
         \/ k.got = l.got /\ ~k.ok
  PROVE  LET r == [s EXCEPT !.loads = (@ \ {l}) \cup {k}] IN
         /\ r \in PanelState /\ PanelOK(r, f, safe, excused)
         /\ Retains(s, r, safe)
         /\ r.thread = s.thread /\ r.items = s.items /\ r.queue = s.queue
         /\ r.loads = (s.loads \ {l}) \cup {k}
         /\ r.givenUp = s.givenUp /\ r.adrift = s.adrift
<1> DEFINE r == [s EXCEPT !.loads = (@ \ {l}) \cup {k}]
<1>1. (s.loads \ {l}) \cup {k} \in SUBSET LoadState
  BY DEF PanelState
<1>2. /\ r \in PanelState
      /\ r.thread = s.thread /\ r.items = s.items /\ r.writes = s.writes
      /\ r.seq = s.seq /\ r.loads = (s.loads \ {l}) \cup {k} /\ r.queue = s.queue
      /\ r.givenUp = s.givenUp /\ r.adrift = s.adrift
  BY <1>1 DEF PanelState
<1> HIDE DEF r
<1>3. LoadsOK(r)
  <2>1. \A a, b \in r.loads : a.seq = b.seq => a = b
    BY <1>2 DEF PanelOK, PanelReady, LoadsOK
  <2>2. r.writes = "reading" => \E a \in r.loads : a.seq = r.seq
    BY <1>2 DEF PanelOK, PanelReady, LoadsOK
  <2> QED BY <1>2, <2>1, <2>2 DEF PanelOK, PanelReady, LoadsOK
<1>4. ShowsAll(r, f, excused) /\ Stores(r, safe)
  BY <1>2 DEF PanelOK, PanelReady, ShowsAll, Stores, IsOpen, Brings
<1>5. ReadsLast(r, f, safe, excused)
  <2>1. l.seq = s.seq => StepsOf(s.queue, l.thread) = {}
    <3>1. \A n \in StepsOf(s.queue, l.thread) : n \in Nat /\ n > 0
      BY DEF PanelState, StepsOf
    <3> QED BY <3>1 DEF PanelOK, PanelReady, ReadsLast
  <2>2. \A a \in r.loads : a = k \/ a \in s.loads
    BY <1>2
  <2>3. k.seq = r.seq => /\ StepsOf(r.queue, k.thread) = {}
                         /\ k.ok => f[k.thread] \subseteq k.got \cup excused
                         /\ k.got \subseteq safe
    BY <1>2, <2>1 DEF PanelOK, PanelReady, ReadsLast
  <2> QED BY <1>2, <2>2, <2>3 DEF PanelOK, PanelReady, ReadsLast
<1>6. Retains(s, r, safe)
  BY <1>2 DEF Retains, InMem
<1> QED BY <1>2, <1>3, <1>4, <1>5, <1>6 DEF PanelOK, PanelReady, r

-----------------------------------------------------------------------------
\* The queue

LoadNearer(l) == [l EXCEPT !.behind = Less(@)]

NearerOf(s, loads) ==
  /\ \A k \in loads : \E l \in s.loads : k = LoadNearer(l)
  /\ \A l \in s.loads :
       LET k == LoadNearer(l) IN
       /\ k \in loads
       /\ k.thread = l.thread /\ k.seq = l.seq /\ k.from = l.from /\ k.orphans = l.orphans
       /\ k.shares = l.shares /\ k.kept = l.kept
       /\ k.stage = l.stage /\ k.ok = l.ok /\ k.got = l.got
       /\ k.behind = Less(l.behind)

LEMMA NearerIs ==
  ASSUME NEW s \in PanelState
  PROVE  LET loads == {[l EXCEPT !.behind = Less(@)] : l \in s.loads} IN
         loads \in SUBSET LoadState /\ NearerOf(s, loads)
<1> DEFINE loads == {[l EXCEPT !.behind = Less(@)] : l \in s.loads}
<1>1. loads = {LoadNearer(l) : l \in s.loads}
  BY DEF LoadNearer
<1>2. ASSUME NEW l \in s.loads
      PROVE  LET k == LoadNearer(l) IN
             /\ k \in LoadState
             /\ k.thread = l.thread /\ k.seq = l.seq /\ k.from = l.from /\ k.orphans = l.orphans
             /\ k.shares = l.shares /\ k.kept = l.kept
             /\ k.stage = l.stage /\ k.ok = l.ok /\ k.got = l.got
             /\ k.behind = Less(l.behind)
  <2>1. l \in LoadState
    BY DEF PanelState
  <2>2. Less(l.behind) \in Nat
    BY <2>1 DEF LoadState, Less
  <2>3. LoadNearer(l) = [l EXCEPT !.behind = Less(l.behind)]
    BY DEF LoadNearer
  <2> HIDE DEF LoadNearer
  <2> QED BY <2>1, <2>2, <2>3 DEF LoadState
<1> HIDE DEF loads
<1>3. loads \in SUBSET LoadState
  BY <1>1, <1>2
<1>4. \A k \in loads : \E l \in s.loads : k = LoadNearer(l)
  BY <1>1
<1>5. \A l \in s.loads : LoadNearer(l) \in loads
  BY <1>1
<1>6. NearerOf(s, loads)
  BY <1>2, <1>4, <1>5 DEF NearerOf
<1> QED BY <1>3, <1>6 DEF loads

LEMMA PopIs ==
  ASSUME NEW s \in PanelState, s.queue # <<>>
  PROVE  LET r == [s EXCEPT !.queue = Tail(@),
                            !.loads = {[l EXCEPT !.behind = Less(@)] : l \in @}] IN
         /\ r \in PanelState
         /\ r.thread = s.thread /\ r.items = s.items /\ r.writes = s.writes /\ r.seq = s.seq
         /\ r.queue = Tail(s.queue)
         /\ NearerOf(s, r.loads)
         /\ r.givenUp = s.givenUp /\ r.adrift = s.adrift
<1> DEFINE loads == {[l EXCEPT !.behind = Less(@)] : l \in s.loads}
           r == [s EXCEPT !.queue = Tail(@),
                          !.loads = {[l EXCEPT !.behind = Less(@)] : l \in @}]
<1>1. loads \in SUBSET LoadState /\ NearerOf(s, loads)
  BY NearerIs
<1>2. Tail(s.queue) \in Seq(StepState)
  BY QueueTail DEF PanelState
<1>3. r = [s EXCEPT !.queue = Tail(s.queue), !.loads = loads]
  OBVIOUS
<1> HIDE DEF loads, r
<1>4. /\ r \in PanelState
      /\ r.thread = s.thread /\ r.items = s.items /\ r.writes = s.writes /\ r.seq = s.seq
      /\ r.queue = Tail(s.queue) /\ r.loads = loads
      /\ r.givenUp = s.givenUp /\ r.adrift = s.adrift
  BY <1>1, <1>2, <1>3 DEF PanelState
<1> QED BY <1>1, <1>4 DEF r

\* The head of the queue has run, and left the files as g
LEMMA PopKeeps ==
  ASSUME NEW s \in PanelState, s.queue # <<>>, NEW r \in PanelState,
         NEW f, NEW g, NEW safe, NEW more, NEW excused, PanelOK(s, f, safe, excused),
         r.thread = s.thread, r.items = s.items, r.writes = s.writes, r.seq = s.seq,
         r.queue = Tail(s.queue),
         NearerOf(s, r.loads),
         safe \subseteq more,
         \A t \in Threads : t # Head(s.queue).thread => g[t] = f[t],
         Head(s.queue).kind = "write" => g[Head(s.queue).thread] = Head(s.queue).items,
         Head(s.queue).kind = "write" => Head(s.queue).items \subseteq more
  PROVE  PanelOK(r, g, more, excused)
<1> DEFINE q == s.queue
           p == Tail(s.queue)
           step == q[1]
<1>1. /\ q \in Seq(StepState) /\ p \in Seq(StepState) /\ Head(q) = step /\ 1 \in DOMAIN q
      /\ \A n \in DOMAIN p : n \in Nat /\ n + 1 \in DOMAIN q /\ p[n] = q[n + 1]
      /\ \A n \in DOMAIN q : n \in Nat /\ n > 0 /\ (n # 1 => n - 1 \in DOMAIN p)
  BY QueueTail DEF PanelState
<1>2. /\ \A n \in DOMAIN q : q[n].thread \in Threads
      /\ \A n \in DOMAIN p : p[n].thread \in Threads
  <2>1. \A n \in DOMAIN q : q[n] \in StepState
    BY <1>1
  <2>2. \A n \in DOMAIN p : p[n] \in StepState
    BY <1>1
  <2> HIDE DEF p, q
  <2> QED BY <2>1, <2>2 DEF StepState
<1>3. /\ \A k \in r.loads : \E l \in s.loads : k = LoadNearer(l)
      /\ \A l \in s.loads :
           LET k == LoadNearer(l) IN
           /\ k \in r.loads
           /\ k.thread = l.thread /\ k.seq = l.seq /\ k.from = l.from /\ k.orphans = l.orphans
           /\ k.shares = l.shares /\ k.kept = l.kept
           /\ k.stage = l.stage /\ k.ok = l.ok /\ k.got = l.got
           /\ k.behind = Less(l.behind)
  BY DEF NearerOf
<1>4. /\ r.queue = p
      /\ \A t \in Threads : t # step.thread => g[t] = f[t]
      /\ step.kind = "write" => g[step.thread] = step.items /\ step.items \subseteq more
  BY <1>1
<1>5. \A t : \A n \in StepsOf(p, t) : n + 1 \in StepsOf(q, t)
  BY <1>1 DEF StepsOf
<1> HIDE DEF q, p, step
<1>6. LoadsOK(r)
  <2>1. \A a, b \in r.loads : a.seq = b.seq => a = b
    BY <1>3 DEF PanelOK, PanelReady, LoadsOK
  <2>2. r.writes = "reading" => \E a \in r.loads : a.seq = r.seq
    BY <1>3 DEF PanelOK, PanelReady, LoadsOK
  <2> QED BY <1>3, <2>1, <2>2 DEF PanelOK, PanelReady, LoadsOK
<1>7. QueueOK(q, f, excused)
  BY DEF PanelOK, PanelReady, q
<1>8. QueueOK(p, g, excused)
  <2>1. \A n \in DOMAIN p : p[n].kind = "drop" => 
          p[n].thread # p[n].to /\ p[n].to # NoThread /\ p[n].items = {}
    BY <1>1, <1>7 DEF QueueOK
  <2>2. ASSUME NEW n \in DOMAIN p, p[n].kind = "write"
        PROVE  g[p[n].thread] \subseteq p[n].items \cup excused
    <3>1. n + 1 \in DOMAIN q /\ p[n] = q[n + 1] /\ 1 < n + 1
      BY <1>1
    <3>2. CASE p[n].thread = step.thread
      <4>1. step.kind = "write" /\ step.items \subseteq p[n].items \cup excused
        BY <1>1, <1>7, <2>2, <3>1, <3>2 DEF QueueOK, step
      <4> QED BY <1>4, <3>2, <4>1
    <3>3. CASE p[n].thread # step.thread
      BY <1>2, <1>4, <1>7, <2>2, <3>1, <3>3 DEF QueueOK
    <3> QED BY <3>2, <3>3
  <2>3. ASSUME NEW n \in DOMAIN p, NEW k \in DOMAIN p,
               p[n].kind = "write", k < n, p[k].thread = p[n].thread
        PROVE  p[k].kind = "write" /\ p[k].items \subseteq p[n].items \cup excused
    <3>1. /\ n + 1 \in DOMAIN q /\ k + 1 \in DOMAIN q /\ k + 1 < n + 1
          /\ p[n] = q[n + 1] /\ p[k] = q[k + 1]
      BY <1>1, <2>3
    <3> QED BY <1>7, <2>3, <3>1 DEF QueueOK
  <2> QED BY <2>1, <2>2, <2>3 DEF QueueOK
<1>9. ShowsAll(r, g, excused)
  <2> SUFFICES ASSUME IsOpen(r)
               PROVE  /\ g[s.thread] \subseteq s.items \cup excused
                      /\ \A n \in StepsOf(p, s.thread) :
                           p[n].kind = "write" /\ p[n].items \subseteq s.items
    BY <1>4 DEF ShowsAll
  <2>1. /\ s.thread \in Threads
        /\ f[s.thread] \subseteq s.items \cup excused
        /\ \A n \in StepsOf(q, s.thread) : q[n].kind = "write" /\ q[n].items \subseteq s.items
    BY DEF PanelOK, PanelReady, ShowsAll, IsOpen, PanelState, q
  <2>2. \A n \in StepsOf(p, s.thread) : p[n] = q[n + 1]
    BY <1>1 DEF StepsOf
  <2>3. CASE step.thread = s.thread
    <3>1. step.kind = "write" /\ step.items \subseteq s.items
      BY <1>1, <2>1, <2>3 DEF StepsOf, step
    <3> QED BY <1>4, <1>5, <2>1, <2>2, <2>3, <3>1
  <2>4. CASE step.thread # s.thread
    BY <1>4, <1>5, <2>1, <2>2, <2>4
  <2> QED BY <2>3, <2>4
<1>10. Stores(r, more)
  <2> SUFFICES ASSUME IsOpen(s)
               PROVE  \/ StepsOf(r.queue, r.thread) = {} /\ r.items \subseteq more
                      \/ \E n \in DOMAIN r.queue : Brings(r, n)
    BY DEF Stores, IsOpen
  <2>1. CASE StepsOf(q, s.thread) = {} /\ s.items \subseteq safe
    BY <1>4, <1>5, <2>1
  <2>2. ASSUME NEW n \in DOMAIN q, Brings(s, n)
        PROVE  \/ StepsOf(r.queue, r.thread) = {} /\ r.items \subseteq more
               \/ \E i \in DOMAIN r.queue : Brings(r, i)
    <3>0. /\ n \in StepsOf(q, s.thread) /\ q[n].items = s.items
          /\ \A k \in StepsOf(q, s.thread) : k <= n
      BY <2>2 DEF Brings, q
    <3>1. CASE n = 1
      <4>1. step.kind = "write" /\ step.items = s.items
        BY <3>0, <3>1 DEF PanelOK, PanelReady, ShowsAll, q, step
      <4>2. ASSUME NEW k \in StepsOf(p, s.thread) PROVE FALSE
        <5>1. k \in Nat /\ k \in DOMAIN p /\ k + 1 \in DOMAIN q
          BY <1>1 DEF StepsOf
        <5>2. k + 1 \in StepsOf(q, s.thread)
          BY <1>5
        <5>3. k + 1 <= 1 /\ k > 0
          <6>1. k > 0
            BY <1>1, <5>1
          <6> QED BY <3>0, <3>1, <5>2, <6>1
        <5> QED BY <5>1, <5>3
      <4> QED BY <1>4, <4>1, <4>2
    <3>2. CASE n # 1
      <4>1. n - 1 \in DOMAIN p /\ p[n - 1] = q[n]
        <5>1. n \in Nat /\ n - 1 \in DOMAIN p
          BY <1>1, <3>2
        <5>2. p[n - 1] = q[(n - 1) + 1] /\ (n - 1) + 1 = n
          BY <1>1, <5>1
        <5> QED BY <5>1, <5>2
      <4>2. \A k \in StepsOf(p, s.thread) : k <= n - 1
        <5> SUFFICES ASSUME NEW k \in StepsOf(p, s.thread) PROVE k <= n - 1
          OBVIOUS
        <5>1. k \in Nat /\ k + 1 <= n /\ n \in Nat
          BY <1>1, <1>5, <3>0 DEF StepsOf
        <5> QED BY <5>1
      <4>3. n - 1 \in StepsOf(p, s.thread) /\ p[n - 1].items = s.items
        BY <3>0, <4>1 DEF StepsOf
      <4> QED BY <1>4, <4>1, <4>2, <4>3 DEF Brings
    <3> QED BY <3>1, <3>2
  <2> QED BY <2>1, <2>2 DEF PanelOK, Stores, q
<1>11. ReadsLast(r, g, more, excused)
  <2> SUFFICES ASSUME NEW k \in r.loads, k.seq = r.seq
               PROVE  /\ \A n \in StepsOf(p, k.thread) : k.stage = "queue" /\ n <= k.behind
                      /\ k.stage = "read" /\ k.ok => g[k.thread] \subseteq k.got \cup excused
                      /\ k.got \subseteq more
    BY <1>4 DEF ReadsLast
  <2>0. PICK l \in s.loads : k = LoadNearer(l)
    BY <1>3
  <2>00. /\ l.seq = s.seq /\ k.thread = l.thread /\ k.stage = l.stage /\ k.ok = l.ok /\ k.got = l.got
         /\ k.behind = Less(l.behind)
    BY <1>3, <2>0
  <2>1. /\ \A n \in StepsOf(q, l.thread) : l.stage = "queue" /\ n <= l.behind
        /\ l.stage = "read" /\ l.ok => f[l.thread] \subseteq l.got \cup excused
        /\ l.got \subseteq safe
    BY <2>00 DEF PanelOK, PanelReady, ReadsLast, q
  <2>2. ASSUME NEW n \in StepsOf(p, l.thread)
        PROVE  l.stage = "queue" /\ n <= Less(l.behind)
    <3>1. n \in Nat /\ n + 1 \in StepsOf(q, l.thread) /\ l.behind \in Nat
      BY <1>1, <1>5 DEF StepsOf, PanelState, LoadState
    <3>2. n + 1 <= l.behind /\ l.stage = "queue"
      BY <2>1, <3>1
    <3> QED BY <3>1, <3>2 DEF Less
  <2>3. l.stage = "read" => g[l.thread] = f[l.thread]
    <3>1. l.thread \in Threads
      BY DEF PanelState, LoadState
    <3>2. l.stage = "read" => step.thread # l.thread
      BY <1>1, <2>1 DEF StepsOf, step
    <3> QED BY <1>4, <3>1, <3>2
  <2> QED BY <2>00, <2>1, <2>2, <2>3
<1> QED BY <1>4, <1>6, <1>8, <1>9, <1>10, <1>11 DEF PanelOK, PanelReady

LEMMA PopRetains ==
  ASSUME NEW s \in PanelState, s.queue # <<>>, NEW r, NEW safe,
         r.items = s.items, r.queue = Tail(s.queue),
         NearerOf(s, r.loads),
         \A m \in Head(s.queue).items : m \in safe \/ m \in r.givenUp
  PROVE  Retains(s, r, safe)
<1> SUFFICES ASSUME NEW m, InMem(s, m)
             PROVE  InMem(r, m) \/ m \in safe \/ m \in r.givenUp
  BY DEF Retains
<1>1. /\ \A k \in r.loads : \E l \in s.loads : k = LoadNearer(l)
      /\ \A l \in s.loads : LET k == LoadNearer(l) IN
           k \in r.loads /\ k.orphans = l.orphans /\ k.kept = l.kept
  BY DEF NearerOf
<1>2. ASSUME NEW n \in DOMAIN s.queue, m \in s.queue[n].items
      PROVE  InMem(r, m) \/ m \in safe \/ m \in r.givenUp
  <2>1. /\ s.queue \in Seq(StepState) /\ Head(s.queue) = s.queue[1]
        /\ \A k \in DOMAIN Tail(s.queue) : k \in Nat /\ Tail(s.queue)[k] = s.queue[k + 1]
        /\ n \in Nat /\ n > 0 /\ (n # 1 => n - 1 \in DOMAIN Tail(s.queue))
    BY QueueTail DEF PanelState
  <2>2. CASE n = 1
    BY <1>2, <2>1, <2>2
  <2>3. CASE n # 1
    <3>1. n - 1 \in DOMAIN r.queue /\ r.queue[n - 1] = s.queue[(n - 1) + 1] /\ (n - 1) + 1 = n
      BY <2>1, <2>3
    <3> QED BY <1>2, <3>1 DEF InMem
  <2> QED BY <2>2, <2>3
<1> QED BY <1>1, <1>2 DEF InMem

\* Files that others have written: what they bring to a thread in use is excused, or shown
LEMMA OutsideKeeps ==
  ASSUME NEW s \in PanelState, NEW f, NEW g, NEW safe, NEW more, NEW excused, NEW also,
         PanelOK(s, f, safe, excused), safe \subseteq more, excused \subseteq also,
         \A t \in Threads : \A m \in g[t] :
           \/ m \in f[t] \/ m \in also
           \/ StepsOf(s.queue, t) = {} /\ (s.thread = t => IsOpen(s) /\ m \in s.items)
  PROVE  PanelOK(s, g, more, also)
<1>1. PanelOK(s, f, more, also)
  BY MoreSafe
<1>2. \A n \in DOMAIN s.queue : s.queue[n].thread \in Threads
  <2>1. s.queue \in Seq(StepState)
    BY DEF PanelState
  <2>2. \A n \in DOMAIN s.queue : s.queue[n] \in StepState
    BY <2>1
  <2> QED BY <2>2 DEF StepState
<1>3. QueueOK(s.queue, g, also)
  <2>1. ASSUME NEW n \in DOMAIN s.queue, s.queue[n].kind = "write"
        PROVE  g[s.queue[n].thread] \subseteq s.queue[n].items \cup also
    <3>1. StepsOf(s.queue, s.queue[n].thread) # {}
      BY DEF StepsOf
    <3>2. f[s.queue[n].thread] \subseteq s.queue[n].items \cup also
      BY <1>1, <2>1 DEF PanelOK, PanelReady, QueueOK
    <3> QED BY <1>2, <3>1, <3>2
  <2> QED BY <1>1, <2>1 DEF PanelOK, PanelReady, QueueOK
<1>4. ShowsAll(s, g, also)
  <2> SUFFICES ASSUME IsOpen(s) PROVE g[s.thread] \subseteq s.items \cup also
    BY <1>1 DEF PanelOK, PanelReady, ShowsAll
  <2>1. s.thread \in Threads /\ f[s.thread] \subseteq s.items \cup also
    BY <1>1 DEF PanelOK, PanelReady, ShowsAll, IsOpen, PanelState
  <2> QED BY <2>1
<1>5. ReadsLast(s, g, more, also)
  <2>1. ASSUME NEW l \in s.loads, l.seq = s.seq, l.stage = "read", l.ok
        PROVE  g[l.thread] \subseteq l.got \cup also
    <3>1. l.thread \in Threads /\ l.thread = s.thread /\ ~IsOpen(s)
      BY <2>1 DEF PanelOK, PanelReady, LoadsOK, PanelState, LoadState, IsOpen
    <3>2. f[l.thread] \subseteq l.got \cup also
      BY <1>1, <2>1 DEF PanelOK, PanelReady, ReadsLast
    <3> QED BY <3>1, <3>2
  <2> QED BY <1>1, <2>1 DEF PanelOK, PanelReady, ReadsLast
<1> QED BY <1>1, <1>3, <1>4, <1>5 DEF PanelOK, PanelReady

LEMMA GiveUpKeeps ==
  ASSUME NEW s \in PanelState, NEW list \in SUBSET Items, NEW f, NEW safe, NEW excused
  PROVE  LET r == [s EXCEPT !.givenUp = @ \cup list] IN
         /\ r \in PanelState
         /\ r.thread = s.thread /\ r.items = s.items /\ r.writes = s.writes /\ r.seq = s.seq
         /\ r.queue = s.queue /\ r.loads = s.loads
         /\ r.givenUp = s.givenUp \cup list /\ r.adrift = s.adrift
         /\ PanelOK(s, f, safe, excused) => PanelOK(r, f, safe, excused)
         /\ Retains(s, r, safe)
<1> DEFINE r == [s EXCEPT !.givenUp = @ \cup list]
<1>1. s.givenUp \cup list \in SUBSET Items
  BY DEF PanelState
<1>2. /\ r \in PanelState
      /\ r.thread = s.thread /\ r.items = s.items /\ r.writes = s.writes /\ r.seq = s.seq
      /\ r.queue = s.queue /\ r.loads = s.loads
      /\ r.givenUp = s.givenUp \cup list /\ r.adrift = s.adrift
  BY <1>1 DEF PanelState
<1> HIDE DEF r
<1>3. PanelOK(s, f, safe, excused) => PanelOK(r, f, safe, excused)
  BY <1>2 DEF PanelOK, PanelReady, LoadsOK, ShowsAll, Stores, ReadsLast, Brings, IsOpen
<1>4. Retains(s, r, safe)
  BY <1>2 DEF Retains, InMem
<1> QED BY <1>2, <1>3, <1>4 DEF r

-----------------------------------------------------------------------------
(***************************************************************************)
(* Where the calls that are out may lead.  ws is the workspace of a call,  *)
(* and thread, local and remote are that workspace's.                      *)
(***************************************************************************)
Opening == {"fetch", "fold", "settle", "foldAgain", "storeRead", "storeWrite", "foldLast",
            "repoint", "moving"}
Reads == {"readLocal", "readRemote", "writeRemote", "removeLocal"}
Adopting == Reads \cup {"setIndex", "repoint"}
Joining == Reads \cup {"list", "setIndex"}

TaskState ==
  [pc : Opening \cup Joining \cup
        {"free", "index", "persist", "forgetFile", "forgetEntry", "dump", "reopen"},
   ws : Workspaces, thread : Threads \cup {NoThread}, wait : Nat, behind : Nat,
   got : SUBSET Items, read : SUBSET Items, local : Threads \cup {NoThread},
   remote : Threads \cup {NoThread}, after : {None, "switch", "replace", "signIn"}]

LeaveState ==
  [pc : {"no", "pushAll", "request", "check", "forget", "close"}, behind : Nat,
   hash : {<<>>} \cup [Threads -> SUBSET Items], handed : SUBSET Threads, drops : SUBSET Threads,
   all : BOOLEAN]

\* A thread that the account has not got, and that no workspace has
Unknown(t, acc, ix) == acc[t].state = None /\ \A w \in Workspaces : ix[w] # t

TaskOK(t, mf, acc, ix) ==
  /\ t.pc \in Opening => t.after # "signIn"
  /\ t.pc \in Opening \cup Joining /\ t.after # "signIn" =>
       t.thread \in Threads /\ mf[t.thread] = t.ws
  /\ t.pc = "persist" => t.thread \in Threads
  /\ t.pc = "index" => t.after \in {"switch", "replace"}
  /\ t.remote # NoThread => mf[t.remote] = t.ws /\ acc[t.remote].state # None
  /\ t.local # NoThread => mf[t.local] = t.ws
  /\ t.pc \in Reads => t.local # NoThread
  /\ t.pc \in Adopting \cup {"moving"} => t.remote # NoThread
  /\ t.pc \in Adopting => t.remote # t.local
  /\ t.pc \in Adopting /\ t.after # "signIn" => t.remote # t.thread
  /\ t.pc = "list" /\ t.after # "signIn" =>
       \/ t.thread = t.local
       \/ acc[t.thread].state = "deleted"
       \/ Unknown(t.thread, acc, ix)

\* `open` has opened the current workspace's, unless a switch is under way
PlaceType ==
  /\ current \in Workspaces
  /\ effect \in [openedFor : Workspaces, due : Nat, crossed : BOOLEAN]
  /\ effect.due = 0 => effect.openedFor = current
  /\ session \in {"in", "ending", "out"}
  /\ index \in [Workspaces -> Threads \cup {NoThread}]
  /\ madeFor \in [Threads -> Workspaces \cup {None}]
  /\ files \in [Threads -> SUBSET Items]
  /\ account \in [Threads -> [state : {None, "live", "deleted"}, items : SUBSET Items]]
  /\ panel \in PanelState
  /\ tasks \in [TaskIds -> TaskState]
  /\ leave \in LeaveState
  /\ typed \in SUBSET Messages
  /\ home \in [Messages -> Workspaces \cup {None}]
  /\ trampled \in SUBSET Items

IndexOK == \A w \in Workspaces : index[w] # NoThread => madeFor[index[w]] = w

\* The account has only threads that were minted, and nothing of one that is deleted
FreshOK ==
  \A t \in Threads :
    /\ madeFor[t] = None => account[t] = Gone
    /\ account[t].state = "deleted" => account[t] = Closed

TasksOK == \A i \in TaskIds : TaskOK(tasks[i], madeFor, account, index)

PlaceInv == PlaceType /\ IndexOK /\ FreshOK /\ TasksOK

\* What a step leaves the calls that are out
Steady ==
  \A t \in Threads :
    /\ madeFor[t] # None => madeFor'[t] = madeFor[t]
    /\ account[t].state # None => account'[t].state # None
    /\ account[t].state = "deleted" => account'[t].state = "deleted"
    /\ \/ account'[t] = Closed
       \/ account[t] # Closed /\ account[t].items \subseteq account'[t].items
    /\ madeFor[t] # None /\ Unknown(t, account, index) => Unknown(t, account', index')

LEMMA TaskStays ==
  ASSUME ChatPanelAssumption, Steady, NEW t \in TaskState, TaskOK(t, madeFor, account, index)
  PROVE  TaskOK(t, madeFor', account', index')
<1>1. None \notin Workspaces /\ NoThread \notin Threads
  BY DEF ChatPanelAssumption, None
<1>2. /\ t.ws \in Workspaces /\ t.local \in Threads \cup {NoThread}
      /\ t.remote \in Threads \cup {NoThread}
  BY DEF TaskState
<1>3. /\ t.remote # NoThread => madeFor'[t.remote] = t.ws /\ account'[t.remote].state # None
      /\ t.local # NoThread => madeFor'[t.local] = t.ws
  BY <1>1, <1>2 DEF TaskOK, Steady
<1>4. /\ t.pc \in Opening \cup Joining /\ t.after # "signIn" =>
           t.thread \in Threads /\ madeFor'[t.thread] = t.ws
      /\ t.pc = "list" /\ t.after # "signIn" =>
           \/ t.thread = t.local
           \/ account'[t.thread].state = "deleted"
           \/ Unknown(t.thread, account', index')
  BY <1>1, <1>2 DEF TaskOK, Steady, Joining
<1> QED BY <1>3, <1>4 DEF TaskOK

LEMMA TaskStep ==
  ASSUME ChatPanelAssumption, PlaceInv, Steady, NEW i \in TaskIds, NEW t \in TaskState,
         Become(i, t), TaskOK(t, madeFor', account', index')
  PROVE  TasksOK' /\ tasks' \in [TaskIds -> TaskState]
<1>1. /\ tasks' \in [TaskIds -> TaskState] /\ tasks'[i] = t
      /\ \A j \in TaskIds \ {i} : tasks'[j] = tasks[j] /\ tasks[j] \in TaskState
  BY DEF Become, PlaceInv, PlaceType
<1>2. \A j \in TaskIds \ {i} : TaskOK(tasks[j], madeFor', account', index')
  BY <1>1, TaskStays DEF PlaceInv, TasksOK
<1> QED BY <1>1, <1>2 DEF TasksOK

LEMMA TasksStay ==
  ASSUME ChatPanelAssumption, PlaceInv, Steady, UNCHANGED tasks
  PROVE  TasksOK' /\ tasks' \in [TaskIds -> TaskState]
<1>1. \A j \in TaskIds : tasks[j] \in TaskState
  BY DEF PlaceInv, PlaceType
<1> QED BY <1>1, TaskStays DEF PlaceInv, PlaceType, TasksOK

LEMMA NoTaskOK ==
  ASSUME ChatPanelAssumption
  PROVE  /\ NoTask \in TaskState
         /\ NoTask.pc = "free" /\ NoTask.after = None /\ NoTask.ws = Shared
         /\ NoTask.local = NoThread /\ NoTask.remote = NoThread
         /\ \A mf, acc, ix : TaskOK(NoTask, mf, acc, ix)
BY DEF ChatPanelAssumption, NoTask, TaskState, TaskOK, Opening, Joining, Adopting, Reads, None

-----------------------------------------------------------------------------
(***************************************************************************)
(* The inductive invariant.                                                *)
(***************************************************************************)
Excused == trampled \cup panel.givenUp
Safe == Excused \cup UNION {files[t] \cup account[t].items : t \in Threads}

PanelInv == PanelOK(panel, files, Safe, Excused)

\* What was typed and is not stored is in memory
KeptInv == \A m \in typed : InMem(panel, m) \/ m \in Safe \/ m \in panel.adrift

\* A sign-out drops a thread's file only when the account has what it held
Droppable(t, hash, acc, excused) == acc[t] = Closed \/ hash[t] \subseteq acc[t].items \cup excused

LeaveInv ==
  /\ leave.pc # "no" => leave.hash \in [Threads -> SUBSET Items]
  /\ leave.pc \in {"request", "check"} =>
       \A t \in leave.handed : Droppable(t, leave.hash, account, Excused)
  /\ leave.pc = "forget" =>
       \A t \in Threads : leave.all \/ t \in leave.drops =>
         Droppable(t, leave.hash, account, Excused)

ChatInv == PlaceInv /\ FollowsSwitch /\ PanelInv /\ KeptInv /\ LeaveInv

\* What a step does to what is stored, and to what the panel holds
Keeping ==
  /\ Safe \subseteq Safe' /\ Excused \subseteq Excused'
  /\ PanelOK(panel', files', Safe', Excused')
  /\ Retains(panel, panel', Safe')
  /\ panel.adrift \subseteq panel'.adrift

LEMMA KeepingIs ==
  ASSUME ChatInv, Keeping, UNCHANGED typed
  PROVE  PanelInv' /\ KeptInv'
<1>1. PanelInv'
  BY DEF Keeping, PanelInv
<1>2. ASSUME NEW m \in typed PROVE InMem(panel', m) \/ m \in Safe' \/ m \in panel'.adrift
  <2>1. InMem(panel, m) \/ m \in Safe \/ m \in panel.adrift
    BY DEF ChatInv, KeptInv
  <2>2. m \in panel'.givenUp => m \in Safe'
    BY DEF Safe, Excused
  <2> QED BY <2>1, <2>2 DEF Keeping, Retains
<1>3. KeptInv'
  BY <1>2 DEF KeptInv
<1> QED BY <1>1, <1>3

\* Steps that leave storage alone
LEMMA MemoryStep ==
  ASSUME ChatInv, UNCHANGED <<files, account, trampled>>,
         PanelOK(panel', files, Safe, Excused), Retains(panel, panel', Safe),
         panel.givenUp \subseteq panel'.givenUp, panel.adrift \subseteq panel'.adrift
  PROVE  Keeping
<1>1. Safe \subseteq Safe' /\ Excused \subseteq Excused'
  BY DEF Safe, Excused
<1>2. PanelOK(panel', files', Safe', Excused')
  BY <1>1, MoreSafe
<1>3. Retains(panel, panel', Safe')
  BY <1>1 DEF Retains
<1> QED BY <1>1, <1>2, <1>3 DEF Keeping

LEMMA PanelStays ==
  ASSUME ChatInv, UNCHANGED <<files, account, trampled, panel>>
  PROVE  Keeping
<1>1. PanelOK(panel, files, Safe, Excused) /\ Retains(panel, panel, Safe)
  BY DEF ChatInv, PanelInv, Retains
<1> QED BY <1>1, MemoryStep

LEMMA LeaveStays ==
  ASSUME ChatInv, Steady, Excused \subseteq Excused',
         leave'.pc = leave.pc, leave'.hash = leave.hash, leave'.handed = leave.handed,
         leave'.drops = leave.drops, leave'.all = leave.all
  PROVE  LeaveInv'
<1>1. \A t \in Threads : Droppable(t, leave.hash, account, Excused)
                         => Droppable(t, leave.hash, account', Excused')
  BY DEF Droppable, Steady
<1>2. leave.handed \subseteq Threads
  BY DEF ChatInv, PlaceInv, PlaceType, LeaveState
<1>3. LeaveInv
  BY DEF ChatInv
<1> QED BY <1>1, <1>2, <1>3 DEF LeaveInv

\* Most steps change neither the index nor the account
LEMMA SteadyIs ==
  ASSUME UNCHANGED <<madeFor, account, index>>
  PROVE  Steady
BY DEF Steady, Unknown

LEMMA PlaceStays ==
  ASSUME ChatInv, UNCHANGED <<madeFor, account, index>>
  PROVE  IndexOK' /\ FreshOK'
BY DEF ChatInv, PlaceInv, IndexOK, FreshOK

LEMMA FollowsStays ==
  ASSUME ChatInv, UNCHANGED <<madeFor, current, effect>>, replaced \subseteq replaced',
         panel'.thread = panel.thread \/ panel'.thread = NoThread
  PROVE  FollowsSwitch'
BY DEF ChatInv, FollowsSwitch

-----------------------------------------------------------------------------
(***************************************************************************)
(* One lemma per action: it keeps the invariant, and what is stored stays. *)
(***************************************************************************)
StaysStored == Safe \subseteq Safe'

\* Steps that change the panel, or a call that is out, and nothing else
LEMMA PanelStep ==
  ASSUME ChatPanelAssumption, ChatInv, TasksOK', tasks' \in [TaskIds -> TaskState],
         UNCHANGED <<current, effect, session, index, madeFor, files, account, trampled, typed, home, leave>>,
         panel' \in PanelState,
         PanelOK(panel', files, Safe, Excused), Retains(panel, panel', Safe),
         panel.givenUp \subseteq panel'.givenUp, panel.adrift \subseteq panel'.adrift,
         FollowsSwitch'
  PROVE  ChatInv' /\ StaysStored
<1>1. PlaceType'
  BY DEF ChatInv, PlaceInv, PlaceType
<1>2. IndexOK' /\ FreshOK'
  BY PlaceStays
<1>3. Keeping
  BY MemoryStep
<1>4. PanelInv' /\ KeptInv'
  BY <1>3, KeepingIs
<1>5. LeaveInv'
  BY <1>3, SteadyIs, LeaveStays DEF Keeping
<1> QED BY <1>1, <1>2, <1>3, <1>4, <1>5 DEF ChatInv, PlaceInv, Keeping, StaysStored

LEMMA CallStep ==
  ASSUME ChatPanelAssumption, ChatInv, NEW i \in TaskIds, NEW t \in TaskState, Become(i, t),
         TaskOK(t, madeFor, account, index),
         UNCHANGED <<current, effect, session, index, madeFor, files, account, panel, leave, pastVars>>
  PROVE  ChatInv' /\ StaysStored
<1>0. UNCHANGED <<typed, home, trampled, replaced>>
  BY DEF pastVars
<1>1. TasksOK' /\ tasks' \in [TaskIds -> TaskState]
  BY SteadyIs, TaskStep DEF ChatInv
<1>2. FollowsSwitch'
  BY <1>0, FollowsStays
<1>3. panel' \in PanelState /\ PanelOK(panel', files, Safe, Excused) /\ Retains(panel, panel', Safe)
  BY DEF ChatInv, PlaceInv, PlaceType, PanelInv, Retains
<1> QED BY <1>0, <1>1, <1>2, <1>3, PanelStep

\* addUserMessage and the other mutators
LEMMA AddMessageKeeps ==
  ASSUME ChatPanelAssumption, ChatInv, NEW m \in Messages, AddMessage(m)
  PROVE  ChatInv' /\ StaysStored
<1> DEFINE r == Persist([panel EXCEPT !.items = @ \cup {m}])
<1>0. panel \in PanelState /\ {m} \in SUBSET Items /\ typed \subseteq Messages
  BY DEF ChatInv, PlaceInv, PlaceType, Items
<1>1. /\ r \in PanelState /\ PanelOK(r, files, Safe, Excused)
      /\ r.thread = panel.thread /\ r.givenUp = panel.givenUp /\ r.adrift = panel.adrift
      /\ r.items = panel.items \cup {m}
      /\ Retains(panel, r, Safe)
  BY <1>0, GrowKeeps DEF ChatInv, PanelInv
<1>2. panel' = r /\ typed' = typed \cup {m}
  BY DEF AddMessage
<1> HIDE DEF r
<1>3. UNCHANGED <<current, effect, session, index, madeFor, files, account, tasks, leave, trampled, replaced>>
  BY DEF AddMessage, indexVars
<1>4. home' \in [Messages -> Workspaces \cup {None}]
  <2>1. home' = [home EXCEPT ![m] = IF panel.thread = NoThread THEN None ELSE madeFor[panel.thread]]
    BY DEF AddMessage
  <2>2. panel.thread # NoThread => madeFor[panel.thread] \in Workspaces \cup {None}
    BY <1>0 DEF ChatInv, PlaceInv, PlaceType, PanelState
  <2> QED BY <2>1, <2>2 DEF ChatInv, PlaceInv, PlaceType
<1>5. PlaceType'
  BY <1>0, <1>1, <1>2, <1>3, <1>4 DEF ChatInv, PlaceInv, PlaceType
<1>6. IndexOK' /\ FreshOK'
  BY <1>3, PlaceStays
<1>7. TasksOK'
  BY <1>3, SteadyIs, TasksStay DEF ChatInv
<1>8. FollowsSwitch'
  BY <1>1, <1>2, <1>3, FollowsStays
<1>9. Keeping
  BY <1>1, <1>2, <1>3, MemoryStep
<1>10. LeaveInv'
  BY <1>3, <1>9, SteadyIs, LeaveStays DEF Keeping
<1>11. PanelInv'
  BY <1>9 DEF Keeping, PanelInv
<1>12. ASSUME NEW x \in typed' PROVE InMem(panel', x) \/ x \in Safe' \/ x \in panel'.adrift
  <2>1. CASE x = m
    BY <1>1, <1>2, <2>1 DEF InMem
  <2>2. CASE x \in typed
    <3>1. InMem(panel, x) \/ x \in Safe \/ x \in panel.adrift
      BY <2>2 DEF ChatInv, KeptInv
    <3>2. x \in panel'.givenUp => x \in Safe'
      BY DEF Safe, Excused
    <3> QED BY <1>9, <3>1, <3>2 DEF Keeping, Retains
  <2> QED BY <1>2, <2>1, <2>2
<1>13. KeptInv'
  BY <1>12 DEF KeptInv
<1> QED BY <1>5, <1>6, <1>7, <1>8, <1>9, <1>10, <1>11, <1>13 DEF ChatInv, PlaceInv, Keeping, StaysStored

\* flush, and the push at the end of a turn
LEMMA FlushOpenKeeps ==
  ASSUME ChatPanelAssumption, ChatInv, FlushOpen
  PROVE  ChatInv' /\ StaysStored
<1>1. PICK i \in TaskIds : Become(i, PushTask(panel.thread))
  BY DEF FlushOpen
<1>2. UNCHANGED <<current, effect, session, index, madeFor, files, account, panel, leave, pastVars>>
  BY DEF FlushOpen, indexVars
<1>3. panel.thread \in Threads /\ panel.queue \in Seq(StepState)
  BY DEF FlushOpen, ChatInv, PlaceInv, PlaceType, PanelState
<1>4. Len(panel.queue) \in Nat
  BY <1>3
<1> DEFINE t == PushTask(panel.thread)
<1>5. /\ t \in TaskState /\ t.pc = "persist" /\ t.thread = panel.thread /\ t.after = None
      /\ t.local = NoThread /\ t.remote = NoThread
  BY <1>3, <1>4, NoTaskOK DEF PushTask, TaskState, NoTask
<1> HIDE DEF t
<1>6. TaskOK(t, madeFor, account, index)
  BY <1>3, <1>5 DEF TaskOK, Opening, Joining, Adopting, Reads
<1> QED BY <1>1, <1>2, <1>5, <1>6, CallStep DEF t

\* A read begins
LEMMA BeginReadKeeps ==
  ASSUME ChatPanelAssumption, ChatInv, NEW l \in panel.loads, BeginRead(l)
  PROVE  ChatInv' /\ StaysStored
<1>0. panel \in PanelState /\ files \in [Threads -> SUBSET Items] /\ l \in LoadState
  BY DEF ChatInv, PlaceInv, PlaceType, PanelState
<1>00. l.thread \in Threads /\ l.got \in SUBSET Items
  BY <1>0 DEF LoadState
<1>1. l.stage = "queue" /\ l.behind = 0
  BY DEF BeginRead
<1>2. UNCHANGED <<current, effect, session, index, madeFor, files, account, tasks, leave, typed, home,
                  trampled, replaced>>
  BY DEF BeginRead, indexVars, pastVars
<1>3. files[l.thread] \subseteq Safe
  BY <1>00 DEF Safe
<1>4. /\ panel' \in PanelState /\ PanelOK(panel', files, Safe, Excused)
      /\ Retains(panel, panel', Safe) /\ panel'.thread = panel.thread
      /\ panel'.givenUp = panel.givenUp /\ panel'.adrift = panel.adrift
  <2> DEFINE k == [l EXCEPT !.stage = "read", !.got = files[l.thread]]
             n == [l EXCEPT !.stage = "read", !.ok = FALSE]
  <2>1. CASE panel' = [panel EXCEPT !.loads = (@ \ {l}) \cup {k}]
    <3>1. /\ k \in LoadState /\ k.thread = l.thread /\ k.seq = l.seq /\ k.from = l.from
          /\ k.orphans = l.orphans /\ k.shares = l.shares /\ k.kept = l.kept /\ k.stage = "read"
          /\ k.got = files[l.thread]
      BY <1>0, <1>00 DEF LoadState
    <3> HIDE DEF k
    <3> QED BY <1>0, <1>1, <1>3, <2>1, <3>1, ReadKeeps DEF ChatInv, PanelInv
  <2>2. CASE panel' = [panel EXCEPT !.loads = (@ \ {l}) \cup {n}]
    <3>1. /\ n \in LoadState /\ n.thread = l.thread /\ n.seq = l.seq /\ n.from = l.from
          /\ n.orphans = l.orphans /\ n.shares = l.shares /\ n.kept = l.kept /\ n.stage = "read"
          /\ n.got = l.got /\ ~n.ok
      BY <1>0, <1>00 DEF LoadState
    <3> HIDE DEF n
    <3> QED BY <1>0, <1>1, <2>2, <3>1, ReadKeeps DEF ChatInv, PanelInv
  <2> QED BY <2>1, <2>2 DEF BeginRead
<1>5. TasksOK' /\ tasks' \in [TaskIds -> TaskState]
  BY <1>2, SteadyIs, TasksStay DEF ChatInv
<1>6. FollowsSwitch'
  BY <1>2, <1>4, FollowsStays
<1> QED BY <1>2, <1>4, <1>5, <1>6, PanelStep

\* A read lands
LEMMA MovedOK ==
  ASSUME ChatPanelAssumption, ChatInv, NEW l
  PROVE  /\ Moved(l) \in [TaskIds -> TaskState]
         /\ \A i \in TaskIds : TaskOK(Moved(l)[i], madeFor, account, index)
<1> SUFFICES ASSUME NEW i \in TaskIds
             PROVE  Moved(l)[i] \in TaskState /\ TaskOK(Moved(l)[i], madeFor, account, index)
  BY DEF Moved
<1> DEFINE t == tasks[i]
           r == [t EXCEPT !.pc = "fetch", !.thread = t.remote]
<1>0. t \in TaskState /\ TaskOK(t, madeFor, account, index)
  BY DEF ChatInv, PlaceInv, PlaceType, TasksOK
<1>1. Moved(l)[i] = t \/ Moved(l)[i] = NoTask \/ (t.pc = "moving" /\ Moved(l)[i] = r)
  BY DEF Moved, At
<1>2. ASSUME t.pc = "moving" PROVE r \in TaskState /\ TaskOK(r, madeFor, account, index)
  <2>1. t.remote \in Threads /\ madeFor[t.remote] = t.ws /\ t.after # "signIn"
    BY <1>0, <1>2 DEF TaskOK, TaskState, Adopting, Opening
  <2>2. /\ r \in TaskState /\ r.pc = "fetch" /\ r.thread = t.remote /\ r.ws = t.ws
        /\ r.local = t.local /\ r.remote = t.remote /\ r.after = t.after
    BY <1>0, <2>1 DEF TaskState, Opening
  <2> HIDE DEF r
  <2> QED BY <1>0, <2>1, <2>2 DEF TaskOK, Opening, Joining, Adopting, Reads
<1> QED BY <1>0, <1>1, <1>2, NoTaskOK

LEMMA LandKeeps ==
  ASSUME ChatPanelAssumption, ChatInv, NEW l \in panel.loads, Land(l)
  PROVE  ChatInv' /\ StaysStored
<1>0. panel \in PanelState /\ PanelOK(panel, files, Safe, Excused) /\ l.stage = "read"
  BY DEF ChatInv, PlaceInv, PlaceType, PanelInv, Land
<1>1. UNCHANGED <<current, effect, session, index, madeFor, files, account, leave, typed, home,
                  trampled, replaced>>
  BY DEF Land, indexVars, pastVars
<1>2. TasksOK' /\ tasks' \in [TaskIds -> TaskState]
  BY <1>1, MovedOK DEF Land, TasksOK
<1>3. /\ panel' \in PanelState /\ PanelOK(panel', files, Safe, Excused)
      /\ Retains(panel, panel', Safe) /\ panel'.thread = panel.thread
      /\ panel'.givenUp = panel.givenUp /\ panel.adrift \subseteq panel'.adrift
  <2>1. CASE l.from = NoThread
    <3>1. panel' = landLoad(panel, l)
      BY <2>1 DEF Land
    <3>2. CASE Overtaken(panel, l)
      BY <1>0, <3>1, <3>2, LoadOvertaken
    <3>3. CASE ~Overtaken(panel, l)
      BY <1>0, <2>1, <3>1, <3>3, LoadLanded
    <3> QED BY <3>2, <3>3
  <2>2. CASE l.from # NoThread
    <3>1. panel' = landRepoint(panel, l)
      BY <2>2 DEF Land
    <3>2. CASE Overtaken(panel, l)
      BY <1>0, <2>2, <3>1, <3>2, MoveOvertaken
    <3>3. CASE ~Overtaken(panel, l)
      BY <1>0, <2>2, <3>1, <3>3, MoveLanded
    <3> QED BY <3>2, <3>3
  <2> QED BY <2>1, <2>2
<1>4. FollowsSwitch'
  BY <1>1, <1>3, FollowsStays
<1> QED BY <1>1, <1>2, <1>3, <1>4, PanelStep

\* A step of the queue runs
LEMMA WaitsLess ==
  ASSUME ChatPanelAssumption, ChatInv, UNCHANGED <<madeFor, account, index>>,
         tasks' = [i \in TaskIds |-> [tasks[i] EXCEPT !.behind = Less(@)]]
  PROVE  TasksOK' /\ tasks' \in [TaskIds -> TaskState]
<1>1. ASSUME NEW i \in TaskIds
      PROVE  tasks'[i] \in TaskState /\ TaskOK(tasks'[i], madeFor, account, index)
  <2> DEFINE t == tasks[i]
             r == [t EXCEPT !.behind = Less(t.behind)]
  <2>0. t \in TaskState /\ TaskOK(t, madeFor, account, index)
    BY DEF ChatInv, PlaceInv, PlaceType, TasksOK
  <2>1. Less(t.behind) \in Nat
    BY <2>0 DEF TaskState, Less
  <2>2. tasks'[i] = r
    OBVIOUS
  <2>3. /\ r \in TaskState /\ r.pc = t.pc /\ r.thread = t.thread /\ r.ws = t.ws
        /\ r.local = t.local /\ r.remote = t.remote /\ r.after = t.after
    BY <2>0, <2>1 DEF TaskState
  <2> HIDE DEF r
  <2>4. TaskOK(r, madeFor, account, index)
    BY <2>0, <2>3 DEF TaskOK
  <2> QED BY <2>2, <2>3, <2>4
<1> QED BY <1>1 DEF TasksOK

LEMMA AfterStepIs ==
  ASSUME NEW step \in StepState, files \in [Threads -> SUBSET Items],
         step.kind = "drop" => step.thread # step.to /\ step.to \in Threads,
         account \in [Threads -> [state : {None, "live", "deleted"}, items : SUBSET Items]]
  PROVE  LET g == AfterStep(step) IN
         /\ g \in [Threads -> SUBSET Items]
         /\ \A t \in Threads : t # step.thread => g[t] = files[t]
         /\ step.kind = "write" => g[step.thread] = step.items
         /\ step.kind \in {"write", "keep"} => step.items \subseteq g[step.thread]
         /\ step.kind = "keep" => files[step.thread] \subseteq g[step.thread]
         /\ step.kind = "drop" => files[step.thread] \subseteq g[step.thread] \cup g[step.to]
<1>0. step.thread \in Threads /\ step.items \in SUBSET Items /\ step.kind \in {"write", "keep", "drop"}
  BY DEF StepState
<1>1. CASE step.kind = "write"
  BY <1>0, <1>1 DEF AfterStep
<1>2. CASE step.kind = "keep"
  <2>1. AfterStep(step) = [files EXCEPT ![step.thread] = @ \cup step.items]
    BY <1>2 DEF AfterStep
  <2> QED BY <1>0, <1>2, <2>1
<1>3. CASE step.kind = "drop"
  <2>1. CASE files[step.thread] \subseteq files[step.to]
    <3>1. AfterStep(step) = [files EXCEPT ![step.thread] = {}]
      BY <1>3, <2>1 DEF AfterStep
    <3> QED BY <1>0, <1>3, <2>1, <3>1
  <2>2. CASE ~(files[step.thread] \subseteq files[step.to])
    <3>1. AfterStep(step) = files
      BY <1>3, <2>2 DEF AfterStep
    <3> QED BY <1>0, <1>3, <3>1
  <2> QED BY <2>1, <2>2
<1> QED BY <1>0, <1>1, <1>2, <1>3

LEMMA RunQueueKeeps ==
  ASSUME ChatPanelAssumption, ChatInv, RunQueue
  PROVE  ChatInv' /\ StaysStored
<1> DEFINE step == Head(panel.queue)
           popped == [panel EXCEPT !.queue = Tail(@),
                                   !.loads = {[l EXCEPT !.behind = Less(@)] : l \in @}]
           failed == [popped EXCEPT !.givenUp = @ \cup step.items]
<1>0. /\ panel \in PanelState /\ PanelOK(panel, files, Safe, Excused) /\ panel.queue # <<>>
      /\ files \in [Threads -> SUBSET Items] /\ leave \in LeaveState
      /\ account \in [Threads -> [state : {None, "live", "deleted"}, items : SUBSET Items]]
  BY DEF ChatInv, PlaceInv, PlaceType, PanelInv, RunQueue
<1>1. UNCHANGED <<current, effect, session, index, madeFor, account, typed, home, trampled, replaced>>
  BY DEF RunQueue, indexVars, pastVars
<1>2. TasksOK' /\ tasks' \in [TaskIds -> TaskState]
  BY <1>1, WaitsLess DEF RunQueue
<1>3. /\ step \in StepState /\ 1 \in DOMAIN panel.queue /\ step = panel.queue[1]
  <2>1. panel.queue \in Seq(StepState)
    BY <1>0 DEF PanelState
  <2> QED BY <1>0, <2>1, QueueTail
<1>4. \/ files' = AfterStep(step) /\ panel' = popped
      \/ files' = files /\ panel' = failed /\ step.kind # "write"
  BY DEF RunQueue
<1>5. /\ popped \in PanelState
      /\ popped.thread = panel.thread /\ popped.items = panel.items /\ popped.writes = panel.writes
      /\ popped.seq = panel.seq /\ popped.queue = Tail(panel.queue)
      /\ NearerOf(panel, popped.loads)
      /\ popped.givenUp = panel.givenUp /\ popped.adrift = panel.adrift
  BY <1>0, PopIs
<1> HIDE DEF popped
<1>6. step.items \in SUBSET Items /\ step.thread \in Threads /\ step.to \in Threads \cup {NoThread}
  BY <1>3 DEF StepState
<1>7. /\ failed \in PanelState
      /\ failed.thread = panel.thread /\ failed.items = panel.items /\ failed.writes = panel.writes
      /\ failed.seq = panel.seq /\ failed.queue = Tail(panel.queue)
      /\ NearerOf(panel, failed.loads)
      /\ failed.givenUp = panel.givenUp \cup step.items /\ failed.adrift = panel.adrift
  <2>1. panel.givenUp \cup step.items \in SUBSET Items
    BY <1>0, <1>6 DEF PanelState
  <2> QED BY <1>5, <2>1 DEF PanelState
<1>8. step.kind = "drop" => step.thread # step.to /\ step.to \in Threads
  BY <1>0, <1>3, <1>6 DEF PanelOK, PanelReady, QueueOK
<1> HIDE DEF failed, step
<1>9. leave' \in LeaveState
  <2>1. Less(leave.behind) \in Nat
    BY <1>0 DEF LeaveState, Less
  <2> QED BY <1>0, <2>1 DEF RunQueue, LeaveState
<1>10. /\ leave'.pc = leave.pc /\ leave'.hash = leave.hash /\ leave'.handed = leave.handed
       /\ leave'.drops = leave.drops /\ leave'.all = leave.all
  BY <1>0 DEF RunQueue, LeaveState
<1>11. /\ files' \in [Threads -> SUBSET Items]
       /\ Safe \subseteq Safe' /\ Excused \subseteq Excused'
       /\ PanelOK(panel', files', Safe', Excused')
       /\ Retains(panel, panel', Safe')
  <2>1. CASE files' = AfterStep(step) /\ panel' = popped
    <3>1. /\ files' \in [Threads -> SUBSET Items]
          /\ \A t \in Threads : t # step.thread => files'[t] = files[t]
          /\ step.kind = "write" => files'[step.thread] = step.items
          /\ step.kind \in {"write", "keep"} => step.items \subseteq files'[step.thread]
          /\ step.kind = "keep" => files[step.thread] \subseteq files'[step.thread]
          /\ step.kind = "drop" => files[step.thread] \subseteq files'[step.thread] \cup files'[step.to]
      BY <1>0, <1>3, <1>8, <2>1, AfterStepIs
    <3>2. Excused' = Excused
      BY <1>1, <1>5, <2>1 DEF Excused
    <3>3. \A t \in Threads : files'[t] \subseteq Safe' /\ account[t].items \subseteq Safe'
      BY <1>1 DEF Safe
    <3>4. ASSUME NEW t \in Threads PROVE files[t] \subseteq Safe'
      <4>1. CASE t # step.thread
        BY <3>1, <3>3, <4>1
      <4>2. CASE t = step.thread /\ step.kind = "write"
        <5>1. files[t] \subseteq step.items \cup Excused
          BY <1>0, <1>3, <4>2 DEF PanelOK, PanelReady, QueueOK
        <5>2. Excused' \subseteq Safe'
          BY DEF Safe
        <5> QED BY <1>6, <3>1, <3>2, <3>3, <4>2, <5>1, <5>2
      <4>3. CASE t = step.thread /\ step.kind = "keep"
        BY <3>1, <3>3, <4>3
      <4>4. CASE t = step.thread /\ step.kind = "drop"
        BY <1>8, <3>1, <3>3, <4>4
      <4> QED BY <1>3, <4>1, <4>2, <4>3, <4>4 DEF StepState
    <3>5. Safe \subseteq Safe'
      <4>1. Excused' \subseteq Safe'
        BY DEF Safe
      <4> QED BY <3>2, <3>3, <3>4, <4>1 DEF Safe
    <3>6. step.kind = "write" => step.items \subseteq Safe'
      BY <1>6, <3>1, <3>3
    <3>7. PanelOK(panel', files', Safe', Excused)
      BY <1>0, <1>5, <2>1, <3>1, <3>5, <3>6, PopKeeps DEF step
    <3>8. step.items \subseteq Safe'
      <4>1. step.kind = "drop" => step.items = {}
        BY <1>0, <1>3 DEF PanelOK, PanelReady, QueueOK
      <4> QED BY <1>3, <1>6, <3>1, <3>3, <4>1 DEF StepState
    <3>9. Retains(panel, panel', Safe')
      BY <1>0, <1>5, <2>1, <3>8, PopRetains DEF step
    <3> QED BY <3>1, <3>2, <3>5, <3>7, <3>9
  <2>2. CASE files' = files /\ panel' = failed /\ step.kind # "write"
    <3>1. Safe \subseteq Safe' /\ Excused \subseteq Excused'
      BY <1>1, <1>7, <2>2 DEF Safe, Excused
    <3>2. PanelOK(panel', files, Safe', Excused)
      BY <1>0, <1>7, <2>2, <3>1, PopKeeps DEF step
    <3>3. PanelOK(panel', files, Safe', Excused')
      BY <3>1, <3>2, MoreSafe
    <3>4. \A m \in step.items : m \in panel'.givenUp
      BY <1>7, <2>2
    <3>5. Retains(panel, panel', Safe')
      BY <1>0, <1>7, <2>2, <3>4, PopRetains DEF step
    <3> QED BY <1>0, <2>2, <3>1, <3>3, <3>5
  <2> QED BY <1>4, <2>1, <2>2
<1>12. /\ panel' \in PanelState /\ panel'.thread = panel.thread
       /\ panel.adrift \subseteq panel'.adrift
  BY <1>4, <1>5, <1>7
<1>13. Keeping
  BY <1>11, <1>12 DEF Keeping
<1>14. PlaceType'
  BY <1>1, <1>2, <1>9, <1>11, <1>12 DEF ChatInv, PlaceInv, PlaceType
<1>15. IndexOK' /\ FreshOK' /\ FollowsSwitch'
  BY <1>1, <1>12, PlaceStays, FollowsStays
<1>16. LeaveInv'
  BY <1>1, <1>10, <1>11, SteadyIs, LeaveStays
<1> QED BY <1>1, <1>2, <1>13, <1>14, <1>15, <1>16, KeepingIs DEF ChatInv, PlaceInv, Keeping, StaysStored

-----------------------------------------------------------------------------
\* Opening a thread

LEMMA MintIs ==
  ASSUME ChatPanelAssumption, PlaceInv, NEW w \in Workspaces, Mint(w), UNCHANGED account
  PROVE  /\ Minted(w) \in Threads /\ madeFor'[Minted(w)] = w
         /\ index' \in [Workspaces -> Threads \cup {NoThread}]
         /\ madeFor' \in [Threads -> Workspaces \cup {None}]
         /\ IndexOK' /\ FreshOK' /\ Steady
<1> DEFINE c == Minted(w)
<1>0. /\ index \in [Workspaces -> Threads \cup {NoThread}]
      /\ madeFor \in [Threads -> Workspaces \cup {None}]
      /\ None \notin Workspaces /\ NoThread \notin Threads
      /\ Threads \subseteq Nat /\ MaxThreads \in Threads
  BY DEF PlaceInv, PlaceType, ChatPanelAssumption, None, Threads
<1>1. c \in Threads /\ (index[w] = c \/ (madeFor[c] = None /\ index[w] = NoThread))
  <2>1. CASE index[w] # NoThread
    BY <1>0, <2>1 DEF Minted
  <2>2. CASE index[w] = NoThread
    <3> DEFINE S == {t \in Threads : madeFor[t] = None} \cup {MaxThreads}
    <3>1. madeFor[MaxThreads] = None
      BY <2>2 DEF Mint
    <3>2. S \in SUBSET Nat /\ S # {} /\ \A t \in S : t \in Threads /\ madeFor[t] = None
      BY <1>0, <3>1
    <3>3. c = Min(S)
      BY <2>2 DEF Minted
    <3> HIDE DEF S, c
    <3>4. Min(S) \in S
      BY <3>2, LeastIs
    <3> QED BY <2>2, <3>2, <3>3, <3>4
  <2> QED BY <2>1, <2>2
<1>2. index' = [index EXCEPT ![w] = c] /\ madeFor' = [madeFor EXCEPT ![c] = w]
  BY DEF Mint
<1> HIDE DEF c
<1>3. /\ madeFor'[c] = w
      /\ index' \in [Workspaces -> Threads \cup {NoThread}]
      /\ madeFor' \in [Threads -> Workspaces \cup {None}]
      /\ index'[w] = c /\ \A v \in Workspaces \ {w} : index'[v] = index[v]
      /\ \A t \in Threads \ {c} : madeFor'[t] = madeFor[t]
  BY <1>0, <1>1, <1>2
<1>4. \A t \in Threads : madeFor[t] # None => madeFor'[t] = madeFor[t]
  <2>1. index[w] = c => madeFor[c] = w
    BY <1>0, <1>1 DEF PlaceInv, IndexOK
  <2> QED BY <1>1, <1>3, <2>1
<1>5. IndexOK'
  <2> SUFFICES ASSUME NEW v \in Workspaces, index'[v] # NoThread
               PROVE  madeFor'[index'[v]] = v
    BY DEF IndexOK
  <2>1. CASE v = w
    BY <1>3, <2>1
  <2>2. CASE v # w
    <3>1. index'[v] = index[v] /\ index[v] \in Threads /\ madeFor[index[v]] = v
      BY <1>0, <1>3, <2>2 DEF PlaceInv, IndexOK
    <3> QED BY <1>0, <1>4, <3>1
  <2> QED BY <2>1, <2>2
<1>6. FreshOK'
  BY <1>0, <1>3 DEF PlaceInv, FreshOK
<1>7. Steady
  <2>1. ASSUME NEW t \in Threads, madeFor[t] # None, Unknown(t, account, index)
        PROVE  Unknown(t, account', index')
    <3>1. t # c
      BY <1>1, <2>1 DEF Unknown
    <3> QED BY <1>3, <2>1, <3>1 DEF Unknown
  <2>2. \A t \in Threads :
          /\ madeFor[t] # None => madeFor'[t] = madeFor[t]
          /\ account[t].state # None => account'[t].state # None
          /\ account[t].state = "deleted" => account'[t].state = "deleted"
          /\ \/ account'[t] = Closed
             \/ account[t] # Closed /\ account[t].items \subseteq account'[t].items
    BY <1>4
  <2> QED BY <2>1, <2>2 DEF Steady
<1> QED BY <1>1, <1>3, <1>5, <1>6, <1>7 DEF c

LEMMA RetainsOn ==
  ASSUME NEW s, NEW c, NEW r, NEW safe, Retains(s, c, safe), Retains(c, r, safe),
         c.givenUp \subseteq r.givenUp, c.adrift \subseteq r.adrift
  PROVE  Retains(s, r, safe)
BY DEF Retains

LEMMA CloseThreadKeeps ==
  ASSUME ChatPanelAssumption, NEW s \in PanelState, NEW f, NEW safe, NEW excused,
         PanelOK(s, f, safe, excused)
  PROVE  LET c == closeThread(s) IN
         /\ c \in PanelState /\ c.thread = NoThread /\ PanelOK(c, f, safe, excused)
         /\ Retains(s, c, safe) /\ s.givenUp \subseteq c.givenUp /\ s.adrift \subseteq c.adrift
<1>1. CASE s.thread = NoThread
  BY <1>1 DEF closeThread, Retains
<1>2. CASE s.thread # NoThread
  BY <1>2, CloseIs, CloseKeeps
<1> QED BY <1>1, <1>2

LEMMA LoadThreadKeeps ==
  ASSUME ChatPanelAssumption, NEW s \in PanelState, NEW t \in Threads,
         NEW f, NEW safe, NEW excused, PanelOK(s, f, safe, excused)
  PROVE  LET c == loadThread(s, t) IN
         /\ c \in PanelState /\ c.thread = t /\ PanelOK(c, f, safe, excused)
         /\ Retains(s, c, safe) /\ s.givenUp \subseteq c.givenUp /\ s.adrift \subseteq c.adrift
<1>1. CASE s.thread = t
  BY <1>1 DEF loadThread, Retains
<1>2. CASE s.thread # t
  <2>1. loadThread(s, t) = load(s, t)
    BY <1>2 DEF loadThread
  <2> QED BY <2>1, LoadIs, LoadKeeps
<1> QED BY <1>1, <1>2

LEMMA WaitIs ==
  ASSUME NEW s \in PanelState, NEW t
  PROVE  Settled(s, t) \in Nat /\ LoadWait(s, t) \in Nat
BY DEF PanelState, Settled, LoadWait

LEMMA OpenTaskOK ==
  ASSUME ChatPanelAssumption, NEW s \in PanelState, NEW w \in Workspaces, NEW t \in Threads,
         NEW mf, NEW acc, NEW ix, mf[t] = w
  PROVE  LET c == [NoTask EXCEPT !.pc = "fetch", !.ws = w, !.thread = t, !.wait = LoadWait(s, t)] IN
         c \in TaskState /\ TaskOK(c, mf, acc, ix)
<1> DEFINE c == [NoTask EXCEPT !.pc = "fetch", !.ws = w, !.thread = t, !.wait = LoadWait(s, t)]
<1>1. /\ c \in TaskState /\ c.pc = "fetch" /\ c.ws = w /\ c.thread = t
      /\ c.local = NoThread /\ c.remote = NoThread /\ c.after = None
  BY NoTaskOK, WaitIs DEF NoTask, TaskState, Opening
<1> HIDE DEF c
<1>2. TaskOK(c, mf, acc, ix)
  BY <1>1 DEF TaskOK, Opening, Joining, Adopting, Reads, None
<1> QED BY <1>1, <1>2 DEF c

LEMMA IndexTaskOK ==
  ASSUME ChatPanelAssumption, NEW w \in Workspaces, NEW mf, NEW acc, NEW ix
  PROVE  LET c == [NoTask EXCEPT !.pc = "index", !.ws = w, !.after = "switch"] IN
         c \in TaskState /\ TaskOK(c, mf, acc, ix)
<1> DEFINE c == [NoTask EXCEPT !.pc = "index", !.ws = w, !.after = "switch"]
<1>1. /\ c \in TaskState /\ c.pc = "index" /\ c.ws = w
      /\ c.local = NoThread /\ c.remote = NoThread /\ c.after = "switch"
  BY NoTaskOK DEF NoTask, TaskState
<1> HIDE DEF c
<1>2. TaskOK(c, mf, acc, ix)
  BY <1>1 DEF TaskOK, Opening, Joining, Adopting, Reads, None
<1> QED BY <1>1, <1>2 DEF c

\* open of chat-thread.tsx
LEMMA OpenKeeps ==
  ASSUME ChatPanelAssumption, ChatInv, NEW i \in TaskIds, NEW w \in Workspaces, Open(i, w),
         UNCHANGED <<files, account, pastVars>>, current' = w,
         effect' \in [openedFor : Workspaces, due : Nat, crossed : BOOLEAN],
         effect'.due = 0 => effect'.openedFor = w,
         session' \in {"in", "ending", "out"}, leave' \in LeaveState
  PROVE  PlaceInv' /\ FollowsSwitch' /\ Keeping /\ Steady
<1> DEFINE c == closeThread(panel)
<1>0. panel \in PanelState /\ PanelOK(panel, files, Safe, Excused)
  BY DEF ChatInv, PlaceInv, PlaceType, PanelInv
<1>1. /\ c \in PanelState /\ c.thread = NoThread /\ PanelOK(c, files, Safe, Excused)
      /\ Retains(panel, c, Safe)
      /\ panel.givenUp \subseteq c.givenUp /\ panel.adrift \subseteq c.adrift
  BY <1>0, CloseThreadKeeps
<1> HIDE DEF c
<1>2. UNCHANGED <<files, account, trampled, typed, home, replaced>>
  BY DEF pastVars
<1>3. CASE warm
  <2> DEFINE t == Minted(w)
             r == loadThread(c, t)
  <2>1. Mint(w) /\ OpenThread(i, w, t, c)
    BY <1>3 DEF Open, c
  <2>2. /\ t \in Threads /\ madeFor'[t] = w
        /\ index' \in [Workspaces -> Threads \cup {NoThread}]
        /\ madeFor' \in [Threads -> Workspaces \cup {None}]
        /\ IndexOK' /\ FreshOK' /\ Steady
    BY <1>2, <2>1, MintIs DEF ChatInv
  <2> HIDE DEF t
  <2>3. /\ r \in PanelState /\ r.thread = t /\ PanelOK(r, files, Safe, Excused)
        /\ Retains(c, r, Safe) /\ c.givenUp \subseteq r.givenUp /\ c.adrift \subseteq r.adrift
    BY <1>1, <2>2, LoadThreadKeeps
  <2>4. panel' = r
    BY <2>1 DEF OpenThread
  <2> HIDE DEF r
  <2>5. TasksOK' /\ tasks' \in [TaskIds -> TaskState]
    BY <1>1, <2>1, <2>2, OpenTaskOK, TaskStep DEF OpenThread, ChatInv
  <2>6. Retains(panel, panel', Safe)
    BY <1>1, <2>3, <2>4, RetainsOn
  <2>7. Keeping
    BY <1>1, <1>2, <2>3, <2>4, <2>6, MemoryStep
  <2>8. FollowsSwitch'
    BY <2>2, <2>3, <2>4 DEF FollowsSwitch
  <2>9. PlaceType'
    BY <1>2, <2>2, <2>3, <2>4, <2>5 DEF ChatInv, PlaceInv, PlaceType
  <2> QED BY <2>2, <2>5, <2>7, <2>8, <2>9 DEF PlaceInv
<1>4. CASE ~warm
  <2>1. /\ panel' = c /\ UNCHANGED <<index, madeFor>>
        /\ Become(i, [NoTask EXCEPT !.pc = "index", !.ws = w, !.after = "switch"])
    BY <1>4 DEF Open, c, indexVars
  <2>2. Steady
    BY <1>2, <2>1, SteadyIs
  <2>3. TasksOK' /\ tasks' \in [TaskIds -> TaskState]
    BY <2>1, <2>2, IndexTaskOK, TaskStep DEF ChatInv
  <2>4. Keeping
    BY <1>1, <1>2, <2>1, MemoryStep
  <2>5. FollowsSwitch'
    BY <1>1, <2>1 DEF FollowsSwitch
  <2>6. PlaceType'
    BY <1>1, <1>2, <2>1, <2>3 DEF ChatInv, PlaceInv, PlaceType
  <2>7. IndexOK' /\ FreshOK'
    BY <1>2, <2>1, PlaceStays
  <2> QED BY <2>2, <2>3, <2>4, <2>5, <2>6, <2>7 DEF PlaceInv
<1> QED BY <1>3, <1>4

\* The id of the current workspace moves, and the thread stays
LEMMA SwitchWorkspaceKeeps ==
  ASSUME ChatPanelAssumption, ChatInv, NEW w \in Workspaces, SwitchWorkspace(w)
  PROVE  ChatInv' /\ StaysStored
<1>0. /\ effect \in [openedFor : Workspaces, due : Nat, crossed : BOOLEAN]
      /\ effect.due = 0 => effect.openedFor = current
  BY DEF ChatInv, PlaceInv, PlaceType
<1>1. /\ UNCHANGED <<session, index, madeFor, files, account, panel, tasks, leave, pastVars>>
      /\ current' = w
      /\ effect' = [effect EXCEPT !.due = @ + 1, !.crossed = @ \/ effect.due > 0]
  BY DEF SwitchWorkspace, indexVars
<1>2. UNCHANGED <<typed, home, trampled, replaced>>
  BY <1>1 DEF pastVars
<1>3. /\ effect' \in [openedFor : Workspaces, due : Nat, crossed : BOOLEAN]
      /\ effect'.due # 0 /\ effect'.openedFor = effect.openedFor
      /\ ~effect'.crossed => ~effect.crossed /\ effect.due = 0
  <2>1. /\ effect'.due = effect.due + 1 /\ effect'.openedFor = effect.openedFor
        /\ effect'.crossed = (effect.crossed \/ effect.due > 0)
    BY <1>0, <1>1
  <2>2. effect' \in [openedFor : Workspaces, due : Nat, crossed : BOOLEAN]
    <3>1. effect.due + 1 \in Nat /\ (effect.crossed \/ effect.due > 0) \in BOOLEAN
      BY <1>0
    <3> QED BY <1>0, <1>1, <3>1
  <2>3. effect.due \in Nat
    BY <1>0
  <2> QED BY <2>1, <2>2, <2>3
<1>4. FollowsSwitch'
  BY <1>0, <1>1, <1>2, <1>3 DEF ChatInv, FollowsSwitch
<1>5. PlaceType'
  BY <1>1, <1>2, <1>3 DEF ChatInv, PlaceInv, PlaceType
<1>6. IndexOK' /\ FreshOK' /\ Steady /\ Keeping
  BY <1>1, <1>2, PlaceStays, SteadyIs, PanelStays
<1>7. TasksOK'
  BY <1>1, <1>6, TasksStay DEF ChatInv
<1>8. LeaveInv' /\ PanelInv' /\ KeptInv'
  BY <1>1, <1>2, <1>6, LeaveStays, KeepingIs DEF Keeping
<1> QED BY <1>4, <1>5, <1>6, <1>7, <1>8 DEF ChatInv, PlaceInv, Keeping, StaysStored

\* The event of a switch: nothing, or `open`
LEMMA DidSwitchWorkspaceKeeps ==
  ASSUME ChatPanelAssumption, ChatInv, DidSwitchWorkspace
  PROVE  ChatInv' /\ StaysStored
<1> DEFINE opened == effect.openedFor = current
<1>0. /\ effect \in [openedFor : Workspaces, due : Nat, crossed : BOOLEAN]
      /\ current \in Workspaces /\ session \in {"in", "ending", "out"} /\ leave \in LeaveState
  BY DEF ChatInv, PlaceInv, PlaceType
<1>1. /\ UNCHANGED <<current, session, files, account, leave, pastVars>>
      /\ effect.due > 0
      /\ effect' = [openedFor |-> current, due |-> effect.due - 1,
                    crossed |-> effect.crossed /\ (opened \/ effect.due > 1)]
  BY DEF DidSwitchWorkspace
<1>2. /\ effect' \in [openedFor : Workspaces, due : Nat, crossed : BOOLEAN]
      /\ effect'.openedFor = current
      /\ opened => effect'.crossed = effect.crossed
  BY <1>0, <1>1
<1>3. UNCHANGED <<typed, home, trampled, replaced>>
  BY <1>1 DEF pastVars
<1>4. CASE opened
  <2>1. UNCHANGED <<index, madeFor, panel, tasks>>
    BY <1>4 DEF DidSwitchWorkspace, indexVars
  <2>2. FollowsSwitch'
    BY <1>1, <1>2, <1>3, <1>4, <2>1 DEF ChatInv, FollowsSwitch
  <2>3. PlaceType'
    BY <1>1, <1>2, <1>3, <2>1 DEF ChatInv, PlaceInv, PlaceType
  <2>4. IndexOK' /\ FreshOK' /\ Steady /\ Keeping
    BY <1>1, <1>3, <2>1, PlaceStays, SteadyIs, PanelStays
  <2>5. TasksOK'
    BY <2>1, <2>4, TasksStay DEF ChatInv
  <2>6. LeaveInv' /\ PanelInv' /\ KeptInv'
    BY <1>1, <1>3, <2>4, LeaveStays, KeepingIs DEF Keeping
  <2> QED BY <2>2, <2>3, <2>4, <2>5, <2>6 DEF ChatInv, PlaceInv, Keeping, StaysStored
<1>5. CASE ~opened
  <2>1. PICK i \in TaskIds : Open(i, current)
    BY <1>5 DEF DidSwitchWorkspace
  <2>2. PlaceInv' /\ FollowsSwitch' /\ Keeping /\ Steady
    BY <1>0, <1>1, <1>2, <2>1, OpenKeeps
  <2>3. LeaveInv'
    BY <1>1, <2>2, LeaveStays DEF Keeping
  <2>4. PanelInv' /\ KeptInv'
    BY <1>3, <2>2, KeepingIs
  <2> QED BY <2>2, <2>3, <2>4 DEF ChatInv, Keeping, StaysStored
<1> QED BY <1>4, <1>5

\* openThread of the thread that the index names
LEMMA ReopenKeeps ==
  ASSUME ChatPanelAssumption, ChatInv, NEW i \in TaskIds, Reopen(i)
  PROVE  ChatInv' /\ StaysStored
<1>0. panel \in PanelState /\ PanelOK(panel, files, Safe, Excused) /\ current \in Workspaces
  BY DEF ChatInv, PlaceInv, PlaceType, PanelInv
<1>1. /\ UNCHANGED <<current, effect, session, index, madeFor, files, account, leave, pastVars>>
      /\ UNCHANGED <<typed, home, trampled, replaced>>
  BY DEF Reopen, indexVars, pastVars
<1>2. CASE panel.thread # NoThread /\ index[current] # NoThread
  <2> DEFINE t == index[current]
             r == loadThread(panel, t)
  <2>1. t \in Threads /\ madeFor[t] = current
    BY <1>0, <1>2 DEF ChatInv, PlaceInv, PlaceType, IndexOK
  <2>2. OpenThread(i, current, t, panel)
    BY <1>2 DEF Reopen
  <2> HIDE DEF t
  <2>3. /\ r \in PanelState /\ r.thread = t /\ PanelOK(r, files, Safe, Excused)
        /\ Retains(panel, r, Safe)
        /\ panel.givenUp \subseteq r.givenUp /\ panel.adrift \subseteq r.adrift
    BY <1>0, <2>1, LoadThreadKeeps
  <2>4. panel' = r
    BY <2>2 DEF OpenThread
  <2> HIDE DEF r
  <2>5. TasksOK' /\ tasks' \in [TaskIds -> TaskState]
    BY <1>0, <1>1, <2>1, <2>2, OpenTaskOK, TaskStep, SteadyIs DEF OpenThread, ChatInv
  <2>6. FollowsSwitch'
    BY <1>1, <2>1, <2>3, <2>4 DEF FollowsSwitch
  <2> QED BY <1>1, <2>3, <2>4, <2>5, <2>6, PanelStep
<1>3. CASE ~(panel.thread # NoThread /\ index[current] # NoThread)
  <2>1. End(i) /\ UNCHANGED panel
    BY <1>3 DEF Reopen
  <2> QED BY <1>1, <2>1, NoTaskOK, CallStep DEF End
<1> QED BY <1>2, <1>3

\* openThread, once the index has been read
LEMMA EnsureThreadKeeps ==
  ASSUME ChatPanelAssumption, ChatInv, NEW i \in TaskIds, EnsureThread(i)
  PROVE  ChatInv' /\ StaysStored
<1> DEFINE t == tasks[i]
<1>0. /\ panel \in PanelState /\ PanelOK(panel, files, Safe, Excused)
      /\ t \in TaskState /\ TaskOK(t, madeFor, account, index) /\ t.ws \in Workspaces
  BY DEF ChatInv, PlaceInv, PlaceType, PanelInv, TasksOK, TaskState
<1>1. UNCHANGED <<current, effect, session, files, account, leave, typed, home, trampled>>
  BY DEF EnsureThread
<1>2. t.pc = "index" /\ t.after \in {"switch", "replace"}
  BY <1>0 DEF EnsureThread, At, TaskOK
<1>3. CASE SwitchedAway(t)
  <2>1. End(i) /\ UNCHANGED <<index, madeFor, panel, replaced>>
    BY <1>3 DEF EnsureThread
  <2> QED BY <1>1, <2>1, NoTaskOK, CallStep DEF End, pastVars
<1>4. CASE ~SwitchedAway(t)
  <2> DEFINE c == Minted(t.ws)
             r == loadThread(panel, c)
  <2>1. /\ Mint(t.ws) /\ OpenThread(i, t.ws, c, panel)
        /\ replaced' = IF t.after = "replace" THEN replaced \cup {c} ELSE replaced
    BY <1>4 DEF EnsureThread
  <2>2. /\ c \in Threads /\ madeFor'[c] = t.ws
        /\ index' \in [Workspaces -> Threads \cup {NoThread}]
        /\ madeFor' \in [Threads -> Workspaces \cup {None}]
        /\ IndexOK' /\ FreshOK' /\ Steady
    BY <1>0, <1>1, <2>1, MintIs DEF ChatInv
  <2> HIDE DEF c
  <2>3. /\ r \in PanelState /\ r.thread = c /\ PanelOK(r, files, Safe, Excused)
        /\ Retains(panel, r, Safe)
        /\ panel.givenUp \subseteq r.givenUp /\ panel.adrift \subseteq r.adrift
    BY <1>0, <2>2, LoadThreadKeeps
  <2>4. panel' = r
    BY <2>1 DEF OpenThread
  <2> HIDE DEF r, t
  <2>5. TasksOK' /\ tasks' \in [TaskIds -> TaskState]
    BY <1>0, <2>1, <2>2, OpenTaskOK, TaskStep DEF OpenThread, ChatInv
  <2>6. Keeping
    BY <1>1, <2>3, <2>4, MemoryStep
  <2>7. FollowsSwitch'
    <3>1. t.after = "replace" => c \in replaced'
      BY <2>1
    <3>2. t.after = "switch" => current = t.ws
      BY <1>4 DEF SwitchedAway
    <3> QED BY <1>1, <1>2, <2>2, <2>3, <2>4, <3>1, <3>2 DEF FollowsSwitch
  <2>8. PlaceType'
    BY <1>1, <2>2, <2>3, <2>4, <2>5 DEF ChatInv, PlaceInv, PlaceType
  <2>9. LeaveInv'
    BY <1>1, <2>2, <2>6, LeaveStays DEF Keeping
  <2>10. PanelInv' /\ KeptInv'
    BY <1>1, <2>6, KeepingIs
  <2> QED BY <2>2, <2>5, <2>6, <2>7, <2>8, <2>9, <2>10 DEF ChatInv, PlaceInv, Keeping, StaysStored
<1> QED BY <1>3, <1>4

-----------------------------------------------------------------------------
\* The calls that openThread and a sign-in make

SameCall(t, r) ==
  /\ r.ws = t.ws /\ r.thread = t.thread /\ r.local = t.local /\ r.remote = t.remote
  /\ r.after = t.after

LEMMA OpeningGoesOn ==
  ASSUME NEW t, NEW r, NEW mf, NEW acc, NEW ix, TaskOK(t, mf, acc, ix), SameCall(t, r),
         t.pc \in Opening, r.pc \in Opening \ {"repoint", "moving"}
  PROVE  TaskOK(r, mf, acc, ix)
BY DEF TaskOK, SameCall, Opening, Joining, Adopting, Reads

LEMMA AdoptingGoesOn ==
  ASSUME NEW t, NEW r, NEW mf, NEW acc, NEW ix, TaskOK(t, mf, acc, ix), SameCall(t, r),
         t.pc \in Adopting \ {"repoint"},
         r.pc = "setIndex" \/ (r.pc \in Reads /\ t.local # NoThread)
  PROVE  TaskOK(r, mf, acc, ix)
BY DEF TaskOK, SameCall, Opening, Joining, Adopting, Reads

LEMMA DumpTaskOK ==
  ASSUME ChatPanelAssumption, NEW pc \in {"dump", "reopen"}
  PROVE  LET c == [NoTask EXCEPT !.pc = pc] IN
         c \in TaskState /\ \A mf, acc, ix : TaskOK(c, mf, acc, ix)
<1> DEFINE c == [NoTask EXCEPT !.pc = pc]
<1>1. /\ c \in TaskState /\ c.pc \in {"dump", "reopen"}
      /\ c.local = NoThread /\ c.remote = NoThread /\ c.after = None
  BY NoTaskOK DEF NoTask, TaskState
<1> HIDE DEF c
<1>2. \A mf, acc, ix : TaskOK(c, mf, acc, ix)
  BY <1>1 DEF TaskOK, Opening, Joining, Adopting, Reads, None
<1> QED BY <1>1, <1>2 DEF c

LEMMA CallsOK ==
  ASSUME ChatInv, NEW i \in TaskIds
  PROVE  /\ tasks[i] \in TaskState /\ TaskOK(tasks[i], madeFor, account, index)
         /\ tasks[i].ws \in Workspaces /\ tasks[i].got \in SUBSET Items
         /\ tasks[i].read \in SUBSET Items
         /\ panel \in PanelState /\ PanelOK(panel, files, Safe, Excused)
         /\ files \in [Threads -> SUBSET Items]
         /\ account \in [Threads -> [state : {None, "live", "deleted"}, items : SUBSET Items]]
         /\ index \in [Workspaces -> Threads \cup {NoThread}]
         /\ madeFor \in [Threads -> Workspaces \cup {None}]
<1>1. tasks[i] \in TaskState /\ TaskOK(tasks[i], madeFor, account, index)
  BY DEF ChatInv, PlaceInv, PlaceType, TasksOK
<1>2. /\ tasks[i].ws \in Workspaces /\ tasks[i].got \in SUBSET Items
      /\ tasks[i].read \in SUBSET Items
  BY <1>1 DEF TaskState
<1> QED BY <1>1, <1>2 DEF ChatInv, PlaceInv, PlaceType, PanelInv

LEMMA NotAdoptedKeeps ==
  ASSUME ChatPanelAssumption, ChatInv, NEW i \in TaskIds, NotAdopted(i),
         UNCHANGED <<current, effect, session, index, madeFor, files, account, panel, leave, pastVars>>
  PROVE  ChatInv' /\ StaysStored
<1>1. Become(i, [NoTask EXCEPT !.pc = "dump"]) \/ Become(i, NoTask)
  BY DEF NotAdopted
<1>2. CASE Become(i, NoTask)
  BY <1>2, NoTaskOK, CallStep
<1>3. CASE Become(i, [NoTask EXCEPT !.pc = "dump"])
  BY <1>3, DumpTaskOK, CallStep
<1> QED BY <1>1, <1>2, <1>3

LEMMA FetchThreadKeeps ==
  ASSUME ChatPanelAssumption, ChatInv, NEW i \in TaskIds, FetchThread(i)
  PROVE  ChatInv' /\ StaysStored
<1> DEFINE t == tasks[i]
           row == account[t.thread]
           a == [t EXCEPT !.pc = "fold", !.got = row.items, !.wait = Settled(panel, t.thread)]
           b == [t EXCEPT !.pc = "list", !.local = index[t.ws]]
<1>0. /\ t \in TaskState /\ TaskOK(t, madeFor, account, index) /\ t.ws \in Workspaces
      /\ panel \in PanelState
      /\ account \in [Threads -> [state : {None, "live", "deleted"}, items : SUBSET Items]]
      /\ index \in [Workspaces -> Threads \cup {NoThread}]
  BY CallsOK
<1>1. UNCHANGED <<current, effect, session, index, madeFor, files, account, panel, leave, pastVars>>
  BY DEF FetchThread, indexVars
<1>2. t.pc = "fetch" /\ t.thread \in Threads /\ madeFor[t.thread] = t.ws /\ t.after # "signIn"
  BY <1>0 DEF FetchThread, At, TaskOK, Opening
<1>3. CASE Become(i, a)
  <2>1. row.items \in SUBSET Items /\ Settled(panel, t.thread) \in Nat
    BY <1>0, <1>2, WaitIs
  <2>2. a \in TaskState /\ SameCall(t, a) /\ a.pc = "fold"
    BY <1>0, <2>1 DEF TaskState, SameCall, Opening
  <2>3. TaskOK(a, madeFor, account, index)
    BY <1>0, <1>2, <2>2, OpeningGoesOn DEF Opening
  <2> QED BY <1>1, <1>3, <2>2, <2>3, CallStep
<1>4. CASE Become(i, b) /\ row.state # "live" /\ t.remote = NoThread
  <2>1. index[t.ws] \in Threads \cup {NoThread}
    BY <1>0
  <2>2. /\ b \in TaskState /\ b.pc = "list" /\ b.ws = t.ws /\ b.thread = t.thread
        /\ b.local = index[t.ws] /\ b.remote = NoThread /\ b.after = t.after
    BY <1>0, <1>4, <2>1 DEF TaskState, Joining
  <2>3. /\ index[t.ws] # NoThread => madeFor[index[t.ws]] = t.ws
        /\ \A w \in Workspaces : index[w] = t.thread => w = t.ws
    <3>1. NoThread \notin Threads
      BY DEF ChatPanelAssumption
    <3> QED BY <1>0, <1>2, <3>1 DEF ChatInv, PlaceInv, IndexOK
  <2>4. \/ t.thread = index[t.ws]
        \/ row.state = "deleted"
        \/ Unknown(t.thread, account, index)
    <3>1. row.state \in {None, "live", "deleted"}
      BY <1>0, <1>2
    <3> QED BY <1>4, <2>3, <3>1 DEF Unknown
  <2> HIDE DEF b
  <2>5. TaskOK(b, madeFor, account, index)
    BY <1>2, <2>2, <2>3, <2>4 DEF TaskOK, Opening, Joining, Adopting, Reads
  <2> QED BY <1>1, <1>4, <2>2, <2>5, CallStep
<1>5. CASE End(i)
  BY <1>1, <1>5, NoTaskOK, CallStep DEF End
<1> QED BY <1>3, <1>4, <1>5 DEF FetchThread

\* The three times settleInto asks whether the thread is open
LEMMA FoldInKeeps ==
  ASSUME ChatPanelAssumption, ChatInv, NEW i \in TaskIds, FoldIn(i)
  PROVE  ChatInv' /\ StaysStored
<1> DEFINE t == tasks[i]
           a == [t EXCEPT !.pc = "settle", !.behind = Len(panel.queue)]
           b == [t EXCEPT !.pc = "storeRead"]
<1>0. /\ t \in TaskState /\ TaskOK(t, madeFor, account, index)
      /\ panel \in PanelState /\ PanelOK(panel, files, Safe, Excused)
      /\ t.got \in SUBSET Items
  BY CallsOK
<1>1. /\ UNCHANGED <<current, effect, session, index, madeFor, files, account, leave, pastVars>>
      /\ UNCHANGED <<typed, home, trampled, replaced>>
  BY DEF FoldIn, indexVars, pastVars
<1>2. t.pc \in {"fold", "foldAgain", "foldLast"}
  BY DEF FoldIn
<1>3. CASE panel' = foldIn(panel, t.got) /\ End(i)
  <2>1. /\ panel' \in PanelState /\ PanelOK(panel', files, Safe, Excused)
        /\ Retains(panel, panel', Safe) /\ panel'.thread = panel.thread
        /\ panel'.givenUp = panel.givenUp /\ panel'.adrift = panel.adrift
    BY <1>0, <1>3, FoldKeeps
  <2>2. TasksOK' /\ tasks' \in [TaskIds -> TaskState]
    BY <1>1, <1>3, SteadyIs, NoTaskOK, TaskStep DEF End, ChatInv
  <2>3. FollowsSwitch'
    BY <1>1, <2>1, FollowsStays
  <2> QED BY <1>1, <2>1, <2>2, <2>3, PanelStep
<1>4. CASE Become(i, a) /\ UNCHANGED panel
  <2>1. Len(panel.queue) \in Nat
    <3>1. panel.queue \in Seq(StepState)
      BY <1>0 DEF PanelState
    <3> QED BY <3>1
  <2>2. a \in TaskState /\ SameCall(t, a) /\ a.pc = "settle"
    BY <1>0, <2>1 DEF TaskState, SameCall, Opening
  <2>3. TaskOK(a, madeFor, account, index)
    BY <1>0, <1>2, <2>2, OpeningGoesOn DEF Opening
  <2> QED BY <1>1, <1>4, <2>2, <2>3, CallStep
<1>5. CASE Become(i, b) /\ UNCHANGED panel
  <2>2. b \in TaskState /\ SameCall(t, b) /\ b.pc = "storeRead"
    BY <1>0 DEF TaskState, SameCall, Opening
  <2>3. TaskOK(b, madeFor, account, index)
    BY <1>0, <1>2, <2>2, OpeningGoesOn DEF Opening
  <2> QED BY <1>1, <1>5, <2>2, <2>3, CallStep
<1>6. CASE End(i) /\ UNCHANGED panel
  BY <1>1, <1>6, NoTaskOK, CallStep DEF End
<1> QED BY <1>2, <1>3, <1>4, <1>5, <1>6 DEF FoldIn

LEMMA PersistedKeeps ==
  ASSUME ChatPanelAssumption, ChatInv, NEW i \in TaskIds, Persisted(i)
  PROVE  ChatInv' /\ StaysStored
<1> DEFINE t == tasks[i]
           a == [t EXCEPT !.pc = "foldAgain", !.wait = Settled(panel, t.thread)]
<1>0. t \in TaskState /\ TaskOK(t, madeFor, account, index) /\ panel \in PanelState
  BY CallsOK
<1>1. UNCHANGED <<current, effect, session, index, madeFor, files, account, panel, leave, pastVars>>
  BY DEF Persisted, indexVars
<1>2. t.pc = "settle" /\ Become(i, a)
  BY DEF Persisted, At
<1>3. a \in TaskState /\ SameCall(t, a) /\ a.pc = "foldAgain"
  BY <1>0, WaitIs DEF TaskState, SameCall, Opening
<1>4. TaskOK(a, madeFor, account, index)
  BY <1>0, <1>2, <1>3, OpeningGoesOn DEF Opening
<1> QED BY <1>1, <1>2, <1>3, <1>4, CallStep

LEMMA StoreReadKeeps ==
  ASSUME ChatPanelAssumption, ChatInv, NEW i \in TaskIds, StoreRead(i)
  PROVE  ChatInv' /\ StaysStored
<1> DEFINE t == tasks[i]
           a == [t EXCEPT !.pc = "storeWrite", !.read = files[t.thread]]
           b == [t EXCEPT !.pc = "foldLast", !.wait = Settled(panel, t.thread)]
<1>0. /\ t \in TaskState /\ TaskOK(t, madeFor, account, index) /\ panel \in PanelState
      /\ files \in [Threads -> SUBSET Items]
  BY CallsOK
<1>1. UNCHANGED <<current, effect, session, index, madeFor, files, account, panel, leave, pastVars>>
  BY DEF StoreRead, indexVars
<1>2. t.pc = "storeRead" /\ t.thread \in Threads
  BY <1>0 DEF StoreRead, At, TaskOK, Opening
<1>3. /\ a \in TaskState /\ SameCall(t, a) /\ a.pc = "storeWrite"
      /\ b \in TaskState /\ SameCall(t, b) /\ b.pc = "foldLast"
  BY <1>0, <1>2, WaitIs DEF TaskState, SameCall, Opening
<1>4. TaskOK(a, madeFor, account, index) /\ TaskOK(b, madeFor, account, index)
  BY <1>0, <1>2, <1>3, OpeningGoesOn DEF Opening
<1>5. Become(i, a) \/ Become(i, b)
  BY DEF StoreRead
<1> QED BY <1>1, <1>3, <1>4, <1>5, CallStep

\* Steps that write or remove files outside the queue, and leave the panel alone
LEMMA OutsideStep ==
  ASSUME ChatInv, panel' \in PanelState,
         panel'.thread = panel.thread, panel'.items = panel.items, panel'.writes = panel.writes,
         panel'.seq = panel.seq, panel'.queue = panel.queue, panel'.loads = panel.loads,
         panel.givenUp \subseteq panel'.givenUp, panel.adrift \subseteq panel'.adrift,
         trampled \subseteq trampled',
         \A t \in Threads : files[t] \subseteq Safe' /\ account[t].items \subseteq Safe',
         \A t \in Threads : \A m \in files'[t] :
           \/ m \in files[t] \/ m \in Excused'
           \/ /\ StepsOf(panel.queue, t) = {}
              /\ panel.thread = t => IsOpen(panel) /\ m \in panel.items
  PROVE  Keeping
<1>1. Excused \subseteq Excused' /\ Excused' \subseteq Safe'
  BY DEF Excused, Safe
<1>2. Safe \subseteq Safe'
  BY <1>1 DEF Safe
<1>3. panel \in PanelState /\ PanelOK(panel, files, Safe, Excused)
  BY DEF ChatInv, PlaceInv, PlaceType, PanelInv
<1>4. PanelOK(panel, files', Safe', Excused')
  BY <1>1, <1>2, <1>3, OutsideKeeps
<1>5. PanelOK(panel', files', Safe', Excused')
  BY <1>4 DEF PanelOK, PanelReady, LoadsOK, ShowsAll, Stores, ReadsLast, Brings, IsOpen
<1>6. Retains(panel, panel', Safe')
  BY DEF Retains, InMem
<1> QED BY <1>1, <1>2, <1>5, <1>6 DEF Keeping

LEMMA OverwriteKeeps ==
  ASSUME ChatPanelAssumption, ChatInv, NEW t \in Threads, NEW list \in SUBSET Items,
         Overwrite(t, list), UNCHANGED <<account, panel>>
  PROVE  files' \in [Threads -> SUBSET Items] /\ trampled' \in SUBSET Items /\ Keeping
<1>0. /\ files \in [Threads -> SUBSET Items] /\ panel \in PanelState /\ trampled \in SUBSET Items
  BY DEF ChatInv, PlaceInv, PlaceType
<1>1. /\ files' = [files EXCEPT ![t] = list]
      /\ trampled' = trampled \cup (files[t] \ list) \cup (IF InUse(t) THEN list \ Shown(t) ELSE {})
  BY DEF Overwrite
<1>2. /\ files' \in [Threads -> SUBSET Items] /\ files'[t] = list
      /\ \A c \in Threads : c # t => files'[c] = files[c]
  BY <1>0, <1>1
<1>3. trampled' \in SUBSET Items
  BY <1>0, <1>1
<1>4. ASSUME NEW m \in list
      PROVE  \/ m \in Excused'
             \/ /\ StepsOf(panel.queue, t) = {}
                /\ panel.thread = t => IsOpen(panel) /\ m \in panel.items
  <2>1. Behind(panel, t) \in Nat /\ (Behind(panel, t) = 0 <=> StepsOf(panel.queue, t) = {})
    BY <1>0, BehindIs
  <2>2. CASE ~InUse(t)
    BY <2>1, <2>2 DEF InUse
  <2>3. CASE InUse(t) /\ m \notin Shown(t)
    BY <1>1, <1>4, <2>3 DEF Excused
  <2>4. CASE m \in Shown(t)
    <3>1. panel.thread = t /\ panel.writes = "open" /\ Behind(panel, t) = 0 /\ m \in panel.items
      BY <2>4 DEF Shown
    <3>2. t # NoThread
      BY DEF ChatPanelAssumption
    <3> QED BY <2>1, <3>1, <3>2 DEF IsOpen
  <2> QED BY <2>2, <2>3, <2>4
<1>5. \A c \in Threads : files[c] \subseteq Safe' /\ account[c].items \subseteq Safe'
  <2>1. /\ \A c \in Threads : files'[c] \subseteq Safe' /\ account[c].items \subseteq Safe'
        /\ trampled' \subseteq Safe'
    BY DEF Safe, Excused
  <2>2. files[t] \subseteq list \cup trampled'
    BY <1>1
  <2> QED BY <1>2, <2>1, <2>2
<1>6. Keeping
  BY <1>0, <1>1, <1>2, <1>4, <1>5, OutsideStep
<1> QED BY <1>2, <1>3, <1>6

\* Steps that change files and a call that is out, and nothing else
LEMMA FilesStep ==
  ASSUME ChatPanelAssumption, ChatInv, Keeping, TasksOK', tasks' \in [TaskIds -> TaskState],
         UNCHANGED <<current, effect, session, index, madeFor, account, typed, home, leave, replaced>>,
         files' \in [Threads -> SUBSET Items], trampled' \in SUBSET Items,
         panel' \in PanelState, panel'.thread = panel.thread
  PROVE  ChatInv' /\ StaysStored
<1>1. PlaceType'
  BY DEF ChatInv, PlaceInv, PlaceType
<1>2. IndexOK' /\ FreshOK' /\ FollowsSwitch'
  BY PlaceStays, FollowsStays
<1>3. PanelInv' /\ KeptInv'
  BY KeepingIs
<1>4. LeaveInv'
  BY SteadyIs, LeaveStays DEF Keeping
<1> QED BY <1>1, <1>2, <1>3, <1>4 DEF ChatInv, PlaceInv, Keeping, StaysStored

LEMMA StoreWriteKeeps ==
  ASSUME ChatPanelAssumption, ChatInv, NEW i \in TaskIds, StoreWrite(i)
  PROVE  ChatInv' /\ StaysStored
<1> DEFINE t == tasks[i]
           a == [t EXCEPT !.pc = "foldLast", !.wait = Settled(panel, t.thread)]
<1>0. /\ t \in TaskState /\ TaskOK(t, madeFor, account, index) /\ panel \in PanelState
      /\ t.got \cup t.read \in SUBSET Items
  BY CallsOK
<1>1. UNCHANGED <<current, effect, session, index, madeFor, account, panel, leave, typed, home, replaced>>
  BY DEF StoreWrite, indexVars
<1>2. /\ t.pc = "storeWrite" /\ t.thread \in Threads /\ Become(i, a)
      /\ Overwrite(t.thread, t.got \cup t.read)
  BY <1>0 DEF StoreWrite, At, TaskOK, Opening
<1>3. a \in TaskState /\ SameCall(t, a) /\ a.pc = "foldLast"
  BY <1>0, WaitIs DEF TaskState, SameCall, Opening
<1>4. TaskOK(a, madeFor, account, index)
  BY <1>0, <1>2, <1>3, OpeningGoesOn DEF Opening
<1>5. files' \in [Threads -> SUBSET Items] /\ trampled' \in SUBSET Items /\ Keeping
  BY <1>0, <1>1, <1>2, OverwriteKeeps
<1>6. TasksOK' /\ tasks' \in [TaskIds -> TaskState]
  BY <1>1, <1>2, <1>3, <1>4, SteadyIs, TaskStep DEF ChatInv
<1> QED BY <1>0, <1>1, <1>5, <1>6, FilesStep

LEMMA WriteRemoteKeeps ==
  ASSUME ChatPanelAssumption, ChatInv, NEW i \in TaskIds, WriteRemote(i)
  PROVE  ChatInv' /\ StaysStored
<1> DEFINE t == tasks[i]
           a == [t EXCEPT !.pc = "setIndex"]
<1>0. /\ t \in TaskState /\ TaskOK(t, madeFor, account, index) /\ panel \in PanelState
      /\ t.got \cup t.read \in SUBSET Items
  BY CallsOK
<1>1. UNCHANGED <<current, effect, session, index, madeFor, account, panel, leave, typed, home, replaced>>
  BY DEF WriteRemote, indexVars
<1>2. /\ t.pc = "writeRemote" /\ t.remote \in Threads /\ Become(i, a)
      /\ Overwrite(t.remote, t.got \cup t.read)
  BY <1>0 DEF WriteRemote, At, TaskOK, TaskState, Adopting, Reads
<1>3. a \in TaskState /\ SameCall(t, a) /\ a.pc = "setIndex"
  BY <1>0 DEF TaskState, SameCall, Joining
<1>4. TaskOK(a, madeFor, account, index)
  BY <1>0, <1>2, <1>3, AdoptingGoesOn DEF Adopting, Reads
<1>5. files' \in [Threads -> SUBSET Items] /\ trampled' \in SUBSET Items /\ Keeping
  BY <1>0, <1>1, <1>2, OverwriteKeeps
<1>6. TasksOK' /\ tasks' \in [TaskIds -> TaskState]
  BY <1>1, <1>2, <1>3, <1>4, SteadyIs, TaskStep DEF ChatInv
<1> QED BY <1>0, <1>1, <1>5, <1>6, FilesStep

LEMMA ListThreadsKeeps ==
  ASSUME ChatPanelAssumption, ChatInv, NEW i \in TaskIds, ListThreads(i)
  PROVE  ChatInv' /\ StaysStored
<1> DEFINE t == tasks[i]
           listed == {c \in Threads : madeFor[c] = t.ws /\ account[c].state = "live"}
           a(c) == [t EXCEPT !.pc = IF t.local = NoThread THEN "setIndex" ELSE "readLocal",
                             !.remote = c]
<1>0. t \in TaskState /\ TaskOK(t, madeFor, account, index)
  BY CallsOK
<1>1. UNCHANGED <<current, effect, session, index, madeFor, files, account, panel, leave, pastVars>>
  BY DEF ListThreads, indexVars
<1>2. t.pc = "list"
  BY DEF ListThreads, At
<1>3. ASSUME NEW c \in listed, t.local \notin listed, Become(i, a(c))
      PROVE  ChatInv' /\ StaysStored
  <2>1. /\ c \in Threads /\ c # NoThread /\ c # t.local
        /\ madeFor[c] = t.ws /\ account[c].state = "live"
    BY <1>3 DEF ChatPanelAssumption
  <2> DEFINE r == a(c)
  <2>2. /\ r \in TaskState /\ r.pc = IF t.local = NoThread THEN "setIndex" ELSE "readLocal"
        /\ r.ws = t.ws /\ r.thread = t.thread /\ r.local = t.local /\ r.remote = c
        /\ r.after = t.after
    BY <1>0, <2>1, ZenonT(60) DEF TaskState, Joining, Reads
  <2> HIDE DEF r
  <2>3. t.after # "signIn" => c # t.thread
    BY <1>0, <1>2, <2>1 DEF TaskOK, Unknown, None
  <2>4. account[c].state # None
    BY <2>1 DEF None
  <2>5. TaskOK(r, madeFor, account, index)
    BY <1>0, <1>2, <2>1, <2>2, <2>3, <2>4 DEF TaskOK, Opening, Joining, Adopting, Reads
  <2> QED BY <1>1, <1>3, <2>2, <2>5, CallStep DEF r
<1>4. CASE NotAdopted(i)
  BY <1>1, <1>4, NotAdoptedKeeps
<1> QED BY <1>3, <1>4 DEF ListThreads

LEMMA ReadLocalKeeps ==
  ASSUME ChatPanelAssumption, ChatInv, NEW i \in TaskIds, ReadLocal(i)
  PROVE  ChatInv' /\ StaysStored
<1> DEFINE t == tasks[i]
           a == [t EXCEPT !.pc = IF files[t.local] = {} THEN "setIndex" ELSE "readRemote",
                          !.read = files[t.local]]
<1>0. /\ t \in TaskState /\ TaskOK(t, madeFor, account, index)
      /\ files \in [Threads -> SUBSET Items]
  BY CallsOK
<1>1. UNCHANGED <<current, effect, session, index, madeFor, files, account, panel, leave, pastVars>>
  BY DEF ReadLocal, indexVars
<1>2. t.pc = "readLocal" /\ t.local \in Threads /\ t.local # NoThread
  BY <1>0 DEF ReadLocal, At, TaskOK, TaskState, Reads
<1>3. a \in TaskState /\ SameCall(t, a) /\ a.pc \in {"setIndex", "readRemote"}
  BY <1>0, <1>2 DEF TaskState, SameCall, Joining, Reads
<1>4. TaskOK(a, madeFor, account, index)
  BY <1>0, <1>2, <1>3, AdoptingGoesOn DEF Adopting, Reads
<1>5. Become(i, a) \/ NotAdopted(i)
  BY DEF ReadLocal
<1> QED BY <1>1, <1>3, <1>4, <1>5, CallStep, NotAdoptedKeeps

LEMMA ReadRemoteKeeps ==
  ASSUME ChatPanelAssumption, ChatInv, NEW i \in TaskIds, ReadRemote(i)
  PROVE  ChatInv' /\ StaysStored
<1> DEFINE t == tasks[i]
           a == [t EXCEPT !.pc = "writeRemote", !.got = files[t.remote]]
<1>0. /\ t \in TaskState /\ TaskOK(t, madeFor, account, index)
      /\ files \in [Threads -> SUBSET Items]
  BY CallsOK
<1>1. UNCHANGED <<current, effect, session, index, madeFor, files, account, panel, leave, pastVars>>
  BY DEF ReadRemote, indexVars
<1>2. t.pc = "readRemote" /\ t.remote \in Threads /\ t.local # NoThread
  BY <1>0 DEF ReadRemote, At, TaskOK, TaskState, Adopting, Reads
<1>3. a \in TaskState /\ SameCall(t, a) /\ a.pc = "writeRemote"
  BY <1>0, <1>2 DEF TaskState, SameCall, Joining, Reads
<1>4. TaskOK(a, madeFor, account, index)
  BY <1>0, <1>2, <1>3, AdoptingGoesOn DEF Adopting, Reads
<1>5. Become(i, a) \/ NotAdopted(i)
  BY DEF ReadRemote
<1> QED BY <1>1, <1>3, <1>4, <1>5, CallStep, NotAdoptedKeeps

LEMMA AdoptedOK ==
  ASSUME ChatPanelAssumption, NEW i \in TaskIds, NEW t \in TaskState, panel \in PanelState,
         NEW mf, NEW acc, NEW ix, TaskOK(t, mf, acc, ix), t.pc \in Adopting \ {"repoint"}, Adopted(i, t)
  PROVE  \E r \in TaskState : Become(i, r) /\ TaskOK(r, mf, acc, ix)
<1> DEFINE r == [t EXCEPT !.pc = "repoint", !.wait = Settled(panel, t.thread)]
           d == [NoTask EXCEPT !.pc = "dump"]
<1>1. CASE t.after = "signIn"
  <2>1. Become(i, d)
    BY <1>1 DEF Adopted
  <2>2. d \in TaskState /\ TaskOK(d, mf, acc, ix)
    BY DumpTaskOK
  <2> QED BY <2>1, <2>2
<1>2. CASE t.after # "signIn"
  <2>1. Become(i, r)
    BY <1>2 DEF Adopted
  <2>2. r \in TaskState /\ SameCall(t, r) /\ r.pc = "repoint"
    BY WaitIs DEF TaskState, SameCall, Opening
  <2> HIDE DEF r
  <2>3. TaskOK(r, mf, acc, ix)
    BY <1>2, <2>2 DEF TaskOK, SameCall, Opening, Joining, Adopting, Reads
  <2> QED BY <2>1, <2>2, <2>3
<1> QED BY <1>1, <1>2

\* PgThreadIndex.set
LEMMA SetIndexKeeps ==
  ASSUME ChatPanelAssumption, ChatInv, NEW i \in TaskIds, SetIndex(i)
  PROVE  ChatInv' /\ StaysStored
<1> DEFINE t == tasks[i]
           a == [t EXCEPT !.pc = "removeLocal"]
<1>0. /\ t \in TaskState /\ TaskOK(t, madeFor, account, index) /\ panel \in PanelState
      /\ t.ws \in Workspaces /\ index \in [Workspaces -> Threads \cup {NoThread}]
  BY CallsOK
<1>1. /\ UNCHANGED <<current, effect, session, madeFor, files, account, panel, leave, pastVars>>
      /\ UNCHANGED <<typed, home, trampled, replaced>>
      /\ index' = [index EXCEPT ![t.ws] = t.remote]
  BY DEF SetIndex, pastVars
<1>2. /\ t.pc = "setIndex" /\ t.remote \in Threads /\ madeFor[t.remote] = t.ws
      /\ account[t.remote].state # None
  BY <1>0 DEF SetIndex, At, TaskOK, TaskState, Adopting
<1>3. index' \in [Workspaces -> Threads \cup {NoThread}] /\ IndexOK'
  BY <1>0, <1>1, <1>2 DEF ChatInv, PlaceInv, IndexOK
<1>4. Steady
  <2>1. \A w \in Workspaces : index'[w] = index[w] \/ index'[w] = t.remote
    BY <1>0, <1>1
  <2> HIDE DEF t
  <2> QED BY <1>1, <1>2, <2>1 DEF Steady, Unknown
<1>5. TaskOK(t, madeFor', account', index')
  BY <1>0, <1>4, TaskStays
<1>6. TasksOK' /\ tasks' \in [TaskIds -> TaskState]
  <2>1. CASE t.local = NoThread
    <3>1. Adopted(i, t)
      BY <2>1 DEF SetIndex
    <3>2. \E r \in TaskState : Become(i, r) /\ TaskOK(r, madeFor', account', index')
      BY <1>0, <1>2, <1>5, <3>1, AdoptedOK DEF Adopting
    <3> QED BY <1>4, <3>2, TaskStep DEF ChatInv
  <2>2. CASE t.local # NoThread
    <3>1. Become(i, a)
      BY <2>2 DEF SetIndex
    <3>2. a \in TaskState /\ SameCall(t, a) /\ a.pc = "removeLocal"
      BY <1>0 DEF TaskState, SameCall, Joining, Reads
    <3>3. TaskOK(a, madeFor', account', index')
      BY <1>2, <1>5, <2>2, <3>2, AdoptingGoesOn DEF Adopting, Reads
    <3> QED BY <1>4, <3>1, <3>2, <3>3, TaskStep DEF ChatInv
  <2> QED BY <2>1, <2>2
<1>7. PlaceType'
  BY <1>1, <1>3, <1>6 DEF ChatInv, PlaceInv, PlaceType
<1>8. FreshOK' /\ FollowsSwitch'
  BY <1>1, FollowsStays DEF ChatInv, PlaceInv, FreshOK
<1>9. Keeping
  BY <1>1, PanelStays
<1>10. LeaveInv' /\ PanelInv' /\ KeptInv'
  BY <1>1, <1>4, <1>9, LeaveStays, KeepingIs DEF Keeping
<1> QED BY <1>3, <1>6, <1>7, <1>8, <1>9, <1>10 DEF ChatInv, PlaceInv, Keeping, StaysStored

\* The local thread, once the account's holds what it held
LEMMA RemoveLocalKeeps ==
  ASSUME ChatPanelAssumption, ChatInv, NEW i \in TaskIds, RemoveLocal(i)
  PROVE  ChatInv' /\ StaysStored
<1> DEFINE t == tasks[i]
<1>0. /\ t \in TaskState /\ TaskOK(t, madeFor, account, index) /\ panel \in PanelState
      /\ files \in [Threads -> SUBSET Items] /\ trampled \in SUBSET Items
  BY CallsOK DEF ChatInv, PlaceInv, PlaceType
<1>1. /\ UNCHANGED <<current, effect, session, index, madeFor, account, panel, leave, typed, home, replaced>>
      /\ files' = [files EXCEPT ![t.local] = {}]
      /\ trampled' = trampled \cup (files[t.local] \ files[t.remote])
      /\ Adopted(i, t)
  BY DEF RemoveLocal, indexVars
<1>2. /\ t.pc = "removeLocal" /\ t.remote \in Threads /\ t.local \in Threads
      /\ t.remote # t.local
  BY <1>0 DEF RemoveLocal, At, TaskOK, TaskState, Adopting, Reads
<1>3. TasksOK' /\ tasks' \in [TaskIds -> TaskState]
  <2>1. \E r \in TaskState : Become(i, r) /\ TaskOK(r, madeFor, account, index)
    BY <1>0, <1>1, <1>2, AdoptedOK DEF Adopting, Reads
  <2> QED BY <1>1, <2>1, SteadyIs, TaskStep DEF ChatInv
<1> HIDE DEF t
<1>4. files' \in [Threads -> SUBSET Items] /\ trampled' \in SUBSET Items
  BY <1>0, <1>1, <1>2
<1>5. \A c \in Threads : c # t.local => files'[c] = files[c]
  BY <1>0, <1>1
<1>6. files'[t.local] = {}
  BY <1>0, <1>1, <1>2
<1>7. \A c \in Threads : files[c] \subseteq Safe' /\ account[c].items \subseteq Safe'
  <2>1. /\ \A c \in Threads : files'[c] \subseteq Safe' /\ account[c].items \subseteq Safe'
        /\ trampled' \subseteq Safe'
    BY <1>1 DEF Safe, Excused
  <2>2. files[t.local] \subseteq files'[t.remote] \cup trampled'
    BY <1>1, <1>2, <1>5
  <2> QED BY <1>2, <1>5, <2>1, <2>2
<1>8. \A c \in Threads : \A m \in files'[c] : m \in files[c]
  BY <1>5, <1>6
<1>9. Keeping
  BY <1>0, <1>1, <1>7, <1>8, OutsideStep
<1> QED BY <1>0, <1>1, <1>3, <1>4, <1>9, FilesStep

\* repointThread, after the wait for the read of the thread that is open
LEMMA RepointThreadKeeps ==
  ASSUME ChatPanelAssumption, ChatInv, NEW i \in TaskIds, RepointThread(i)
  PROVE  ChatInv' /\ StaysStored
<1> DEFINE t == tasks[i]
           a == [t EXCEPT !.pc = "moving", !.wait = panel.seq + 1]
           r == repoint(panel, t.remote)
<1>0. /\ t \in TaskState /\ TaskOK(t, madeFor, account, index) /\ panel \in PanelState
      /\ PanelOK(panel, files, Safe, Excused)
  BY CallsOK
<1>1. UNCHANGED <<current, effect, session, index, madeFor, files, account, leave, typed, home, trampled>>
  BY DEF RepointThread, indexVars
<1>2. /\ t.pc = "repoint" /\ t.remote \in Threads /\ madeFor[t.remote] = t.ws
      /\ t.thread \in Threads /\ madeFor[t.thread] = t.ws /\ t.remote # t.thread
      /\ t.after # "signIn"
  BY <1>0 DEF RepointThread, At, TaskOK, TaskState, Adopting, Opening
<1>3. CASE End(i) /\ UNCHANGED <<panel, replaced>>
  BY <1>1, <1>3, NoTaskOK, CallStep DEF End, pastVars
<1>4. CASE /\ panel.thread = t.thread /\ panel' = r /\ Become(i, a)
           /\ replaced' = IF t.thread \in replaced THEN replaced \cup {t.remote} ELSE replaced
  <2>1. panel.thread # NoThread
    BY <1>2, <1>4 DEF ChatPanelAssumption
  <2>2. /\ r \in PanelState /\ r.thread = t.remote /\ r.givenUp = panel.givenUp
        /\ r.adrift = panel.adrift
    BY <1>0, <1>2, <2>1, RepointIs
  <2>3. PanelOK(r, files, Safe, Excused) /\ Retains(panel, r, Safe)
    BY <1>0, <1>2, <1>4, <2>1, RepointKeeps
  <2> HIDE DEF r
  <2>4. panel.seq + 1 \in Nat
    BY <1>0 DEF PanelState
  <2>5. a \in TaskState /\ SameCall(t, a) /\ a.pc = "moving"
    BY <1>0, <2>4 DEF TaskState, SameCall, Opening
  <2> HIDE DEF a
  <2>6. TaskOK(a, madeFor, account, index)
    BY <1>0, <1>2, <2>5 DEF TaskOK, SameCall, Opening, Joining, Adopting, Reads
  <2>7. TasksOK' /\ tasks' \in [TaskIds -> TaskState]
    BY <1>1, <1>4, <2>5, <2>6, SteadyIs, TaskStep DEF ChatInv
  <2>8. FollowsSwitch'
    <3>1. ~effect.crossed /\ t.thread \notin replaced =>
            madeFor[t.thread] \in {current}
                                \cup IF effect.due = 0 THEN {} ELSE {effect.openedFor}
      BY <1>4, <2>1 DEF ChatInv, FollowsSwitch
    <3> QED BY <1>1, <1>2, <1>4, <2>2, <3>1 DEF FollowsSwitch
  <2> QED BY <1>1, <1>4, <2>2, <2>3, <2>7, <2>8, PanelStep
<1> QED BY <1>3, <1>4 DEF RepointThread

-----------------------------------------------------------------------------
\* Pushing, and what a deleted thread leaves

\* A push: what the account has of a thread grows
LEMMA AccountGrows ==
  ASSUME ChatPanelAssumption, ChatInv, UNCHANGED <<madeFor, index, files, panel, trampled>>,
         account' \in [Threads -> [state : {None, "live", "deleted"}, items : SUBSET Items]],
         \A t \in Threads :
           \/ account'[t] = account[t]
           \/ /\ t \in Indexed /\ account[t] # Closed /\ account[t].state # "deleted"
              /\ account'[t].state = "live" /\ account[t].items \subseteq account'[t].items
  PROVE  Steady /\ Keeping /\ IndexOK' /\ FreshOK'
<1>1. \A t \in Threads : t \in Indexed => madeFor[t] # None /\ ~Unknown(t, account, index)
  <2> SUFFICES ASSUME NEW t \in Threads, t \in Indexed
               PROVE  madeFor[t] # None /\ ~Unknown(t, account, index)
    OBVIOUS
  <2>1. PICK w \in Workspaces : index[w] = t
    BY DEF Indexed
  <2>2. madeFor[t] = w
    BY <2>1 DEF ChatInv, PlaceInv, IndexOK, ChatPanelAssumption
  <2> QED BY <2>1, <2>2 DEF Unknown, ChatPanelAssumption, None
<1>2. Steady
  <2> SUFFICES ASSUME NEW t \in Threads
               PROVE  /\ account[t].state # None => account'[t].state # None
                      /\ account[t].state = "deleted" => account'[t].state = "deleted"
                      /\ \/ account'[t] = Closed
                         \/ account[t] # Closed /\ account[t].items \subseteq account'[t].items
                      /\ Unknown(t, account, index) => Unknown(t, account', index')
    BY DEF Steady
  <2>1. CASE account'[t] = account[t]
    BY <2>1 DEF Unknown
  <2>2. CASE /\ t \in Indexed /\ account[t] # Closed /\ account[t].state # "deleted"
             /\ account'[t].state = "live" /\ account[t].items \subseteq account'[t].items
    BY <1>1, <2>2 DEF None
  <2> QED BY <2>1, <2>2
<1>3. \A t \in Threads : files[t] \subseteq Safe' /\ account[t].items \subseteq Safe'
  BY DEF Safe
<1>4. Keeping
  <2>1. panel' \in PanelState
    BY DEF ChatInv, PlaceInv, PlaceType
  <2> QED BY <1>3, <2>1, OutsideStep
<1>5. IndexOK' /\ FreshOK'
  BY <1>1 DEF ChatInv, PlaceInv, IndexOK, FreshOK
<1> QED BY <1>2, <1>4, <1>5

LEMMA AccountStep ==
  ASSUME ChatPanelAssumption, ChatInv, Steady, Keeping, IndexOK', FreshOK',
         NEW i \in TaskIds, NEW t \in TaskState, Become(i, t), TaskOK(t, madeFor', account', index'),
         account' \in [Threads -> [state : {None, "live", "deleted"}, items : SUBSET Items]],
         UNCHANGED <<current, effect, session, index, madeFor, files, panel, leave, pastVars>>
  PROVE  ChatInv' /\ StaysStored
<1>0. UNCHANGED <<typed, home, trampled, replaced>>
  BY DEF pastVars
<1>1. TasksOK' /\ tasks' \in [TaskIds -> TaskState]
  BY TaskStep DEF ChatInv
<1>2. PlaceType'
  BY <1>0, <1>1 DEF ChatInv, PlaceInv, PlaceType
<1>3. FollowsSwitch'
  BY <1>0, FollowsStays
<1>4. LeaveInv' /\ PanelInv' /\ KeptInv'
  BY <1>0, LeaveStays, KeepingIs DEF Keeping
<1> QED BY <1>1, <1>2, <1>3, <1>4 DEF ChatInv, PlaceInv, Keeping, StaysStored

\* push, and replaceDeleted up to its first wait
LEMMA PushThreadKeeps ==
  ASSUME ChatPanelAssumption, ChatInv, NEW i \in TaskIds, PushThread(i)
  PROVE  ChatInv' /\ StaysStored
<1> DEFINE t == tasks[i].thread
<1>0. /\ tasks[i] \in TaskState /\ TaskOK(tasks[i], madeFor, account, index)
      /\ panel \in PanelState /\ PanelOK(panel, files, Safe, Excused)
      /\ files \in [Threads -> SUBSET Items]
      /\ account \in [Threads -> [state : {None, "live", "deleted"}, items : SUBSET Items]]
  BY CallsOK
<1>1. UNCHANGED <<current, effect, session, index, madeFor, files, leave, pastVars>>
  BY DEF PushThread, indexVars
<1>10. UNCHANGED <<typed, home, trampled, replaced>>
  BY <1>1 DEF pastVars
<1>2. t \in Threads
  BY <1>0 DEF PushThread, At, TaskOK
<1>3. CASE End(i) /\ UNCHANGED <<account, panel>>
  BY <1>1, <1>3, NoTaskOK, CallStep DEF End
<1>4. CASE /\ WorkspaceOf(t) # {} /\ account[t].state # "deleted" /\ Stored(t)
           /\ End(i) /\ UNCHANGED panel
  <2>1. t \in Indexed /\ account[t] # Closed
    BY <1>2, <1>4 DEF WorkspaceOf, Indexed, Closed, ChatPanelAssumption
  <2> HIDE DEF t
  <2>2. account' = [account EXCEPT ![t] = [state |-> "live", items |-> account[t].items \cup files[t]]]
    BY <1>4 DEF Stored
  <2>3. account[t].items \cup files[t] \in SUBSET Items
    BY <1>0, <1>2
  <2>4. account' \in [Threads -> [state : {None, "live", "deleted"}, items : SUBSET Items]]
    BY <1>0, <1>2, <2>2, <2>3
  <2>5. \A c \in Threads :
          \/ account'[c] = account[c]
          \/ /\ c \in Indexed /\ account[c] # Closed /\ account[c].state # "deleted"
             /\ account'[c].state = "live" /\ account[c].items \subseteq account'[c].items
    BY <1>0, <1>2, <1>4, <2>1, <2>2
  <2>6. Steady /\ Keeping /\ IndexOK' /\ FreshOK'
    BY <1>1, <1>10, <1>4, <2>4, <2>5, AccountGrows
  <2> QED BY <1>1, <1>4, <2>4, <2>6, NoTaskOK, AccountStep DEF End
<1>5. ASSUME NEW w \in Workspaces, NEW after \in {"replace", None},
             panel' = closeThread(panel) \/ panel' = panel, UNCHANGED account,
             Become(i, [NoTask EXCEPT !.pc = "forgetFile", !.ws = w,
                                      !.behind = Len(panel.queue), !.after = after])
      PROVE  ChatInv' /\ StaysStored
  <2> DEFINE a == [NoTask EXCEPT !.pc = "forgetFile", !.ws = w,
                                 !.behind = Len(panel.queue), !.after = after]
  <2>1. Len(panel.queue) \in Nat
    <3>1. panel.queue \in Seq(StepState)
      BY <1>0 DEF PanelState
    <3> QED BY <3>1
  <2>2. /\ a \in TaskState /\ a.pc = "forgetFile" /\ a.local = NoThread /\ a.remote = NoThread
        /\ a.after = after
    BY <2>1, NoTaskOK DEF NoTask, TaskState
  <2>3. Become(i, a)
    BY <1>5
  <2> HIDE DEF a
  <2>4. TaskOK(a, madeFor, account, index)
    BY <2>2 DEF TaskOK, Opening, Joining, Adopting, Reads, None
  <2>5. TasksOK' /\ tasks' \in [TaskIds -> TaskState]
    BY <1>1, <1>5, <2>2, <2>3, <2>4, SteadyIs, TaskStep DEF ChatInv
  <2>6. /\ panel' \in PanelState /\ PanelOK(panel', files, Safe, Excused)
        /\ Retains(panel, panel', Safe)
        /\ panel'.thread = panel.thread \/ panel'.thread = NoThread
        /\ panel.givenUp \subseteq panel'.givenUp /\ panel.adrift \subseteq panel'.adrift
    <3>1. CASE panel' = closeThread(panel)
      BY <1>0, <3>1, CloseThreadKeeps
    <3>2. CASE panel' = panel
      BY <1>0, <3>2 DEF Retains
    <3> QED BY <1>5, <3>1, <3>2
  <2>7. FollowsSwitch'
    BY <1>1, <1>10, <2>6, FollowsStays
  <2> QED BY <1>1, <1>10, <1>5, <2>5, <2>6, <2>7, PanelStep
<1>6. CASE /\ UNCHANGED account
           /\ \E w \in WorkspaceOf(t) :
                LET showing == panel.thread = t /\ current = w IN
                /\ panel' = IF showing THEN closeThread(panel) ELSE panel
                /\ Become(i, [NoTask EXCEPT !.pc = "forgetFile", !.ws = w,
                                       !.behind = Len(panel.queue),
                                       !.after = IF showing THEN "replace" ELSE None])
  <2>1. \A w \in WorkspaceOf(t) : w \in Workspaces
    BY DEF WorkspaceOf
  <2> QED BY <1>5, <1>6, <2>1
<1> QED BY <1>3, <1>4, <1>6 DEF PushThread

LEMMA ForgottenOK ==
  ASSUME ChatPanelAssumption, NEW i \in TaskIds, tasks[i] \in TaskState,
         NEW mf, NEW acc, NEW ix, TaskOK(tasks[i], mf, acc, ix),
         tasks[i].pc \in {"forgetFile", "forgetEntry"}, Forgotten(i)
  PROVE  \E r \in TaskState : Become(i, r) /\ TaskOK(r, mf, acc, ix)
<1> DEFINE t == tasks[i]
           r == [t EXCEPT !.pc = "index"]
<1>1. CASE t.after = "replace"
  <2>1. Become(i, r)
    BY <1>1 DEF Forgotten
  <2>2. r \in TaskState /\ SameCall(t, r) /\ r.pc = "index"
    BY DEF TaskState, SameCall
  <2> HIDE DEF r
  <2>3. TaskOK(r, mf, acc, ix)
    BY <1>1, <2>2 DEF TaskOK, SameCall, Opening, Joining, Adopting, Reads
  <2> QED BY <2>1, <2>2, <2>3
<1>2. CASE t.after # "replace"
  <2>1. End(i)
    BY <1>2 DEF Forgotten
  <2> QED BY <2>1, NoTaskOK DEF End
<1> QED BY <1>1, <1>2

\* PgThreadIndex.forget: the file
LEMMA ForgetFileKeeps ==
  ASSUME ChatPanelAssumption, ChatInv, NEW i \in TaskIds, ForgetFile(i)
  PROVE  ChatInv' /\ StaysStored
<1> DEFINE t == tasks[i]
           c == index[t.ws]
           a == [t EXCEPT !.pc = "forgetEntry"]
<1>0. /\ t \in TaskState /\ TaskOK(t, madeFor, account, index) /\ t.ws \in Workspaces
      /\ panel \in PanelState /\ files \in [Threads -> SUBSET Items]
      /\ index \in [Workspaces -> Threads \cup {NoThread}] /\ trampled \in SUBSET Items
  BY CallsOK DEF ChatInv, PlaceInv, PlaceType
<1>1. UNCHANGED <<current, effect, session, index, madeFor, account, leave, typed, home, replaced>>
  BY DEF ForgetFile, indexVars
<1>2. t.pc = "forgetFile"
  BY DEF ForgetFile, At
<1>3. CASE Forgotten(i) /\ UNCHANGED <<files, panel, trampled>>
  <2>1. \E r \in TaskState : Become(i, r) /\ TaskOK(r, madeFor, account, index)
    BY <1>0, <1>2, <1>3, ForgottenOK
  <2> QED BY <1>1, <1>3, <2>1, CallStep DEF pastVars
<1>4. CASE /\ c # NoThread
           /\ files' = [files EXCEPT ![c] = {}]
           /\ panel' = IF account[c] = Closed THEN [panel EXCEPT !.givenUp = @ \cup files[c]] ELSE panel
           /\ trampled' = IF account[c] = Closed THEN trampled ELSE trampled \cup files[c]
           /\ Become(i, a)
  <2>0. c \in Threads
    BY <1>0, <1>4
  <2>1. a \in TaskState /\ SameCall(t, a) /\ a.pc = "forgetEntry"
    BY <1>0 DEF TaskState, SameCall
  <2> HIDE DEF a, c
  <2>2. TaskOK(a, madeFor, account, index)
    BY <1>0, <1>2, <2>1 DEF TaskOK, SameCall, Opening, Joining, Adopting, Reads
  <2>3. TasksOK' /\ tasks' \in [TaskIds -> TaskState]
    BY <1>1, <1>4, <2>1, <2>2, SteadyIs, TaskStep DEF ChatInv
  <2>4. files[c] \in SUBSET Items
    BY <1>0, <2>0
  <2>5. /\ panel' \in PanelState
        /\ panel'.thread = panel.thread /\ panel'.items = panel.items /\ panel'.writes = panel.writes
        /\ panel'.seq = panel.seq /\ panel'.queue = panel.queue /\ panel'.loads = panel.loads
        /\ panel.givenUp \subseteq panel'.givenUp /\ panel'.adrift = panel.adrift
        /\ account[c] = Closed => files[c] \subseteq panel'.givenUp
    <3>1. CASE account[c] = Closed
      <4> DEFINE r == [panel EXCEPT !.givenUp = @ \cup files[c]]
      <4>1. panel' = r
        BY <1>4, <3>1
      <4>2. /\ r \in PanelState
            /\ r.thread = panel.thread /\ r.items = panel.items /\ r.writes = panel.writes
            /\ r.seq = panel.seq /\ r.queue = panel.queue /\ r.loads = panel.loads
            /\ r.givenUp = panel.givenUp \cup files[c] /\ r.adrift = panel.adrift
        BY <1>0, <2>4, GiveUpKeeps, ZenonT(60)
      <4> HIDE DEF r
      <4> QED BY <4>1, <4>2
    <3>2. CASE account[c] # Closed
      BY <1>0, <1>4, <3>2
    <3> QED BY <3>1, <3>2
  <2>6. /\ files' \in [Threads -> SUBSET Items] /\ trampled' \in SUBSET Items
        /\ trampled \subseteq trampled'
        /\ account[c] # Closed => files[c] \subseteq trampled'
    BY <1>0, <1>4, <2>0, <2>4
  <2>7. /\ \A d \in Threads : d # c => files'[d] = files[d]
        /\ files'[c] = {}
    BY <1>0, <1>4, <2>0
  <2>8. \A d \in Threads : files[d] \subseteq Safe' /\ account[d].items \subseteq Safe'
    <3>1. /\ \A d \in Threads : files'[d] \subseteq Safe' /\ account[d].items \subseteq Safe'
          /\ trampled' \subseteq Safe' /\ panel'.givenUp \subseteq Safe'
      BY <1>1 DEF Safe, Excused
    <3> QED BY <2>5, <2>6, <2>7, <3>1
  <2>9. \A d \in Threads : \A m \in files'[d] : m \in files[d]
    BY <2>7
  <2>10. Keeping
    BY <2>5, <2>6, <2>8, <2>9, OutsideStep
  <2> QED BY <1>1, <2>3, <2>5, <2>6, <2>10, FilesStep
<1> QED BY <1>3, <1>4 DEF ForgetFile

\* ... and the entry of the index
LEMMA ForgetEntryKeeps ==
  ASSUME ChatPanelAssumption, ChatInv, NEW i \in TaskIds, ForgetEntry(i)
  PROVE  ChatInv' /\ StaysStored
<1> DEFINE t == tasks[i]
<1>0. /\ t \in TaskState /\ TaskOK(t, madeFor, account, index) /\ t.ws \in Workspaces
      /\ index \in [Workspaces -> Threads \cup {NoThread}]
  BY CallsOK
<1>1. /\ UNCHANGED <<current, effect, session, madeFor, files, account, panel, leave, pastVars>>
      /\ UNCHANGED <<typed, home, trampled, replaced>>
      /\ index' = [index EXCEPT ![t.ws] = NoThread]
      /\ t.pc = "forgetEntry" /\ Forgotten(i)
  BY DEF ForgetEntry, pastVars, At
<1>2. /\ index' \in [Workspaces -> Threads \cup {NoThread}]
      /\ \A w \in Workspaces : index'[w] = index[w] \/ index'[w] = NoThread
  BY <1>0, <1>1
<1>3. IndexOK' /\ FreshOK'
  BY <1>1, <1>2 DEF ChatInv, PlaceInv, IndexOK, FreshOK
<1>4. Steady
  <2>1. NoThread \notin Threads
    BY DEF ChatPanelAssumption
  <2> QED BY <1>1, <1>2, <2>1 DEF Steady, Unknown
<1>5. TasksOK' /\ tasks' \in [TaskIds -> TaskState]
  <2>1. TaskOK(t, madeFor', account', index')
    BY <1>0, <1>4, TaskStays
  <2>2. \E r \in TaskState : Become(i, r) /\ TaskOK(r, madeFor', account', index')
    BY <1>0, <1>1, <2>1, ForgottenOK
  <2> QED BY <1>4, <2>2, TaskStep DEF ChatInv
<1>6. PlaceType'
  BY <1>1, <1>2, <1>5 DEF ChatInv, PlaceInv, PlaceType
<1>7. FollowsSwitch'
  BY <1>1, FollowsStays
<1>8. Keeping
  BY <1>1, PanelStays
<1>9. LeaveInv' /\ PanelInv' /\ KeptInv'
  BY <1>1, <1>4, <1>8, LeaveStays, KeepingIs DEF Keeping
<1> QED BY <1>3, <1>5, <1>6, <1>7, <1>8, <1>9 DEF ChatInv, PlaceInv, Keeping, StaysStored

\* Another device starts the tutorial again
LEMMA DeletedElsewhereKeeps ==
  ASSUME ChatPanelAssumption, ChatInv, NEW t \in Threads, DeletedElsewhere(t)
  PROVE  ChatInv' /\ StaysStored
<1> DEFINE live == [state |-> "live", items |-> Theirs]
<1>0. /\ account \in [Threads -> [state : {None, "live", "deleted"}, items : SUBSET Items]]
      /\ madeFor \in [Threads -> Workspaces \cup {None}] /\ panel \in PanelState
      /\ None \notin Workspaces
      /\ index \in [Workspaces -> Threads \cup {NoThread}]
  BY DEF ChatInv, PlaceInv, PlaceType, ChatPanelAssumption, None
<1>1. /\ UNCHANGED <<current, effect, session, index, files, tasks, leave, pastVars>>
      /\ UNCHANGED <<typed, home, trampled, replaced>>
      /\ account[t].state = "live"
      /\ panel' = [panel EXCEPT !.givenUp = @ \cup account[t].items]
  BY DEF DeletedElsewhere, pastVars
<1>2. madeFor[t] # None
  BY <1>1 DEF ChatInv, PlaceInv, FreshOK, Gone, None
<1>3. /\ Closed \in [state : {None, "live", "deleted"}, items : SUBSET Items]
      /\ live \in [state : {None, "live", "deleted"}, items : SUBSET Items]
      /\ Closed.state = "deleted" /\ live.state = "live" /\ Gone.state = None /\ Gone.items = {}
      /\ Gone # Closed
  BY DEF Closed, Gone, Items, None
<1> DEFINE Closes ==
      /\ account' \in [Threads -> [state : {None, "live", "deleted"}, items : SUBSET Items]]
      /\ madeFor' \in [Threads -> Workspaces \cup {None}]
      /\ account'[t] = Closed /\ madeFor'[t] = madeFor[t]
      /\ \A d \in Threads \ {t} :
           \/ account'[d] = account[d] /\ madeFor'[d] = madeFor[d]
           \/ /\ madeFor[d] = None /\ account[d] = Gone
              /\ account'[d] = live /\ madeFor'[d] = madeFor[t]
<1>4. Closes
  <2>1. CASE account' = [account EXCEPT ![t] = Closed] /\ UNCHANGED madeFor
    BY <1>0, <1>3, <2>1
  <2>2. ASSUME NEW c \in Threads, madeFor[c] = None,
               madeFor' = [madeFor EXCEPT ![c] = madeFor[t]],
               account' = [account EXCEPT ![t] = Closed, ![c] = live]
        PROVE  Closes
    <3>1. c # t /\ account[c] = Gone
      BY <1>2, <2>2 DEF ChatInv, PlaceInv, FreshOK
    <3> HIDE DEF live
    <3>2. /\ account' \in [Threads -> [state : {None, "live", "deleted"}, items : SUBSET Items]]
          /\ account'[t] = Closed /\ account'[c] = live
          /\ \A d \in Threads \ {t, c} : account'[d] = account[d]
      <4> DEFINE R == [state : {None, "live", "deleted"}, items : SUBSET Items]
                 one == [account EXCEPT ![t] = Closed]
      <4>1. account' = [one EXCEPT ![c] = live]
        BY <2>2
      <4>2. account \in [Threads -> R] /\ Closed \in R /\ live \in R
        BY <1>0, <1>3
      <4> HIDE DEF R
      <4>3. /\ one \in [Threads -> R] /\ one[t] = Closed
            /\ \A d \in Threads \ {t} : one[d] = account[d]
        BY <4>2
      <4> HIDE DEF one
      <4>4. /\ account' \in [Threads -> R] /\ account'[t] = Closed /\ account'[c] = live
            /\ \A d \in Threads \ {t, c} : account'[d] = account[d]
        BY <3>1, <4>1, <4>2, <4>3
      <4> QED BY <4>4 DEF R
    <3>3. /\ madeFor' \in [Threads -> Workspaces \cup {None}] /\ madeFor'[c] = madeFor[t]
          /\ \A d \in Threads \ {c} : madeFor'[d] = madeFor[d]
      BY <1>0, <2>2
    <3> QED BY <2>2, <3>1, <3>2, <3>3
  <2> QED BY <2>1, <2>2 DEF DeletedElsewhere
<1> HIDE DEF live
<1>5. Steady
  <2>1. ASSUME NEW d \in Threads, madeFor[d] # None
        PROVE  /\ madeFor'[d] = madeFor[d]
               /\ d # t => account'[d] = account[d]
    BY <1>4, <2>1
  <2>2. \A d \in Threads : account[d].state # None => account'[d].state # None
    BY <1>3, <1>4 DEF None
  <2>3. \A d \in Threads : account[d].state = "deleted" => account'[d].state = "deleted"
    BY <1>1, <1>3, <1>4 DEF None
  <2>4. \A d \in Threads : \/ account'[d] = Closed
                           \/ account[d] # Closed /\ account[d].items \subseteq account'[d].items
    BY <1>3, <1>4
  <2>5. \A d \in Threads : madeFor[d] # None /\ Unknown(d, account, index) => Unknown(d, account', index')
    BY <1>1, <2>1 DEF Unknown, None
  <2> QED BY <2>1, <2>2, <2>3, <2>4, <2>5 DEF Steady
<1>6. FreshOK' /\ IndexOK'
  <2>1. FreshOK'
    BY <1>2, <1>3, <1>4 DEF ChatInv, PlaceInv, FreshOK
  <2>2. \A d \in Threads : madeFor[d] # None => madeFor'[d] = madeFor[d]
    BY <1>5 DEF Steady
  <2>3. IndexOK'
    BY <1>0, <1>1, <2>2 DEF ChatInv, PlaceInv, IndexOK
  <2> QED BY <2>1, <2>3
<1>7. TasksOK' /\ tasks' \in [TaskIds -> TaskState]
  BY <1>1, <1>5, TasksStay DEF ChatInv
<1>8. /\ panel' \in PanelState
      /\ panel'.thread = panel.thread /\ panel'.items = panel.items /\ panel'.writes = panel.writes
      /\ panel'.seq = panel.seq /\ panel'.queue = panel.queue /\ panel'.loads = panel.loads
      /\ panel'.givenUp = panel.givenUp \cup account[t].items /\ panel'.adrift = panel.adrift
  <2>1. account[t].items \in SUBSET Items
    BY <1>0
  <2> QED BY <1>0, <1>1, <2>1, GiveUpKeeps
<1>9. \A d \in Threads : files[d] \subseteq Safe' /\ account[d].items \subseteq Safe'
  <2>1. /\ \A d \in Threads : files[d] \subseteq Safe' /\ account'[d].items \subseteq Safe'
        /\ panel'.givenUp \subseteq Safe'
    BY <1>1 DEF Safe, Excused
  <2>2. \A d \in Threads : d # t => account[d].items \subseteq account'[d].items
    BY <1>3, <1>4
  <2> QED BY <1>8, <2>1, <2>2
<1>10. Keeping
  BY <1>1, <1>8, <1>9, OutsideStep
<1>11. PlaceType'
  BY <1>1, <1>4, <1>7, <1>8 DEF ChatInv, PlaceInv, PlaceType
<1>12. FollowsSwitch'
  <2>1. /\ panel.thread \in Threads \cup {NoThread} /\ current \in Workspaces
        /\ effect.openedFor \in Workspaces
    BY <1>0 DEF PanelState, ChatInv, PlaceInv, PlaceType
  <2>2. \A d \in Threads : madeFor[d] # None => madeFor'[d] = madeFor[d]
    BY <1>5 DEF Steady
  <2> QED BY <1>0, <1>1, <1>8, <2>1, <2>2 DEF ChatInv, FollowsSwitch
<1>13. LeaveInv' /\ PanelInv' /\ KeptInv'
  BY <1>1, <1>5, <1>10, LeaveStays, KeepingIs DEF Keeping
<1> QED BY <1>6, <1>7, <1>10, <1>11, <1>12, <1>13 DEF ChatInv, PlaceInv, Keeping, StaysStored

-----------------------------------------------------------------------------
\* Signing in and out

LEMMA PushedIs ==
  ASSUME ChatPanelAssumption, ChatInv, NEW refused, Pushed(refused)
  PROVE  /\ account' \in [Threads -> [state : {None, "live", "deleted"}, items : SUBSET Items]]
         /\ \A t \in Threads :
              \/ account'[t] = account[t]
              \/ /\ t \in Indexed /\ account[t] # Closed /\ account[t].state # "deleted"
                 /\ account'[t].state = "live" /\ account[t].items \subseteq account'[t].items
         /\ \A t \in Threads : Takes(t) /\ t \notin refused => files[t] \subseteq account'[t].items
         /\ \A t \in Threads : ~Takes(t) => account'[t] = account[t]
<1>0. /\ account \in [Threads -> [state : {None, "live", "deleted"}, items : SUBSET Items]]
      /\ files \in [Threads -> SUBSET Items]
  BY DEF ChatInv, PlaceInv, PlaceType
<1> DEFINE row(t) == [state |-> "live", items |-> account[t].items \cup files[t]]
<1>1. /\ DOMAIN account' = Threads
      /\ \A t \in Threads : account'[t] = IF Takes(t) /\ t \notin refused THEN row(t) ELSE account[t]
      /\ account' = [t \in Threads |-> account'[t]]
  BY DEF Pushed
<1>2. \A t \in Threads : /\ row(t) \in [state : {None, "live", "deleted"}, items : SUBSET Items]
                         /\ row(t).state = "live" /\ row(t).items = account[t].items \cup files[t]
  BY <1>0
<1> HIDE DEF row
<1>3. account' \in [Threads -> [state : {None, "live", "deleted"}, items : SUBSET Items]]
  BY <1>0, <1>1, <1>2
<1>4. \A t \in Threads : account[t] # Closed => account[t].state # "deleted"
  BY DEF ChatInv, PlaceInv, FreshOK
<1> QED BY <1>1, <1>2, <1>3, <1>4 DEF Takes

LEMMA DumpKeeps ==
  ASSUME ChatPanelAssumption, ChatInv, NEW i \in TaskIds, Dump(i)
  PROVE  ChatInv' /\ StaysStored
<1>1. /\ UNCHANGED <<current, effect, session, index, madeFor, files, panel, leave, pastVars>>
      /\ UNCHANGED <<typed, home, trampled, replaced>>
      /\ Become(i, [NoTask EXCEPT !.pc = "reopen"])
  BY DEF Dump, indexVars, pastVars
<1>2. (\E refused : Pushed(refused)) \/ UNCHANGED account
  BY DEF Dump
<1>3. /\ account' \in [Threads -> [state : {None, "live", "deleted"}, items : SUBSET Items]]
      /\ Steady /\ Keeping /\ IndexOK' /\ FreshOK'
  <2>1. ASSUME NEW refused, Pushed(refused)
        PROVE  /\ account' \in [Threads -> [state : {None, "live", "deleted"}, items : SUBSET Items]]
               /\ Steady /\ Keeping /\ IndexOK' /\ FreshOK'
    BY <1>1, <2>1, PushedIs, AccountGrows
  <2>2. CASE UNCHANGED account
    BY <1>1, <2>2, SteadyIs, PanelStays, PlaceStays DEF ChatInv, PlaceInv, PlaceType
  <2> QED BY <1>2, <2>1, <2>2
<1>4. LET r == [NoTask EXCEPT !.pc = "reopen"] IN
      r \in TaskState /\ TaskOK(r, madeFor', account', index')
  BY DumpTaskOK
<1> QED BY <1>1, <1>3, <1>4, AccountStep

\* Steps of a sign-in or of a sign-out that leave the index alone
LEMMA SessionStep ==
  ASSUME ChatPanelAssumption, ChatInv, Keeping, TasksOK', tasks' \in [TaskIds -> TaskState],
         session' \in {"in", "ending", "out"}, leave' \in LeaveState, LeaveInv',
         UNCHANGED <<current, effect, index, madeFor, account, files, typed, home, trampled, replaced>>,
         panel' \in PanelState, panel'.thread = panel.thread \/ panel'.thread = NoThread
  PROVE  ChatInv' /\ StaysStored
<1>1. PlaceType'
  BY DEF ChatInv, PlaceInv, PlaceType
<1>2. IndexOK' /\ FreshOK' /\ FollowsSwitch'
  BY PlaceStays, FollowsStays
<1>3. PanelInv' /\ KeptInv'
  BY KeepingIs
<1> QED BY <1>1, <1>2, <1>3 DEF ChatInv, PlaceInv, Keeping, StaysStored

LEMMA SignInKeeps ==
  ASSUME ChatPanelAssumption, ChatInv, SignIn
  PROVE  ChatInv' /\ StaysStored
<1> DEFINE t == [NoTask EXCEPT !.pc = IF index[Shared] = NoThread THEN "dump" ELSE "list",
                               !.local = index[Shared], !.after = "signIn"]
<1>0. /\ index[Shared] \in Threads \cup {NoThread} /\ panel \in PanelState /\ leave \in LeaveState
      /\ index[Shared] # NoThread => madeFor[index[Shared]] = Shared
  BY DEF ChatInv, PlaceInv, PlaceType, IndexOK, ChatPanelAssumption
<1>1. /\ UNCHANGED <<current, effect, index, madeFor, files, account, panel, leave>>
      /\ UNCHANGED <<typed, home, trampled, replaced>>
      /\ session' = "in" /\ \E i \in TaskIds : Become(i, t)
  BY DEF SignIn, pastVars
<1>2. /\ t \in TaskState /\ t.pc \in {"dump", "list"} /\ t.ws = Shared /\ t.local = index[Shared]
      /\ t.remote = NoThread /\ t.after = "signIn"
  BY <1>0, NoTaskOK DEF NoTask, TaskState, Joining, ChatPanelAssumption
<1> HIDE DEF t
<1>3. TaskOK(t, madeFor, account, index)
  BY <1>0, <1>2 DEF TaskOK, Opening, Joining, Adopting, Reads
<1>4. TasksOK' /\ tasks' \in [TaskIds -> TaskState]
  BY <1>1, <1>2, <1>3, SteadyIs, TaskStep DEF ChatInv
<1>5. Keeping
  BY <1>1, PanelStays
<1>6. LeaveInv'
  BY <1>1, <1>5, SteadyIs, LeaveStays DEF Keeping
<1> QED BY <1>0, <1>1, <1>4, <1>5, <1>6, SessionStep

\* A sign-out: pushAll hashes what it pushes
LEMMA SignOutKeeps ==
  ASSUME ChatPanelAssumption, ChatInv, SignOut
  PROVE  ChatInv' /\ StaysStored
<1>0. /\ panel \in PanelState /\ leave \in LeaveState /\ files \in [Threads -> SUBSET Items]
      /\ session \in {"in", "ending", "out"}
  BY DEF ChatInv, PlaceInv, PlaceType
<1>1. /\ UNCHANGED <<current, effect, session, index, madeFor, files, account, panel, tasks>>
      /\ UNCHANGED <<typed, home, trampled, replaced>>
      /\ leave' = [leave EXCEPT !.pc = "pushAll", !.hash = files]
  BY DEF SignOut, pastVars, indexVars
<1>2. leave' \in LeaveState /\ leave'.pc = "pushAll" /\ leave'.hash = files
  BY <1>0, <1>1 DEF LeaveState
<1>3. LeaveInv'
  BY <1>0, <1>2 DEF LeaveInv
<1>4. Keeping
  BY <1>1, PanelStays
<1>5. TasksOK' /\ tasks' \in [TaskIds -> TaskState]
  BY <1>1, SteadyIs, TasksStay DEF ChatInv
<1> QED BY <1>0, <1>1, <1>2, <1>3, <1>4, <1>5, SessionStep

LEMMA HandOverKeeps ==
  ASSUME ChatPanelAssumption, ChatInv, HandOver
  PROVE  ChatInv' /\ StaysStored
<1>0. /\ panel \in PanelState /\ leave \in LeaveState /\ files \in [Threads -> SUBSET Items]
      /\ index \in [Workspaces -> Threads \cup {NoThread}] /\ trampled \in SUBSET Items
      /\ leave.hash \in [Threads -> SUBSET Items]
  BY DEF ChatInv, PlaceInv, PlaceType, HandOver, LeaveInv
<1>1. /\ UNCHANGED <<current, effect, session, index, madeFor, files, panel, tasks, typed, home, replaced>>
      /\ trampled' = trampled \cup UNION {leave.hash[t] \ files[t] : t \in Threads}
  BY DEF HandOver, indexVars
<1>2. PICK refused : /\ Pushed(refused)
                     /\ leave' \in LeaveState /\ leave'.pc = "request" /\ leave'.hash = leave.hash
                     /\ leave'.handed \subseteq {t \in Local \ refused : HandedOver(t)}
  <2>0. Local \in SUBSET Threads
    BY <1>0 DEF Local, Indexed
  <2>1. CASE /\ Pushed({})
             /\ leave' = [leave EXCEPT !.pc = "request", !.handed = {t \in Local : HandedOver(t)},
                                       !.all = \A t \in Local : HandedOver(t)]
    <3>1. {t \in Local : HandedOver(t)} \in SUBSET Threads
      BY <2>0
    <3>2. /\ leave' \in LeaveState /\ leave'.pc = "request" /\ leave'.hash = leave.hash
          /\ leave'.handed = {t \in Local : HandedOver(t)}
      BY <1>0, <2>1, <3>1 DEF LeaveState
    <3>3. leave'.handed \subseteq {t \in Local \ {} : HandedOver(t)}
      BY <3>2
    <3> QED BY <2>1, <3>2, <3>3
  <2>2. ASSUME NEW t \in Local, Pushed({t}),
               leave' = [leave EXCEPT !.pc = "request",
                                      !.handed = {c \in Local \ {t} : HandedOver(c)}]
        PROVE  \E refused : /\ Pushed(refused)
                     /\ leave' \in LeaveState /\ leave'.pc = "request" /\ leave'.hash = leave.hash
                     /\ leave'.handed \subseteq {c \in Local \ refused : HandedOver(c)}
    <3>1. {c \in Local \ {t} : HandedOver(c)} \in SUBSET Threads
      BY <2>0
    <3>2. /\ leave' \in LeaveState /\ leave'.pc = "request" /\ leave'.hash = leave.hash
          /\ leave'.handed = {c \in Local \ {t} : HandedOver(c)}
      BY <1>0, <2>2, <3>1 DEF LeaveState
    <3> QED BY <2>2, <3>2
  <2> QED BY <2>1, <2>2 DEF HandOver
<1>3. /\ account' \in [Threads -> [state : {None, "live", "deleted"}, items : SUBSET Items]]
      /\ \A t \in Threads :
           \/ account'[t] = account[t]
           \/ /\ t \in Indexed /\ account[t] # Closed /\ account[t].state # "deleted"
              /\ account'[t].state = "live" /\ account[t].items \subseteq account'[t].items
      /\ \A t \in Threads : Takes(t) /\ t \notin refused => files[t] \subseteq account'[t].items
      /\ \A t \in Threads : ~Takes(t) => account'[t] = account[t]
  BY <1>2, PushedIs
<1>4. trampled' \in SUBSET Items /\ \A t \in Threads : leave.hash[t] \ files[t] \subseteq Excused'
  BY <1>0, <1>1 DEF Excused
<1>5. Steady
  <2>1. \A t \in Threads : t \in Indexed => madeFor[t] # None /\ ~Unknown(t, account, index)
    BY <1>0 DEF ChatInv, PlaceInv, IndexOK, Indexed, Unknown, ChatPanelAssumption, None
  <2> SUFFICES ASSUME NEW t \in Threads
               PROVE  /\ account[t].state # None => account'[t].state # None
                      /\ account[t].state = "deleted" => account'[t].state = "deleted"
                      /\ \/ account'[t] = Closed
                         \/ account[t] # Closed /\ account[t].items \subseteq account'[t].items
                      /\ Unknown(t, account, index) => Unknown(t, account', index')
    BY <1>1 DEF Steady
  <2>2. CASE account'[t] = account[t]
    BY <1>1, <2>2 DEF Unknown
  <2>3. CASE /\ t \in Indexed /\ account[t] # Closed /\ account[t].state # "deleted"
             /\ account'[t].state = "live" /\ account[t].items \subseteq account'[t].items
    BY <2>1, <2>3 DEF None
  <2> QED BY <1>3, <2>2, <2>3
<1>6. IndexOK' /\ FreshOK'
  <2>1. \A t \in Threads : t \in Indexed => madeFor[t] # None
    BY <1>0 DEF ChatInv, PlaceInv, IndexOK, Indexed, ChatPanelAssumption, None
  <2>2. IndexOK'
    BY <1>1 DEF ChatInv, PlaceInv, IndexOK
  <2> QED BY <1>1, <1>3, <2>1, <2>2 DEF ChatInv, PlaceInv, FreshOK
<1>7. Keeping
  <2>1. \A t \in Threads : files[t] \subseteq Safe' /\ account'[t].items \subseteq Safe'
    BY <1>1 DEF Safe
  <2>2. \A t \in Threads : account[t].items \subseteq account'[t].items
    BY <1>3
  <2>3. \A t \in Threads : files[t] \subseteq Safe' /\ account[t].items \subseteq Safe'
    BY <2>1, <2>2
  <2> QED BY <1>0, <1>1, <2>3, OutsideStep
<1>8. ASSUME NEW t \in leave'.handed PROVE Droppable(t, leave'.hash, account', Excused')
  <2>1. t \in Threads /\ t \notin refused /\ HandedOver(t)
    BY <1>0, <1>2 DEF Local, Indexed
  <2>2. leave.hash[t] \subseteq files[t] \cup Excused'
    BY <1>4, <2>1
  <2>3. CASE files[t] = {}
    BY <1>2, <2>2, <2>3 DEF Droppable
  <2>4. CASE files[t] # {} /\ account[t] = Closed
    BY <1>3, <2>1, <2>4 DEF Droppable, Takes
  <2>5. CASE files[t] # {} /\ account[t] # Closed
    <3>1. files[t] \subseteq account'[t].items
      BY <1>3, <2>1, <2>5 DEF HandedOver, Takes
    <3> QED BY <1>2, <2>2, <3>1 DEF Droppable
  <2> QED BY <2>3, <2>4, <2>5
<1>9. LeaveInv'
  BY <1>0, <1>2, <1>8 DEF LeaveInv
<1>10. TasksOK' /\ tasks' \in [TaskIds -> TaskState]
  BY <1>1, <1>5, TasksStay DEF ChatInv
<1>11. PlaceType'
  BY <1>1, <1>2, <1>3, <1>4, <1>10 DEF ChatInv, PlaceInv, PlaceType
<1>12. FollowsSwitch'
  BY <1>1, FollowsStays
<1>13. PanelInv' /\ KeptInv'
  BY <1>1, <1>7, KeepingIs
<1> QED BY <1>6, <1>7, <1>9, <1>10, <1>11, <1>12, <1>13 DEF ChatInv, PlaceInv, Keeping, StaysStored

\* The request, and the teardown when it ended the session
LEMMA TeardownKeeps ==
  ASSUME ChatPanelAssumption, NEW s \in PanelState, NEW f, NEW safe, NEW excused,
         PanelOK(s, f, safe, excused)
  PROVE  LET r == teardown(s) IN
         /\ r \in PanelState /\ r.thread = NoThread /\ PanelOK(r, f, safe, excused)
         /\ Retains(s, r, safe) /\ s.givenUp \subseteq r.givenUp /\ s.adrift \subseteq r.adrift
<1> DEFINE c == closeThread(s)
           r == [c EXCEPT !.items = {}, !.givenUp = @ \cup c.items]
<1>1. /\ c \in PanelState /\ c.thread = NoThread /\ PanelOK(c, f, safe, excused)
      /\ Retains(s, c, safe) /\ s.givenUp \subseteq c.givenUp /\ s.adrift \subseteq c.adrift
  BY CloseThreadKeeps
<1>2. teardown(s) = r
  BY DEF teardown
<1> HIDE DEF c
<1>3. c.givenUp \cup c.items \in SUBSET Items
  BY <1>1 DEF PanelState
<1>4. /\ r \in PanelState /\ r.thread = NoThread /\ r.items = {} /\ r.writes = c.writes
      /\ r.seq = c.seq /\ r.loads = c.loads /\ r.queue = c.queue
      /\ r.givenUp = c.givenUp \cup c.items /\ r.adrift = c.adrift
  BY <1>1, <1>3 DEF PanelState
<1> HIDE DEF r
<1>5. \A l \in c.loads : l.seq # c.seq
  <2>1. \A l \in c.loads : l.thread # NoThread
    <3>1. \A l \in c.loads : l \in LoadState
      BY <1>1 DEF PanelState
    <3> QED BY <3>1 DEF LoadState, ChatPanelAssumption
  <2> QED BY <1>1, <2>1 DEF PanelOK, PanelReady, LoadsOK
<1>6. PanelOK(r, f, safe, excused)
  <2>1. LoadsOK(r)
    BY <1>1, <1>4, <1>5 DEF PanelOK, PanelReady, LoadsOK
  <2>2. QueueOK(r.queue, f, excused)
    BY <1>1, <1>4 DEF PanelOK, PanelReady
  <2> QED BY <1>4, <1>5, <2>1, <2>2 DEF PanelOK, PanelReady, ShowsAll, Stores, ReadsLast, IsOpen
<1>7. Retains(c, r, safe)
  BY <1>4 DEF Retains, InMem
<1>8. Retains(s, r, safe)
  BY <1>1, <1>4, <1>7, RetainsOn
<1> QED BY <1>1, <1>2, <1>4, <1>6, <1>8

LEMMA StayingOK == Staying \in LeaveState /\ Staying.pc = "no"
BY DEF Staying, LeaveState

LEMMA EndSessionKeeps ==
  ASSUME ChatPanelAssumption, ChatInv, EndSession
  PROVE  ChatInv' /\ StaysStored
<1>0. /\ panel \in PanelState /\ leave \in LeaveState /\ PanelOK(panel, files, Safe, Excused)
      /\ session \in {"in", "ending", "out"}
  BY DEF ChatInv, PlaceInv, PlaceType, PanelInv
<1>1. /\ UNCHANGED <<current, effect, index, madeFor, files, account, tasks>>
      /\ UNCHANGED <<typed, home, trampled, replaced>> /\ leave.pc = "request"
  BY DEF EndSession, pastVars, indexVars
<1>2. TasksOK' /\ tasks' \in [TaskIds -> TaskState]
  BY <1>1, SteadyIs, TasksStay DEF ChatInv
<1>3. CASE leave' = Staying /\ UNCHANGED <<session, panel>>
  <2>1. LeaveInv'
    BY <1>3, StayingOK DEF LeaveInv
  <2>2. Keeping
    BY <1>1, <1>3, PanelStays
  <2> QED BY <1>0, <1>1, <1>2, <1>3, <2>1, <2>2, StayingOK, SessionStep
<1>4. CASE /\ session' = "ending" /\ panel' = teardown(panel)
           /\ leave' = [leave EXCEPT !.pc = "check", !.behind = Len(panel.queue)]
  <2>1. /\ panel' \in PanelState /\ panel'.thread = NoThread /\ PanelOK(panel', files, Safe, Excused)
        /\ Retains(panel, panel', Safe) /\ panel.givenUp \subseteq panel'.givenUp
        /\ panel.adrift \subseteq panel'.adrift
    BY <1>0, <1>4, TeardownKeeps
  <2>2. Keeping
    BY <1>1, <2>1, MemoryStep
  <2>3. Len(panel.queue) \in Nat
    <3>1. panel.queue \in Seq(StepState)
      BY <1>0 DEF PanelState
    <3> QED BY <3>1
  <2>4. /\ leave' \in LeaveState /\ leave'.pc = "check" /\ leave'.hash = leave.hash
        /\ leave'.handed = leave.handed
    BY <1>0, <1>4, <2>3 DEF LeaveState
  <2>5. LeaveInv'
    <3>1. /\ leave.hash \in [Threads -> SUBSET Items]
          /\ \A t \in leave.handed : Droppable(t, leave.hash, account, Excused)
      BY <1>1 DEF ChatInv, LeaveInv
    <3>2. \A t \in leave.handed : Droppable(t, leave.hash, account, Excused')
      BY <2>2, <3>1 DEF Droppable, Keeping
    <3> QED BY <1>1, <2>4, <3>1, <3>2 DEF LeaveInv
  <2> QED BY <1>1, <1>2, <1>4, <2>1, <2>2, <2>4, <2>5, SessionStep
<1> QED BY <1>3, <1>4 DEF EndSession

\* forget of chat-sync.ts: its check
LEMMA CheckUnchangedKeeps ==
  ASSUME ChatPanelAssumption, ChatInv, CheckUnchanged
  PROVE  ChatInv' /\ StaysStored
<1> DEFINE all == /\ leave.all /\ Unchanged = leave.handed
                  /\ \A t \in Threads : files[t] # {} => t \in Unchanged
<1>0. /\ panel \in PanelState /\ leave \in LeaveState /\ files \in [Threads -> SUBSET Items]
      /\ session \in {"in", "ending", "out"}
  BY DEF ChatInv, PlaceInv, PlaceType
<1>1. /\ UNCHANGED <<current, effect, session, index, madeFor, files, account, panel, tasks>>
      /\ UNCHANGED <<typed, home, trampled, replaced>> /\ leave.pc = "check"
      /\ leave' = [leave EXCEPT !.pc = "forget", !.drops = Unchanged, !.hash = files, !.all = all]
  BY DEF CheckUnchanged, pastVars, indexVars
<1>2. Unchanged \in SUBSET Threads /\ all \in BOOLEAN
  BY <1>0 DEF LeaveState, Unchanged
<1>3. all => \A t \in Threads : files[t] # {} => t \in Unchanged
  OBVIOUS
<1> HIDE DEF all
<1>4. /\ leave' \in LeaveState /\ leave'.pc = "forget" /\ leave'.hash = files
      /\ leave'.drops = Unchanged /\ leave'.all = all
  BY <1>0, <1>1, <1>2 DEF LeaveState
<1>5. \A t \in Unchanged : Droppable(t, files, account, Excused)
  BY <1>1 DEF Unchanged, ChatInv, LeaveInv, Droppable
<1>6. \A t \in Threads : files[t] = {} => Droppable(t, files, account, Excused)
  BY DEF Droppable
<1>7. Excused' = Excused
  BY <1>1 DEF Excused
<1>8. LeaveInv'
  BY <1>0, <1>1, <1>3, <1>4, <1>5, <1>6, <1>7 DEF LeaveInv
<1>9. Keeping
  BY <1>1, PanelStays
<1>10. TasksOK' /\ tasks' \in [TaskIds -> TaskState]
  BY <1>1, SteadyIs, TasksStay DEF ChatInv
<1> QED BY <1>0, <1>1, <1>4, <1>8, <1>9, <1>10, SessionStep

\* ... and what it drops
LEMMA ForgetThreadsKeeps ==
  ASSUME ChatPanelAssumption, ChatInv, ForgetThreads
  PROVE  ChatInv' /\ StaysStored
<1> DEFINE drops == IF leave.all THEN Threads ELSE leave.drops
           list == UNION {files[t] : t \in {c \in drops : account[c] = Closed}}
<1>0. /\ panel \in PanelState /\ leave \in LeaveState /\ files \in [Threads -> SUBSET Items]
      /\ leave.drops \in SUBSET Threads /\ trampled \in SUBSET Items
      /\ index \in [Workspaces -> Threads \cup {NoThread}]
  BY DEF ChatInv, PlaceInv, PlaceType, LeaveState
<1>1. /\ UNCHANGED <<current, effect, session, madeFor, account, tasks, typed, home, replaced>>
      /\ leave.pc = "forget" /\ leave' = [leave EXCEPT !.pc = "close"]
      /\ files' = [t \in Threads |-> IF t \in drops THEN {} ELSE files[t]]
      /\ trampled' = trampled \cup UNION {files[t] \ leave.hash[t] : t \in drops}
      /\ panel' = [panel EXCEPT !.givenUp = @ \cup list]
      /\ index' = IF leave.all THEN [w \in Workspaces |-> NoThread] ELSE index
  BY DEF ForgetThreads
<1>2. drops \in SUBSET Threads
  BY <1>0
<1>3. \A t \in drops : Droppable(t, leave.hash, account, Excused)
  BY <1>0, <1>1 DEF ChatInv, LeaveInv
<1>4. list \in SUBSET Items /\ \A t \in drops : account[t] = Closed => files[t] \subseteq list
  BY <1>0, <1>2
<1> HIDE DEF list, drops
<1>5. /\ panel' \in PanelState
      /\ panel'.thread = panel.thread /\ panel'.items = panel.items /\ panel'.writes = panel.writes
      /\ panel'.seq = panel.seq /\ panel'.queue = panel.queue /\ panel'.loads = panel.loads
      /\ panel'.givenUp = panel.givenUp \cup list /\ panel'.adrift = panel.adrift
  BY <1>0, <1>1, <1>4, GiveUpKeeps
<1>6. /\ files' \in [Threads -> SUBSET Items]
      /\ \A t \in Threads : t \notin drops => files'[t] = files[t]
      /\ \A t \in drops : files'[t] = {}
  BY <1>0, <1>1, <1>2
<1>7. /\ trampled' \in SUBSET Items /\ trampled \subseteq trampled'
      /\ \A t \in drops : files[t] \ leave.hash[t] \subseteq trampled'
  BY <1>0, <1>1, <1>2
<1>8. \A t \in Threads : files[t] \subseteq Safe' /\ account[t].items \subseteq Safe'
  <2>1. /\ \A t \in Threads : files'[t] \subseteq Safe' /\ account[t].items \subseteq Safe'
        /\ trampled' \subseteq Safe' /\ panel'.givenUp \subseteq Safe'
    BY <1>1 DEF Safe, Excused
  <2>2. Excused \subseteq Safe'
    BY <1>5, <1>7, <2>1 DEF Excused
  <2>3. ASSUME NEW t \in drops PROVE files[t] \subseteq Safe'
    <3>1. CASE account[t] = Closed
      BY <1>4, <1>5, <2>1, <3>1
    <3>2. CASE account[t] # Closed
      <4>1. leave.hash[t] \subseteq account[t].items \cup Excused
        BY <1>3, <3>2 DEF Droppable
      <4> QED BY <1>2, <1>7, <2>1, <2>2, <4>1
    <3> QED BY <3>1, <3>2
  <2> QED BY <1>6, <2>1, <2>3
<1>9. \A t \in Threads : \A m \in files'[t] : m \in files[t]
  BY <1>6
<1>10. Keeping
  BY <1>5, <1>7, <1>8, <1>9, OutsideStep
<1>11. /\ index' \in [Workspaces -> Threads \cup {NoThread}]
       /\ \A w \in Workspaces : index'[w] = index[w] \/ index'[w] = NoThread
  BY <1>0, <1>1
<1>12. IndexOK' /\ FreshOK'
  BY <1>1, <1>11 DEF ChatInv, PlaceInv, IndexOK, FreshOK
<1>13. Steady
  <2>1. NoThread \notin Threads
    BY DEF ChatPanelAssumption
  <2> QED BY <1>1, <1>11, <2>1 DEF Steady, Unknown
<1>14. TasksOK' /\ tasks' \in [TaskIds -> TaskState]
  BY <1>1, <1>13, TasksStay DEF ChatInv
<1>15. leave' \in LeaveState /\ leave'.pc = "close" /\ leave'.hash = leave.hash
  BY <1>0, <1>1 DEF LeaveState
<1>16. LeaveInv'
  BY <1>1, <1>15 DEF ChatInv, LeaveInv
<1>17. PlaceType'
  BY <1>1, <1>5, <1>6, <1>7, <1>11, <1>14, <1>15 DEF ChatInv, PlaceInv, PlaceType
<1>18. FollowsSwitch'
  BY <1>1, <1>5, FollowsStays
<1>19. PanelInv' /\ KeptInv'
  BY <1>1, <1>10, KeepingIs
<1> QED BY <1>10, <1>12, <1>14, <1>16, <1>17, <1>18, <1>19 DEF ChatInv, PlaceInv, Keeping, StaysStored

LEMMA SignedOutKeeps ==
  ASSUME ChatPanelAssumption, ChatInv, SignedOut
  PROVE  ChatInv' /\ StaysStored
<1>1. PICK i \in TaskIds : Open(i, current)
  BY DEF SignedOut
<1>2. /\ UNCHANGED <<current, files, account, pastVars>>
      /\ effect' = [effect EXCEPT !.openedFor = current]
      /\ session' = "out" /\ leave' = Staying /\ current \in Workspaces
      /\ effect \in [openedFor : Workspaces, due : Nat, crossed : BOOLEAN]
  BY DEF SignedOut, ChatInv, PlaceInv, PlaceType
<1>6. /\ effect' \in [openedFor : Workspaces, due : Nat, crossed : BOOLEAN]
      /\ effect'.openedFor = current
  BY <1>2
<1>3. PlaceInv' /\ FollowsSwitch' /\ Keeping /\ Steady
  BY <1>1, <1>2, <1>6, StayingOK, OpenKeeps
<1>4. LeaveInv'
  BY <1>2, StayingOK DEF LeaveInv
<1>5. PanelInv' /\ KeptInv'
  BY <1>2, <1>3, KeepingIs DEF pastVars
<1> QED BY <1>3, <1>4, <1>5 DEF ChatInv, Keeping, StaysStored

-----------------------------------------------------------------------------
LEMMA ChatInvInit ==
  ASSUME ChatPanelAssumption, ChatPanelInit
  PROVE  ChatInv
<1> DEFINE Row == [state : {None, "live", "deleted"}, items : SUBSET Items]
<1>0. 1 \in Threads /\ 2 \in Threads /\ NoThread \notin Threads /\ Shared \in Workspaces
      /\ None \notin Workspaces
  BY DEF ChatPanelAssumption, Threads, None
<1>1. /\ Gone \in Row /\ Gone.state = None /\ Gone.items = {}
      /\ [state |-> "live", items |-> Theirs] \in Row
      /\ [state |-> "live", items |-> Theirs].state = "live"
  BY DEF Gone, Items, None
<1>2. /\ account \in [Threads -> Row]
      /\ \A t \in Threads : account[t].state # "deleted" /\ (account[t] # Gone => t = 1)
  <2>1. /\ account \in [Threads -> {Gone, [state |-> "live", items |-> Theirs]}]
        /\ \A t \in Threads : account[t] # Gone => t = 1
    BY DEF ChatPanelInit
  <2> HIDE DEF Row
  <2> QED BY <1>1, <2>1 DEF None
<1>3. PICK c \in {NoThread, 1, 2} : index = [w \in Workspaces |-> IF w = Shared THEN c ELSE NoThread]
  BY DEF ChatPanelInit
<1>4. /\ index \in [Workspaces -> Threads \cup {NoThread}]
      /\ madeFor = [t \in Threads |-> IF t \in {1, 2} THEN Shared ELSE None]
      /\ madeFor \in [Threads -> Workspaces \cup {None}]
      /\ home = [m \in Messages |-> None] /\ home \in [Messages -> Workspaces \cup {None}]
      /\ current \in Workspaces /\ session \in {"in", "ending", "out"}
      /\ leave = Staying /\ typed = {} /\ trampled = {}
      /\ effect = [openedFor |-> current, due |-> 0, crossed |-> FALSE]
  BY <1>0, <1>3 DEF ChatPanelInit
<1>5. files \in [Threads -> SUBSET Items]
  BY <1>2 DEF ChatPanelInit
<1>6. /\ panel \in PanelState /\ panel.thread = NoThread /\ panel.writes = "open"
      /\ panel.loads = {} /\ panel.queue = <<>>
  <2>1. <<>> \in Seq(StepState)
    OBVIOUS
  <2> QED BY <2>1 DEF ChatPanelInit, PanelState
<1>7. /\ tasks \in [TaskIds -> TaskState]
      /\ TasksOK
  <2> DEFINE a == [NoTask EXCEPT !.pc = "index", !.ws = current, !.after = "switch"]
  <2>1. tasks = [i \in TaskIds |-> IF i = 1 THEN a ELSE NoTask]
    BY DEF ChatPanelInit
  <2>2. a \in TaskState /\ TaskOK(a, madeFor, account, index)
    BY <1>4, IndexTaskOK
  <2>3. NoTask \in TaskState /\ TaskOK(NoTask, madeFor, account, index)
    BY NoTaskOK
  <2> HIDE DEF a
  <2> QED BY <2>1, <2>2, <2>3 DEF TasksOK
<1>8. PlaceType
  BY <1>2, <1>4, <1>5, <1>6, <1>7, StayingOK DEF PlaceType
<1>9. IndexOK /\ FreshOK
  BY <1>0, <1>1, <1>2, <1>3, <1>4 DEF IndexOK, FreshOK
<1>10. FollowsSwitch
  BY <1>6 DEF FollowsSwitch
<1>11. PanelInv
  <2>1. DOMAIN panel.queue = {}
    BY <1>6
  <2> QED BY <1>6, <2>1 DEF PanelInv, PanelOK, PanelReady, LoadsOK, QueueOK, ShowsAll, Stores,
                            ReadsLast, IsOpen
<1>12. KeptInv /\ LeaveInv
  BY <1>4, StayingOK DEF KeptInv, LeaveInv
<1> QED BY <1>7, <1>8, <1>9, <1>10, <1>11, <1>12 DEF ChatInv, PlaceInv

LEMMA ChatInvStep ==
  ASSUME ChatPanelAssumption, ChatInv, [ChatPanelNext]_panelVars
  PROVE  ChatInv' /\ StaysStored
<1>1. CASE UNCHANGED panelVars
  <2>1. UNCHANGED <<current, effect, session, index, madeFor, files, account, panel, tasks, leave, pastVars>>
    BY <1>1 DEF panelVars, indexVars
  <2>2. UNCHANGED <<typed, home, trampled, replaced>>
    BY <2>1 DEF pastVars
  <2>3. panel \in PanelState /\ leave \in LeaveState /\ session \in {"in", "ending", "out"}
    BY DEF ChatInv, PlaceInv, PlaceType
  <2>4. TasksOK' /\ tasks' \in [TaskIds -> TaskState] /\ Keeping
    BY <2>1, <2>2, SteadyIs, TasksStay, PanelStays DEF ChatInv
  <2>5. LeaveInv'
    BY <2>1, <2>4, SteadyIs, LeaveStays DEF Keeping
  <2> QED BY <2>1, <2>2, <2>3, <2>4, <2>5, SessionStep
<1>2. CASE \E i \in TaskIds : Resumes(i) /\ Continue(i)
  BY <1>2, EnsureThreadKeeps, FoldInKeeps, PersistedKeeps, RepointThreadKeeps DEF Continue
<1>3. CASE Event
  <2>1. CASE \E m \in Messages : AddMessage(m)
    BY <2>1, AddMessageKeeps
  <2>2. CASE \E w \in Workspaces : SwitchWorkspace(w)
    BY <2>2, SwitchWorkspaceKeeps
  <2>3. CASE FlushOpen \/ DidSwitchWorkspace
    BY <2>3, FlushOpenKeeps, DidSwitchWorkspaceKeeps
  <2>4. CASE \E l \in panel.loads : BeginRead(l) \/ Land(l)
    BY <2>4, BeginReadKeeps, LandKeeps
  <2>5. CASE RunQueue
    BY <2>5, RunQueueKeeps
  <2>6. CASE \E i \in TaskIds : EnsureThread(i) \/ FetchThread(i) \/ StoreRead(i) \/ StoreWrite(i)
    BY <2>6, EnsureThreadKeeps, FetchThreadKeeps, StoreReadKeeps, StoreWriteKeeps
  <2>7. CASE \E i \in TaskIds : ListThreads(i) \/ ReadLocal(i) \/ ReadRemote(i) \/ WriteRemote(i)
    BY <2>7, ListThreadsKeeps, ReadLocalKeeps, ReadRemoteKeeps, WriteRemoteKeeps
  <2>8. CASE \E i \in TaskIds : SetIndex(i) \/ RemoveLocal(i) \/ PushThread(i)
    BY <2>8, SetIndexKeeps, RemoveLocalKeeps, PushThreadKeeps
  <2>9. CASE \E i \in TaskIds : ForgetFile(i) \/ ForgetEntry(i) \/ Dump(i) \/ Reopen(i)
    BY <2>9, ForgetFileKeeps, ForgetEntryKeeps, DumpKeeps, ReopenKeeps
  <2>10. CASE \E t \in Threads : DeletedElsewhere(t)
    BY <2>10, DeletedElsewhereKeeps
  <2>11. CASE SignIn \/ SignOut \/ HandOver
    BY <2>11, SignInKeeps, SignOutKeeps, HandOverKeeps
  <2>12. CASE EndSession \/ CheckUnchanged \/ ForgetThreads \/ SignedOut
    BY <2>12, EndSessionKeeps, CheckUnchangedKeeps, ForgetThreadsKeeps, SignedOutKeeps
  <2> QED BY <1>3, <2>1, <2>2, <2>3, <2>4, <2>5, <2>6, <2>7, <2>8, <2>9, <2>10, <2>11, <2>12 DEF Event
<1> QED BY <1>1, <1>2, <1>3 DEF ChatPanelNext

\* The inductive invariant of the assistant's panel, its queue, its storage and
\* the calls that are out
THEOREM ChatInvariant == ChatPanelSpec => []ChatInv
<1>1. ChatPanelInit => ChatInv
  BY ChatPanelAssumption, ChatInvInit
<1>2. ChatInv /\ [ChatPanelNext]_panelVars => ChatInv'
  BY ChatPanelAssumption, ChatInvStep
<1> QED BY <1>1, <1>2, PTL DEF ChatPanelSpec

\* The variables keep their types, and while the thread is closed to writes for
\* a read, that read is out: the panel never waits for a read that has landed
THEOREM ChatTypes == ChatPanelSpec => []ChatPanelTypeOK
<1>1. ChatInv => ChatPanelTypeOK
  <2> SUFFICES ASSUME ChatInv PROVE ChatPanelTypeOK
    OBVIOUS
  <2>1. panel.writes = "reading" => \E l \in panel.loads : l.seq = panel.seq /\ l.thread = panel.thread
    BY DEF ChatInv, PanelInv, PanelOK, PanelReady, LoadsOK
  <2> QED BY <2>1 DEF ChatInv, PlaceInv, PlaceType, ChatPanelTypeOK
<1> QED BY <1>1, ChatInvariant, PTL

\* Whatever switches, reads, moves, folds, steps of the queue and sign-outs
\* overtake each other, nothing that was typed is lost between the panel, its
\* reads, its queue, the files and the account, but for what a write outside the
\* queue tramples, what the code gives up, and what was typed into the list that
\* a fold put in the place of the one a read holds
THEOREM QueueKeepsTyped == ChatPanelSpec => []QueueKeeps
<1>1. ChatInv => QueueKeeps
  <2> SUFFICES ASSUME ChatInv, NEW m \in typed
               PROVE  m \in Held \cup panel.givenUp \cup panel.adrift \cup trampled
    BY DEF QueueKeeps
  <2>1. InMem(panel, m) \/ m \in Safe \/ m \in panel.adrift
    BY DEF ChatInv, KeptInv
  <2>2. InMem(panel, m) => m \in InMemory
    BY DEF InMem, InMemory
  <2>3. m \in Safe => m \in Held \cup panel.givenUp \cup trampled
    BY DEF Safe, Excused, Held
  <2> QED BY <2>1, <2>2, <2>3 DEF Held
<1> QED BY <1>1, ChatInvariant, PTL

\* What a file or the account holds stays in one of them, whatever the queue
\* writes and drops: it goes only where a write outside the queue takes it, or
\* where the code means to drop it
THEOREM StoredStays == ChatPanelSpec => [][StaysStored]_panelVars
<1>1. ChatInv /\ [ChatPanelNext]_panelVars => StaysStored
  BY ChatPanelAssumption, ChatInvStep
<1> QED BY <1>1, ChatInvariant, PTL DEF ChatPanelSpec

\* However late the index, the storage or the server answers, the thread that is
\* open is the current workspace's once the event of the switch has come, and that
\* of the workspace left or entered until then, unless replaceDeleted opened it, a
\* move went on from a thread that it had opened, or two switches have crossed
THEOREM SwitchFollowed == ChatPanelSpec => []FollowsSwitch
<1>1. ChatInv => FollowsSwitch
  BY DEF ChatInv
<1> QED BY <1>1, ChatInvariant, PTL

\* Once the queue has run, a reload loses nothing that is on screen
THEOREM ScreenIsStored == ChatPanelSpec => []ScreenStored
<1>1. ChatInv => ScreenStored
  <2> SUFFICES ASSUME ChatInv, panel.thread # NoThread, panel.writes = "open",
                      Behind(panel, panel.thread) = 0
               PROVE  panel.items \subseteq Safe
    BY DEF ScreenStored, Safe, Excused
  <2>1. panel \in PanelState /\ Stores(panel, Safe)
    BY DEF ChatInv, PlaceInv, PlaceType, PanelInv, PanelOK
  <2>2. StepsOf(panel.queue, panel.thread) = {}
    BY <2>1, BehindIs
  <2> QED BY <2>1, <2>2 DEF Stores, IsOpen, Brings
<1> QED BY <1>1, ChatInvariant, PTL

-----------------------------------------------------------------------------
(***************************************************************************)
(* Where a message may be filed.  P is the set of workspaces whose threads *)
(* may hold message m: all, and a panel without a thread, once None is in  *)
(* it.                                                                     *)
(***************************************************************************)
Broad(P) == None \in P => Workspaces \subseteq P

WorkspaceIn(s, mf) == IF s.thread = NoThread THEN None ELSE mf[s.thread]

FitsLoads(loads, mf, m, P) ==
  \A l \in loads : m \in l.got \/ m \in l.kept \/ m \in l.orphans => mf[l.thread] \in P

FitsQueue(q, mf, m, P) == \A n \in DOMAIN q : m \in q[n].items => mf[q[n].thread] \in P

FitsPanel(s, mf, m, P) ==
  /\ m \in s.items => WorkspaceIn(s, mf) \in P
  /\ FitsLoads(s.loads, mf, m, P)
  /\ FitsQueue(s.queue, mf, m, P)

LEMMA EnqueueFits ==
  ASSUME NEW s \in PanelState, NEW step \in StepState, NEW mf, NEW m, NEW P,
         FitsPanel(s, mf, m, P), m \in step.items => mf[step.thread] \in P
  PROVE  FitsPanel(Enqueue(s, step), mf, m, P)
<1> DEFINE r == Enqueue(s, step)
<1>1. /\ r.thread = s.thread /\ r.items = s.items /\ r.loads = s.loads
      /\ r.queue = Append(s.queue, step)
  BY EnqueueIs
<1> HIDE DEF r
<1>2. /\ DOMAIN r.queue = DOMAIN s.queue \cup {Len(s.queue) + 1}
      /\ r.queue[Len(s.queue) + 1] = step
      /\ \A n \in DOMAIN s.queue : r.queue[n] = s.queue[n]
  BY <1>1, QueueAppend DEF PanelState
<1>3. FitsQueue(r.queue, mf, m, P)
  BY <1>2 DEF FitsPanel, FitsQueue
<1> QED BY <1>1, <1>3 DEF FitsPanel, WorkspaceIn, r

LEMMA PersistFits ==
  ASSUME NEW s \in PanelState, NEW mf, NEW m, NEW P, FitsPanel(s, mf, m, P)
  PROVE  FitsPanel(Persist(s), mf, m, P)
<1>1. CASE s.thread = NoThread \/ s.writes # "open"
  BY <1>1 DEF Persist
<1>2. CASE ~(s.thread = NoThread \/ s.writes # "open")
  <2> DEFINE w == WriteOf(s.thread, s.items)
  <2>1. s.thread \in Threads /\ s.items \in SUBSET Items
    BY <1>2 DEF PanelState
  <2>2. w \in StepState /\ w.thread = s.thread /\ w.items = s.items
    BY <2>1, StepsAreSteps DEF WriteOf
  <2>3. Persist(s) = Enqueue(s, w)
    BY <1>2 DEF Persist
  <2> HIDE DEF w
  <2>4. m \in w.items => mf[w.thread] \in P
    BY <1>2, <2>2 DEF FitsPanel, WorkspaceIn
  <2> QED BY <2>2, <2>3, <2>4, EnqueueFits
<1> QED BY <1>1, <1>2

LEMMA LetGoFits ==
  ASSUME NEW s \in PanelState, NEW mf, NEW m, NEW P, FitsPanel(s, mf, m, P), LoadsOK(s),
         ChatPanelAssumption
  PROVE  FitsLoads(LetGo(s), mf, m, P)
<1>1. LetGoOf(s, LetGo(s))
  BY LetGoIs
<1>2. \A l \in s.loads : l.thread # NoThread
  <2>1. \A l \in s.loads : l \in LoadState
    BY DEF PanelState
  <2> QED BY <2>1 DEF LoadState, ChatPanelAssumption
<1>3. ASSUME NEW l \in s.loads, m \in LoadLetGo(s, l).got \/ m \in LoadLetGo(s, l).kept
                                \/ m \in LoadLetGo(s, l).orphans
      PROVE  mf[l.thread] \in P
  <2>1. m \in l.got \/ m \in l.kept \/ m \in l.orphans \/ (l.seq = s.seq /\ m \in s.items)
    BY <1>1, <1>3 DEF LetGoOf
  <2>2. l.seq = s.seq => l.thread = s.thread
    BY DEF LoadsOK
  <2> QED BY <1>2, <2>1, <2>2 DEF FitsPanel, FitsLoads, WorkspaceIn
<1> QED BY <1>1, <1>3 DEF LetGoOf, FitsLoads

LEMMA CloseFits ==
  ASSUME NEW s \in PanelState, NEW mf, NEW m, NEW P, FitsPanel(s, mf, m, P), LoadsOK(s),
         ChatPanelAssumption
  PROVE  FitsPanel(closeThread(s), mf, m, P)
<1>1. CASE s.thread = NoThread
  BY <1>1 DEF closeThread
<1>2. CASE s.thread # NoThread
  <2> DEFINE c == closeThread(s)
  <2>1. c.items = {} /\ c.loads = LetGo(s) /\ c.queue = s.queue
    BY <1>2, CloseIs
  <2> HIDE DEF c
  <2> QED BY <2>1, LetGoFits DEF FitsPanel, c
<1> QED BY <1>1, <1>2

LEMMA LoadFits ==
  ASSUME NEW s \in PanelState, NEW t \in Threads, NEW mf, NEW m, NEW P, FitsPanel(s, mf, m, P),
         LoadsOK(s), ChatPanelAssumption, Broad(P), mf[t] \in Workspaces \cup {None}
  PROVE  FitsPanel(loadThread(s, t), mf, m, P)
<1>1. CASE s.thread = t
  BY <1>1 DEF loadThread
<1>2. CASE s.thread # t
  <2> DEFINE c == load(s, t)
             orphans == IF s.thread = NoThread THEN s.items ELSE {}
             new == Read(t, s.seq + 1, NoThread, orphans, s)
  <2>1. loadThread(s, t) = c
    BY <1>2 DEF loadThread
  <2>2. c.items = {} /\ c.loads = LetGo(s) \cup {new} /\ c.queue = s.queue
    BY LoadIs
  <2>3. s.seq + 1 \in Nat /\ orphans \in SUBSET Items
    BY DEF PanelState
  <2>4. new.thread = t /\ new.orphans = orphans /\ new.kept = {} /\ new.got = {}
    BY <2>3, ReadIs
  <2>5. m \in orphans => mf[t] \in P
    BY DEF FitsPanel, WorkspaceIn, Broad
  <2> HIDE DEF c, new, orphans
  <2>6. FitsLoads(c.loads, mf, m, P)
    BY <2>2, <2>4, <2>5, LetGoFits DEF FitsLoads
  <2> QED BY <2>1, <2>2, <2>6 DEF FitsPanel
<1> QED BY <1>1, <1>2

LEMMA RepointFits ==
  ASSUME NEW s \in PanelState, NEW to \in Threads, NEW mf, NEW m, NEW P, FitsPanel(s, mf, m, P),
         LoadsOK(s), ChatPanelAssumption, s.thread # NoThread, mf[to] = mf[s.thread]
  PROVE  FitsPanel(repoint(s, to), mf, m, P)
<1> DEFINE c == repoint(s, to)
           new == Read(to, s.seq + 1, s.thread, {}, s)
<1>1. /\ c.thread = to /\ c.items = s.items /\ c.loads = LetGo(s) \cup {new} /\ c.queue = s.queue
  BY RepointIs
<1>2. s.seq + 1 \in Nat /\ s.thread \in Threads \cup {NoThread}
  BY DEF PanelState
<1>3. new.thread = to /\ new.orphans = {} /\ new.kept = {} /\ new.got = {}
  BY <1>2, ReadIs
<1> HIDE DEF c, new
<1>4. FitsLoads(c.loads, mf, m, P)
  BY <1>1, <1>3, LetGoFits DEF FitsLoads
<1>5. m \in c.items => WorkspaceIn(c, mf) \in P
  BY <1>1 DEF FitsPanel, WorkspaceIn, ChatPanelAssumption
<1> QED BY <1>1, <1>4, <1>5 DEF FitsPanel, c

LEMMA KeepFits ==
  ASSUME NEW s \in PanelState, NEW t \in Threads, NEW list \in SUBSET Items,
         NEW mf, NEW m, NEW P, FitsPanel(s, mf, m, P), m \in list => mf[t] \in P,
         ChatPanelAssumption
  PROVE  FitsPanel(keepOvertaken(s, t, list), mf, m, P)
<1>1. CASE list = {}
  BY <1>1 DEF keepOvertaken
<1>2. CASE list # {} /\ s.thread = t
  <2> DEFINE u == [s EXCEPT !.items = @ \cup list]
  <2>1. keepOvertaken(s, t, list) = Persist(u)
    BY <1>2 DEF keepOvertaken
  <2>2. /\ u \in PanelState /\ u.thread = s.thread /\ u.items = s.items \cup list
        /\ u.loads = s.loads /\ u.queue = s.queue
    BY GrowIs
  <2> HIDE DEF u
  <2>3. FitsPanel(u, mf, m, P)
    BY <1>2, <2>2 DEF FitsPanel, WorkspaceIn, ChatPanelAssumption
  <2> QED BY <2>1, <2>2, <2>3, PersistFits
<1>3. CASE list # {} /\ s.thread # t
  <2>1. keepOvertaken(s, t, list) = Enqueue(s, KeepOf(t, list))
    BY <1>3 DEF keepOvertaken
  <2>2. /\ KeepOf(t, list) \in StepState
        /\ KeepOf(t, list).thread = t /\ KeepOf(t, list).items = list
    BY ChatPanelAssumption, StepsAreSteps DEF KeepOf
  <2> QED BY <2>1, <2>2, EnqueueFits
<1> QED BY <1>1, <1>2, <1>3

LEMMA FoldFits ==
  ASSUME NEW s \in PanelState, NEW list \in SUBSET Items, NEW mf, NEW m, NEW P,
         FitsPanel(s, mf, m, P), LoadsOK(s), ChatPanelAssumption,
         m \in list => WorkspaceIn(s, mf) \in P
  PROVE  FitsPanel(foldIn(s, list), mf, m, P)
<1>1. CASE list \subseteq s.items
  BY <1>1 DEF foldIn
<1>2. CASE ~(list \subseteq s.items)
  <2> DEFINE u == [s EXCEPT !.items = @ \cup list, !.loads = LetGo(s),
                            !.standIn = @ \cup StandIn(s, s.thread, list)]
  <2>1. foldIn(s, list) = Persist(u)
    BY <1>2 DEF foldIn
  <2>2. /\ u \in PanelState
        /\ u.thread = s.thread /\ u.items = s.items \cup list
        /\ u.loads = LetGo(s) /\ u.queue = s.queue
    BY FoldIs
  <2> HIDE DEF u
  <2>3. FitsPanel(u, mf, m, P)
    BY <2>2, LetGoFits DEF FitsPanel, WorkspaceIn
  <2> QED BY <2>1, <2>2, <2>3, PersistFits
<1> QED BY <1>1, <1>2

\* The end of a read
LEMMA LandFits ==
  ASSUME NEW s \in PanelState, NEW l \in s.loads, NEW mf, NEW m, NEW P,
         FitsPanel(s, mf, m, P), LoadsOK(s), ChatPanelAssumption
  PROVE  /\ FitsPanel(landLoad(s, l), mf, m, P)
         /\ l.from # NoThread => FitsPanel(landRepoint(s, l), mf, m, P)
<1> DEFINE done == Finished(s, l)
<1>1. /\ done \in PanelState
      /\ done.thread = s.thread /\ done.items = s.items /\ done.writes = s.writes
      /\ done.seq = s.seq /\ done.loads = s.loads \ {l} /\ done.queue = s.queue
      /\ done.givenUp = s.givenUp /\ done.adrift = s.adrift
  BY FinishedIs
<1>2. /\ l \in LoadState /\ l.got \in SUBSET Items /\ l.orphans \in SUBSET Items
      /\ l.kept \in SUBSET Items /\ l.thread \in Threads /\ s.items \in SUBSET Items
      /\ l.from \in Threads \cup {NoThread}
  BY DEF PanelState, LoadState
<1>3. FitsPanel(done, mf, m, P)
  <2> HIDE DEF done
  <2> QED BY <1>1 DEF FitsPanel, FitsLoads, WorkspaceIn
<1>4. m \in l.got \/ m \in l.kept \/ m \in l.orphans => mf[l.thread] \in P
  BY DEF FitsPanel, FitsLoads
<1>5. ASSUME ~Overtaken(s, l)
      PROVE  /\ l.thread = s.thread /\ s.thread # NoThread
             /\ m \in s.items => mf[l.thread] \in P
  BY <1>2, <1>5 DEF Overtaken, LoadsOK, FitsPanel, WorkspaceIn, ChatPanelAssumption
<1>6. FitsPanel(landLoad(s, l), mf, m, P)
  <2>1. CASE Overtaken(s, l)
    <3>1. landLoad(s, l) = keepOvertaken(done, l.thread, l.orphans \cup l.kept)
      BY <2>1 DEF landLoad
    <3> HIDE DEF done
    <3>2. l.orphans \cup l.kept \in SUBSET Items
      BY <1>2
    <3> QED BY <1>1, <1>2, <1>3, <1>4, <3>1, <3>2, KeepFits
  <2>2. CASE ~Overtaken(s, l)
    <3> DEFINE adopted == l.orphans \cup s.items
               u == [done EXCEPT !.items = l.got \cup adopted,
                       !.writes = IF l.ok THEN "open" ELSE "unreadable",
                       !.doubled = @ \cup (l.got \cap adopted) \cup (l.orphans \cap s.items)]
    <3>1. landLoad(s, l) = PersistAdopted(u, adopted)
      BY <2>2 DEF landLoad
    <3>2. l.got \cup adopted \in SUBSET Items /\ (l.orphans \cap s.items) \in SUBSET Items
      BY <1>2
    <3>3. adopted \in SUBSET Items /\ (m \in adopted => m \in l.orphans \/ m \in s.items)
      BY <1>2
    <3> HIDE DEF done, adopted
    <3>4. /\ u \in PanelState
          /\ u.thread = s.thread /\ u.items = l.got \cup adopted
          /\ u.loads = s.loads \ {l} /\ u.queue = s.queue
      BY <1>1, <3>2 DEF PanelState
    <3> HIDE DEF u
    <3>5. FitsPanel(u, mf, m, P)
      BY <1>1, <1>3, <1>4, <1>5, <2>2, <3>3, <3>4 DEF FitsPanel, WorkspaceIn
    <3> QED BY <3>1, <3>4, <3>5, PersistFits DEF PersistAdopted
  <2> QED BY <2>1, <2>2
<1>7. ASSUME l.from # NoThread PROVE FitsPanel(landRepoint(s, l), mf, m, P)
  <2>1. CASE Overtaken(s, l)
    <3> DEFINE d == [done EXCEPT !.standIn = @ \cup StandIn(s, l.thread, l.kept)]
    <3>1. landRepoint(s, l) = keepOvertaken(d, l.thread, l.kept)
      BY <2>1 DEF landRepoint
    <3>2. StandIn(s, l.thread, l.kept) \in SUBSET Items
      BY <1>2 DEF StandIn
    <3> HIDE DEF done
    <3>3. /\ d \in PanelState
          /\ d.thread = done.thread /\ d.items = done.items
          /\ d.loads = done.loads /\ d.queue = done.queue
      BY <1>1, <3>2 DEF PanelState
    <3> HIDE DEF d
    <3>4. FitsPanel(d, mf, m, P)
      BY <1>3, <3>3 DEF FitsPanel, WorkspaceIn
    <3> QED BY <1>2, <1>4, <3>1, <3>3, <3>4, KeepFits
  <2>2. CASE ~Overtaken(s, l)
    <3> DEFINE live == IF l.shares THEN s.items ELSE l.kept
               u == [done EXCEPT !.items = l.got \cup live, !.adrift = @ \cup Adrift(s),
                                 !.writes = IF l.ok THEN "open" ELSE "unreadable"]
               step == DropOf(l.from, l.thread)
    <3>1. landRepoint(s, l) = IF l.ok THEN Enqueue(Persist(u), step) ELSE Persist(u)
      BY <2>2 DEF landRepoint
    <3>2. /\ l.got \cup live \in SUBSET Items /\ Adrift(s) \in SUBSET Items
          /\ m \in live => m \in s.items \/ m \in l.kept
      BY <1>2, SetsOfPanel
    <3>3. step \in StepState /\ step.items = {}
      BY <1>2, <1>7, StepsAreSteps DEF DropOf
    <3> HIDE DEF done, live, step
    <3>4. /\ u \in PanelState
          /\ u.thread = s.thread /\ u.items = l.got \cup live
          /\ u.loads = s.loads \ {l} /\ u.queue = s.queue
      BY <1>1, <3>2 DEF PanelState
    <3> HIDE DEF u
    <3>5. FitsPanel(u, mf, m, P)
      BY <1>1, <1>3, <1>4, <1>5, <2>2, <3>2, <3>4 DEF FitsPanel, WorkspaceIn
    <3>6. Persist(u) \in PanelState /\ FitsPanel(Persist(u), mf, m, P)
      BY <3>4, <3>5, PersistFits, PersistIs
    <3> QED BY <3>1, <3>3, <3>6, EnqueueFits
  <2> QED BY <2>1, <2>2
<1> QED BY <1>6, <1>7

\* A step leaves the queue
LEMMA PopFits ==
  ASSUME NEW s \in PanelState, s.queue # <<>>, NEW r, NEW mf, NEW m, NEW P,
         FitsPanel(s, mf, m, P), r.thread = s.thread, r.items = s.items,
         r.queue = Tail(s.queue), NearerOf(s, r.loads)
  PROVE  FitsPanel(r, mf, m, P)
<1>1. FitsLoads(r.loads, mf, m, P)
  BY DEF FitsPanel, FitsLoads, NearerOf
<1>2. FitsQueue(r.queue, mf, m, P)
  BY QueueTail DEF PanelState, FitsPanel, FitsQueue
<1> QED BY <1>1, <1>2 DEF FitsPanel, WorkspaceIn

-----------------------------------------------------------------------------
(***************************************************************************)
(* The same of storage and of the calls, and of the state as a whole.      *)
(***************************************************************************)
FitsFiles(f, mf, m, P) == \A t \in Threads : m \in f[t] => mf[t] \in P
FitsAccount(acc, mf, m, P) == \A t \in Threads : m \in acc[t].items => mf[t] \in P
FitsCall(t, m, P) == m \in t.got \/ m \in t.read => t.ws \in P

Fits(m, P) ==
  /\ FitsPanel(panel, madeFor, m, P)
  /\ FitsFiles(files, madeFor, m, P)
  /\ FitsAccount(account, madeFor, m, P)
  /\ \A i \in TaskIds : FitsCall(tasks[i], m, P)

\* What a step starts from
Fitting(m, P) == ChatPanelAssumption /\ ChatInv /\ Broad(P) /\ m \notin Theirs /\ Fits(m, P)

LEMMA FittingIs ==
  ASSUME NEW m, NEW P, Fitting(m, P)
  PROVE  /\ panel \in PanelState /\ LoadsOK(panel)
         /\ files \in [Threads -> SUBSET Items]
         /\ madeFor \in [Threads -> Workspaces \cup {None}]
         /\ account \in [Threads -> [state : {None, "live", "deleted"}, items : SUBSET Items]]
         /\ \A i \in TaskIds : /\ tasks[i] \in TaskState
                               /\ TaskOK(tasks[i], madeFor, account, index)
         /\ None \notin Workspaces /\ NoThread \notin Threads /\ Broad(P) /\ ChatPanelAssumption
BY DEF Fitting, ChatInv, PlaceInv, PlaceType, PanelInv, PanelOK, PanelReady, TasksOK,
       ChatPanelAssumption, None

\* A thread keeps the workspace it was made for
LEMMA FitsLater ==
  ASSUME NEW m, NEW P, Broad(P), NEW s \in PanelState, NEW f, NEW acc,
         NEW mf \in [Threads -> Workspaces \cup {None}],
         NEW mg \in [Threads -> Workspaces \cup {None}],
         \A t \in Threads : mf[t] # None => mg[t] = mf[t]
  PROVE  /\ FitsPanel(s, mf, m, P) => FitsPanel(s, mg, m, P)
         /\ FitsFiles(f, mf, m, P) => FitsFiles(f, mg, m, P)
         /\ FitsAccount(acc, mf, m, P) => FitsAccount(acc, mg, m, P)
<1>1. \A t \in Threads : mf[t] \in P => mg[t] \in P
  BY DEF Broad
<1>2. s.thread = NoThread \/ s.thread \in Threads
  BY DEF PanelState
<1>3. \A l \in s.loads : l.thread \in Threads
  BY DEF PanelState, LoadState
<1>4. \A n \in DOMAIN s.queue : s.queue[n].thread \in Threads
  <2>1. s.queue \in Seq(StepState)
    BY DEF PanelState
  <2>2. \A n \in DOMAIN s.queue : s.queue[n] \in StepState
    BY <2>1
  <2> QED BY <2>2 DEF StepState
<1>5. FitsPanel(s, mf, m, P) => FitsPanel(s, mg, m, P)
  BY <1>1, <1>2, <1>3, <1>4 DEF FitsPanel, FitsLoads, FitsQueue, WorkspaceIn
<1> QED BY <1>1, <1>5 DEF FitsFiles, FitsAccount

\* A call goes on as another
LEMMA CallFits ==
  ASSUME NEW m, NEW P, Fits(m, P), NEW i \in TaskIds, NEW t, Become(i, t), FitsCall(t, m, P),
         tasks \in [TaskIds -> TaskState]
  PROVE  \A j \in TaskIds : FitsCall(tasks'[j], m, P)
<1>1. \A j \in TaskIds : tasks'[j] = IF j = i THEN t ELSE tasks[j]
  BY DEF Become
<1> QED BY <1>1 DEF Fits

\* ... and nothing else changes
LEMMA OnlyCallFits ==
  ASSUME NEW m, NEW P, Fitting(m, P), NEW i \in TaskIds, NEW t, Become(i, t), FitsCall(t, m, P),
         UNCHANGED <<madeFor, files, account, panel>>
  PROVE  Fits(m, P)'
<1>1. tasks \in [TaskIds -> TaskState] /\ Fits(m, P)
  BY DEF Fitting, ChatInv, PlaceInv, PlaceType
<1>2. \A j \in TaskIds : FitsCall(tasks'[j], m, P)
  BY <1>1, CallFits
<1>3. /\ FitsPanel(panel, madeFor, m, P) /\ FitsFiles(files, madeFor, m, P)
      /\ FitsAccount(account, madeFor, m, P)
  BY <1>1 DEF Fits
<1>4. /\ FitsPanel(panel', madeFor', m, P) /\ FitsFiles(files', madeFor', m, P)
      /\ FitsAccount(account', madeFor', m, P)
  BY <1>3
<1> QED BY <1>2, <1>4 DEF Fits

\* A call that goes on may have read more
LEMMA SameCallFits ==
  ASSUME NEW m, NEW P, NEW t, NEW r, FitsCall(t, m, P), r.ws = t.ws,
         m \in r.got => m \in t.got \/ t.ws \in P,
         m \in r.read => m \in t.read \/ t.ws \in P
  PROVE  FitsCall(r, m, P)
BY DEF FitsCall

LEMMA NoTaskFits ==
  ASSUME NEW m, NEW P
  PROVE  /\ FitsCall(NoTask, m, P)
         /\ \A pc : FitsCall([NoTask EXCEPT !.pc = pc], m, P)
BY DEF FitsCall, NoTask

-----------------------------------------------------------------------------
\* One lemma per action again

LEMMA OpenFits ==
  ASSUME NEW m, NEW P, Fitting(m, P), NEW i \in TaskIds, NEW w \in Workspaces, Open(i, w),
         UNCHANGED <<files, account>>
  PROVE  Fits(m, P)'
<1> DEFINE c == closeThread(panel)
<1>0. /\ panel \in PanelState /\ LoadsOK(panel) /\ Broad(P) /\ ChatPanelAssumption
      /\ madeFor \in [Threads -> Workspaces \cup {None}]
      /\ PanelOK(panel, files, Safe, Excused)
      /\ tasks \in [TaskIds -> TaskState] /\ Fits(m, P)
  BY FittingIs DEF Fitting, ChatInv, PlaceInv, PlaceType, PanelInv
<1>1. c \in PanelState /\ PanelOK(c, files, Safe, Excused)
  BY <1>0, CloseThreadKeeps
<1>2. FitsPanel(c, madeFor, m, P) /\ LoadsOK(c)
  BY <1>0, <1>1, CloseFits DEF Fits, PanelOK, PanelReady
<1> HIDE DEF c
<1>3. CASE warm
  <2> DEFINE t == Minted(w)
             r == [NoTask EXCEPT !.pc = "fetch", !.ws = w, !.thread = t, !.wait = LoadWait(c, t)]
  <2>1. Mint(w) /\ panel' = loadThread(c, t) /\ Become(i, r)
    BY <1>3 DEF Open, OpenThread, c
  <2>2. /\ t \in Threads /\ madeFor' \in [Threads -> Workspaces \cup {None}]
        /\ madeFor'[t] \in Workspaces \cup {None} /\ Steady
    BY <1>0, <2>1, MintIs DEF Fitting, ChatInv
  <2>3. /\ FitsPanel(c, madeFor', m, P) /\ FitsFiles(files', madeFor', m, P)
        /\ FitsAccount(account', madeFor', m, P)
    BY <1>0, <1>1, <1>2, <2>2, FitsLater DEF Fits, Steady
  <2> HIDE DEF t
  <2>4. FitsPanel(panel', madeFor', m, P)
    BY <1>0, <1>1, <1>2, <2>1, <2>2, <2>3, LoadFits
  <2>5. FitsCall(r, m, P)
    BY DEF FitsCall, NoTask
  <2> HIDE DEF r
  <2>6. \A j \in TaskIds : FitsCall(tasks'[j], m, P)
    BY <1>0, <2>1, <2>5, CallFits
  <2> QED BY <2>3, <2>4, <2>6 DEF Fits
<1>4. CASE ~warm
  <2> DEFINE r == [NoTask EXCEPT !.pc = "index", !.ws = w, !.after = "switch"]
  <2>1. panel' = c /\ Become(i, r) /\ UNCHANGED madeFor
    BY <1>4 DEF Open, indexVars, c
  <2>2. FitsCall(r, m, P)
    BY DEF FitsCall, NoTask
  <2> HIDE DEF r
  <2>3. \A j \in TaskIds : FitsCall(tasks'[j], m, P)
    BY <1>0, <2>1, <2>2, CallFits
  <2>4. /\ FitsPanel(panel', madeFor', m, P) /\ FitsFiles(files', madeFor', m, P)
        /\ FitsAccount(account', madeFor', m, P)
    BY <1>0, <1>2, <2>1 DEF Fits
  <2> QED BY <2>3, <2>4 DEF Fits
<1> QED BY <1>3, <1>4

LEMMA OpenThreadFits ==
  ASSUME NEW m, NEW P, Fitting(m, P), NEW i \in TaskIds, NEW w \in Workspaces, NEW t \in Threads,
         OpenThread(i, w, t, panel), UNCHANGED <<files, account>>, Steady,
         madeFor' \in [Threads -> Workspaces \cup {None}]
  PROVE  Fits(m, P)'
<1> DEFINE r == [NoTask EXCEPT !.pc = "fetch", !.ws = w, !.thread = t, !.wait = LoadWait(panel, t)]
<1>0. /\ panel \in PanelState /\ LoadsOK(panel) /\ Broad(P) /\ ChatPanelAssumption
      /\ madeFor \in [Threads -> Workspaces \cup {None}]
      /\ tasks \in [TaskIds -> TaskState] /\ Fits(m, P)
  BY FittingIs DEF Fitting, ChatInv, PlaceInv, PlaceType
<1>1. panel' = loadThread(panel, t) /\ Become(i, r)
  BY DEF OpenThread
<1>2. /\ FitsPanel(panel, madeFor', m, P) /\ FitsFiles(files', madeFor', m, P)
      /\ FitsAccount(account', madeFor', m, P)
  BY <1>0, FitsLater DEF Fits, Steady
<1>3. madeFor'[t] \in Workspaces \cup {None}
  OBVIOUS
<1>4. FitsPanel(panel', madeFor', m, P)
  BY <1>0, <1>1, <1>2, <1>3, LoadFits
<1>5. FitsCall(r, m, P)
  BY DEF FitsCall, NoTask
<1> HIDE DEF r
<1>6. \A j \in TaskIds : FitsCall(tasks'[j], m, P)
  BY <1>0, <1>1, <1>5, CallFits
<1> QED BY <1>2, <1>4, <1>6 DEF Fits

LEMMA OpeningsFit ==
  ASSUME NEW m, NEW P, Fitting(m, P)
  PROVE  /\ DidSwitchWorkspace \/ SignedOut => Fits(m, P)'
         /\ \A i \in TaskIds : EnsureThread(i) \/ Reopen(i) => Fits(m, P)'
<1>0. /\ current \in Workspaces /\ index \in [Workspaces -> Threads \cup {NoThread}]
      /\ madeFor \in [Threads -> Workspaces \cup {None}] /\ ChatInv /\ ChatPanelAssumption
      /\ \A i \in TaskIds : tasks[i].ws \in Workspaces
  BY CallsOK DEF Fitting, ChatInv, PlaceInv, PlaceType
<1>1. ASSUME DidSwitchWorkspace PROVE Fits(m, P)'
  <2>1. UNCHANGED <<files, account>>
    BY <1>1 DEF DidSwitchWorkspace
  <2>2. CASE effect.openedFor = current
    <3>1. /\ UNCHANGED <<madeFor, files, account, panel, tasks>> /\ Fits(m, P)
      BY <1>1, <2>1, <2>2 DEF DidSwitchWorkspace, indexVars, Fitting
    <3> QED BY <3>1 DEF Fits
  <2>3. CASE effect.openedFor # current
    BY <1>0, <1>1, <2>1, <2>3, OpenFits DEF DidSwitchWorkspace
  <2> QED BY <2>2, <2>3
<1>2. ASSUME SignedOut PROVE Fits(m, P)'
  BY <1>0, <1>2, OpenFits DEF SignedOut
<1>3. ASSUME NEW i \in TaskIds, EnsureThread(i) PROVE Fits(m, P)'
  <2> DEFINE t == tasks[i]
  <2>1. CASE SwitchedAway(t)
    <3>1. Become(i, NoTask) /\ UNCHANGED <<madeFor, files, account, panel>>
      BY <1>3, <2>1 DEF EnsureThread, End
    <3> QED BY <3>1, NoTaskFits, OnlyCallFits
  <2>2. CASE ~SwitchedAway(t)
    <3>1. /\ Mint(t.ws) /\ OpenThread(i, t.ws, Minted(t.ws), panel)
          /\ UNCHANGED <<files, account>>
      BY <1>3, <2>2 DEF EnsureThread
    <3>2. /\ Minted(t.ws) \in Threads /\ Steady
          /\ madeFor' \in [Threads -> Workspaces \cup {None}]
      BY <1>0, <3>1, MintIs DEF ChatInv
    <3> QED BY <1>0, <3>1, <3>2, OpenThreadFits
  <2> QED BY <2>1, <2>2
<1>4. ASSUME NEW i \in TaskIds, Reopen(i) PROVE Fits(m, P)'
  <2>1. UNCHANGED <<index, madeFor, files, account>>
    BY <1>4 DEF Reopen, indexVars
  <2>2. CASE panel.thread # NoThread /\ index[current] # NoThread
    <3>1. OpenThread(i, current, index[current], panel) /\ index[current] \in Threads
      BY <1>0, <1>4, <2>2 DEF Reopen
    <3> QED BY <1>0, <2>1, <3>1, SteadyIs, OpenThreadFits
  <2>3. CASE ~(panel.thread # NoThread /\ index[current] # NoThread)
    <3>1. Become(i, NoTask) /\ UNCHANGED panel
      BY <1>4, <2>3 DEF Reopen, End
    <3> QED BY <2>1, <3>1, NoTaskFits, OnlyCallFits
  <2> QED BY <2>2, <2>3
<1> QED BY <1>1, <1>2, <1>3, <1>4

\* The panel alone changes
LEMMA OnlyPanelFits ==
  ASSUME NEW m, NEW P, Fits(m, P), UNCHANGED <<madeFor, files, account>>,
         FitsPanel(panel', madeFor, m, P), \A j \in TaskIds : FitsCall(tasks'[j], m, P)
  PROVE  Fits(m, P)'
<1>1. /\ FitsFiles(files, madeFor, m, P) /\ FitsAccount(account, madeFor, m, P)
  BY DEF Fits
<1>2. /\ FitsFiles(files', madeFor', m, P) /\ FitsAccount(account', madeFor', m, P)
      /\ FitsPanel(panel', madeFor', m, P)
  BY <1>1
<1> QED BY <1>2 DEF Fits

LEMMA BeginReadFits ==
  ASSUME NEW m, NEW P, Fitting(m, P), NEW l \in panel.loads, BeginRead(l)
  PROVE  Fits(m, P)'
<1>0. /\ panel \in PanelState /\ l \in LoadState /\ Fits(m, P) /\ l.thread \in Threads
      /\ UNCHANGED <<madeFor, files, account, tasks>>
  BY FittingIs DEF Fitting, PanelState, LoadState, BeginRead, indexVars
<1>1. \A j \in TaskIds : FitsCall(tasks'[j], m, P)
  BY <1>0 DEF Fits
<1>2. ASSUME NEW k, k.thread = l.thread, k.kept = l.kept, k.orphans = l.orphans,
             k.got = l.got \/ k.got = files[l.thread],
             panel' = [panel EXCEPT !.loads = (@ \ {l}) \cup {k}]
      PROVE  FitsPanel(panel', madeFor, m, P)
  <2>1. /\ panel'.thread = panel.thread /\ panel'.items = panel.items
        /\ panel'.queue = panel.queue /\ panel'.loads = (panel.loads \ {l}) \cup {k}
    BY <1>0, <1>2 DEF PanelState
  <2>2. m \in k.got \/ m \in k.kept \/ m \in k.orphans => madeFor[k.thread] \in P
    BY <1>0, <1>2 DEF Fits, FitsPanel, FitsLoads, FitsFiles
  <2>3. FitsLoads(panel'.loads, madeFor, m, P)
    BY <1>0, <2>1, <2>2 DEF Fits, FitsPanel, FitsLoads
  <2> QED BY <1>0, <2>1, <2>3 DEF Fits, FitsPanel, WorkspaceIn
<1>3. FitsPanel(panel', madeFor, m, P)
  <2> DEFINE k == [l EXCEPT !.stage = "read", !.got = files[l.thread]]
             n == [l EXCEPT !.stage = "read", !.ok = FALSE]
  <2>1. /\ k.thread = l.thread /\ k.kept = l.kept /\ k.orphans = l.orphans
        /\ k.got = files[l.thread]
        /\ n.thread = l.thread /\ n.kept = l.kept /\ n.orphans = l.orphans /\ n.got = l.got
    BY <1>0 DEF LoadState
  <2>2. \/ panel' = [panel EXCEPT !.loads = (@ \ {l}) \cup {k}]
        \/ panel' = [panel EXCEPT !.loads = (@ \ {l}) \cup {n}]
    BY DEF BeginRead
  <2> HIDE DEF k, n
  <2> QED BY <1>2, <2>1, <2>2
<1> QED BY <1>0, <1>1, <1>3, OnlyPanelFits

LEMMA LandingFits ==
  ASSUME NEW m, NEW P, Fitting(m, P), NEW l \in panel.loads, Land(l)
  PROVE  Fits(m, P)'
<1>0. /\ panel \in PanelState /\ LoadsOK(panel) /\ Fits(m, P) /\ ChatPanelAssumption
      /\ UNCHANGED <<madeFor, files, account>>
      /\ \A i \in TaskIds : tasks[i] \in TaskState
  BY FittingIs DEF Fitting, Land, indexVars
<1>1. FitsPanel(panel', madeFor, m, P)
  <2>1. panel' = landLoad(panel, l) \/ (l.from # NoThread /\ panel' = landRepoint(panel, l))
    BY DEF Land
  <2> QED BY <1>0, <2>1, LandFits DEF Fits
<1>2. ASSUME NEW i \in TaskIds PROVE FitsCall(tasks'[i], m, P)
  <2> DEFINE t == tasks[i]
             r == [t EXCEPT !.pc = "fetch", !.thread = t.remote]
  <2>1. tasks'[i] = t \/ tasks'[i] = NoTask \/ tasks'[i] = r
    BY DEF Land, Moved
  <2>2. r.ws = t.ws /\ r.got = t.got /\ r.read = t.read
    BY <1>0 DEF TaskState
  <2>3. FitsCall(t, m, P) /\ FitsCall(NoTask, m, P)
    BY <1>0, NoTaskFits DEF Fits
  <2> HIDE DEF r
  <2> QED BY <2>1, <2>2, <2>3, SameCallFits
<1> QED BY <1>0, <1>1, <1>2, OnlyPanelFits

LEMMA RunQueueFits ==
  ASSUME NEW m, NEW P, Fitting(m, P), RunQueue
  PROVE  Fits(m, P)'
<1> DEFINE step == Head(panel.queue)
           popped == [panel EXCEPT !.queue = Tail(@),
                                   !.loads = {[l EXCEPT !.behind = Less(@)] : l \in @}]
<1>0. /\ panel \in PanelState /\ Fits(m, P) /\ panel.queue # <<>>
      /\ files \in [Threads -> SUBSET Items]
      /\ account \in [Threads -> [state : {None, "live", "deleted"}, items : SUBSET Items]]
      /\ UNCHANGED <<madeFor, account>> /\ \A i \in TaskIds : tasks[i] \in TaskState
  BY FittingIs DEF Fitting, RunQueue, indexVars
<1>1. /\ popped \in PanelState /\ popped.thread = panel.thread /\ popped.items = panel.items
      /\ popped.queue = Tail(panel.queue) /\ NearerOf(panel, popped.loads)
  BY <1>0, PopIs
<1>2. \/ files' = AfterStep(step) /\ panel' = popped
      \/ files' = files /\ panel' = [popped EXCEPT !.givenUp = @ \cup step.items]
  BY DEF RunQueue
<1> HIDE DEF popped
<1>3. FitsPanel(popped, madeFor, m, P)
  BY <1>0, <1>1, PopFits DEF Fits
<1>4. FitsPanel(panel', madeFor, m, P)
  <2>1. /\ panel'.thread = popped.thread /\ panel'.items = popped.items
        /\ panel'.queue = popped.queue /\ panel'.loads = popped.loads
    BY <1>1, <1>2 DEF PanelState
  <2> QED BY <1>3, <2>1 DEF FitsPanel, WorkspaceIn
<1>5. /\ step \in StepState /\ step.thread \in Threads
      /\ m \in step.items => madeFor[step.thread] \in P
  <2>1. panel.queue \in Seq(StepState)
    BY <1>0 DEF PanelState
  <2>2. step \in StepState /\ 1 \in DOMAIN panel.queue /\ step = panel.queue[1]
    BY <1>0, <2>1, QueueTail
  <2>3. step.thread \in Threads
    BY <2>2 DEF StepState
  <2> HIDE DEF step
  <2> QED BY <1>0, <2>2, <2>3 DEF Fits, FitsPanel, FitsQueue
<1> HIDE DEF step
<1>6. \A t \in Threads : m \in files'[t] => m \in files[t] \/ (t = step.thread /\ m \in step.items)
  <2>1. CASE files' = files
    BY <2>1
  <2>2. CASE files' = AfterStep(step)
    <3>0. step.kind \in {"write", "keep", "drop"}
      BY <1>5 DEF StepState
    <3>1. CASE step.kind = "write"
      BY <1>0, <1>5, <2>2, <3>1 DEF AfterStep
    <3>2. CASE step.kind = "keep"
      <4>1. files' = [files EXCEPT ![step.thread] = @ \cup step.items]
        BY <2>2, <3>2 DEF AfterStep
      <4> QED BY <1>0, <1>5, <4>1
    <3>3. CASE step.kind = "drop"
      <4>1. files' = [files EXCEPT ![step.thread] = {}] \/ files' = files
        BY <2>2, <3>3 DEF AfterStep
      <4> QED BY <1>0, <1>5, <4>1
    <3> QED BY <3>0, <3>1, <3>2, <3>3
  <2> QED BY <1>2, <2>1, <2>2
<1>7. FitsFiles(files', madeFor, m, P)
  BY <1>0, <1>5, <1>6 DEF Fits, FitsFiles
<1>8. ASSUME NEW i \in TaskIds PROVE FitsCall(tasks'[i], m, P)
  <2> DEFINE t == tasks[i]
             r == [t EXCEPT !.behind = Less(t.behind)]
  <2>1. tasks'[i] = r
    BY DEF RunQueue
  <2>2. r.ws = t.ws /\ r.got = t.got /\ r.read = t.read
    BY <1>0 DEF TaskState
  <2>3. FitsCall(t, m, P)
    BY <1>0 DEF Fits
  <2> HIDE DEF r
  <2> QED BY <2>1, <2>2, <2>3, SameCallFits
<1>9. FitsAccount(account, madeFor, m, P)
  BY <1>0 DEF Fits
<1>10. /\ FitsPanel(panel', madeFor', m, P) /\ FitsFiles(files', madeFor', m, P)
       /\ FitsAccount(account', madeFor', m, P)
  BY <1>0, <1>4, <1>7, <1>9
<1> QED BY <1>8, <1>10 DEF Fits

LEMMA CallFacts ==
  ASSUME NEW m, NEW P, Fitting(m, P), NEW i \in TaskIds
  PROVE  LET t == tasks[i] IN
         /\ t \in TaskState /\ FitsCall(t, m, P) /\ t.ws \in Workspaces
         /\ t.got \in SUBSET Items /\ t.read \in SUBSET Items
         /\ t.pc \in Opening => t.thread \in Threads /\ madeFor[t.thread] = t.ws
         /\ t.pc \in Reads \cup {"setIndex"} => t.remote \in Threads /\ madeFor[t.remote] = t.ws
         /\ t.pc \in Reads => t.local \in Threads /\ madeFor[t.local] = t.ws
         /\ FitsFiles(files, madeFor, m, P) /\ FitsAccount(account, madeFor, m, P)
<1> DEFINE t == tasks[i]
<1>1. t \in TaskState /\ TaskOK(t, madeFor, account, index) /\ NoThread \notin Threads
  BY FittingIs
<1>2. /\ FitsCall(t, m, P) /\ FitsFiles(files, madeFor, m, P) /\ FitsAccount(account, madeFor, m, P)
  BY DEF Fitting, Fits
<1> HIDE DEF t
<1>3. /\ t.ws \in Workspaces /\ t.got \in SUBSET Items /\ t.read \in SUBSET Items
      /\ t.remote \in Threads \cup {NoThread} /\ t.local \in Threads \cup {NoThread}
  BY <1>1 DEF TaskState
<1>4. /\ t.pc \in Opening => t.thread \in Threads /\ madeFor[t.thread] = t.ws
      /\ t.pc \in Reads \cup {"setIndex"} => t.remote \in Threads /\ madeFor[t.remote] = t.ws
      /\ t.pc \in Reads => t.local \in Threads /\ madeFor[t.local] = t.ws
  BY <1>1, <1>3 DEF TaskOK, Adopting
<1> QED BY <1>1, <1>2, <1>3, <1>4 DEF t

LEMMA NotAdoptedFits ==
  ASSUME NEW m, NEW P, Fitting(m, P), NEW i \in TaskIds, NotAdopted(i),
         UNCHANGED <<madeFor, files, account, panel>>
  PROVE  Fits(m, P)'
<1>1. Become(i, [NoTask EXCEPT !.pc = "dump"]) \/ Become(i, NoTask)
  BY DEF NotAdopted
<1> QED BY <1>1, NoTaskFits, OnlyCallFits

LEMMA FetchThreadFits ==
  ASSUME NEW m, NEW P, Fitting(m, P), NEW i \in TaskIds, FetchThread(i)
  PROVE  Fits(m, P)'
<1> DEFINE t == tasks[i]
           f == [t EXCEPT !.pc = "fold", !.got = account[t.thread].items,
                          !.wait = Settled(panel, t.thread)]
           n == [t EXCEPT !.pc = "list", !.local = index[t.ws]]
<1>0. UNCHANGED <<madeFor, files, account, panel>>
  BY DEF FetchThread, indexVars
<1>1. /\ t \in TaskState /\ FitsCall(t, m, P) /\ t.thread \in Threads /\ madeFor[t.thread] = t.ws
      /\ FitsAccount(account, madeFor, m, P)
  BY CallFacts DEF FetchThread, At, Opening
<1>2. Become(i, f) \/ Become(i, n) \/ Become(i, NoTask)
  BY DEF FetchThread, End
<1>3. /\ f.ws = t.ws /\ f.read = t.read /\ f.got = account[t.thread].items
      /\ n.ws = t.ws /\ n.read = t.read /\ n.got = t.got
  BY <1>1 DEF TaskState
<1> HIDE DEF f, n, t
<1>4. FitsCall(f, m, P) /\ FitsCall(n, m, P)
  BY <1>1, <1>3, SameCallFits DEF FitsAccount
<1> QED BY <1>0, <1>2, <1>4, NoTaskFits, OnlyCallFits

LEMMA FoldInFits ==
  ASSUME NEW m, NEW P, Fitting(m, P), NEW i \in TaskIds, FoldIn(i)
  PROVE  Fits(m, P)'
<1> DEFINE t == tasks[i]
           a == [t EXCEPT !.pc = "settle", !.behind = Len(panel.queue)]
           b == [t EXCEPT !.pc = "storeRead"]
<1>0. UNCHANGED <<madeFor, files, account>> /\ t.pc \in {"fold", "foldAgain", "foldLast"}
  BY DEF FoldIn, indexVars
<1>1. /\ t \in TaskState /\ FitsCall(t, m, P) /\ t.thread \in Threads /\ madeFor[t.thread] = t.ws
      /\ t.got \in SUBSET Items
  BY <1>0, CallFacts DEF Opening
<1>2. \/ panel.thread = t.thread /\ panel' = foldIn(panel, t.got) /\ Become(i, NoTask)
      \/ UNCHANGED panel /\ (Become(i, a) \/ Become(i, b) \/ Become(i, NoTask))
  <2>1. CASE panel.thread = t.thread
    BY <2>1 DEF FoldIn, End
  <2>2. CASE panel.thread # t.thread
    <3>1. /\ UNCHANGED panel
          /\ CASE t.pc = "fold" -> Become(i, a)
               [] t.pc = "foldAgain" -> Become(i, b)
               [] OTHER -> End(i)
      BY <2>2 DEF FoldIn
    <3>2. CASE t.pc = "fold"
      BY <3>1, <3>2
    <3>3. CASE t.pc = "foldAgain"
      BY <3>1, <3>3
    <3>4. CASE t.pc = "foldLast"
      BY <3>1, <3>4 DEF End
    <3> QED BY <1>0, <3>2, <3>3, <3>4
  <2> QED BY <2>1, <2>2
<1>3. /\ a.ws = t.ws /\ a.read = t.read /\ a.got = t.got
      /\ b.ws = t.ws /\ b.read = t.read /\ b.got = t.got
  BY <1>1 DEF TaskState
<1> HIDE DEF a, b, t
<1>4. CASE UNCHANGED panel /\ (Become(i, a) \/ Become(i, b) \/ Become(i, NoTask))
  <2>1. FitsCall(a, m, P) /\ FitsCall(b, m, P)
    BY <1>1, <1>3, SameCallFits
  <2> QED BY <1>0, <1>4, <2>1, NoTaskFits, OnlyCallFits
<1>5. CASE panel.thread = t.thread /\ panel' = foldIn(panel, t.got) /\ Become(i, NoTask)
  <2>1. /\ panel \in PanelState /\ LoadsOK(panel) /\ ChatPanelAssumption /\ Fits(m, P)
        /\ tasks \in [TaskIds -> TaskState] /\ NoThread \notin Threads
    BY FittingIs DEF Fitting, ChatInv, PlaceInv, PlaceType
  <2>2. m \in t.got => WorkspaceIn(panel, madeFor) \in P
    BY <1>1, <1>5, <2>1 DEF FitsCall, WorkspaceIn
  <2>3. FitsPanel(panel', madeFor, m, P)
    BY <1>1, <1>5, <2>1, <2>2, FoldFits DEF Fits
  <2>4. \A j \in TaskIds : FitsCall(tasks'[j], m, P)
    BY <1>5, <2>1, NoTaskFits, CallFits
  <2> QED BY <1>0, <2>1, <2>3, <2>4, OnlyPanelFits
<1> QED BY <1>2, <1>4, <1>5

\* Calls that go on with what they have, or with what a file holds
LEMMA ReadingFits ==
  ASSUME NEW m, NEW P, Fitting(m, P), NEW i \in TaskIds,
         Persisted(i) \/ StoreRead(i) \/ ListThreads(i) \/ ReadLocal(i) \/ ReadRemote(i)
  PROVE  Fits(m, P)'
<1> DEFINE t == tasks[i]
           a == [t EXCEPT !.pc = "foldAgain", !.wait = Settled(panel, t.thread)]
           b == [t EXCEPT !.pc = "storeWrite", !.read = files[t.thread]]
           c == [t EXCEPT !.pc = "foldLast", !.wait = Settled(panel, t.thread)]
           d(x) == [t EXCEPT !.pc = IF t.local = NoThread THEN "setIndex" ELSE "readLocal",
                             !.remote = x]
           e == [t EXCEPT !.pc = IF files[t.local] = {} THEN "setIndex" ELSE "readRemote",
                          !.read = files[t.local]]
           g == [t EXCEPT !.pc = "writeRemote", !.got = files[t.remote]]
<1>0. UNCHANGED <<madeFor, files, account, panel>>
  BY DEF Persisted, StoreRead, ListThreads, ReadLocal, ReadRemote, indexVars
<1>1. t \in TaskState /\ FitsCall(t, m, P) /\ FitsFiles(files, madeFor, m, P)
  BY CallFacts
<1>2. CASE NotAdopted(i)
  BY <1>0, <1>2, NotAdoptedFits
<1>3. CASE Persisted(i)
  <2>1. Become(i, a) /\ a.ws = t.ws /\ a.read = t.read /\ a.got = t.got
    BY <1>1, <1>3 DEF Persisted, TaskState
  <2> HIDE DEF a, t
  <2> QED BY <1>0, <1>1, <2>1, SameCallFits, OnlyCallFits
<1>4. CASE StoreRead(i)
  <2>1. Become(i, b) \/ Become(i, c)
    BY <1>4 DEF StoreRead
  <2>2. /\ b.ws = t.ws /\ b.got = t.got /\ b.read = files[t.thread]
        /\ c.ws = t.ws /\ c.got = t.got /\ c.read = t.read
    BY <1>1 DEF TaskState
  <2>3. t.thread \in Threads /\ madeFor[t.thread] = t.ws
    BY <1>4, CallFacts DEF StoreRead, At, Opening
  <2> HIDE DEF b, c, t
  <2>4. FitsCall(b, m, P) /\ FitsCall(c, m, P)
    BY <1>1, <2>2, <2>3, SameCallFits DEF FitsFiles
  <2> QED BY <1>0, <2>1, <2>4, OnlyCallFits
<1>5. CASE ListThreads(i) /\ ~NotAdopted(i)
  <2>1. PICK x \in Threads : Become(i, d(x))
    BY <1>5 DEF ListThreads
  <2>2. d(x).ws = t.ws /\ d(x).got = t.got /\ d(x).read = t.read
    BY <1>1 DEF TaskState
  <2> HIDE DEF d, t
  <2> QED BY <1>0, <1>1, <2>1, <2>2, SameCallFits, OnlyCallFits
<1>6. CASE ReadLocal(i) /\ ~NotAdopted(i)
  <2>1. Become(i, e)
    BY <1>6 DEF ReadLocal
  <2>2. e.ws = t.ws /\ e.got = t.got /\ e.read = files[t.local]
    BY <1>1 DEF TaskState
  <2>3. t.local \in Threads /\ madeFor[t.local] = t.ws
    BY <1>6, CallFacts DEF ReadLocal, At, Reads
  <2> HIDE DEF e, t
  <2>4. FitsCall(e, m, P)
    BY <1>1, <2>2, <2>3, SameCallFits DEF FitsFiles
  <2> QED BY <1>0, <2>1, <2>4, OnlyCallFits
<1>7. CASE ReadRemote(i) /\ ~NotAdopted(i)
  <2>1. Become(i, g)
    BY <1>7 DEF ReadRemote
  <2>2. g.ws = t.ws /\ g.got = files[t.remote] /\ g.read = t.read
    BY <1>1 DEF TaskState
  <2>3. t.remote \in Threads /\ madeFor[t.remote] = t.ws
    BY <1>7, CallFacts DEF ReadRemote, At, Reads
  <2> HIDE DEF g, t
  <2>4. FitsCall(g, m, P)
    BY <1>1, <2>2, <2>3, SameCallFits DEF FitsFiles
  <2> QED BY <1>0, <2>1, <2>4, OnlyCallFits
<1> QED BY <1>2, <1>3, <1>4, <1>5, <1>6, <1>7

\* Files and the account change, and the panel keeps what FitsPanel is about
LEMMA StorageFits ==
  ASSUME NEW m, NEW P, Fits(m, P), UNCHANGED madeFor,
         panel'.thread = panel.thread, panel'.items = panel.items,
         panel'.loads = panel.loads, panel'.queue = panel.queue,
         \A t \in Threads : m \in files'[t] => m \in files[t] \/ madeFor[t] \in P,
         \A t \in Threads : m \in account'[t].items => m \in account[t].items \/ madeFor[t] \in P,
         \A j \in TaskIds : FitsCall(tasks'[j], m, P)
  PROVE  Fits(m, P)'
<1>1. /\ FitsPanel(panel', madeFor, m, P) /\ FitsFiles(files', madeFor, m, P)
      /\ FitsAccount(account', madeFor, m, P)
  BY DEF Fits, FitsPanel, WorkspaceIn, FitsFiles, FitsAccount
<1>2. /\ FitsPanel(panel', madeFor', m, P) /\ FitsFiles(files', madeFor', m, P)
      /\ FitsAccount(account', madeFor', m, P)
  BY <1>1
<1> QED BY <1>2 DEF Fits

LEMMA OverwriteFits ==
  ASSUME NEW m, NEW P, Fitting(m, P), NEW i \in TaskIds, NEW t \in Threads, NEW r,
         Overwrite(t, tasks[i].got \cup tasks[i].read), madeFor[t] = tasks[i].ws,
         Become(i, r), FitsCall(r, m, P), UNCHANGED <<madeFor, account, panel>>
  PROVE  Fits(m, P)'
<1>1. /\ FitsCall(tasks[i], m, P) /\ Fits(m, P) /\ files \in [Threads -> SUBSET Items]
      /\ tasks \in [TaskIds -> TaskState]
  BY DEF Fitting, Fits, ChatInv, PlaceInv, PlaceType
<1>2. \A j \in TaskIds : FitsCall(tasks'[j], m, P)
  BY <1>1, CallFits
<1>3. files' = [files EXCEPT ![t] = tasks[i].got \cup tasks[i].read]
  BY DEF Overwrite
<1>4. \A c \in Threads : m \in files'[c] => m \in files[c] \/ madeFor[c] \in P
  BY <1>1, <1>3 DEF FitsCall
<1> QED BY <1>1, <1>2, <1>4, StorageFits

LEMMA WritingFits ==
  ASSUME NEW m, NEW P, Fitting(m, P), NEW i \in TaskIds, StoreWrite(i) \/ WriteRemote(i)
  PROVE  Fits(m, P)'
<1> DEFINE t == tasks[i]
           a == [t EXCEPT !.pc = "foldLast", !.wait = Settled(panel, t.thread)]
           b == [t EXCEPT !.pc = "setIndex"]
<1>0. UNCHANGED <<madeFor, account, panel>>
  BY DEF StoreWrite, WriteRemote, indexVars
<1>1. t \in TaskState /\ FitsCall(t, m, P)
  BY CallFacts
<1>2. /\ a.ws = t.ws /\ a.got = t.got /\ a.read = t.read
      /\ b.ws = t.ws /\ b.got = t.got /\ b.read = t.read
  BY <1>1 DEF TaskState
<1>3. \/ /\ Overwrite(t.thread, t.got \cup t.read) /\ Become(i, a)
         /\ t.thread \in Threads /\ madeFor[t.thread] = t.ws
      \/ /\ Overwrite(t.remote, t.got \cup t.read) /\ Become(i, b)
         /\ t.remote \in Threads /\ madeFor[t.remote] = t.ws
  <2>1. CASE StoreWrite(i)
    BY <2>1, CallFacts DEF StoreWrite, At, Opening
  <2>2. CASE WriteRemote(i)
    BY <2>2, CallFacts DEF WriteRemote, At, Reads
  <2> QED BY <2>1, <2>2
<1> HIDE DEF a, b
<1>4. FitsCall(a, m, P) /\ FitsCall(b, m, P)
  BY <1>1, <1>2, SameCallFits
<1> QED BY <1>0, <1>3, <1>4, OverwriteFits

LEMMA AdoptedFits ==
  ASSUME NEW m, NEW P, Fitting(m, P), NEW i \in TaskIds, Adopted(i, tasks[i])
  PROVE  \E r : Become(i, r) /\ FitsCall(r, m, P)
<1> DEFINE t == tasks[i]
           a == [t EXCEPT !.pc = "repoint", !.wait = Settled(panel, t.thread)]
<1>1. t \in TaskState /\ FitsCall(t, m, P)
  BY CallFacts
<1>2. a.ws = t.ws /\ a.got = t.got /\ a.read = t.read
  BY <1>1 DEF TaskState
<1>3. Become(i, [NoTask EXCEPT !.pc = "dump"]) \/ Become(i, a)
  BY DEF Adopted
<1> HIDE DEF a, t
<1>4. FitsCall(a, m, P)
  BY <1>1, <1>2, SameCallFits
<1> QED BY <1>3, <1>4, NoTaskFits

LEMMA SetIndexFits ==
  ASSUME NEW m, NEW P, Fitting(m, P), NEW i \in TaskIds, SetIndex(i)
  PROVE  Fits(m, P)'
<1> DEFINE t == tasks[i]
           a == [t EXCEPT !.pc = "removeLocal"]
<1>0. UNCHANGED <<madeFor, files, account, panel>>
  BY DEF SetIndex
<1>1. t \in TaskState /\ FitsCall(t, m, P)
  BY CallFacts
<1>2. a.ws = t.ws /\ a.got = t.got /\ a.read = t.read
  BY <1>1 DEF TaskState
<1>3. Adopted(i, t) \/ Become(i, a)
  BY DEF SetIndex
<1> HIDE DEF a
<1>4. FitsCall(a, m, P)
  BY <1>1, <1>2, SameCallFits
<1>5. \E r : Become(i, r) /\ FitsCall(r, m, P)
  BY <1>3, <1>4, AdoptedFits
<1> QED BY <1>0, <1>5, OnlyCallFits

\* Steps that only take from the files
LEMMA RemovingFits ==
  ASSUME NEW m, NEW P, Fitting(m, P), NEW i \in TaskIds, RemoveLocal(i) \/ ForgetFile(i)
  PROVE  Fits(m, P)'
<1> DEFINE t == tasks[i]
           a == [t EXCEPT !.pc = "index"]
           b == [t EXCEPT !.pc = "forgetEntry"]
<1>0. /\ t \in TaskState /\ FitsCall(t, m, P) /\ Fits(m, P) /\ panel \in PanelState
      /\ files \in [Threads -> SUBSET Items] /\ tasks \in [TaskIds -> TaskState]
  BY CallFacts, FittingIs DEF Fitting, ChatInv, PlaceInv, PlaceType
<1>1. /\ UNCHANGED <<madeFor, account>>
      /\ files' = files \/ \E c : files' = [files EXCEPT ![c] = {}]
  BY DEF RemoveLocal, ForgetFile, indexVars
<1>2. \A c \in Threads : m \in files'[c] => m \in files[c]
  BY <1>0, <1>1
<1>3. /\ panel'.thread = panel.thread /\ panel'.items = panel.items
      /\ panel'.loads = panel.loads /\ panel'.queue = panel.queue
  <2>1. panel' = panel \/ \E x : panel' = [panel EXCEPT !.givenUp = x]
    BY DEF RemoveLocal, ForgetFile
  <2> QED BY <1>0, <2>1 DEF PanelState
<1>4. /\ a.ws = t.ws /\ a.got = t.got /\ a.read = t.read
      /\ b.ws = t.ws /\ b.got = t.got /\ b.read = t.read
  BY <1>0 DEF TaskState
<1>5. Adopted(i, t) \/ Become(i, a) \/ Become(i, b) \/ Become(i, NoTask)
  BY DEF RemoveLocal, ForgetFile, Forgotten, End
<1> HIDE DEF a, b
<1>6. FitsCall(a, m, P) /\ FitsCall(b, m, P)
  BY <1>0, <1>4, SameCallFits
<1>7. \E r : Become(i, r) /\ FitsCall(r, m, P)
  BY <1>5, <1>6, AdoptedFits, NoTaskFits
<1>8. \A j \in TaskIds : FitsCall(tasks'[j], m, P)
  BY <1>0, <1>7, CallFits
<1> QED BY <1>0, <1>1, <1>2, <1>3, <1>8, StorageFits

LEMMA ForgetEntryFits ==
  ASSUME NEW m, NEW P, Fitting(m, P), NEW i \in TaskIds, ForgetEntry(i)
  PROVE  Fits(m, P)'
<1> DEFINE t == tasks[i]
           a == [t EXCEPT !.pc = "index"]
<1>0. t \in TaskState /\ FitsCall(t, m, P)
  BY CallFacts
<1>1. UNCHANGED <<madeFor, files, account, panel>> /\ (Become(i, a) \/ Become(i, NoTask))
  BY DEF ForgetEntry, Forgotten, End
<1>2. a.ws = t.ws /\ a.got = t.got /\ a.read = t.read
  BY <1>0 DEF TaskState
<1> HIDE DEF a
<1>3. FitsCall(a, m, P)
  BY <1>0, <1>2, SameCallFits
<1> QED BY <1>1, <1>3, NoTaskFits, OnlyCallFits

LEMMA RepointThreadFits ==
  ASSUME NEW m, NEW P, Fitting(m, P), NEW i \in TaskIds, RepointThread(i)
  PROVE  Fits(m, P)'
<1> DEFINE t == tasks[i]
           a == [t EXCEPT !.pc = "moving", !.wait = panel.seq + 1]
<1>0. /\ t \in TaskState /\ FitsCall(t, m, P) /\ t.pc = "repoint"
      /\ t.thread \in Threads /\ madeFor[t.thread] = t.ws
      /\ UNCHANGED <<madeFor, files, account>>
  BY CallFacts DEF RepointThread, At, Opening, indexVars
<1>1. /\ panel \in PanelState /\ LoadsOK(panel) /\ ChatPanelAssumption /\ Fits(m, P)
      /\ tasks \in [TaskIds -> TaskState] /\ NoThread \notin Threads
      /\ TaskOK(t, madeFor, account, index)
  BY FittingIs DEF Fitting, ChatInv, PlaceInv, PlaceType
<1>2. t.remote \in Threads /\ madeFor[t.remote] = t.ws
  BY <1>0, <1>1 DEF TaskOK, TaskState, Adopting
<1>3. a.ws = t.ws /\ a.got = t.got /\ a.read = t.read
  BY <1>0 DEF TaskState
<1>4. \/ Become(i, NoTask) /\ UNCHANGED panel
      \/ /\ panel.thread = t.thread /\ panel' = repoint(panel, t.remote) /\ Become(i, a)
  BY DEF RepointThread, End
<1> HIDE DEF a, t
<1>5. CASE Become(i, NoTask) /\ UNCHANGED panel
  BY <1>0, <1>5, NoTaskFits, OnlyCallFits
<1>6. CASE panel.thread = t.thread /\ panel' = repoint(panel, t.remote) /\ Become(i, a)
  <2>1. FitsPanel(panel', madeFor, m, P)
    BY <1>0, <1>1, <1>2, <1>6, RepointFits DEF Fits
  <2>2. FitsCall(a, m, P)
    BY <1>0, <1>3, SameCallFits
  <2>3. \A j \in TaskIds : FitsCall(tasks'[j], m, P)
    BY <1>1, <1>6, <2>2, CallFits
  <2> QED BY <1>0, <1>1, <2>1, <2>3, OnlyPanelFits
<1> QED BY <1>4, <1>5, <1>6

\* What is pushed is what a file holds
LEMMA PushedFits ==
  ASSUME NEW m, NEW P, Fitting(m, P), NEW refused, Pushed(refused)
  PROVE  \A t \in Threads : m \in account'[t].items => m \in account[t].items \/ madeFor[t] \in P
<1>1. FitsFiles(files, madeFor, m, P)
  BY DEF Fitting, Fits
<1> DEFINE row(t) == [state |-> "live", items |-> account[t].items \cup files[t]]
<1>2. \A t \in Threads : account'[t] = row(t) \/ account'[t] = account[t]
  BY DEF Pushed
<1>3. \A t \in Threads : row(t).items = account[t].items \cup files[t]
  OBVIOUS
<1> HIDE DEF row
<1> QED BY <1>1, <1>2, <1>3 DEF FitsFiles

LEMMA PushThreadFits ==
  ASSUME NEW m, NEW P, Fitting(m, P), NEW i \in TaskIds, PushThread(i)
  PROVE  Fits(m, P)'
<1> DEFINE t == tasks[i].thread
<1>0. /\ panel \in PanelState /\ LoadsOK(panel) /\ ChatPanelAssumption /\ Fits(m, P)
      /\ tasks \in [TaskIds -> TaskState]
      /\ account \in [Threads -> [state : {None, "live", "deleted"}, items : SUBSET Items]]
      /\ UNCHANGED <<madeFor, files>> /\ t \in Threads
  BY FittingIs DEF Fitting, ChatInv, PlaceInv, PlaceType, PushThread, indexVars, At, TaskOK
<1>1. CASE Become(i, NoTask) /\ UNCHANGED <<account, panel>>
  BY <1>0, <1>1, NoTaskFits, OnlyCallFits
<1>2. CASE Stored(t) /\ Become(i, NoTask) /\ UNCHANGED panel
  <2> DEFINE row == [state |-> "live", items |-> account[t].items \cup files[t]]
  <2>1. account' = [account EXCEPT ![t] = row]
    BY <1>2 DEF Stored
  <2>2. row.items = account[t].items \cup files[t]
    OBVIOUS
  <2> HIDE DEF row
  <2>3. \A c \in Threads : m \in account'[c].items => m \in account[c].items \/ madeFor[c] \in P
    BY <1>0, <2>1, <2>2 DEF Fits, FitsFiles
  <2>4. \A j \in TaskIds : FitsCall(tasks'[j], m, P)
    BY <1>0, <1>2, NoTaskFits, CallFits
  <2> QED BY <1>0, <1>2, <2>3, <2>4, StorageFits
<1>3. CASE \E w, b, a : /\ panel' = closeThread(panel) \/ panel' = panel
                        /\ Become(i, [NoTask EXCEPT !.pc = "forgetFile", !.ws = w, !.behind = b,
                                                    !.after = a])
                        /\ UNCHANGED account
  <2>1. PICK w, b, a : /\ panel' = closeThread(panel) \/ panel' = panel
                       /\ Become(i, [NoTask EXCEPT !.pc = "forgetFile", !.ws = w, !.behind = b,
                                                   !.after = a])
                       /\ UNCHANGED account
    BY <1>3
  <2>2. FitsPanel(panel', madeFor, m, P)
    BY <1>0, <2>1, CloseFits DEF Fits
  <2> DEFINE r == [NoTask EXCEPT !.pc = "forgetFile", !.ws = w, !.behind = b, !.after = a]
  <2>3. FitsCall(r, m, P)
    BY DEF FitsCall, NoTask
  <2> HIDE DEF r
  <2>4. \A j \in TaskIds : FitsCall(tasks'[j], m, P)
    BY <1>0, <2>1, <2>3, CallFits DEF r
  <2> QED BY <1>0, <2>1, <2>2, <2>4, OnlyPanelFits
<1>4. CASE /\ account[t].state = "deleted" /\ UNCHANGED account
           /\ \E w \in WorkspaceOf(t) :
             LET showing == panel.thread = t /\ current = w IN
             /\ panel' = IF showing THEN closeThread(panel) ELSE panel
             /\ Become(i, [NoTask EXCEPT !.pc = "forgetFile", !.ws = w,
                                       !.behind = Len(panel.queue),
                                       !.after = IF showing THEN "replace" ELSE None])
  BY <1>3, <1>4
<1> QED BY <1>1, <1>2, <1>4 DEF PushThread, End

LEMMA DeletedElsewhereFits ==
  ASSUME NEW m, NEW P, Fitting(m, P), NEW t \in Threads, DeletedElsewhere(t)
  PROVE  Fits(m, P)'
<1>0. /\ panel \in PanelState /\ Broad(P) /\ Fits(m, P) /\ m \notin Theirs
      /\ madeFor \in [Threads -> Workspaces \cup {None}]
      /\ account \in [Threads -> [state : {None, "live", "deleted"}, items : SUBSET Items]]
      /\ UNCHANGED <<files, tasks>>
  BY FittingIs DEF Fitting, DeletedElsewhere
<1>1. /\ panel'.thread = panel.thread /\ panel'.items = panel.items
      /\ panel'.loads = panel.loads /\ panel'.queue = panel.queue /\ panel' \in PanelState
  <2>1. panel' = [panel EXCEPT !.givenUp = @ \cup account[t].items]
    BY DEF DeletedElsewhere
  <2>2. account[t].items \in SUBSET Items
    BY <1>0
  <2> QED BY <1>0, <2>1, <2>2 DEF PanelState
<1> DEFINE new == [state |-> "live", items |-> Theirs]
<1>2. new.items = Theirs /\ Closed.items = {}
  BY DEF Closed
<1>3. \/ account' = [account EXCEPT ![t] = Closed] /\ UNCHANGED madeFor
      \/ \E c \in Threads : /\ madeFor[c] = None
                            /\ madeFor' = [madeFor EXCEPT ![c] = madeFor[t]]
                            /\ account' = [account EXCEPT ![t] = Closed, ![c] = new]
  BY DEF DeletedElsewhere
<1> HIDE DEF new
<1>4. /\ madeFor' \in [Threads -> Workspaces \cup {None}]
      /\ \A c \in Threads : madeFor[c] # None => madeFor'[c] = madeFor[c]
  BY <1>0, <1>3
<1>5. \A c \in Threads : account'[c] = account[c] \/ account'[c] = Closed \/ account'[c] = new
  BY <1>0, <1>3
<1>6. \A c \in Threads : m \in account'[c].items => m \in account[c].items
  BY <1>0, <1>2, <1>5
<1>7. FitsPanel(panel', madeFor, m, P) /\ FitsAccount(account', madeFor, m, P)
  BY <1>0, <1>1, <1>6 DEF Fits, FitsPanel, WorkspaceIn, FitsAccount
<1>8. FitsFiles(files', madeFor, m, P) /\ \A j \in TaskIds : FitsCall(tasks'[j], m, P)
  BY <1>0 DEF Fits
<1>9. /\ FitsPanel(panel', madeFor', m, P) /\ FitsFiles(files', madeFor', m, P)
      /\ FitsAccount(account', madeFor', m, P)
  BY <1>0, <1>1, <1>4, <1>7, <1>8, FitsLater
<1> QED BY <1>8, <1>9 DEF Fits

\* The end of a turn, and a sign-in
LEMMA BeginningsFit ==
  ASSUME NEW m, NEW P, Fitting(m, P)
  PROVE  FlushOpen \/ SignIn => Fits(m, P)'
<1>1. ASSUME FlushOpen PROVE Fits(m, P)'
  <2>1. PICK i \in TaskIds : Become(i, PushTask(panel.thread))
    BY <1>1 DEF FlushOpen
  <2>2. UNCHANGED <<madeFor, files, account, panel>>
    BY <1>1 DEF FlushOpen, indexVars
  <2>3. FitsCall(PushTask(panel.thread), m, P)
    BY DEF PushTask, FitsCall, NoTask
  <2> QED BY <2>1, <2>2, <2>3, OnlyCallFits
<1>2. ASSUME SignIn PROVE Fits(m, P)'
  <2> DEFINE r == [NoTask EXCEPT !.pc = IF index[Shared] = NoThread THEN "dump" ELSE "list",
                                 !.local = index[Shared], !.after = "signIn"]
  <2>1. PICK i \in TaskIds : Become(i, r)
    BY <1>2 DEF SignIn
  <2>2. UNCHANGED <<madeFor, files, account, panel>>
    BY <1>2 DEF SignIn
  <2>3. FitsCall(r, m, P)
    BY DEF FitsCall, NoTask
  <2> HIDE DEF r
  <2> QED BY <2>1, <2>2, <2>3, OnlyCallFits
<1> QED BY <1>1, <1>2

LEMMA DumpFits ==
  ASSUME NEW m, NEW P, Fitting(m, P), NEW i \in TaskIds, Dump(i)
  PROVE  Fits(m, P)'
<1>0. /\ UNCHANGED <<madeFor, files, panel>> /\ Fits(m, P)
      /\ Become(i, [NoTask EXCEPT !.pc = "reopen"]) /\ tasks \in [TaskIds -> TaskState]
  BY DEF Dump, indexVars, Fitting, ChatInv, PlaceInv, PlaceType
<1>1. \A j \in TaskIds : FitsCall(tasks'[j], m, P)
  BY <1>0, NoTaskFits, CallFits
<1>2. (\E refused : Pushed(refused)) \/ UNCHANGED account
  BY DEF Dump
<1>3. \A t \in Threads : m \in account'[t].items => m \in account[t].items \/ madeFor[t] \in P
  BY <1>2, PushedFits
<1> QED BY <1>0, <1>1, <1>3, StorageFits

LEMMA LeavingFits ==
  ASSUME NEW m, NEW P, Fitting(m, P)
  PROVE  SignOut \/ HandOver \/ CheckUnchanged \/ ForgetThreads \/ EndSession => Fits(m, P)'
<1>0. /\ panel \in PanelState /\ LoadsOK(panel) /\ ChatPanelAssumption /\ Fits(m, P)
      /\ files \in [Threads -> SUBSET Items]
  BY FittingIs DEF Fitting
<1>1. ASSUME SignOut \/ CheckUnchanged PROVE Fits(m, P)'
  <2>1. UNCHANGED <<madeFor, files, account, panel, tasks>>
    BY <1>1 DEF SignOut, CheckUnchanged, indexVars
  <2>2. \A j \in TaskIds : FitsCall(tasks'[j], m, P)
    BY <1>0, <2>1 DEF Fits
  <2> QED BY <1>0, <2>1, <2>2, StorageFits
<1>2. ASSUME HandOver PROVE Fits(m, P)'
  <2>1. UNCHANGED <<madeFor, files, panel, tasks>> /\ \E refused : Pushed(refused)
    BY <1>2 DEF HandOver, indexVars
  <2>2. \A j \in TaskIds : FitsCall(tasks'[j], m, P)
    BY <1>0, <2>1 DEF Fits
  <2> QED BY <1>0, <2>1, <2>2, PushedFits, StorageFits
<1>3. ASSUME ForgetThreads PROVE Fits(m, P)'
  <2>1. UNCHANGED <<madeFor, account, tasks>> /\ \E x : panel' = [panel EXCEPT !.givenUp = x]
    BY <1>3 DEF ForgetThreads
  <2>2. \A t \in Threads : files'[t] = {} \/ files'[t] = files[t]
    BY <1>3 DEF ForgetThreads
  <2>3. /\ panel'.thread = panel.thread /\ panel'.items = panel.items
        /\ panel'.loads = panel.loads /\ panel'.queue = panel.queue
    BY <1>0, <2>1 DEF PanelState
  <2>4. \A j \in TaskIds : FitsCall(tasks'[j], m, P)
    BY <1>0, <2>1 DEF Fits
  <2>5. \A t \in Threads : m \in files'[t] => m \in files[t] \/ madeFor[t] \in P
    BY <2>2
  <2> QED BY <1>0, <2>1, <2>3, <2>4, <2>5, StorageFits
<1>4. ASSUME EndSession PROVE Fits(m, P)'
  <2>1. UNCHANGED <<madeFor, files, account, tasks>> /\ (panel' = teardown(panel) \/ UNCHANGED panel)
    BY <1>4 DEF EndSession, indexVars
  <2> DEFINE c == closeThread(panel)
             r == [c EXCEPT !.items = {}, !.givenUp = @ \cup c.items]
  <2>2. c \in PanelState /\ FitsPanel(c, madeFor, m, P)
    BY <1>0, CloseFits, CloseThreadKeeps DEF Fits, Fitting, ChatInv, PanelInv
  <2>3. teardown(panel) = r
    BY DEF teardown
  <2> HIDE DEF c
  <2>4. r.items = {} /\ r.loads = c.loads /\ r.queue = c.queue
    BY <2>2 DEF PanelState
  <2> HIDE DEF r
  <2>5. FitsPanel(r, madeFor, m, P)
    BY <2>2, <2>4 DEF FitsPanel
  <2>6. FitsPanel(panel', madeFor, m, P)
    BY <1>0, <2>1, <2>3, <2>5 DEF Fits
  <2>7. \A j \in TaskIds : FitsCall(tasks'[j], m, P)
    BY <1>0, <2>1 DEF Fits
  <2> QED BY <1>0, <2>1, <2>6, <2>7, OnlyPanelFits
<1> QED BY <1>1, <1>2, <1>3, <1>4

LEMMA AddMessageFits ==
  ASSUME NEW m, NEW P, ChatPanelAssumption, ChatInv, Fits(m, P), NEW x \in Messages, AddMessage(x),
         m = x => WorkspaceIn(panel, madeFor) \in P
  PROVE  Fits(m, P)'
<1> DEFINE u == [panel EXCEPT !.items = @ \cup {x}]
<1>0. /\ panel \in PanelState /\ UNCHANGED <<madeFor, files, account, tasks>>
      /\ {x} \in SUBSET Items /\ panel' = Persist(u)
  BY DEF ChatInv, PlaceInv, PlaceType, AddMessage, indexVars, Items
<1>1. /\ u \in PanelState /\ u.thread = panel.thread /\ u.items = panel.items \cup {x}
      /\ u.loads = panel.loads /\ u.queue = panel.queue
  BY <1>0, GrowIs
<1> HIDE DEF u
<1>2. FitsPanel(u, madeFor, m, P)
  BY <1>1 DEF Fits, FitsPanel, WorkspaceIn
<1>3. FitsPanel(panel', madeFor, m, P)
  BY <1>0, <1>1, <1>2, PersistFits
<1>4. \A j \in TaskIds : FitsCall(tasks'[j], m, P)
  BY <1>0 DEF Fits
<1> QED BY <1>0, <1>3, <1>4, OnlyPanelFits

-----------------------------------------------------------------------------
\* A message may be filed nowhere before it is typed, under one workspace when it
\* was typed with a thread open, and under any when it was not
Allowed(done, place, m) ==
  IF m \notin done THEN {}
  ELSE IF place[m] = None THEN Workspaces \cup {None}
  ELSE {place[m]}

\* Wherever a message is, on screen, in a read, in the queue, in a file, on the
\* account or in a call that is out, is a place of a workspace it may be filed under
FiledInv ==
  \A m \in Messages : \A P \in SUBSET (Workspaces \cup {None}) :
    P = Allowed(typed, home, m) => Fits(m, P)

LEMMA FiledInit ==
  ASSUME ChatPanelAssumption, ChatPanelInit
  PROVE  FiledInv
<1> SUFFICES ASSUME NEW m \in Messages, NEW P PROVE Fits(m, P)
  BY DEF FiledInv
<1>0. m \notin Theirs
  BY DEF ChatPanelAssumption
<1>1. panel.items = {} /\ panel.loads = {} /\ panel.queue = <<>>
  BY DEF ChatPanelInit
<1>2. FitsPanel(panel, madeFor, m, P)
  <2>1. DOMAIN panel.queue = {}
    BY <1>1
  <2> QED BY <1>1, <2>1 DEF FitsPanel, FitsLoads, FitsQueue
<1>3. \A t \in Threads : m \notin account[t].items
  <2>1. account \in [Threads -> {Gone, [state |-> "live", items |-> Theirs]}]
    BY DEF ChatPanelInit
  <2>2. Gone.items = {} /\ [state |-> "live", items |-> Theirs].items = Theirs
    BY DEF Gone
  <2> QED BY <1>0, <2>1, <2>2
<1>4. \A t \in Threads : m \notin files[t]
  BY <1>3 DEF ChatPanelInit
<1>5. ASSUME NEW i \in TaskIds PROVE FitsCall(tasks[i], m, P)
  <2> DEFINE a == [NoTask EXCEPT !.pc = "index", !.ws = current, !.after = "switch"]
  <2>1. tasks[i] = a \/ tasks[i] = NoTask
    BY DEF ChatPanelInit
  <2>2. FitsCall(a, m, P)
    BY DEF FitsCall, NoTask
  <2> HIDE DEF a
  <2> QED BY <2>1, <2>2, NoTaskFits
<1> QED BY <1>2, <1>3, <1>4, <1>5 DEF Fits, FitsFiles, FitsAccount

LEMMA FiledStep ==
  ASSUME ChatPanelAssumption, ChatInv, FiledInv, [ChatPanelNext]_panelVars
  PROVE  FiledInv'
<1> SUFFICES ASSUME NEW m \in Messages, NEW P \in SUBSET (Workspaces \cup {None}),
                    P = Allowed(typed', home', m)
             PROVE  Fits(m, P)'
  BY DEF FiledInv
<1>0. /\ m \notin Theirs /\ None \notin Workspaces
      /\ typed \in SUBSET Messages /\ home \in [Messages -> Workspaces \cup {None}]
      /\ madeFor \in [Threads -> Workspaces \cup {None}] /\ panel \in PanelState
  BY DEF ChatPanelAssumption, None, ChatInv, PlaceInv, PlaceType
<1>1. Broad(P)
  BY <1>0 DEF Allowed, Broad
<1>2. CASE \E x \in Messages : AddMessage(x)
  <2>1. PICK x \in Messages : AddMessage(x)
    BY <1>2
  <2>2. /\ x \notin typed /\ typed' = typed \cup {x}
        /\ home' = [home EXCEPT ![x] = WorkspaceIn(panel, madeFor)]
    BY <2>1 DEF AddMessage, WorkspaceIn
  <2>3. CASE m = x
    <3>1. WorkspaceIn(panel, madeFor) \in P
      BY <1>0, <2>2, <2>3 DEF Allowed
    <3>2. Fits(m, {})
      <4>1. {} = Allowed(typed, home, m) /\ {} \in SUBSET (Workspaces \cup {None})
        BY <2>2, <2>3 DEF Allowed
      <4> QED BY <4>1 DEF FiledInv
    <3>3. Fits(m, P)
      BY <3>2 DEF Fits, FitsPanel, FitsLoads, FitsQueue, FitsFiles, FitsAccount, FitsCall
    <3> QED BY <2>1, <3>1, <3>3, AddMessageFits
  <2>4. CASE m # x
    <3>1. P = Allowed(typed, home, m)
      BY <1>0, <2>2, <2>4 DEF Allowed
    <3> QED BY <2>1, <2>4, <3>1, AddMessageFits DEF FiledInv
  <2> QED BY <2>3, <2>4
<1>3. CASE UNCHANGED <<typed, home>>
  <2>1. P = Allowed(typed, home, m)
    BY <1>3
  <2>2. Fitting(m, P)
    BY <1>0, <1>1, <2>1 DEF FiledInv, Fitting
  <2>3. CASE UNCHANGED panelVars \/ \E w \in Workspaces : SwitchWorkspace(w)
    <3>1. /\ UNCHANGED <<madeFor, files, account, panel, tasks>> /\ Fits(m, P)
      BY <2>2, <2>3 DEF panelVars, indexVars, SwitchWorkspace, Fitting
    <3>2. \A j \in TaskIds : FitsCall(tasks'[j], m, P)
      BY <3>1 DEF Fits
    <3> QED BY <3>1, <3>2, StorageFits
  <2>4. CASE \E i \in TaskIds : Resumes(i) /\ Continue(i)
    BY <2>2, <2>4, OpeningsFit, FoldInFits, ReadingFits, RepointThreadFits DEF Continue
  <2>5. CASE \E x \in Messages : AddMessage(x)
    BY <1>2, <2>5
  <2>6. CASE DidSwitchWorkspace \/ FlushOpen \/ SignIn \/ SignedOut
    BY <2>2, <2>6, OpeningsFit, BeginningsFit
  <2>7. CASE RunQueue \/ \E l \in panel.loads : BeginRead(l) \/ Land(l)
    BY <2>2, <2>7, BeginReadFits, LandingFits, RunQueueFits
  <2>8. CASE \E i \in TaskIds : EnsureThread(i) \/ FetchThread(i) \/ StoreRead(i) \/ StoreWrite(i)
    BY <2>2, <2>8, OpeningsFit, FetchThreadFits, ReadingFits, WritingFits
  <2>9. CASE \E i \in TaskIds : ListThreads(i) \/ ReadLocal(i) \/ ReadRemote(i) \/ WriteRemote(i)
    BY <2>2, <2>9, ReadingFits, WritingFits
  <2>10. CASE \E i \in TaskIds : SetIndex(i) \/ RemoveLocal(i) \/ PushThread(i)
    BY <2>2, <2>10, SetIndexFits, RemovingFits, PushThreadFits
  <2>11. CASE \E i \in TaskIds : ForgetFile(i) \/ ForgetEntry(i) \/ Dump(i) \/ Reopen(i)
    BY <2>2, <2>11, RemovingFits, ForgetEntryFits, DumpFits, OpeningsFit
  <2>12. CASE \E t \in Threads : DeletedElsewhere(t)
    BY <2>2, <2>12, DeletedElsewhereFits
  <2>13. CASE SignOut \/ HandOver \/ EndSession \/ CheckUnchanged \/ ForgetThreads
    BY <2>2, <2>13, LeavingFits
  <2> QED BY <2>3, <2>4, <2>5, <2>6, <2>7, <2>8, <2>9, <2>10, <2>11, <2>12, <2>13
          DEF ChatPanelNext, Event
<1>4. (\E x \in Messages : AddMessage(x)) \/ UNCHANGED <<typed, home>>
  <2>1. CASE UNCHANGED panelVars
    BY <2>1 DEF panelVars, pastVars
  <2>2. CASE \E i \in TaskIds : Resumes(i) /\ Continue(i)
    BY <2>2 DEF Continue, EnsureThread, FoldIn, Persisted, RepointThread, pastVars
  <2>3. CASE \/ \E w \in Workspaces : SwitchWorkspace(w)
             \/ DidSwitchWorkspace \/ FlushOpen \/ RunQueue
             \/ \E l \in panel.loads : BeginRead(l) \/ Land(l)
             \/ \E t \in Threads : DeletedElsewhere(t)
    BY <2>3 DEF SwitchWorkspace, DidSwitchWorkspace, FlushOpen, RunQueue, BeginRead, Land,
                DeletedElsewhere, pastVars
  <2>4. CASE \E i \in TaskIds : EnsureThread(i) \/ FetchThread(i) \/ StoreRead(i) \/ StoreWrite(i)
    BY <2>4 DEF EnsureThread, FetchThread, StoreRead, StoreWrite, pastVars
  <2>5. CASE \E i \in TaskIds : ListThreads(i) \/ ReadLocal(i) \/ ReadRemote(i) \/ WriteRemote(i)
    BY <2>5 DEF ListThreads, ReadLocal, ReadRemote, WriteRemote, pastVars
  <2>6. CASE \E i \in TaskIds : SetIndex(i) \/ RemoveLocal(i) \/ PushThread(i)
    BY <2>6 DEF SetIndex, RemoveLocal, PushThread, pastVars
  <2>7. CASE \E i \in TaskIds : ForgetFile(i) \/ ForgetEntry(i) \/ Dump(i) \/ Reopen(i)
    BY <2>7 DEF ForgetFile, ForgetEntry, Dump, Reopen, pastVars
  <2>8. CASE SignIn \/ SignOut \/ HandOver \/ EndSession \/ CheckUnchanged \/ ForgetThreads \/ SignedOut
    BY <2>8 DEF SignIn, SignOut, HandOver, EndSession, CheckUnchanged, ForgetThreads, SignedOut,
                pastVars
  <2> QED BY <2>1, <2>2, <2>3, <2>4, <2>5, <2>6, <2>7, <2>8 DEF ChatPanelNext, Event
<1> QED BY <1>2, <1>3, <1>4

\* What is typed with a thread open is never filed under another workspace, on
\* this device or on the account, whatever read, move, fold, queued write or push
\* carries it there
THEOREM FiledWhereItWasTyped == ChatPanelSpec => []FiledWhereTyped
<1>1. ChatPanelInit => ChatInv /\ FiledInv
  BY ChatPanelAssumption, ChatInvInit, FiledInit
<1>2. ChatInv /\ FiledInv /\ [ChatPanelNext]_panelVars => (ChatInv /\ FiledInv)'
  BY ChatPanelAssumption, ChatInvStep, FiledStep
<1>3. ChatInv /\ FiledInv => FiledWhereTyped
  <2> SUFFICES ASSUME ChatInv, FiledInv, NEW m \in typed, NEW t \in Threads, home[m] # None,
                      m \in files[t] \/ m \in account[t].items
               PROVE  madeFor[t] = home[m]
    BY DEF FiledWhereTyped
  <2>1. m \in Messages /\ {home[m]} \in SUBSET (Workspaces \cup {None})
    BY DEF ChatInv, PlaceInv, PlaceType
  <2>2. {home[m]} = Allowed(typed, home, m)
    BY DEF Allowed
  <2>3. Fits(m, {home[m]})
    BY <2>1, <2>2 DEF FiledInv
  <2> QED BY <2>3 DEF Fits, FitsFiles, FitsAccount
<1> QED BY <1>1, <1>2, <1>3, PTL DEF ChatPanelSpec

=============================================================================
