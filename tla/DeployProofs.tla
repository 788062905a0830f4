---------------------------- MODULE DeployProofs ----------------------------
(***************************************************************************)
(* A stop and the last transaction of a deploy exclude each other; one     *)
(* deploy at a time; and what its last line says of the buffer and the     *)
(* program: for any number of presses, pauses, projects, networks, chunks  *)
(* and retries.                                                            *)
(*                                                                         *)
(* The argument has three parts.  StopInv is about the signals: a stop and *)
(* the lock.  SwitchInv is about the state, the segments of the load and   *)
(* their question: that a segment changes the state only while its own run *)
(* loads.  ChainInv is about transactions and accounts, and uses of        *)
(* SwitchInv that the network is held until the buffer is made; SwitchInv  *)
(* uses of ChainInv that a buffer that is read is one that is there.       *)
(***************************************************************************)
EXTENDS Deploy, TLAPS, SequenceTheorems


\* The steps that cannot stop
LastSteps == {"authority", "final"}

Places == Processing \cup Checks \cup {"idle", "done"}

SignalsType ==
  /\ at \in [Presses -> Places]
  /\ aborted \in [Presses -> BOOLEAN]
  /\ locked \in [Presses -> BOOLEAN]
  /\ \A t \in flight : t.run \in Presses

\* StopHolds is not inductive: that no last transaction lands of a run that was
\* stopped needs that none is on its way, and that needs the lock
LockFirst ==
  /\ \A p \in Presses : at[p] \in LastSteps => locked[p]
  /\ \A p \in Presses : locked[p] => ~aborted[p]
  /\ \A t \in flight : t.kind = "final" => locked[t.run]
  /\ \A p \in Presses, x \in Projects \X Networks : <<p, x>> \in reached => locked[p]

StopInv == SignalsType /\ LockFirst

\* What most steps do: the call goes anywhere but to the last steps
Elsewhere(p) ==
  /\ p \in Presses
  /\ UNCHANGED <<aborted, locked, flight, reached>>
  /\ \/ at' = at
     \/ \E s \in Places : at' = [at EXCEPT ![p] = s] /\ (s \in LastSteps => at[p] \in LastSteps)

-----------------------------------------------------------------------------
LEMMA ElsewhereKeeps ==
  ASSUME NEW p, StopInv, Elsewhere(p)
  PROVE  StopInv'
<1>1. SignalsType'
  BY DEF StopInv, SignalsType, Elsewhere
<1>2. \A q \in Presses : at'[q] \in LastSteps => at[q] \in LastSteps
  BY DEF StopInv, SignalsType, Elsewhere
<1>3. LockFirst'
  BY <1>2 DEF StopInv, LockFirst, Elsewhere
<1> QED BY <1>1, <1>3 DEF StopInv

LEMMA MoveElsewhere ==
  ASSUME NEW p \in Presses, NEW s \in Places, at' = [at EXCEPT ![p] = s],
         s \notin LastSteps, UNCHANGED <<aborted, locked, flight, reached>>
  PROVE  Elsewhere(p)
BY DEF Elsewhere

\* Where Ends, Goes, Unless and Asks lead to
LEMMA EndsMoves ==
  \A p, o, q : Ends(p, o, q) => at' = [at EXCEPT ![p] = "done"]
BY DEF Ends, Finish

LEMMA GoesMoves ==
  \A p, s, q : Goes(p, s, q) => at' = [at EXCEPT ![p] = s]
BY DEF Goes

LEMMA UnlessMoves ==
  \A p, s : Unless(p, s) => \E r \in {s, "done"} : at' = [at EXCEPT ![p] = r]
BY EndsMoves, GoesMoves DEF Unless

LEMMA AsksMoves ==
  \A p, s : Asks(p, s) => \E r \in {s, "done"} : at' = [at EXCEPT ![p] = r]
BY EndsMoves, GoesMoves DEF Asks

\* The call up to its transactions
LEMMA BeginsElsewhere ==
  ASSUME NEW p \in Presses, Begins(p) \/ ChecksReply(p)
  PROVE  Elsewhere(p)
<1>1. UNCHANGED <<aborted, locked, flight, reached>>
  BY DEF Begins, Press, ChecksAsk, ChecksFail, Handle, ChecksReply, runVars, accountVars
<1>2. \/ at' = at
      \/ \E s \in {"wallet", "program", "checked", "fetch", "done"} :
           at' = [at EXCEPT ![p] = s]
  BY DEF Begins, Press, ChecksAsk, ChecksFail, Handle, ChecksReply, Finish, callVars
<1>3. CASE at' = at
  BY <1>1, <1>3 DEF Elsewhere
<1>4. ASSUME NEW s \in {"wallet", "program", "checked", "fetch", "done"},
             at' = [at EXCEPT ![p] = s]
      PROVE  Elsewhere(p)
  <2>1. s \in Places /\ s \notin LastSteps
    BY DEF LastSteps, Places, Processing, Checks, TxSteps
  <2> QED BY <1>1, <1>4, <2>1, MoveElsewhere
<1> QED BY <1>2, <1>3, <1>4

LEMMA FundsElsewhere ==
  ASSUME NEW p \in Presses,
         Fetched(p) \/ AirdropReply(p) \/ Airdropped(p) \/ Funding(p)
  PROVE  Elsewhere(p)
<1>1. UNCHANGED <<aborted, locked, flight, reached>>
  BY DEF Fetched, AirdropReply, Airdropped, Funding, runVars, accountVars
<1>2. \E s \in {"spendable", "airdrop", "askAirdrop", "transfer", "extend", "create", "done"} :
        at' = [at EXCEPT ![p] = s]
  <2>1. CASE Fetched(p)
    BY <2>1, EndsMoves, GoesMoves, AsksMoves DEF Fetched
  <2>2. CASE AirdropReply(p)
    BY <2>2, EndsMoves, GoesMoves DEF AirdropReply
  <2>3. CASE Airdropped(p)
    BY <2>3, EndsMoves, GoesMoves DEF Airdropped
  <2>4. CASE Funding(p)
    BY <2>4, EndsMoves, UnlessMoves DEF Funding
  <2> QED BY <2>1, <2>2, <2>3, <2>4
<1>3. PICK s \in {"spendable", "airdrop", "askAirdrop", "transfer", "extend", "create",
                 "done"} : at' = [at EXCEPT ![p] = s]
  BY <1>2
<1>4. s \in Places /\ s \notin LastSteps
  BY DEF LastSteps, Places, Processing, Checks, TxSteps
<1> QED BY <1>1, <1>3, <1>4, MoveElsewhere

\* Where the end of an attempt leads to: to the last steps only from one of them
LEMMA TriedMoves ==
  ASSUME NEW p \in Presses, at[p] \in TxSteps, Done(p) \/ Again(p)
  PROVE  \/ at' = at
         \/ \E s \in Places : at' = [at EXCEPT ![p] = s] /\ (s \in LastSteps => at[p] \in LastSteps)
<1>0. {"load", "done", "final"} \subseteq Places /\ {"load", "done"} \cap LastSteps = {}
  BY DEF LastSteps, Places, Processing, Checks, TxSteps
<1>1. CASE Again(p)
  <2>1. at' = at \/ at' = [at EXCEPT ![p] = "done"]
    BY <1>1, EndsMoves DEF Again, callVars
  <2> QED BY <1>0, <2>1
<1>2. CASE Done(p)
  <2>1. \/ \E s \in {"load", "done"} : at' = [at EXCEPT ![p] = s]
        \/ at[p] = "authority" /\ at' = [at EXCEPT ![p] = "final"]
    BY <1>2, EndsMoves, GoesMoves DEF Done, TxSteps
  <2>2. at[p] = "authority" => at[p] \in LastSteps
    BY DEF LastSteps
  <2> QED BY <1>0, <2>1, <2>2
<1> QED BY <1>1, <1>2

\* The steps of a transaction that send none
LEMMA DoneElsewhere ==
  ASSUME NEW p \in Presses, at[p] \in TxSteps, Done(p) \/ Again(p),
         UNCHANGED <<aborted, locked, flight, reached>>
  PROVE  Elsewhere(p)
BY TriedMoves DEF Elsewhere

LEMMA ConfirmElsewhere ==
  ASSUME NEW p \in Presses, Confirm(p) \/ Check(p) \/ KeptBalance(p)
  PROVE  Elsewhere(p)
<1>1. UNCHANGED <<aborted, locked, flight, reached>>
  BY DEF Confirm, Check, KeptBalance, runVars, accountVars
<1>2. CASE Confirm(p)
  <2>1. at[p] \in TxSteps /\ (Done(p) \/ Again(p) \/ at' = at)
    BY <1>2 DEF Confirm, callVars
  <2> QED BY <1>1, <2>1, DoneElsewhere DEF Elsewhere
<1>3. CASE Check(p)
  <2>1. at[p] \in TxSteps /\ (Done(p) \/ Again(p))
    BY <1>3 DEF Check
  <2> QED BY <1>1, <2>1, DoneElsewhere
<1>4. CASE KeptBalance(p)
  <2>1. at' = [at EXCEPT ![p] = "done"]
    BY <1>4, EndsMoves DEF KeptBalance
  <2>2. "done" \in Places /\ "done" \notin LastSteps
    BY DEF LastSteps, Places, Processing, Checks, TxSteps
  <2> QED BY <1>1, <2>1, <2>2, MoveElsewhere
<1> QED BY <1>2, <1>3, <1>4

\* The steps of the load and its questions, but for Read, which sends writes
LEMMA LoadElsewhere ==
  ASSUME NEW p \in Presses, NEW k,
         \/ SegmentStarts(p, k) \/ Simulate(p, k) \/ Load(p, k) \/ HandleFails(p, k)
         \/ Continue(p, k)
  PROVE  Elsewhere(p)
BY DEF SegmentStarts, Simulate, Load, HandleFails, Continue, Elsewhere, callVars, runVars,
   accountVars

LEMMA CloseReplyElsewhere ==
  ASSUME NEW p \in Presses, CloseReply(p)
  PROVE  Elsewhere(p)
<1>1. UNCHANGED <<aborted, locked, flight, reached>>
  BY DEF CloseReply, runVars, accountVars
<1>2. PICK s \in {"reclaim", "done"} : at' = [at EXCEPT ![p] = s]
  BY EndsMoves, GoesMoves DEF CloseReply
<1>3. s \in Places /\ s \notin LastSteps
  BY DEF LastSteps, Places, Processing, Checks, TxSteps
<1> QED BY <1>1, <1>2, <1>3, MoveElsewhere

-----------------------------------------------------------------------------
\* A transaction goes out: the last one only from its own step, which is locked
LEMMA SendKeeps ==
  ASSUME NEW p \in Presses, StopInv, Send(p)
  PROVE  StopInv'
<1> DEFINE t == [run |-> p, kind |-> at[p], n |-> tx[p].tries, to |-> Here]
<1>1. UNCHANGED <<aborted, locked, reached>> /\ at[p] \in TxSteps
  BY DEF Send, runVars, accountVars
<1>2. flight' \in {flight, flight \cup {t}}
  BY DEF Send
<1>3. \/ at' = at
      \/ \E s \in Places : at' = [at EXCEPT ![p] = s] /\ (s \in LastSteps => at[p] \in LastSteps)
  <2>1. at' = at \/ Done(p) \/ Again(p)
    BY DEF Send, callVars
  <2> QED BY <1>1, <2>1, TriedMoves
<1>4. SignalsType'
  <2>1. \A u \in flight' : u.run \in Presses
    BY <1>2 DEF StopInv, SignalsType
  <2> QED BY <1>1, <1>3, <2>1 DEF StopInv, SignalsType
<1>5. \A q \in Presses : at'[q] \in LastSteps => at[q] \in LastSteps
  BY <1>3 DEF StopInv, SignalsType
<1>6. \A u \in flight' : u.kind = "final" => locked[u.run]
  BY <1>2 DEF StopInv, LockFirst, LastSteps
<1> QED BY <1>1, <1>4, <1>5, <1>6 DEF StopInv, LockFirst

\* What a read of the buffer leads to: the end of the segment, or writes
LEMMA ReadSends ==
  ASSUME NEW p \in Presses, NEW k, Read(p, k)
  PROVE  \A t \in flight' : \/ t \in flight
                            \/ /\ t.run = p /\ t.kind = "write" /\ t.n \in Chunks
                               /\ t.to = Here
<1>1. PICK seen \in SUBSET buffer[p].data :
        flight' \in {flight, flight \cup
                        {[run |-> p, kind |-> "write", n |-> c, to |-> Here] :
                           c \in Chunks \ seen}}
  BY DEF Read
<1> QED BY <1>1

LEMMA ReadKeeps ==
  ASSUME NEW p \in Presses, NEW k, StopInv, Read(p, k)
  PROVE  StopInv'
<1>1. UNCHANGED <<at, aborted, locked, reached>>
  BY DEF Read, callVars, runVars, accountVars
<1>2. \A u \in flight' : u \in flight \/ (u.run = p /\ u.kind = "write")
  BY ReadSends
<1> QED BY <1>1, <1>2 DEF StopInv, SignalsType, LockFirst

\* lockStop comes before the step, and after the look at the signal
LEMMA LoadedKeeps ==
  ASSUME NEW p \in Presses, StopInv, Loaded(p)
  PROVE  StopInv'
<1>1. UNCHANGED <<aborted, flight, reached>>
  BY DEF Loaded, accountVars
<1>2. CASE loaded[p] = "success" /\ ~aborted[p]
  <2>1. locked' = [locked EXCEPT ![p] = TRUE]
    BY <1>2 DEF Loaded
  <2>2. \E s \in LastSteps : at' = [at EXCEPT ![p] = s]
    BY <1>2, GoesMoves DEF Loaded, LastSteps
  <2>3. SignalsType'
    BY <1>1, <2>1, <2>2 DEF StopInv, SignalsType, LastSteps, Places, Processing, TxSteps
  <2>4. \A q \in Presses : locked'[q] <=> (q = p \/ locked[q])
    BY <2>1 DEF StopInv, SignalsType
  <2>5. \A q \in Presses : q # p => at'[q] = at[q]
    BY <2>2 DEF StopInv, SignalsType
  <2>6. LockFirst'
    BY <1>1, <1>2, <2>4, <2>5 DEF StopInv, SignalsType, LockFirst
  <2> QED BY <2>3, <2>6 DEF StopInv
<1>3. CASE ~(loaded[p] = "success" /\ ~aborted[p])
  <2>1. UNCHANGED locked
    BY <1>3 DEF Loaded
  <2>2. PICK s \in {"close", "askClose", "done"} : at' = [at EXCEPT ![p] = s]
    BY <1>3, EndsMoves, GoesMoves, AsksMoves DEF Loaded
  <2>3. s \in Places /\ s \notin LastSteps
    BY DEF LastSteps, Places, Processing, Checks, TxSteps
  <2>4. Elsewhere(p)
    BY <1>1, <2>1, <2>2, <2>3, MoveElsewhere
  <2> QED BY <2>4, ElsewhereKeeps
<1> QED BY <1>2, <1>3

\* A stop reaches the runs that are not locked
LEMMA StopKeeps ==
  ASSUME StopInv, Stop
  PROVE  StopInv'
<1>1. UNCHANGED <<at, locked, flight, reached>>
  BY DEF Stop, callVars, accountVars
<1>2. /\ aborted' \in [Presses -> BOOLEAN]
      /\ \A p \in Presses : aborted'[p] => aborted[p] \/ ~locked[p]
  BY DEF Stop, StopInv, SignalsType
<1> QED BY <1>1, <1>2 DEF StopInv, SignalsType, LockFirst

\* A last transaction that lands is one that was on its way
LEMMA LandKeeps ==
  ASSUME NEW t \in flight, StopInv, Land(t)
  PROVE  StopInv'
<1>1. UNCHANGED <<at, aborted, locked>> /\ flight' = flight \ {t}
  BY DEF Land, callVars, runVars
<1>2. reached' = reached \/ (t.kind = "final" /\ reached' = reached \cup {<<t.run, t.to>>})
  BY DEF Land, Effect, accountVars
<1>3. \A p \in Presses, x \in Projects \X Networks : <<p, x>> \in reached' => locked[p]
  BY <1>2 DEF StopInv, LockFirst
<1> QED BY <1>1, <1>3 DEF StopInv, SignalsType, LockFirst

-----------------------------------------------------------------------------
LEMMA StopInvInit == Init => StopInv
BY DEF Init, StopInv, SignalsType, LockFirst, LastSteps, Places

LEMMA StopInvNext == StopInv /\ [Next]_deployVars => StopInv'
<1> SUFFICES ASSUME StopInv, [Next]_deployVars PROVE StopInv'
  OBVIOUS
<1>1. ASSUME NEW p \in Presses, TakesUp(p) PROVE StopInv'
  <2>1. CASE ChecksReply(p)
    BY <2>1, BeginsElsewhere, ElsewhereKeeps
  <2>2. CASE AirdropReply(p)
    BY <2>2, FundsElsewhere, ElsewhereKeeps
  <2>3. CASE CloseReply(p)
    BY <2>3, CloseReplyElsewhere, ElsewhereKeeps
  <2>4. CASE Loaded(p)
    BY <2>4, LoadedKeeps
  <2>5. ASSUME NEW k, Continue(p, k) PROVE StopInv'
    BY <2>5, LoadElsewhere, ElsewhereKeeps
  <2> QED BY <1>1, <2>1, <2>2, <2>3, <2>4, <2>5 DEF TakesUp
<1>2. ASSUME NEW p \in Presses, Begins(p) PROVE StopInv'
  BY <1>2, BeginsElsewhere, ElsewhereKeeps
<1>3. ASSUME NEW p \in Presses, Proceeds(p) PROVE StopInv'
  <2>1. CASE Fetched(p) \/ Airdropped(p) \/ Funding(p)
    BY <2>1, FundsElsewhere, ElsewhereKeeps
  <2>2. CASE Send(p)
    BY <2>2, SendKeeps
  <2>3. CASE Confirm(p) \/ Check(p) \/ KeptBalance(p)
    BY <2>3, ConfirmElsewhere, ElsewhereKeeps
  <2>4. ASSUME NEW k, Segment(p, k) PROVE StopInv'
    BY <2>4, LoadElsewhere, ElsewhereKeeps DEF Segment
  <2> QED BY <1>3, <2>1, <2>2, <2>3, <2>4 DEF Proceeds, Transaction
<1>4. ASSUME User PROVE StopInv'
  <2>1. CASE Stop
    BY <2>1, StopKeeps
  <2>2. CASE ~Stop
    <3>1. UNCHANGED <<at, aborted, locked, flight, reached>>
      BY <1>4, <2>2 DEF User, Answer, SwitchProject, SwitchNetwork, callVars, runVars,
           accountVars
    <3> QED BY <3>1 DEF StopInv, SignalsType, LockFirst
  <2> QED BY <2>1, <2>2
<1>5. ASSUME NEW t \in flight, Land(t) PROVE StopInv'
  BY <1>5, LandKeeps
<1>6. ASSUME NEW p \in Presses, Reads(p) PROVE StopInv'
  BY <1>6, ReadKeeps DEF Reads
<1>7. CASE UNCHANGED deployVars
  <2>1. UNCHANGED <<at, aborted, locked, flight, reached>>
    BY <1>7 DEF deployVars, callVars, runVars, accountVars
  <2> QED BY <2>1 DEF StopInv, SignalsType, LockFirst
<1> QED BY <1>1, <1>2, <1>3, <1>4, <1>5, <1>6, <1>7 DEF Next

\* However presses, stops, answers and transactions interleave, a run whose signal was
\* aborted has not sent its last transaction and never will
THEOREM StopTheorem == Spec => []StopHolds
<1>1. StopInv => StopHolds
  BY DEF StopInv, LockFirst, StopHolds, LastSteps
<1> QED BY <1>1, StopInvInit, StopInvNext, PTL DEF Spec

-----------------------------------------------------------------------------
States == {"ready", "loading", "paused", "cancelled"}

Asked == {"quiet", "open"} \cup Replies

Segments ==
  [stage : {"terminal", "simulate", "load", "read", "ended"}, cut : BOOLEAN,
   listens : BOOLEAN, prev : States, stops : BOOLEAN, answersNo : BOOLEAN, asks : BOOLEAN, stray : BOOLEAN]

\* The steps before there can be a buffer, and before there is one
Unmade == Checks \cup
  {"idle", "fetch", "askAirdrop", "airdrop", "spendable", "transfer", "extend"}
Unloaded == Unmade \cup {"create"}

SwitchType ==
  /\ deployState \in States
  /\ at \in [Presses -> Places]
  /\ ask \in [Presses -> Asked]
  /\ aborted \in [Presses -> BOOLEAN]
  /\ segs \in [Presses -> Seq(Segments)]
  /\ loaded \in [Presses -> {"pending", "success", "error", "cancelled"}]

\* The run of p is at its load, and nothing has ended that yet
Pending(p) == at[p] = "load" /\ loaded[p] = "pending"

\* A segment whose question was answered with yes: the next one has taken its place
Over(g) == g.cut /\ ~g.listens /\ ~g.asks /\ ~g.stray /\ g.stage # "terminal"

\* A segment that can still cut itself, or start, or that asks, is one of a run that
\* loads; only a stop lets a run go on without it, and a stop answers its question.
\* pending, stopped and answer: of the segment's run
SegmentOK(pending, stopped, answer, g) ==
  /\ g.stage = "terminal" => /\ ~g.cut /\ ~g.stops /\ ~g.listens /\ ~g.asks /\ ~g.stray
                             /\ stopped \/ pending
  /\ g.stray => g.cut
  /\ g.listens /\ ~g.cut => g.stops /\ pending /\ ~stopped
  /\ g.asks => /\ g.cut /\ g.listens /\ ~g.stray /\ pending /\ answer # "quiet"
               /\ IF stopped THEN answer \in Replies ELSE g.answersNo

SegmentsOK ==
  \A p \in Presses :
    /\ at[p] \in Unloaded => segs[p] = << >> /\ loaded[p] = "pending"
    /\ \A k \in DOMAIN segs[p] :
         /\ SegmentOK(Pending(p), aborted[p], ask[p], segs[p][k])
         /\ k < Len(segs[p]) => Over(segs[p][k])

\* A run that has cancelled its load closes its buffer or leaves it
CancelledOK ==
  deployState = "cancelled" => \A p \in Presses : InRun(p) =>
    \/ at[p] \in {"askClose", "close", "reclaim"}
    \/ at[p] = "load" /\ loaded[p] = "cancelled"

\* The end of the load is taken up before a transaction lands
LoadedWhole ==
  \A p \in Presses : at[p] = "load" /\ loaded[p] = "success" =>
    buffer[p].data = Chunks /\ buffer[p].on # Nowhere

SwitchInv == SwitchType /\ SegmentsOK /\ OneRun /\ CancelledOK /\ LoadedWhole

-----------------------------------------------------------------------------
Wallets == {"pg", "standard"}

ChainType ==
  /\ project \in Projects /\ network \in Networks
  /\ how \in [Presses -> [pays : Wallets, upgrade : BOOLEAN, on : Networks, grows : BOOLEAN]]
  /\ tx \in [Presses -> [tries : Nat, phase : {"send", "confirm", "check", "balance"},
                         got : {"nothing", "ok", "err"}]]
  /\ buffer \in [Presses -> [on : Networks \cup {Nowhere}, data : SUBSET Chunks,
                             owner : Wallets, made : Nat]]
  /\ DOMAIN outcome = Presses
  /\ \A t \in flight : /\ t.run \in Presses /\ t.to \in Projects \X Networks
                       /\ t.kind \in TxSteps \cup {"write"}
                       /\ t.kind = "write" => t.n \in Chunks

Reached(p) == \E x \in Projects \X Networks : <<p, x>> \in reached

\* The run took the transaction of the step for done with no sign that it is
Unsure(p, step) == <<p, step>> \in unseen

\* The buffer was closed: what is there has been made again
Gone(p) == buffer[p].made > 0 /\ (buffer[p].on # Nowhere => buffer[p].made > 1)

\* What is on its way was sent from the step it belongs to; a buffer is made where the
\* run reads it
SentOK(t) ==
  /\ at[t.run] \notin Unmade
  /\ t.kind = "create" => t.to[2] = how[t.run].on
  /\ t.kind \in {"close", "reclaim", "final"} => at[t.run] \in {t.kind, "done"}

\* The buffer of a run, by where the run is
BufferOK(p) ==
  /\ at[p] \in Unmade => buffer[p].made = 0
  /\ at[p] \in Unloaded \ (Checks \cup {"idle", "fetch"}) => network = how[p].on
  /\ buffer[p].on \in {Nowhere, how[p].on}
  /\ buffer[p].on # Nowhere => buffer[p].made > 0
  /\ at[p] = "load" => buffer[p].on = how[p].on \/ Unsure(p, "create")
  /\ at[p] = "authority" => buffer[p].on = how[p].on
  /\ at[p] = "create" /\ tx[p].got = "ok" => buffer[p].on = how[p].on
  /\ at[p] = "final" => buffer[p].on = how[p].on \/ Reached(p)
  /\ at[p] = "final" /\ tx[p].got = "ok" => Reached(p)
  /\ at[p] = "close" => buffer[p].made > 0 \/ Unsure(p, "create")
  /\ at[p] = "close" /\ tx[p].got = "ok" => Gone(p)

\* What the last line says, once it is said
LineOK(p) ==
  /\ outcome[p] \in {"none", "closed", "deployed"} => at[p] = "done"
  /\ outcome[p] = "none" => buffer[p].made = 0 /\ \A t \in flight : t.run # p
  /\ outcome[p] = "closed" => Gone(p) \/ Unsure(p, "create") \/ Unsure(p, "close")
  /\ outcome[p] = "deployed" => Reached(p) \/ Unsure(p, "final")

ChainOK ==
  /\ \A t \in flight : SentOK(t)
  /\ \A p \in Presses : BufferOK(p) /\ LineOK(p)

ChainInv == ChainType /\ ChainOK

-----------------------------------------------------------------------------
(* The state and its listeners *)

LEMMA ToldType ==
  ASSUME NEW g \in Segments, NEW state \in States, NEW busy \in BOOLEAN
  PROVE  Told(g, state, busy) \in Segments
<1>1. CASE ~Fires(g, state)
  BY <1>1 DEF Told, Segments
<1>2. CASE Fires(g, state) /\ g.cut
  BY <1>2 DEF Told, Segments
<1>3. CASE Fires(g, state) /\ ~g.cut
  BY <1>3 DEF Told, Segments
<1> QED BY <1>1, <1>2, <1>3

\* What a change of the state does to a segment
LEMMA ToldIs ==
  ASSUME NEW g \in Segments, NEW state \in States, NEW busy \in BOOLEAN
  PROVE  LET h == Told(g, state, busy)
         IN  /\ h.stage = g.stage /\ h.listens = g.listens
             /\ ~Fires(g, state) => /\ h.cut = g.cut /\ h.asks = g.asks /\ h.stray = g.stray
                                    /\ h.stops = g.stops /\ h.answersNo = g.answersNo
             /\ Fires(g, state) /\ g.cut =>
                  /\ h.cut /\ h.asks = g.asks /\ h.answersNo = g.answersNo
                  /\ h.stray = (g.stray \/ ~busy)
             /\ Fires(g, state) /\ ~g.cut =>
                  h.cut /\ h.answersNo /\ h.asks = ~busy /\ h.stray = busy
BY DEF Told, Segments

LEMMA ToldOK ==
  ASSUME NEW g \in Segments, NEW state \in States, NEW busy \in BOOLEAN,
         NEW pending \in BOOLEAN, NEW stopped \in BOOLEAN, NEW a, NEW b,
         SegmentOK(pending, stopped, a, g),
         g.asks => a = "open" /\ busy /\ b \in {"open", "yes"},
         Fires(g, state) /\ ~g.cut /\ ~busy => b = "open"
  PROVE  /\ SegmentOK(pending, stopped, b, Told(g, state, busy))
         /\ Over(g) => Over(Told(g, state, busy))
<1> DEFINE h == Told(g, state, busy)
<1>1. /\ h.stage = g.stage /\ h.listens = g.listens
      /\ ~Fires(g, state) => /\ h.cut = g.cut /\ h.asks = g.asks /\ h.stray = g.stray
                             /\ h.stops = g.stops /\ h.answersNo = g.answersNo
      /\ Fires(g, state) /\ g.cut =>
           /\ h.cut /\ h.asks = g.asks /\ h.answersNo = g.answersNo
           /\ h.stray = (g.stray \/ ~busy)
      /\ Fires(g, state) /\ ~g.cut =>
           h.cut /\ h.answersNo /\ h.asks = ~busy /\ h.stray = busy
  BY ToldIs
<1>2. Fires(g, state) => g.listens
  BY DEF Fires
<1> HIDE DEF h
<1>3. Over(g) => Over(h)
  BY <1>1, <1>2 DEF Over
<1>4. g.asks => ~stopped
  BY DEF SegmentOK, Replies
<1>5. SegmentOK(pending, stopped, b, h)
  <2>1. CASE ~Fires(g, state)
    BY <1>1, <1>4, <2>1 DEF SegmentOK
  <2>2. CASE Fires(g, state) /\ g.cut
    BY <1>1, <1>2, <1>4, <2>2 DEF SegmentOK
  <2>3. CASE Fires(g, state) /\ ~g.cut
    BY <1>1, <1>2, <2>3 DEF SegmentOK
  <2> QED BY <2>1, <2>2, <2>3
<1> QED BY <1>3, <1>5 DEF h

\* A change of the state keeps the segments as they should be, if no question of theirs
\* has a reply that was not taken up
LEMMA SetStateKeeps ==
  ASSUME SwitchType, NEW state \in States, NEW ss \in [Presses -> Seq(Segments)],
         NEW q \in [Presses -> Asked], SetState(state, ss, q),
         NEW pending \in [Presses -> BOOLEAN],
         \A p \in Presses : \A k \in DOMAIN ss[p] :
           /\ SegmentOK(pending[p], aborted[p], q[p], ss[p][k])
           /\ ss[p][k].asks => q[p] = "open"
  PROVE  /\ deployState' = state
         /\ segs' \in [Presses -> Seq(Segments)] /\ ask' \in [Presses -> Asked]
         /\ \A p \in Presses :
              /\ Len(segs'[p]) = Len(ss[p]) /\ DOMAIN segs'[p] = DOMAIN ss[p]
              /\ \A k \in DOMAIN ss[p] :
                   /\ SegmentOK(pending[p], aborted[p], ask'[p], segs'[p][k])
                   /\ Over(ss[p][k]) => Over(segs'[p][k])
<1>0. PICK busy \in BOOLEAN : busy = Waiting(q)
  BY DEF Waiting
<1> DEFINE fired == {pk \in UNION {{p} \X DOMAIN ss[p] : p \in Presses} :
                       Fires(ss[pk[1]][pk[2]], state)}
           typesYes == \E pk \in fired : ss[pk[1]][pk[2]].cut
           asks(p) == \E pk \in fired : pk[1] = p /\ ~ss[p][pk[2]].cut
<1>1. /\ deployState' = state
      /\ segs' = [p \in Presses |-> [k \in DOMAIN ss[p] |-> Told(ss[p][k], state, busy)]]
      /\ ask' = [p \in Presses |->
                   IF busy /\ typesYes /\ q[p] = "open" THEN "yes"
                   ELSE IF ~busy /\ asks(p) THEN "open"
                   ELSE q[p]]
  BY <1>0 DEF SetState
<1>3. \A p \in Presses : q[p] = "open" => busy
  BY <1>0 DEF Waiting
<1>4. ASSUME NEW p \in Presses, NEW k \in DOMAIN ss[p], Fires(ss[p][k], state), ~ss[p][k].cut
      PROVE  asks(p)
  <2>1. <<p, k>> \in fired
    BY <1>4
  <2> QED BY <1>4, <2>1
<1> HIDE DEF typesYes, asks, fired
<1>5. ask' \in [Presses -> Asked]
  BY <1>1 DEF Asked, Replies
<1>6. ASSUME NEW p \in Presses
      PROVE  /\ segs'[p] \in Seq(Segments)
             /\ Len(segs'[p]) = Len(ss[p]) /\ DOMAIN segs'[p] = DOMAIN ss[p]
             /\ \A k \in DOMAIN ss[p] :
                  /\ SegmentOK(pending[p], aborted[p], ask'[p], segs'[p][k])
                  /\ Over(ss[p][k]) => Over(segs'[p][k])
  <2> DEFINE s == ss[p]
  <2>1. s \in Seq(Segments) /\ DOMAIN s = 1..Len(s) /\ Len(s) \in Nat
    OBVIOUS
  <2>2. segs'[p] = [k \in 1..Len(s) |-> Told(s[k], state, busy)]
    BY <1>1, <2>1
  <2>3. \A k \in 1..Len(s) : s[k] \in Segments /\ Told(s[k], state, busy) \in Segments
    BY <2>1, ToldType
  <2>4. segs'[p] \in Seq(Segments) /\ Len(segs'[p]) = Len(s)
    BY <2>1, <2>2, <2>3
  <2>5. ASSUME NEW k \in DOMAIN s
        PROVE  /\ SegmentOK(pending[p], aborted[p], ask'[p], segs'[p][k])
               /\ Over(s[k]) => Over(segs'[p][k])
    <3> DEFINE g == s[k]
               a == q[p]
               b == ask'[p]
               on == pending[p]
               stopped == aborted[p]
    <3>1. g \in Segments /\ segs'[p][k] = Told(g, state, busy)
      BY <2>1, <2>2, <2>3
    <3>2. g.asks => a = "open" /\ busy /\ b \in {"open", "yes"}
      BY <1>1, <1>3
    <3>3. Fires(g, state) /\ ~g.cut /\ ~busy => b = "open"
      BY <1>1, <1>4
    <3>4. stopped \in BOOLEAN /\ on \in BOOLEAN
      BY DEF SwitchType
    <3>5. SegmentOK(on, stopped, a, g)
      OBVIOUS
    <3> HIDE DEF g, a, b, on, stopped
    <3>6. /\ SegmentOK(on, stopped, b, Told(g, state, busy))
          /\ Over(g) => Over(Told(g, state, busy))
      BY <3>1, <3>2, <3>3, <3>4, <3>5, ToldOK, ZenonT(30)
    <3> QED BY <3>1, <3>6 DEF g, b, on, stopped
  <2>6. DOMAIN segs'[p] = DOMAIN s
    BY <2>1, <2>2
  <2> QED BY <2>4, <2>5, <2>6
<1>7. segs' \in [Presses -> Seq(Segments)]
  <2>1. DOMAIN segs' = Presses
    BY <1>1
  <2>2. segs' = [p \in Presses |-> segs'[p]]
    BY <1>1
  <2> QED BY <1>6, <2>2
<1> QED BY <1>1, <1>5, <1>6, <1>7

\* A call that is not at its load, or whose load has ended, moves on: no segment of it
\* asks or can still cut itself
LEMMA MoveKeeps ==
  ASSUME SwitchInv, NEW p \in Presses, NEW s \in Places \ {"load"}, ~Pending(p),
         at' = [at EXCEPT ![p] = s], InRun(p) <=> s \in Processing,
         s \in Unloaded => at[p] \in Unloaded,
         deployState = "cancelled" /\ s \in Processing => s \in {"askClose", "close", "reclaim"},
         ask' \in [Presses -> Asked], \A r \in Presses \ {p} : ask'[r] = ask[r],
         UNCHANGED <<deployState, segs, loaded, aborted, buffer>>
  PROVE  SwitchInv'
<1> USE DEF SwitchInv
<1>1. /\ \A r \in Presses \ {p} : at'[r] = at[r]
      /\ at'[p] = s /\ at' \in [Presses -> Places]
  BY DEF SwitchType
<1>2. SwitchType'
  BY <1>1 DEF SwitchType
<1>3. \A r \in Presses : Pending(r)' <=> Pending(r)
  BY <1>1 DEF Pending
<1>4. SegmentsOK'
  <2>1. ASSUME NEW r \in Presses
        PROVE  /\ at'[r] \in Unloaded => segs[r] = << >> /\ loaded[r] = "pending"
               /\ \A k \in DOMAIN segs[r] :
                    /\ SegmentOK(Pending(r)', aborted[r], ask'[r], segs[r][k])
                    /\ k < Len(segs[r]) => Over(segs[r][k])
    <3>1. CASE r # p
      BY <1>1, <1>3, <3>1 DEF SegmentsOK, SegmentOK
    <3>2. CASE r = p
      BY <1>1, <1>3, <3>2 DEF SegmentsOK, SegmentOK
    <3> QED BY <3>1, <3>2
  <2> QED BY <2>1 DEF SegmentsOK
<1>5. OneRun'
  BY <1>1 DEF OneRun, InRun
<1>6. CancelledOK'
  BY <1>1 DEF CancelledOK, InRun
<1>7. LoadedWhole'
  BY <1>1 DEF LoadedWhole
<1> QED BY <1>2, <1>4, <1>5, <1>6, <1>7

\* The state is set, by a call whose move leaves every load as it is
LEMMA SwitchKeeps ==
  ASSUME SwitchInv, NEW p \in Presses, NEW s \in Places \ {"load"}, ~Pending(p),
         at' = [at EXCEPT ![p] = s], s \in Unloaded => at[p] \in Unloaded,
         NEW state \in States \ {"cancelled"}, NEW q \in [Presses -> Asked],
         SetState(state, segs, q), \A r \in Presses \ {p} : q[r] = ask[r],
         \A r \in Presses \ {p} : \A k \in DOMAIN segs[r] : segs[r][k].asks => ask[r] = "open",
         OneRun', UNCHANGED <<loaded, aborted, buffer>>
  PROVE  SwitchInv'
<1> USE DEF SwitchInv
<1>1. /\ \A r \in Presses \ {p} : at'[r] = at[r]
      /\ at'[p] = s /\ at' \in [Presses -> Places]
  BY DEF SwitchType
<1> DEFINE pending == [r \in Presses |-> Pending(r)]
<1>2. pending \in [Presses -> BOOLEAN] /\ segs \in [Presses -> Seq(Segments)]
  BY DEF Pending, SwitchType
<1>3. \A r \in Presses : Pending(r)' <=> Pending(r)
  BY <1>1 DEF Pending
<1>4. \A r \in Presses : \A k \in DOMAIN segs[r] :
        /\ SegmentOK(Pending(r), aborted[r], q[r], segs[r][k])
        /\ segs[r][k].asks => q[r] = "open"
  <2>1. ASSUME NEW r \in Presses, NEW k \in DOMAIN segs[r]
        PROVE  /\ SegmentOK(Pending(r), aborted[r], q[r], segs[r][k])
               /\ segs[r][k].asks => q[r] = "open"
    <3>1. SegmentOK(Pending(r), aborted[r], ask[r], segs[r][k])
      BY DEF SegmentsOK
    <3>2. CASE r # p
      <4>1. q[r] = ask[r] /\ (segs[r][k].asks => ask[r] = "open")
        BY <3>2
      <4> QED BY <3>1, <4>1
    <3>3. CASE r = p
      <4>1. ~segs[r][k].asks
        BY <3>1, <3>3 DEF SegmentOK
      <4> QED BY <3>1, <4>1 DEF SegmentOK
    <3> QED BY <3>2, <3>3
  <2> QED BY <2>1
<1>5. \A r \in Presses : pending[r] = Pending(r)
  OBVIOUS
<1> HIDE DEF pending
<1>6. \A r \in Presses : \A k \in DOMAIN segs[r] :
        /\ SegmentOK(pending[r], aborted[r], q[r], segs[r][k])
        /\ segs[r][k].asks => q[r] = "open"
  BY <1>4, <1>5
<1>a. SwitchType /\ state \in States
  OBVIOUS
<1>7. /\ deployState' = state
      /\ segs' \in [Presses -> Seq(Segments)] /\ ask' \in [Presses -> Asked]
      /\ \A r \in Presses :
           /\ Len(segs'[r]) = Len(segs[r]) /\ DOMAIN segs'[r] = DOMAIN segs[r]
           /\ \A k \in DOMAIN segs[r] :
                /\ SegmentOK(pending[r], aborted[r], ask'[r], segs'[r][k])
                /\ Over(segs[r][k]) => Over(segs'[r][k])
  BY ONLY <1>2, <1>6, <1>a, SetState(state, segs, q), q \in [Presses -> Asked],
     SetStateKeeps
<1>8. SwitchType'
  BY <1>1, <1>7 DEF SwitchType
<1>9. SegmentsOK'
  <2>1. ASSUME NEW r \in Presses, at'[r] \in Unloaded
        PROVE  segs'[r] = << >> /\ loaded[r] = "pending"
    <3>1. at[r] \in Unloaded
      BY <1>1, <2>1
    <3>2. segs[r] = << >> /\ loaded[r] = "pending"
      BY <3>1 DEF SegmentsOK
    <3>3. Len(segs'[r]) = 0 /\ segs'[r] \in Seq(Segments)
      BY <1>7, <3>2
    <3> QED BY <3>2, <3>3
  <2>2. ASSUME NEW r \in Presses, NEW k \in DOMAIN segs'[r]
        PROVE  /\ SegmentOK(Pending(r)', aborted[r], ask'[r], segs'[r][k])
               /\ k < Len(segs'[r]) => Over(segs'[r][k])
    <3>1. k \in DOMAIN segs[r] /\ Len(segs'[r]) = Len(segs[r])
      BY <1>7
    <3>2. k < Len(segs[r]) => Over(segs[r][k])
      BY <3>1 DEF SegmentsOK
    <3>3. Pending(r)' = pending[r]
      BY <1>3, <1>5 DEF Pending
    <3>4. SegmentOK(pending[r], aborted[r], ask'[r], segs'[r][k])
      BY <1>7, <3>1
    <3> QED BY <1>7, <3>1, <3>2, <3>3, <3>4
  <2> QED BY <2>1, <2>2 DEF SegmentsOK
<1>10. CancelledOK'
  BY <1>7 DEF CancelledOK
<1>11. LoadedWhole'
  BY <1>1 DEF LoadedWhole
<1> QED BY <1>8, <1>9, <1>10, <1>11

LEMMA AskTypes ==
  ASSUME SwitchType, NEW p \in Presses
  PROVE  /\ ask \in [Presses -> Asked] /\ Quiet(p) \in [Presses -> Asked]
         /\ [ask EXCEPT ![p] = "open"] \in [Presses -> Asked]
         /\ \A r \in Presses \ {p} :
              Quiet(p)[r] = ask[r] /\ [ask EXCEPT ![p] = "open"][r] = ask[r]
BY DEF SwitchType, Asked, Quiet

\* Every question of a load is that of the run, and there is one
LEMMA AskingRuns ==
  ASSUME SwitchInv, NEW r \in Presses, NEW k \in DOMAIN segs[r], segs[r][k].asks
  PROVE  Pending(r) /\ InRun(r)
BY DEF SwitchInv, SegmentsOK, SegmentOK, Pending, InRun, Processing

\* The end of a run
LEMMA EndsKeeps ==
  ASSUME SwitchInv, NEW p \in Presses, InRun(p), ~Pending(p), NEW o,
         NEW q \in {ask, Quiet(p)}, Ends(p, o, q), UNCHANGED <<loaded, aborted, buffer>>
  PROVE  SwitchInv'
<1> USE DEF SwitchInv
<1>1. at' = [at EXCEPT ![p] = "done"] /\ SetState("ready", segs, q)
  BY DEF Ends, Finish
<1>2. q \in [Presses -> Asked] /\ \A r \in Presses \ {p} : q[r] = ask[r]
  BY AskTypes
<1>3. \A r \in Presses \ {p} : ~InRun(r)
  BY DEF OneRun
<1>4. \A r \in Presses \ {p} : \A k \in DOMAIN segs[r] : ~segs[r][k].asks
  BY <1>3, AskingRuns
<1>5. \A r \in Presses : ~InRun(r)' /\ deployState' = "ready"
  BY <1>1, <1>3 DEF InRun, SetState, SwitchType, Processing, TxSteps
<1>6. OneRun'
  BY <1>5 DEF OneRun
<1>7. "done" \in Places \ {"load"} /\ "done" \notin Unloaded /\ "ready" \in States \ {"cancelled"}
  BY DEF Places, Unloaded, Unmade, Checks, States
<1> QED BY <1>1, <1>2, <1>4, <1>6, <1>7, SwitchKeeps

\* A step of the run
LEMMA GoesKeeps ==
  ASSUME SwitchInv, NEW p \in Presses, InRun(p), ~Pending(p),
         NEW s \in Processing \ {"load"}, s \in Unloaded => at[p] \in Unloaded,
         deployState = "cancelled" => s \in {"askClose", "close", "reclaim"},
         NEW q \in {ask, Quiet(p), [ask EXCEPT ![p] = "open"]}, Goes(p, s, q),
         UNCHANGED <<loaded, aborted, buffer>>
  PROVE  SwitchInv'
<1>1. /\ at' = [at EXCEPT ![p] = s] /\ ask' = q
      /\ UNCHANGED <<deployState, segs>>
  BY DEF Goes
<1>2. ask' \in [Presses -> Asked] /\ \A r \in Presses \ {p} : ask'[r] = ask[r]
  BY <1>1, AskTypes DEF SwitchInv
<1>3. s \in Places \ {"load"}
  BY DEF Places
<1> QED BY <1>1, <1>2, <1>3, MoveKeeps

\* Before its load, a run is not one that was cancelled
LEMMA EarlyNotCancelled ==
  ASSUME SwitchInv, NEW p \in Presses, InRun(p),
         at[p] \notin {"load", "askClose", "close", "reclaim"}
  PROVE  deployState # "cancelled"
BY DEF SwitchInv, CancelledOK

-----------------------------------------------------------------------------
(* The first half, action by action *)

\* The call before it is a run: its own question, and nothing else
LEMMA ChecksKeeps ==
  ASSUME SwitchInv, NEW p \in Presses,
         Press(p) \/ ChecksAsk(p) \/ ChecksReply(p) \/ ChecksFail(p)
  PROVE  SwitchInv'
<1> USE DEF SwitchInv
<1>1. /\ at[p] \in Checks \cup {"idle"}
      /\ UNCHANGED <<deployState, segs, loaded, aborted, buffer>>
  BY DEF Press, ChecksAsk, ChecksReply, ChecksFail, runVars, loadVars, accountVars, Checks
<1>2. PICK s \in Checks \cup {"done"} :
        at' = [at EXCEPT ![p] = s] /\ (at[p] = "idle" => s # "done")
  <2>1. CASE UNCHANGED at
    BY <1>1, <2>1 DEF Press, ChecksAsk, ChecksReply, ChecksFail, SwitchType
  <2>2. CASE ~UNCHANGED at
    BY <2>2 DEF Press, ChecksAsk, ChecksReply, ChecksFail, Finish, Checks, callVars
  <2> QED BY <2>1, <2>2
<1>3. ask' \in {ask, Quiet(p), [ask EXCEPT ![p] = "open"]}
  BY DEF Press, ChecksAsk, ChecksReply, ChecksFail
<1>4. ask' \in [Presses -> Asked] /\ \A r \in Presses \ {p} : ask'[r] = ask[r]
  BY <1>3, AskTypes
<1>5. /\ s \in Places \ {"load"} /\ s \notin Processing
      /\ s \in Unloaded => at[p] \in Unloaded
      /\ ~Pending(p) /\ ~InRun(p)
  BY <1>1 DEF Places, Checks, Processing, TxSteps, Unloaded, Unmade, Pending, InRun
<1> QED BY <1>1, <1>2, <1>4, <1>5, MoveKeeps

\* The handler: it starts a deploy when there is none, and toggles the one there is
LEMMA HandleKeeps ==
  ASSUME SwitchInv, Settled, NEW p \in Presses, Handle(p)
  PROVE  SwitchInv'
<1> USE DEF SwitchInv
<1>1. /\ at[p] \in Checks /\ ~InRun(p) /\ ~Pending(p) /\ at[p] \in Unloaded
      /\ UNCHANGED <<loaded, aborted, buffer>>
  BY DEF Handle, Checks, InRun, Processing, TxSteps, Pending, runVars, accountVars, Unloaded,
     Unmade
<1>2. \A r \in Presses : \A k \in DOMAIN segs[r] : segs[r][k].asks => ask[r] = "open"
  BY DEF Settled, SegmentsOK, SegmentOK, SwitchType, Asked
<1>3. ask \in [Presses -> Asked] /\ at \in [Presses -> Places]
  BY DEF SwitchType
<1>4. CASE deployState = "ready" /\ SetState("loading", segs, ask)
           /\ at' = [at EXCEPT ![p] = "fetch"]
  <2>1. \A r \in Presses : ~InRun(r)
    BY <1>4 DEF OneRun
  <2>2. deployState' = "loading" /\ InRun(p)' /\ \A r \in Presses \ {p} : ~InRun(r)'
    BY <1>3, <1>4, <2>1 DEF SetState, InRun, Processing
  <2>3. OneRun'
    BY <2>2 DEF OneRun
  <2>4. "fetch" \in Places \ {"load"} /\ "loading" \in States \ {"cancelled"}
    BY DEF Places, Processing, States
  <2> QED BY <1>1, <1>2, <1>3, <1>4, <2>3, <2>4, SwitchKeeps
<1>5. ASSUME NEW state \in {"loading", "paused"}, deployState # "ready",
             SetState(state, segs, ask), at' = [at EXCEPT ![p] = "done"]
      PROVE  SwitchInv'
  <2>1. deployState' = state /\ \A r \in Presses : InRun(r)' <=> InRun(r)
    BY <1>1, <1>3, <1>5 DEF SetState, InRun, Processing, TxSteps
  <2>2. OneRun'
    BY <1>5, <2>1 DEF OneRun
  <2>3. "done" \in Places \ {"load"} /\ state \in States \ {"cancelled"} /\ "done" \notin Unloaded
    BY DEF Places, States, Unloaded, Unmade, Checks
  <2> QED BY <1>1, <1>2, <1>3, <1>5, <2>2, <2>3, SwitchKeeps
<1>6. CASE UNCHANGED <<deployState, segs, ask>> /\ at' = [at EXCEPT ![p] = "done"]
  <2>1. "done" \in Places \ {"load"} /\ "done" \notin Processing \cup Unloaded
    BY DEF Places, Unloaded, Unmade, Checks, Processing, TxSteps
  <2> QED BY <1>1, <1>3, <1>6, <2>1, MoveKeeps
<1> QED BY <1>4, <1>5, <1>6 DEF Handle, Finish

\* The run up to its buffer
LEMMA FundsKeeps ==
  ASSUME SwitchInv, NEW p \in Presses,
         Fetched(p) \/ AirdropReply(p) \/ Airdropped(p) \/ Funding(p)
  PROVE  SwitchInv'
<1> DEFINE early == {"fetch", "askAirdrop", "airdrop", "spendable", "transfer", "extend"}
<1>1. /\ at[p] \in early /\ UNCHANGED <<loaded, aborted, buffer>>
  BY DEF Fetched, AirdropReply, Airdropped, Funding, runVars, accountVars
<1>2. \/ \E o, q : q \in {ask, Quiet(p)} /\ Ends(p, o, q)
      \/ \E s, q : /\ s \in early \cup {"create"} /\ Goes(p, s, q)
                   /\ q \in {ask, Quiet(p), [ask EXCEPT ![p] = "open"]}
  <2>1. CASE Fetched(p)
    BY <2>1 DEF Fetched, Asks
  <2>2. CASE AirdropReply(p)
    BY <2>2 DEF AirdropReply
  <2>3. CASE Airdropped(p)
    BY <2>3 DEF Airdropped
  <2>4. CASE Funding(p)
    BY <2>4 DEF Funding, Unless
  <2> QED BY <2>1, <2>2, <2>3, <2>4
<1>3. /\ InRun(p) /\ ~Pending(p) /\ at[p] \in Unloaded
      /\ at[p] \notin {"load", "askClose", "close", "reclaim"}
      /\ \A s \in early \cup {"create"} : s \in Processing \ {"load"}
  BY <1>1 DEF InRun, Processing, TxSteps, Pending, Unloaded, Unmade
<1>4. deployState # "cancelled"
  BY <1>3, EarlyNotCancelled
<1> HIDE DEF early
<1> QED BY <1>1, <1>2, <1>3, <1>4, EndsKeeps, GoesKeeps

LEMMA FreshType == FreshSegment \in Segments
BY DEF FreshSegment, Segments, States

\* The buffer is made: the first segment, unless the run was stopped
LEMMA CreatedKeeps ==
  ASSUME SwitchInv, NEW p \in Presses, at[p] = "create", Done(p),
         UNCHANGED <<aborted, buffer>>
  PROVE  SwitchInv'
<1> USE DEF SwitchInv
<1>1. /\ at' = [at EXCEPT ![p] = "load"] /\ UNCHANGED <<deployState, ask>>
      /\ \/ /\ aborted[p] /\ loaded' = [loaded EXCEPT ![p] = "cancelled"]
            /\ UNCHANGED segs
         \/ /\ ~aborted[p] /\ segs' = [segs EXCEPT ![p] = <<FreshSegment>>]
            /\ UNCHANGED loaded
  BY DEF Done
<1>2. segs[p] = << >> /\ loaded[p] = "pending"
  BY DEF SegmentsOK, Unloaded
<1>3. /\ at'[p] = "load" /\ at' \in [Presses -> Places]
      /\ \A r \in Presses \ {p} : at'[r] = at[r] /\ loaded'[r] = loaded[r] /\ segs'[r] = segs[r]
  BY <1>1 DEF SwitchType, Places, Processing
<1>4. \A r \in Presses \ {p} : Pending(r)' <=> Pending(r)
  BY <1>3 DEF Pending
<1>5. SwitchType'
  <2>1. <<FreshSegment>> \in Seq(Segments)
    BY FreshType
  <2>2. segs' \in [Presses -> Seq(Segments)] /\ UNCHANGED aborted
    BY <1>1, <2>1 DEF SwitchType
  <2>3. loaded' \in [Presses -> {"pending", "success", "error", "cancelled"}]
    BY <1>1 DEF SwitchType
  <2> QED BY <1>1, <1>3, <2>2, <2>3 DEF SwitchType
<1>6. SegmentsOK'
  <2>1. ASSUME NEW r \in Presses \ {p}
        PROVE  /\ at'[r] \in Unloaded => segs'[r] = << >> /\ loaded'[r] = "pending"
               /\ \A k \in DOMAIN segs'[r] :
                    /\ SegmentOK(Pending(r)', aborted[r], ask[r], segs'[r][k])
                    /\ k < Len(segs'[r]) => Over(segs'[r][k])
    <3>1. Pending(r)' = Pending(r)
      BY <1>4 DEF Pending
    <3> QED BY <1>3, <3>1 DEF SegmentsOK
  <2>2. at'[p] \notin Unloaded
    BY <1>3 DEF Unloaded, Unmade, Checks
  <2>3. ASSUME NEW k \in DOMAIN segs'[p]
        PROVE  /\ SegmentOK(Pending(p)', aborted[p], ask[p], segs'[p][k])
               /\ k < Len(segs'[p]) => Over(segs'[p][k])
    <3>1. CASE segs' = segs
      BY <1>2, <2>3, <3>1
    <3>2. CASE ~aborted[p] /\ segs' = [segs EXCEPT ![p] = <<FreshSegment>>] /\ UNCHANGED loaded
      <4>1. segs'[p] = <<FreshSegment>>
        BY <3>2 DEF SwitchType
      <4>2. k = 1 /\ Len(segs'[p]) = 1 /\ segs'[p][k] = FreshSegment
        BY <2>3, <4>1
      <4>3. Pending(p)'
        BY <1>2, <1>3, <3>2 DEF Pending
      <4>4. SegmentOK(Pending(p)', aborted[p], ask[p], FreshSegment)
        BY <4>3 DEF SegmentOK, FreshSegment
      <4> QED BY <4>2, <4>4
    <3> QED BY <1>1, <3>1, <3>2
  <2> QED BY <1>1, <2>1, <2>2, <2>3 DEF SegmentsOK
<1>7. OneRun'
  <2>1. \A r \in Presses : InRun(r)' <=> InRun(r)
    BY <1>3 DEF InRun, Processing, TxSteps
  <2> QED BY <1>1, <2>1 DEF OneRun
<1>8. deployState # "cancelled"
  BY EarlyNotCancelled DEF InRun, Processing, TxSteps
<1>9. CancelledOK'
  BY <1>1, <1>8 DEF CancelledOK
<1>10. LoadedWhole'
  <2>1. loaded'[p] # "success"
    BY <1>1, <1>2 DEF SwitchType
  <2> QED BY <1>3, <2>1 DEF LoadedWhole
<1> QED BY <1>5, <1>6, <1>7, <1>9, <1>10

\* The transactions of a run, as far as the switch is concerned
LEMMA DoneKeeps ==
  ASSUME SwitchInv, NEW p \in Presses, at[p] \in TxSteps, Done(p), UNCHANGED <<aborted, buffer>>
  PROVE  SwitchInv'
<1>1. InRun(p) /\ ~Pending(p)
  BY DEF InRun, Processing, TxSteps, Pending
<1>2. CASE at[p] = "create"
  BY <1>2, CreatedKeeps
<1>3. CASE at[p] \in {"close", "reclaim", "final"}
  <2>1. (\E o : Ends(p, o, ask)) /\ UNCHANGED loaded
    BY <1>3 DEF Done
  <2> QED BY <1>1, <2>1, EndsKeeps
<1>4. CASE at[p] = "authority"
  <2>1. Goes(p, "final", ask) /\ UNCHANGED loaded
    BY <1>4 DEF Done
  <2>2. deployState # "cancelled"
    BY <1>1, <1>4, EarlyNotCancelled
  <2>3. "final" \in Processing \ {"load"} /\ "final" \notin Unloaded
    BY DEF Processing, TxSteps, Unloaded, Unmade, Checks
  <2> QED BY <1>1, <2>1, <2>2, <2>3, GoesKeeps
<1> QED BY <1>2, <1>3, <1>4 DEF TxSteps

LEMMA AgainKeeps ==
  ASSUME SwitchInv, NEW p \in Presses, at[p] \in TxSteps, Again(p), UNCHANGED <<aborted, buffer>>
  PROVE  SwitchInv'
<1>1. InRun(p) /\ ~Pending(p)
  BY DEF InRun, Processing, TxSteps, Pending
<1>2. CASE Ends(p, "failed", ask) /\ UNCHANGED loaded
  BY <1>1, <1>2, EndsKeeps
<1>3. CASE UNCHANGED <<deployState, ask, callVars, loadVars>>
  BY <1>3 DEF callVars, loadVars, SwitchInv, SwitchType, SegmentsOK, Pending, OneRun, InRun,
     CancelledOK, LoadedWhole
<1> QED BY <1>2, <1>3 DEF Again

\* A step that the switch does not see
LEMMA SameSwitch ==
  ASSUME SwitchInv, UNCHANGED <<deployState, at, ask, aborted, segs, loaded, buffer>>
  PROVE  SwitchInv'
BY DEF SwitchInv, SwitchType, SegmentsOK, Pending, OneRun, InRun, CancelledOK, LoadedWhole

LEMMA TransactionKeeps ==
  ASSUME SwitchInv, NEW p \in Presses, Transaction(p)
  PROVE  SwitchInv'
<1>1. UNCHANGED <<aborted, buffer>>
  BY DEF Transaction, Send, Confirm, Check, KeptBalance, runVars, accountVars
<1>2. CASE Send(p)
  <2>1. /\ at[p] \in TxSteps
        /\ Done(p) \/ Again(p) \/ UNCHANGED <<deployState, ask, callVars, loadVars>>
    BY <1>2 DEF Send
  <2> QED BY <1>1, <2>1, DoneKeeps, AgainKeeps, SameSwitch DEF callVars, loadVars
<1>3. CASE Confirm(p)
  <2>1. /\ at[p] \in TxSteps
        /\ Done(p) \/ Again(p) \/ UNCHANGED <<deployState, ask, callVars, loadVars>>
    BY <1>3 DEF Confirm
  <2> QED BY <1>1, <2>1, DoneKeeps, AgainKeeps, SameSwitch DEF callVars, loadVars
<1>4. CASE Check(p)
  <2>1. at[p] \in TxSteps /\ (Done(p) \/ Again(p))
    BY <1>4 DEF Check
  <2> QED BY <1>1, <2>1, DoneKeeps, AgainKeeps
<1>5. CASE KeptBalance(p)
  <2>1. at[p] = "close" /\ (\E o : Ends(p, o, ask)) /\ UNCHANGED loaded
    BY <1>5 DEF KeptBalance
  <2>2. InRun(p) /\ ~Pending(p)
    BY <2>1 DEF InRun, Processing, TxSteps, Pending
  <2> QED BY <1>1, <2>1, <2>2, EndsKeeps
<1> QED BY <1>2, <1>3, <1>4, <1>5 DEF Transaction

\* The end of the load, taken up
LEMMA LoadedSwitches ==
  ASSUME SwitchInv, NEW p \in Presses, Loaded(p)
  PROVE  SwitchInv'
<1>1. /\ at[p] = "load" /\ loaded[p] # "pending" /\ UNCHANGED <<loaded, aborted, buffer>>
      /\ InRun(p) /\ ~Pending(p)
  BY DEF Loaded, accountVars, InRun, Processing, Pending
<1>2. \/ \E o : Ends(p, o, ask)
      \/ \E s \in {"close", "askClose"}, q \in {ask, [ask EXCEPT ![p] = "open"]} : Goes(p, s, q)
      \/ loaded[p] = "success" /\ \E s \in {"authority", "final"} : Goes(p, s, ask)
  BY DEF Loaded, Asks
<1>3. /\ \A s \in {"close", "askClose", "authority", "final"} :
           s \in Processing \ {"load"} /\ s \notin Unloaded
  BY DEF Processing, TxSteps, Unloaded, Unmade, Checks
<1>4. loaded[p] = "success" => deployState # "cancelled"
  BY <1>1 DEF SwitchInv, CancelledOK
<1> QED BY <1>1, <1>2, <1>3, <1>4, EndsKeeps, GoesKeeps

LEMMA CloseReplyKeeps ==
  ASSUME SwitchInv, NEW p \in Presses, CloseReply(p)
  PROVE  SwitchInv'
<1>1. /\ at[p] = "askClose" /\ UNCHANGED <<loaded, aborted, buffer>>
      /\ InRun(p) /\ ~Pending(p)
  BY DEF CloseReply, runVars, accountVars, InRun, Processing, Pending
<1>2. Goes(p, "reclaim", Quiet(p)) \/ \E o : Ends(p, o, Quiet(p))
  BY DEF CloseReply
<1>3. "reclaim" \in Processing \ {"load"} /\ "reclaim" \notin Unloaded
  BY DEF Processing, TxSteps, Unloaded, Unmade, Checks
<1> QED BY <1>1, <1>2, <1>3, EndsKeeps, GoesKeeps

-----------------------------------------------------------------------------
(* The segments of a load *)

LEMMA SegmentUpdate ==
  ASSUME SwitchType, NEW p \in Presses, NEW k \in DOMAIN segs[p], NEW g \in Segments,
         segs' = [segs EXCEPT ![p][k] = g]
  PROVE  /\ segs' \in [Presses -> Seq(Segments)]
         /\ \A r \in Presses \ {p} : segs'[r] = segs[r]
         /\ Len(segs'[p]) = Len(segs[p]) /\ DOMAIN segs'[p] = DOMAIN segs[p]
         /\ segs'[p][k] = g
         /\ \A j \in DOMAIN segs[p] \ {k} : segs'[p][j] = segs[p][j]
<1> DEFINE s == segs[p]
<1>1. s \in Seq(Segments) /\ segs \in [Presses -> Seq(Segments)]
  BY DEF SwitchType
<1>2. segs'[p] = [s EXCEPT ![k] = g] /\ \A r \in Presses \ {p} : segs'[r] = segs[r]
  BY <1>1
<1>3. [s EXCEPT ![k] = g] \in Seq(Segments) /\ Len([s EXCEPT ![k] = g]) = Len(s)
  BY <1>1
<1>4. DOMAIN [s EXCEPT ![k] = g] = DOMAIN s /\ [s EXCEPT ![k] = g][k] = g
      /\ \A j \in DOMAIN s \ {k} : [s EXCEPT ![k] = g][j] = s[j]
  OBVIOUS
<1>5. segs' \in [Presses -> Seq(Segments)]
  BY <1>1, <1>3
<1> QED BY <1>2, <1>3, <1>4, <1>5

\* One segment moves.  If it ends the load, no other segment of the run may need it
LEMMA SegmentKeeps ==
  ASSUME SwitchInv, NEW p \in Presses, NEW k \in DOMAIN segs[p], NEW g \in Segments,
         segs' = [segs EXCEPT ![p][k] = g],
         NEW l \in {"pending", "success", "error", "cancelled"},
         loaded' = [loaded EXCEPT ![p] = l], loaded[p] # "pending" => l = loaded[p],
         SegmentOK(Pending(p)', aborted[p], ask[p], g),
         k < Len(segs[p]) => Over(g),
         \/ l = loaded[p]
         \/ /\ l = "success" => buffer[p].data = Chunks /\ buffer[p].on # Nowhere
            /\ \A j \in DOMAIN segs[p] \ {k} :
                 SegmentOK(FALSE, aborted[p], ask[p], segs[p][j]),
         UNCHANGED <<deployState, at, ask, aborted, buffer>>
  PROVE  SwitchInv'
<1> USE DEF SwitchInv
<1>1. /\ segs' \in [Presses -> Seq(Segments)]
      /\ \A r \in Presses \ {p} : segs'[r] = segs[r]
      /\ Len(segs'[p]) = Len(segs[p]) /\ DOMAIN segs'[p] = DOMAIN segs[p]
      /\ segs'[p][k] = g
      /\ \A j \in DOMAIN segs[p] \ {k} : segs'[p][j] = segs[p][j]
  BY SegmentUpdate
<1>2. /\ loaded'[p] = l /\ \A r \in Presses \ {p} : loaded'[r] = loaded[r]
      /\ loaded' \in [Presses -> {"pending", "success", "error", "cancelled"}]
  BY DEF SwitchType
<1>3. \A r \in Presses \ {p} : Pending(r)' = Pending(r)
  BY <1>2 DEF Pending
<1>4. Pending(p)' => Pending(p)
  BY <1>2 DEF Pending
<1>5. SwitchType'
  BY <1>1, <1>2 DEF SwitchType
<1>6. SegmentsOK'
  <2>1. ASSUME NEW r \in Presses \ {p}
        PROVE  /\ at[r] \in Unloaded => segs'[r] = << >> /\ loaded'[r] = "pending"
               /\ \A j \in DOMAIN segs'[r] :
                    /\ SegmentOK(Pending(r)', aborted[r], ask[r], segs'[r][j])
                    /\ j < Len(segs'[r]) => Over(segs'[r][j])
    BY <1>1, <1>2, <1>3 DEF SegmentsOK
  <2>2. at[p] \notin Unloaded
    <3>1. segs[p] # << >>
      OBVIOUS
    <3> QED BY <3>1 DEF SegmentsOK
  <2>3. ASSUME NEW j \in DOMAIN segs'[p]
        PROVE  /\ SegmentOK(Pending(p)', aborted[p], ask[p], segs'[p][j])
               /\ j < Len(segs'[p]) => Over(segs'[p][j])
    <3>1. CASE j = k
      BY <1>1, <3>1
    <3>2. CASE j # k
      <4>1. /\ SegmentOK(Pending(p), aborted[p], ask[p], segs[p][j])
            /\ j < Len(segs[p]) => Over(segs[p][j])
            /\ segs'[p][j] = segs[p][j]
        BY <1>1, <2>3, <3>2 DEF SegmentsOK
      <4>2. CASE l = loaded[p]
        <5>1. Pending(p)' = Pending(p)
          BY <1>2, <4>2 DEF Pending
        <5> QED BY <1>1, <4>1, <5>1
      <4>3. CASE l # loaded[p]
        <5>1. SegmentOK(FALSE, aborted[p], ask[p], segs[p][j])
          BY <1>1, <2>3, <3>2, <4>3
        <5>2. ~Pending(p)' 
          BY <1>2, <4>3 DEF Pending
        <5>3. Pending(p)' = FALSE
          BY <5>2 DEF Pending
        <5> QED BY <1>1, <4>1, <5>1, <5>3
      <4> QED BY <4>2, <4>3
    <3> QED BY <3>1, <3>2
  <2> QED BY <2>1, <2>2, <2>3 DEF SegmentsOK
<1>7. OneRun'
  BY DEF OneRun, InRun
<1>8. CancelledOK'
  BY <1>2 DEF CancelledOK, InRun
<1>9. LoadedWhole'
  BY <1>2 DEF LoadedWhole
<1> QED BY <1>5, <1>6, <1>7, <1>8, <1>9

\* Of a segment that is not over, all the others are
LEMMA OthersOver ==
  ASSUME SwitchInv, NEW p \in Presses, NEW k \in DOMAIN segs[p], ~Over(segs[p][k])
  PROVE  \A j \in DOMAIN segs[p] \ {k} : SegmentOK(FALSE, aborted[p], ask[p], segs[p][j])
<1>1. ~(k < Len(segs[p]))
  BY DEF SwitchInv, SegmentsOK
<1>2. ASSUME NEW j \in DOMAIN segs[p] \ {k}
      PROVE  SegmentOK(FALSE, aborted[p], ask[p], segs[p][j])
  <2>1. segs[p] \in Seq(Segments) /\ DOMAIN segs[p] = 1..Len(segs[p])
    BY DEF SwitchInv, SwitchType
  <2>2. j < Len(segs[p])
    BY <1>1, <1>2, <2>1
  <2>3. Over(segs[p][j])
    BY <1>2, <2>2 DEF SwitchInv, SegmentsOK
  <2> QED BY <2>3 DEF Over, SegmentOK
<1> QED BY <1>2

\* While no reply waits, the segments of a stopped run do not need its load
LEMMA StoppedNeedsNone ==
  ASSUME SwitchInv, Settled, NEW p \in Presses, aborted[p], NEW j \in DOMAIN segs[p]
  PROVE  SegmentOK(FALSE, aborted[p], ask[p], segs[p][j])
<1>1. SegmentOK(Pending(p), aborted[p], ask[p], segs[p][j]) /\ ask[p] \notin Replies
  BY DEF SwitchInv, SegmentsOK, Settled
<1> QED BY <1>1 DEF SegmentOK

\* loadBuffer has returned or thrown: what it resolves is right, and a segment that
\* goes on listening is one that was cut
LEMMA LoadEndsKeeps ==
  ASSUME SwitchInv, Settled, NEW p \in Presses, NEW k \in DOMAIN segs[p],
         NEW threw \in BOOLEAN, segs[p][k].stage \in {"simulate", "load", "read"},
         ~threw /\ ~segs[p][k].cut => buffer[p].data = Chunks /\ buffer[p].on # Nowhere,
         LoadEnds(p, k, threw),
         UNCHANGED <<deployState, at, ask, aborted, buffer>>
  PROVE  SwitchInv'
<1> USE DEF SwitchInv
<1> DEFINE g == segs[p][k]
           paused == g.cut /\ ~aborted[p]
           h == [g EXCEPT !.stage = "ended", !.stops = FALSE, !.listens = g.listens /\ paused]
           end == IF aborted[p] THEN "cancelled"
                  ELSE IF paused THEN loaded[p]
                  ELSE IF threw THEN "error" ELSE "success"
           l == IF loaded[p] = "pending" THEN end ELSE loaded[p]
<1>1. segs[p] \in Seq(Segments) /\ g \in Segments /\ aborted[p] \in BOOLEAN
  BY DEF SwitchType
<1>2. segs' = [segs EXCEPT ![p][k] = h]
  BY DEF LoadEnds
<1>3. /\ h \in Segments /\ h.stage = "ended" /\ h.cut = g.cut /\ h.asks = g.asks
      /\ h.stray = g.stray /\ h.answersNo = g.answersNo
      /\ h.listens => g.listens /\ paused
      /\ g.listens /\ paused => h.listens
  BY <1>1 DEF Segments
<1>4. /\ loaded' = [loaded EXCEPT ![p] = l]
      /\ l \in {"pending", "success", "error", "cancelled"}
  BY DEF LoadEnds, Resolve, SwitchType
<1>5. /\ SegmentOK(Pending(p), aborted[p], ask[p], g)
      /\ k < Len(segs[p]) => Over(g)
  BY DEF SegmentsOK
<1> HIDE DEF h
<1>6. k < Len(segs[p]) => Over(h)
  BY <1>3, <1>5 DEF Over
<1>7. CASE aborted[p]
  <2>1. SegmentOK(FALSE, aborted[p], ask[p], g)
    BY <1>7, StoppedNeedsNone
  <2>2. SegmentOK(Pending(p)', aborted[p], ask[p], h)
    BY <1>3, <1>7, <2>1 DEF SegmentOK
  <2>3. \A j \in DOMAIN segs[p] \ {k} : SegmentOK(FALSE, aborted[p], ask[p], segs[p][j])
    BY <1>7, StoppedNeedsNone
  <2>4. l = "success" => l = loaded[p]
    BY <1>7
  <2> HIDE DEF l, g
  <2>5. loaded[p] # "pending" => l = loaded[p]
    BY DEF l
  <2> QED BY <1>2, <1>3, <1>4, <1>6, <2>2, <2>3, <2>4, <2>5, SegmentKeeps
<1>8. CASE paused
  <2>1. l = loaded[p]
    BY <1>8
  <2>2. Pending(p)' = Pending(p)
    BY <1>4, <2>1 DEF Pending, SwitchType
  <2>3. SegmentOK(Pending(p)', aborted[p], ask[p], h)
    BY <1>3, <1>5, <1>8, <2>2 DEF SegmentOK
  <2> HIDE DEF l, g
  <2> QED BY <1>2, <1>3, <1>4, <1>6, <2>1, <2>3, SegmentKeeps
<1>9. CASE ~aborted[p] /\ ~g.cut
  <2>1. ~Over(g)
    BY <1>9 DEF Over
  <2>2. \A j \in DOMAIN segs[p] \ {k} : SegmentOK(FALSE, aborted[p], ask[p], segs[p][j])
    BY <2>1, OthersOver
  <2>3. ~g.asks /\ ~g.stray
    BY <1>5, <1>9 DEF SegmentOK
  <2>4. SegmentOK(Pending(p)', aborted[p], ask[p], h)
    BY <1>3, <1>9, <2>3 DEF SegmentOK
  <2>5. l = "success" => l = loaded[p] \/ (buffer[p].data = Chunks /\ buffer[p].on # Nowhere)
    BY <1>9
  <2>6. loaded[p] # "pending" => l = loaded[p]
    OBVIOUS
  <2> HIDE DEF l, g
  <2> QED BY <1>2, <1>3, <1>4, <1>6, <2>2, <2>4, <2>5, <2>6, SegmentKeeps
<1> QED BY <1>1, <1>7, <1>8, <1>9

\* The terminal has come
LEMMA StartsKeeps ==
  ASSUME SwitchInv, NEW p \in Presses, NEW k \in DOMAIN segs[p], SegmentStarts(p, k)
  PROVE  SwitchInv'
<1> USE DEF SwitchInv
<1> DEFINE g == segs[p][k]
           h == [g EXCEPT !.stage = "simulate", !.cut = aborted[p], !.stops = ~aborted[p],
                          !.listens = TRUE, !.prev = deployState]
<1>1. /\ g \in Segments /\ aborted[p] \in BOOLEAN /\ deployState \in States
      /\ loaded[p] \in {"pending", "success", "error", "cancelled"}
  BY DEF SwitchType
<1>2. /\ segs' = [segs EXCEPT ![p][k] = h] /\ g.stage = "terminal"
      /\ UNCHANGED <<deployState, at, ask, aborted, loaded, buffer>>
  BY DEF SegmentStarts, callVars, runVars, accountVars
<1>3. /\ h \in Segments /\ h.stage = "simulate" /\ h.cut = aborted[p] /\ h.stops = ~aborted[p]
      /\ h.asks = g.asks /\ h.stray = g.stray
  BY <1>1 DEF Segments
<1>4. /\ SegmentOK(Pending(p), aborted[p], ask[p], g)
      /\ k < Len(segs[p]) => Over(g)
  BY DEF SegmentsOK
<1>5. SegmentOK(Pending(p), aborted[p], ask[p], h)
  BY <1>2, <1>3, <1>4 DEF SegmentOK
<1>6. ~(k < Len(segs[p]))
  BY <1>2, <1>4 DEF Over
<1>7. Pending(p)' = Pending(p)
  BY <1>2 DEF Pending
<1>8. loaded' = [loaded EXCEPT ![p] = loaded[p]]
  BY <1>2 DEF SwitchType
<1> HIDE DEF g, h
<1> QED BY <1>1, <1>2, <1>3, <1>5, <1>6, <1>7, <1>8, SegmentKeeps, ZenonT(30)

\* The segment goes on
LEMMA StageKeeps ==
  ASSUME SwitchInv, NEW p \in Presses, NEW k \in DOMAIN segs[p], NEW s \in {"load", "read"},
         segs[p][k].stage \in {"simulate", "load", "read"},
         segs' = [segs EXCEPT ![p][k].stage = s],
         UNCHANGED <<deployState, at, ask, aborted, loaded, buffer>>
  PROVE  SwitchInv'
<1> DEFINE g == segs[p][k]
           h == [g EXCEPT !.stage = s]
<1>1. g \in Segments /\ loaded[p] \in {"pending", "success", "error", "cancelled"}
  BY DEF SwitchInv, SwitchType
<1>2. /\ h \in Segments /\ h.stage = s /\ h.cut = g.cut /\ h.stops = g.stops
      /\ h.asks = g.asks /\ h.stray = g.stray /\ h.listens = g.listens
      /\ h.answersNo = g.answersNo /\ segs' = [segs EXCEPT ![p][k] = h]
  BY <1>1 DEF Segments
<1>3. /\ SegmentOK(Pending(p), aborted[p], ask[p], g)
      /\ k < Len(segs[p]) => Over(g)
  BY DEF SwitchInv, SegmentsOK
<1>4. SegmentOK(Pending(p), aborted[p], ask[p], h) /\ (Over(g) => Over(h))
  BY <1>2, <1>3 DEF SegmentOK, Over
<1>5. Pending(p)' = Pending(p)
  BY DEF Pending
<1>6. loaded' = [loaded EXCEPT ![p] = loaded[p]]
  BY DEF SwitchInv, SwitchType
<1> HIDE DEF g, h
<1> QED BY <1>1, <1>2, <1>3, <1>4, <1>5, <1>6, SegmentKeeps, ZenonT(30)

LEMMA SimulateKeeps ==
  ASSUME SwitchInv, Settled, NEW p \in Presses, NEW k \in DOMAIN segs[p], Simulate(p, k)
  PROVE  SwitchInv'
<1>1. UNCHANGED <<deployState, at, ask, aborted, buffer>> /\ segs[p][k].stage = "simulate"
  BY DEF Simulate, callVars, runVars, accountVars
<1>2. CASE LoadEnds(p, k, TRUE)
  BY <1>1, <1>2, LoadEndsKeeps
<1>3. CASE segs' = [segs EXCEPT ![p][k].stage = "load"] /\ UNCHANGED loaded
  BY <1>1, <1>3, StageKeeps
<1> QED BY <1>2, <1>3 DEF Simulate

\* The top of the loop ends a segment only if it was cut
LEMMA LoadPassKeeps ==
  ASSUME SwitchInv, Settled, NEW p \in Presses, NEW k \in DOMAIN segs[p], Load(p, k)
  PROVE  SwitchInv'
<1>1. UNCHANGED <<deployState, at, ask, aborted, buffer>> /\ segs[p][k].stage = "load"
  BY DEF Load, callVars, runVars, accountVars
<1>2. CASE segs[p][k].cut
  BY <1>1, <1>2, LoadEndsKeeps DEF Load
<1>3. CASE ~segs[p][k].cut
  BY <1>1, <1>3, StageKeeps DEF Load
<1> QED BY <1>2, <1>3

\* A read ends a segment that was not cut only with the whole program in a buffer that
\* is there
LEMMA ReadPassKeeps ==
  ASSUME SwitchInv, ChainInv, Settled, NEW p \in Presses, NEW k \in DOMAIN segs[p], Read(p, k)
  PROVE  SwitchInv'
<1>1. /\ UNCHANGED <<deployState, at, ask, aborted, buffer>> /\ segs[p][k].stage = "read"
      /\ buffer[p].on = how[p].on
  BY DEF Read, Held, callVars, runVars, accountVars
<1>2. buffer[p].on # Nowhere /\ buffer[p].data \subseteq Chunks
  BY <1>1, DeployAssumption DEF ChainInv, ChainType
<1>3. PICK seen \in SUBSET buffer[p].data :
        IF seen = Chunks \/ segs[p][k].cut
          THEN LoadEnds(p, k, FALSE)
          ELSE segs' = [segs EXCEPT ![p][k].stage = "load"] /\ UNCHANGED loaded
  BY DEF Read
<1>4. CASE seen = Chunks \/ segs[p][k].cut
  <2>1. ~segs[p][k].cut => buffer[p].data = Chunks
    BY <1>2, <1>4
  <2> QED BY <1>1, <1>2, <1>3, <1>4, <2>1, LoadEndsKeeps
<1>5. CASE ~(seen = Chunks \/ segs[p][k].cut)
  BY <1>1, <1>3, <1>5, StageKeeps
<1> QED BY <1>4, <1>5

\* A segment that could not ask fails the load, and has cut itself
LEMMA HandleFailsKeeps ==
  ASSUME SwitchInv, Settled, NEW p \in Presses, NEW k \in DOMAIN segs[p], HandleFails(p, k)
  PROVE  SwitchInv'
<1> USE DEF SwitchInv
<1> DEFINE g == segs[p][k]
           h == [g EXCEPT !.stray = FALSE]
           l == IF loaded[p] = "pending" THEN "error" ELSE loaded[p]
<1>1. g \in Segments /\ loaded[p] \in {"pending", "success", "error", "cancelled"}
  BY DEF SwitchType
<1>2. /\ segs' = [segs EXCEPT ![p][k] = h] /\ g.stray /\ loaded' = [loaded EXCEPT ![p] = l]
      /\ UNCHANGED <<deployState, at, ask, aborted, buffer>>
  BY DEF HandleFails, Resolve, callVars, runVars, accountVars, SwitchType
<1>3. /\ h \in Segments /\ h.stage = g.stage /\ h.cut = g.cut /\ h.asks = g.asks /\ ~h.stray
  BY <1>1 DEF Segments
<1>4. SegmentOK(Pending(p), aborted[p], ask[p], g)
  BY DEF SegmentsOK
<1>5. ~Over(g) /\ g.cut /\ ~g.asks /\ g.stage # "terminal"
  BY <1>2, <1>4 DEF Over, SegmentOK
<1>6. SegmentOK(Pending(p)', aborted[p], ask[p], h)
  BY <1>3, <1>5 DEF SegmentOK
<1>7. ~(k < Len(segs[p]))
  BY <1>5 DEF SegmentsOK
<1>8. \A j \in DOMAIN segs[p] \ {k} : SegmentOK(FALSE, aborted[p], ask[p], segs[p][j])
  BY <1>5, OthersOver
<1>9. l \in {"pending", "success", "error", "cancelled"} /\ (l = "success" => l = loaded[p])
      /\ (loaded[p] # "pending" => l = loaded[p])
  BY <1>1
<1> HIDE DEF g, h, l
<1> QED BY <1>2, <1>3, <1>6, <1>7, <1>8, <1>9, SegmentKeeps

\* The answer to "Continue deployment?": another segment, or the end of the load
LEMMA ContinueKeeps ==
  ASSUME SwitchInv, NEW p \in Presses, NEW k \in DOMAIN segs[p], Continue(p, k)
  PROVE  SwitchInv'
<1> USE DEF SwitchInv
<1> DEFINE g == segs[p][k]
           h == [g EXCEPT !.asks = FALSE, !.answersNo = FALSE, !.listens = FALSE]
           over == [segs EXCEPT ![p][k] = h]
           more == [over EXCEPT ![p] = Append(@, FreshSegment)]
           q == Quiet(p)
<1>1. /\ g \in Segments /\ segs[p] \in Seq(Segments) /\ segs \in [Presses -> Seq(Segments)]
      /\ aborted[p] \in BOOLEAN /\ ask \in [Presses -> Asked]
  BY DEF SwitchType
<1>2. /\ g.asks /\ UNCHANGED <<at, aborted, buffer>>
      /\ \/ /\ ~aborted[p] /\ SetState("loading", more, q) /\ UNCHANGED loaded
         \/ SetState("cancelled", over, q) /\ Resolve(p, "cancelled")
  BY DEF Continue, callVars, runVars, accountVars
<1>3. /\ SegmentOK(Pending(p), aborted[p], ask[p], g)
      /\ k < Len(segs[p]) => Over(g)
  BY DEF SegmentsOK
<1>4. /\ k = Len(segs[p]) /\ g.cut /\ ~g.stray /\ g.stage # "terminal" /\ Pending(p) /\ InRun(p)
  <2>1. ~(k < Len(segs[p]))
    BY <1>2, <1>3 DEF Over
  <2>2. k \in 1..Len(segs[p])
    BY <1>1
  <2>3. k = Len(segs[p])
    BY <1>1, <2>1, <2>2
  <2> QED BY <1>2, <1>3, <2>3 DEF SegmentOK, Pending, InRun, Processing
<1>5. h \in Segments /\ Over(h)
  BY <1>1, <1>4 DEF Segments, Over
<1>6. /\ over[p] = [segs[p] EXCEPT ![k] = h] /\ \A r \in Presses \ {p} : over[r] = segs[r]
      /\ over \in [Presses -> Seq(Segments)] /\ Len(over[p]) = Len(segs[p])
      /\ DOMAIN over[p] = 1..Len(segs[p])
  <2> HIDE DEF h
  <2>1. over[p] = [segs[p] EXCEPT ![k] = h] /\ \A r \in Presses \ {p} : over[r] = segs[r]
    BY <1>1
  <2>2. /\ [segs[p] EXCEPT ![k] = h] \in Seq(Segments)
        /\ Len([segs[p] EXCEPT ![k] = h]) = Len(segs[p])
    BY <1>1, <1>5
  <2>3. over \in [Presses -> Seq(Segments)]
    BY <1>1, <2>2
  <2> QED BY <1>1, <2>1, <2>2, <2>3
<1>7. \A j \in DOMAIN over[p] : Over(over[p][j])
  <2> HIDE DEF h, g
  <2>1. ASSUME NEW j \in 1..Len(segs[p]), j # k PROVE over[p][j] = segs[p][j] /\ Over(segs[p][j])
    <3>1. j < Len(segs[p]) /\ j \in DOMAIN segs[p]
      BY <1>1, <1>4, <2>1
    <3>2. Over(segs[p][j])
      BY <3>1 DEF SegmentsOK
    <3> QED BY <1>6, <2>1, <3>1, <3>2
  <2>2. over[p][k] = h
    BY <1>1, <1>6
  <2> QED BY <1>5, <1>6, <2>1, <2>2
<1>8. \A r \in Presses \ {p} : ~InRun(r)
  BY <1>4 DEF OneRun
<1>9. \A r \in Presses \ {p} : \A j \in DOMAIN segs[r] :
        /\ SegmentOK(FALSE, aborted[r], ask[r], segs[r][j]) /\ ~segs[r][j].asks
        /\ j < Len(segs[r]) => Over(segs[r][j])
  <2>1. ASSUME NEW r \in Presses \ {p}, NEW j \in DOMAIN segs[r]
        PROVE  /\ SegmentOK(FALSE, aborted[r], ask[r], segs[r][j]) /\ ~segs[r][j].asks
               /\ j < Len(segs[r]) => Over(segs[r][j])
    <3>1. Pending(r) = FALSE
      BY <1>8 DEF Pending, InRun, Processing
    <3>2. /\ SegmentOK(Pending(r), aborted[r], ask[r], segs[r][j])
          /\ j < Len(segs[r]) => Over(segs[r][j])
      BY DEF SegmentsOK
    <3> QED BY <3>1, <3>2 DEF SegmentOK
  <2> QED BY <2>1
<1>10. /\ q \in [Presses -> Asked] /\ \A r \in Presses \ {p} : q[r] = ask[r]
  BY AskTypes
<1>11. \A x, y, z, b : \A c \in BOOLEAN : Over(z) => SegmentOK(c, x, y, z)
  BY DEF Over, SegmentOK
<1>12. at[p] \notin Unloaded /\ at[p] = "load" /\ loaded[p] = "pending"
  BY <1>4 DEF Pending, Unloaded, Unmade, Checks
<1>13. \A r \in Presses : InRun(r)' <=> InRun(r)
  BY <1>2 DEF InRun
<1> HIDE DEF h, g, over, q
<1>14. CASE SetState("cancelled", over, q) /\ Resolve(p, "cancelled")
  <2> DEFINE pending == [r \in Presses |-> FALSE]
  <2>1. /\ loaded'[p] = "cancelled" /\ \A r \in Presses \ {p} : loaded'[r] = loaded[r]
        /\ loaded' \in [Presses -> {"pending", "success", "error", "cancelled"}]
    BY <1>12, <1>14 DEF Resolve, SwitchType
  <2>2. ASSUME NEW r \in Presses, NEW j \in DOMAIN over[r]
        PROVE  /\ SegmentOK(pending[r], aborted[r], q[r], over[r][j])
               /\ over[r][j].asks => q[r] = "open"
               /\ j < Len(over[r]) => Over(over[r][j])
    <3>0. pending[r] = FALSE
      OBVIOUS
    <3>1. CASE r # p
      BY <1>6, <1>9, <1>10, <2>2, <3>0, <3>1
    <3>2. CASE r = p
      <4>1. Over(over[r][j])
        BY <1>7, <2>2, <3>2
      <4> QED BY <4>1, <3>0, <1>11 DEF Over
    <3> QED BY <3>1, <3>2
  <2>3. "cancelled" \in States /\ SwitchType /\ pending \in [Presses -> BOOLEAN]
    BY DEF States
  <2> HIDE DEF pending
  <2>4. \A r \in Presses : \A j \in DOMAIN over[r] :
          /\ SegmentOK(pending[r], aborted[r], q[r], over[r][j])
          /\ over[r][j].asks => q[r] = "open"
    BY <2>2
  <2>a. /\ over \in [Presses -> Seq(Segments)] /\ q \in [Presses -> Asked]
        /\ SetState("cancelled", over, q)
    BY <1>6, <1>10, <1>14
  <2>5. /\ deployState' = "cancelled"
        /\ segs' \in [Presses -> Seq(Segments)] /\ ask' \in [Presses -> Asked]
        /\ \A r \in Presses :
             /\ Len(segs'[r]) = Len(over[r]) /\ DOMAIN segs'[r] = DOMAIN over[r]
             /\ \A j \in DOMAIN over[r] :
                  /\ SegmentOK(pending[r], aborted[r], ask'[r], segs'[r][j])
                  /\ Over(over[r][j]) => Over(segs'[r][j])
    BY ONLY <2>3, <2>4, <2>a, SetStateKeeps
  <2>6. \A r \in Presses : Pending(r)' = FALSE
    BY <1>2, <1>8, <2>1 DEF Pending, InRun, Processing
  <2>7. SwitchType'
    BY <1>2, <2>1, <2>5 DEF SwitchType, States
  <2>8. SegmentsOK'
    <3>1. ASSUME NEW r \in Presses, at[r] \in Unloaded
          PROVE  segs'[r] = << >> /\ loaded'[r] = "pending"
      <4>1. r # p /\ segs[r] = << >> /\ loaded[r] = "pending"
        BY <1>12, <3>1 DEF SegmentsOK
      <4>2. segs'[r] \in Seq(Segments) /\ Len(segs'[r]) = 0
        BY <1>6, <2>5, <4>1
      <4> QED BY <2>1, <4>1, <4>2
    <3>2. ASSUME NEW r \in Presses, NEW j \in DOMAIN segs'[r]
          PROVE  /\ SegmentOK(Pending(r)', aborted[r], ask'[r], segs'[r][j])
                 /\ j < Len(segs'[r]) => Over(segs'[r][j])
      <4>1. j \in DOMAIN over[r] /\ Len(segs'[r]) = Len(over[r])
        BY <2>5, <3>2
      <4>2. Pending(r)' = pending[r]
        BY <2>6 DEF pending
      <4> QED BY <2>2, <2>5, <4>1, <4>2
    <3> QED BY <1>2, <3>1, <3>2 DEF SegmentsOK
  <2>9. OneRun'
    BY <1>4, <1>8, <1>13, <2>5 DEF OneRun
  <2>10. CancelledOK'
    BY <1>2, <1>8, <1>12, <1>13, <2>1 DEF CancelledOK
  <2>11. LoadedWhole'
    BY <1>2, <2>1 DEF LoadedWhole
  <2> QED BY <2>7, <2>8, <2>9, <2>10, <2>11
<1>15. CASE ~aborted[p] /\ SetState("loading", more, q) /\ UNCHANGED loaded
  <2> DEFINE pending == [r \in Presses |-> r = p]
  <2>0. /\ more[p] = Append(over[p], FreshSegment) /\ more \in [Presses -> Seq(Segments)]
        /\ \A r \in Presses \ {p} : more[r] = segs[r]
    <3>0. over[p] \in Seq(Segments)
      BY <1>6
    <3>1. Append(over[p], FreshSegment) \in Seq(Segments)
      BY <3>0, FreshType, AppendProperties
    <3> QED BY <1>6, <3>1
  <2> HIDE DEF more
  <2>1. /\ DOMAIN more[p] = 1..(Len(segs[p]) + 1) /\ Len(more[p]) = Len(segs[p]) + 1
        /\ more[p][Len(segs[p]) + 1] = FreshSegment
        /\ \A j \in 1..Len(segs[p]) : more[p][j] = over[p][j]
    BY <1>1, <1>6, <2>0
  <2>2. ASSUME NEW r \in Presses, NEW j \in DOMAIN more[r]
        PROVE  /\ SegmentOK(pending[r], aborted[r], q[r], more[r][j])
               /\ more[r][j].asks => q[r] = "open"
               /\ j < Len(more[r]) => Over(more[r][j])
    <3>1. CASE r # p
      <4>0. pending[r] = FALSE
        BY <3>1
      <4> QED BY <1>9, <1>10, <2>0, <2>2, <3>1, <4>0
    <3>2. CASE r = p /\ j # Len(segs[p]) + 1
      <4>1. j \in 1..Len(segs[p])
        BY <1>1, <2>1, <2>2, <3>2
      <4>2. Over(more[r][j])
        BY <1>6, <1>7, <2>1, <3>2, <4>1
      <4>3. pending[r] = TRUE
        BY <3>2
      <4> QED BY <1>11, <4>2, <4>3 DEF Over
    <3>3. CASE r = p /\ j = Len(segs[p]) + 1
      <4>1. more[r][j] = FreshSegment /\ ~(j < Len(more[r]))
        BY <1>1, <2>1, <3>3
      <4>2. pending[r] = TRUE
        BY <3>3
      <4>3. SegmentOK(TRUE, aborted[r], q[r], FreshSegment) /\ ~FreshSegment.asks
        BY DEF SegmentOK, FreshSegment
      <4> QED BY <4>1, <4>2, <4>3
    <3> QED BY <3>1, <3>2, <3>3
  <2>3. "loading" \in States /\ SwitchType /\ pending \in [Presses -> BOOLEAN]
    BY DEF States
  <2> HIDE DEF pending
  <2>4. \A r \in Presses : \A j \in DOMAIN more[r] :
          /\ SegmentOK(pending[r], aborted[r], q[r], more[r][j])
          /\ more[r][j].asks => q[r] = "open"
    BY <2>2
  <2>a. /\ more \in [Presses -> Seq(Segments)] /\ q \in [Presses -> Asked]
        /\ SetState("loading", more, q)
    BY <1>10, <1>15, <2>0
  <2>5. /\ deployState' = "loading"
        /\ segs' \in [Presses -> Seq(Segments)] /\ ask' \in [Presses -> Asked]
        /\ \A r \in Presses :
             /\ Len(segs'[r]) = Len(more[r]) /\ DOMAIN segs'[r] = DOMAIN more[r]
             /\ \A j \in DOMAIN more[r] :
                  /\ SegmentOK(pending[r], aborted[r], ask'[r], segs'[r][j])
                  /\ Over(more[r][j]) => Over(segs'[r][j])
    BY ONLY <2>3, <2>4, <2>a, SetStateKeeps
  <2>6. \A r \in Presses : Pending(r)' = pending[r]
    BY <1>2, <1>8, <1>12, <1>15 DEF Pending, InRun, Processing, pending
  <2>7. SwitchType'
    BY <1>2, <1>15, <2>5 DEF SwitchType, States
  <2>8. SegmentsOK'
    <3>1. ASSUME NEW r \in Presses, at[r] \in Unloaded
          PROVE  segs'[r] = << >> /\ loaded[r] = "pending"
      <4>1. r # p /\ segs[r] = << >> /\ loaded[r] = "pending"
        BY <1>12, <3>1 DEF SegmentsOK
      <4>2. segs'[r] \in Seq(Segments) /\ Len(segs'[r]) = 0
        BY <2>0, <2>5, <4>1
      <4> QED BY <4>1, <4>2
    <3>2. ASSUME NEW r \in Presses, NEW j \in DOMAIN segs'[r]
          PROVE  /\ SegmentOK(Pending(r)', aborted[r], ask'[r], segs'[r][j])
                 /\ j < Len(segs'[r]) => Over(segs'[r][j])
      <4>1. j \in DOMAIN more[r] /\ Len(segs'[r]) = Len(more[r])
        BY <2>5, <3>2
      <4>2. Pending(r)' = pending[r]
        BY <2>6
      <4> QED BY <2>2, <2>5, <4>1, <4>2
    <3> QED BY <1>2, <1>15, <3>1, <3>2 DEF SegmentsOK
  <2>9. OneRun'
    BY <1>4, <1>8, <1>13, <2>5 DEF OneRun
  <2>10. CancelledOK'
    BY <2>5 DEF CancelledOK
  <2>11. LoadedWhole'
    BY <1>2, <1>15 DEF LoadedWhole
  <2> QED BY <2>7, <2>8, <2>9, <2>10, <2>11
<1> QED BY <1>2, <1>14, <1>15

\* A stop cuts every segment that can be cut, and answers the question of one that asks
LEMMA StopSwitches ==
  ASSUME SwitchInv, Settled, Stop
  PROVE  SwitchInv'
<1> USE DEF SwitchInv
<1> DEFINE stopped == {p \in Presses : /\ at[p] \notin {"idle", "done"}
                                       /\ ~locked[p] /\ ~aborted[p]}
           typesNo == \E p \in stopped : \/ at[p] = "askAirdrop"
                                         \/ \E k \in DOMAIN segs[p] : segs[p][k].answersNo
           Cut(g) == [g EXCEPT !.cut = g.cut \/ g.stops, !.stops = FALSE, !.answersNo = FALSE]
<1>1. /\ UNCHANGED <<deployState, at, loaded, buffer>>
      /\ aborted' = [p \in Presses |-> aborted[p] \/ p \in stopped]
      /\ segs' = [p \in Presses |-> [k \in DOMAIN segs[p] |->
                    IF p \in stopped THEN Cut(segs[p][k]) ELSE segs[p][k]]]
      /\ ask' = [p \in Presses |-> IF typesNo /\ ask[p] = "open" THEN "no" ELSE ask[p]]
  BY DEF Stop, callVars, accountVars
<1>2. /\ at \in [Presses -> Places] /\ ask \in [Presses -> Asked]
      /\ aborted \in [Presses -> BOOLEAN] /\ segs \in [Presses -> Seq(Segments)]
  BY DEF SwitchType
<1>3. \A g \in Segments :
        /\ Cut(g) \in Segments /\ Cut(g).stage = g.stage /\ Cut(g).listens = g.listens
        /\ Cut(g).cut = (g.cut \/ g.stops) /\ Cut(g).asks = g.asks /\ Cut(g).stray = g.stray
        /\ ~Cut(g).stops
  BY DEF Segments
<1>4. ask' \in [Presses -> Asked] /\ aborted' \in [Presses -> BOOLEAN]
  <2> HIDE DEF typesNo, stopped
  <2> QED BY <1>1, <1>2 DEF Asked, Replies
<1>5. \A p \in Presses : Pending(p)' = Pending(p)
  BY <1>1 DEF Pending
<1> HIDE DEF Cut
<1>6. ASSUME NEW p \in Presses
      PROVE  /\ segs'[p] \in Seq(Segments) /\ Len(segs'[p]) = Len(segs[p])
             /\ DOMAIN segs'[p] = DOMAIN segs[p]
             /\ \A k \in DOMAIN segs[p] :
                  segs'[p][k] = IF p \in stopped THEN Cut(segs[p][k]) ELSE segs[p][k]
  <2> HIDE DEF stopped
  <2>1. segs[p] \in Seq(Segments) /\ DOMAIN segs[p] = 1..Len(segs[p]) /\ Len(segs[p]) \in Nat
    BY <1>2
  <2>2. segs'[p] = [k \in 1..Len(segs[p]) |->
                      IF p \in stopped THEN Cut(segs[p][k]) ELSE segs[p][k]]
    BY <1>1, <2>1
  <2>3. \A k \in 1..Len(segs[p]) :
          (IF p \in stopped THEN Cut(segs[p][k]) ELSE segs[p][k]) \in Segments
    BY <1>3, <2>1
  <2> QED BY <2>1, <2>2, <2>3
<1>7. segs' \in [Presses -> Seq(Segments)]
  BY <1>1, <1>6
<1>8. SwitchType'
  BY <1>1, <1>4, <1>7 DEF SwitchType
<1>9. SegmentsOK'
  <2>1. ASSUME NEW p \in Presses, at[p] \in Unloaded
        PROVE  segs'[p] = << >> /\ loaded[p] = "pending"
    <3>1. segs[p] = << >> /\ loaded[p] = "pending"
      BY <2>1 DEF SegmentsOK
    <3>2. segs'[p] \in Seq(Segments) /\ Len(segs'[p]) = 0
      BY <1>6, <3>1
    <3> QED BY <3>1, <3>2
  <2>2. ASSUME NEW p \in Presses, NEW k \in DOMAIN segs'[p]
        PROVE  /\ SegmentOK(Pending(p)', aborted'[p], ask'[p], segs'[p][k])
               /\ k < Len(segs'[p]) => Over(segs'[p][k])
    <3> DEFINE g == segs[p][k]
    <3>1. /\ k \in DOMAIN segs[p] /\ Len(segs'[p]) = Len(segs[p]) /\ g \in Segments
          /\ segs'[p][k] = IF p \in stopped THEN Cut(g) ELSE g
      BY <1>2, <1>6, <2>2
    <3>2. /\ SegmentOK(Pending(p), aborted[p], ask[p], g)
          /\ k < Len(segs[p]) => Over(g)
      BY <3>1 DEF SegmentsOK
    <3>3. ask[p] # "quiet" => ask'[p] # "quiet"
      BY <1>1, <1>2
    <3>4. CASE p \in stopped
      <4>1. ~aborted[p] /\ aborted'[p] = TRUE
        BY <1>1, <1>2, <3>4
      <4>2. g.asks => ask'[p] \in Replies
        <5>1. g.asks => typesNo /\ ask[p] = "open"
          BY <1>2, <3>1, <3>2, <3>4, <4>1 DEF SegmentOK, Settled, Asked
        <5> QED BY <1>1, <5>1 DEF Replies
      <4>3. /\ segs'[p][k] = Cut(g) /\ Cut(g).stage = g.stage /\ Cut(g).listens = g.listens
            /\ Cut(g).cut = (g.cut \/ g.stops) /\ Cut(g).asks = g.asks
            /\ Cut(g).stray = g.stray /\ ~Cut(g).stops
        BY <1>3, <3>1, <3>4
      <4>4. g.stage = "terminal" => ~g.cut /\ ~g.stops
        BY <3>2 DEF SegmentOK
      <4> HIDE DEF g, stopped, typesNo
      <4>5. SegmentOK(Pending(p)', aborted'[p], ask'[p], Cut(g))
        BY <1>5, <3>2, <3>3, <4>1, <4>2, <4>3, <4>4 DEF SegmentOK
      <4>6. Over(g) => Over(Cut(g))
        BY <4>3 DEF Over
      <4> QED BY <3>1, <3>2, <4>3, <4>5, <4>6
    <3>5. CASE p \notin stopped
      <4>1. aborted'[p] = aborted[p] /\ segs'[p][k] = g
        BY <1>1, <1>2, <3>1, <3>5
      <4>2. g.asks /\ aborted[p] => FALSE
        BY <3>2 DEF SegmentOK, Settled
      <4> HIDE DEF g, stopped, typesNo
      <4>3. SegmentOK(Pending(p)', aborted'[p], ask'[p], g)
        BY <1>5, <3>2, <3>3, <4>1, <4>2 DEF SegmentOK
      <4> QED BY <3>1, <3>2, <4>1, <4>3
    <3> QED BY <3>4, <3>5
  <2> QED BY <1>1, <2>1, <2>2 DEF SegmentsOK
<1>10. OneRun' /\ CancelledOK' /\ LoadedWhole'
  BY <1>1 DEF OneRun, CancelledOK, LoadedWhole, InRun
<1> QED BY <1>8, <1>9, <1>10

LEMMA AnswerKeeps ==
  ASSUME SwitchInv, Settled, NEW p \in Presses, Answer(p)
  PROVE  SwitchInv'
<1> USE DEF SwitchInv
<1>1. UNCHANGED <<deployState, at, aborted, segs, loaded, buffer>>
  BY DEF Answer, callVars, runVars, loadVars, accountVars
<1>2. /\ ask' \in [Presses -> Asked] /\ \A r \in Presses \ {p} : ask'[r] = ask[r]
      /\ ask'[p] \in Replies
  BY DEF Answer, SwitchType, Asked, Replies
<1>3. SegmentsOK'
  <2>1. ASSUME NEW r \in Presses, NEW k \in DOMAIN segs[r]
        PROVE  SegmentOK(Pending(r)', aborted[r], ask'[r], segs[r][k])
    <3>1. SegmentOK(Pending(r), aborted[r], ask[r], segs[r][k]) /\ Pending(r)' = Pending(r)
      BY <1>1 DEF SegmentsOK, Pending
    <3>2. ask'[r] = ask[r] \/ ask'[r] \in Replies
      BY <1>2
    <3> QED BY <3>1, <3>2 DEF SegmentOK, Replies
  <2> QED BY <1>1, <2>1 DEF SegmentsOK
<1> QED BY <1>1, <1>2, <1>3 DEF SwitchType, OneRun, CancelledOK, LoadedWhole, InRun

\* The end of the load is taken up before anything lands
LEMMA LandSwitches ==
  ASSUME SwitchInv, Settled, NEW t \in flight, Land(t)
  PROVE  SwitchInv'
<1>1. UNCHANGED <<deployState, at, ask, aborted, segs, loaded>>
  BY DEF Land, callVars, runVars, loadVars
<1>2. LoadedWhole'
  BY <1>1 DEF Settled, LoadedWhole
<1> QED BY <1>1, <1>2 DEF SwitchInv, SwitchType, SegmentsOK, Pending, OneRun, CancelledOK, InRun

-----------------------------------------------------------------------------
LEMMA SwitchInit == Init => SwitchInv
<1> SUFFICES ASSUME Init PROVE SwitchInv
  OBVIOUS
<1> USE DEF Init
<1>1. SwitchType
  BY DEF SwitchType, States, Places, Asked
<1>2. SegmentsOK
  BY DEF SegmentsOK
<1>3. OneRun
  BY DEF OneRun, InRun, Processing, TxSteps
<1>4. CancelledOK /\ LoadedWhole
  BY DEF CancelledOK, LoadedWhole
<1> QED BY <1>1, <1>2, <1>3, <1>4 DEF SwitchInv

LEMMA SwitchNext == SwitchInv /\ ChainInv /\ [Next]_deployVars => SwitchInv'
<1> SUFFICES ASSUME SwitchInv, ChainInv, [Next]_deployVars PROVE SwitchInv'
  OBVIOUS
<1>1. ASSUME NEW p \in Presses, TakesUp(p) PROVE SwitchInv'
  <2>1. ASSUME NEW k \in DOMAIN segs[p], Continue(p, k) PROVE SwitchInv'
    BY <2>1, ContinueKeeps
  <2> QED BY <1>1, <2>1, ChecksKeeps, FundsKeeps, CloseReplyKeeps, LoadedSwitches DEF TakesUp
<1>2. ASSUME Settled, NEW p \in Presses, Begins(p) PROVE SwitchInv'
  BY <1>2, ChecksKeeps, HandleKeeps DEF Begins
<1>3. ASSUME Settled, NEW p \in Presses, Proceeds(p) PROVE SwitchInv'
  <2>1. ASSUME NEW k \in DOMAIN segs[p], Segment(p, k) PROVE SwitchInv'
    BY <1>3, <2>1, StartsKeeps, SimulateKeeps, LoadPassKeeps, HandleFailsKeeps DEF Segment
  <2> QED BY <1>3, <2>1, FundsKeeps, TransactionKeeps DEF Proceeds
<1>4. ASSUME Settled, User PROVE SwitchInv'
  <2>1. CASE Stop
    BY <1>4, <2>1, StopSwitches
  <2>2. ASSUME NEW p \in Presses, Answer(p) PROVE SwitchInv'
    BY <1>4, <2>2, AnswerKeeps
  <2>3. CASE SwitchProject \/ SwitchNetwork
    <3>1. UNCHANGED <<deployState, at, ask, aborted, segs, loaded, buffer>>
      BY <2>3 DEF SwitchProject, SwitchNetwork, callVars, runVars, loadVars, accountVars
    <3> QED BY <3>1, SameSwitch
  <2> QED BY <1>4, <2>1, <2>2, <2>3 DEF User
<1>5. ASSUME Settled, NEW t \in flight, Land(t) PROVE SwitchInv'
  BY <1>5, LandSwitches
<1>6. ASSUME Settled, NEW p \in Presses, Reads(p) PROVE SwitchInv'
  BY <1>6, ReadPassKeeps DEF Reads
<1>7. CASE UNCHANGED deployVars
  <2>1. UNCHANGED <<deployState, at, ask, aborted, segs, loaded, buffer>>
    BY <1>7 DEF deployVars, callVars, runVars, loadVars, accountVars
  <2> QED BY <2>1, SameSwitch
<1> QED BY <1>1, <1>2, <1>3, <1>4, <1>5, <1>6, <1>7 DEF Next

-----------------------------------------------------------------------------
(* The second half: transactions and accounts *)

\* The step sends nothing but transactions of the run, from where it leads to
Sends(p) ==
  \A t \in flight' :
    \/ t \in flight
    \/ /\ t.run = p /\ t.to \in Projects \X Networks /\ t.kind \in TxSteps \cup {"write"}
       /\ t.kind = "write" => t.n \in Chunks
       /\ SentOK(t)'

LEMMA SendsType ==
  ASSUME ChainType, NEW p \in Presses, flight' = flight \/ Sends(p)
  PROVE  \A t \in flight' : /\ t.run \in Presses /\ t.to \in Projects \X Networks
                            /\ t.kind \in TxSteps \cup {"write"}
                            /\ t.kind = "write" => t.n \in Chunks
BY DEF ChainType, Sends

\* A step of one call that no account sees
LEMMA CallKeeps ==
  ASSUME ChainInv, ChainType', NEW p \in Presses,
         \A r \in Presses \ {p} : /\ at'[r] = at[r] /\ tx'[r] = tx[r]
                                  /\ outcome'[r] = outcome[r] /\ how'[r] = how[r],
         UNCHANGED <<buffer, reached, network>>, unseen \subseteq unseen',
         flight' = flight \/ Sends(p),
         at'[p] \in Unmade => at[p] \in Unmade,
         at[p] \in {"close", "reclaim", "final", "done"} => at'[p] \in {at[p], "done"},
         at[p] \in Unmade \/ how'[p] = how[p],
         BufferOK(p)', LineOK(p)'
  PROVE  ChainInv'
<1> USE DEF ChainInv, ChainOK
<1>0. \A t \in flight' : t \in flight \/ (t.run = p /\ SentOK(t)')
  BY DEF Sends
<1>1. ASSUME NEW r \in Presses \ {p} PROVE BufferOK(r)' /\ LineOK(r)'
  <2>1. /\ BufferOK(r) /\ LineOK(r)
        /\ at'[r] = at[r] /\ tx'[r] = tx[r] /\ outcome'[r] = outcome[r] /\ how'[r] = how[r]
        /\ \A step : Unsure(r, step) => Unsure(r, step)'
    BY DEF Unsure
  <2>2. BufferOK(r)'
    BY <2>1 DEF BufferOK, Reached, Gone
  <2>3. \A t \in flight' : t.run = r => t \in flight
    BY <1>0
  <2>4. LineOK(r)'
    BY <2>1, <2>3 DEF LineOK, Reached, Gone
  <2> QED BY <2>2, <2>4
<1>2. ASSUME NEW t \in flight' PROVE SentOK(t)'
  <2>1. CASE t \in flight
    <3>1. t.run \in Presses /\ SentOK(t)
      BY <2>1 DEF ChainType
    <3>2. CASE t.run # p
      BY <3>1, <3>2 DEF SentOK
    <3>3. CASE t.run = p
      BY <3>1, <3>3 DEF SentOK
    <3> QED BY <3>2, <3>3
  <2> QED BY <1>0, <2>1
<1> QED BY <1>1, <1>2

LEMMA FreshTxType ==
  FreshTx \in [tries : Nat, phase : {"send", "confirm", "check", "balance"},
               got : {"nothing", "ok", "err"}] /\ FreshTx.got = "nothing"
BY DEF FreshTx

\* The end of a run, with what its line says
LEMMA EndsChain ==
  ASSUME ChainInv, SwitchInv, NEW p \in Presses, InRun(p), NEW o, NEW q, Ends(p, o, q),
         UNCHANGED <<how, buffer, reached, project, network>>, unseen \subseteq unseen',
         flight' = flight \/ Sends(p),
         o = "none" => at[p] \in Unmade /\ flight' = flight,
         o = "closed" => Gone(p) \/ Unsure(p, "create")' \/ Unsure(p, "close")',
         o = "deployed" => Reached(p) \/ Unsure(p, "final")'
  PROVE  ChainInv'
<1> USE DEF ChainInv
<1>1. /\ at' = [at EXCEPT ![p] = "done"] /\ outcome' = [outcome EXCEPT ![p] = o]
      /\ tx' = [tx EXCEPT ![p] = FreshTx]
  BY DEF Ends, Finish
<1>2. /\ at'[p] = "done" /\ outcome'[p] = o
      /\ \A r \in Presses \ {p} : at'[r] = at[r] /\ tx'[r] = tx[r] /\ outcome'[r] = outcome[r]
  BY <1>1 DEF ChainType, SwitchInv, SwitchType
<1>3. ChainType'
  BY <1>1, FreshTxType, SendsType DEF ChainType
<1>4. "done" \notin Unloaded /\ "done" \notin Unmade
  BY DEF Unloaded, Unmade, Checks
<1>5. BufferOK(p)'
  BY <1>2, <1>4 DEF ChainOK, BufferOK
<1>6. LineOK(p)'
  <2>1. at[p] \in Unmade => buffer[p].made = 0 /\ \A t \in flight : t.run # p
    BY DEF ChainOK, BufferOK, SentOK
  <2> QED BY <1>2, <2>1 DEF LineOK, Gone, Reached
<1> QED BY <1>2, <1>3, <1>4, <1>5, <1>6, CallKeeps

\* A step of the run
LEMMA GoesChain ==
  ASSUME ChainInv, SwitchInv, NEW p \in Presses, InRun(p), NEW s \in Processing, NEW q,
         Goes(p, s, q), UNCHANGED <<how, buffer, reached, project, network>>,
         unseen \subseteq unseen', flight' = flight \/ Sends(p),
         at[p] \notin {"close", "reclaim", "final"},
         s \in Unmade => at[p] \in Unmade,
         s \in Unloaded \ (Checks \cup {"idle", "fetch"}) => network = how[p].on,
         s # "load", s \in {"authority", "final"} => buffer[p].on = how[p].on,
         s = "close" => buffer[p].made > 0 \/ Unsure(p, "create")'
  PROVE  ChainInv'
<1> USE DEF ChainInv
<1>1. /\ at' = [at EXCEPT ![p] = s] /\ outcome' = outcome
      /\ tx' = [tx EXCEPT ![p] = FreshTx]
  BY DEF Goes
<1>2. /\ at'[p] = s /\ tx'[p].got = "nothing"
      /\ \A r \in Presses \ {p} : at'[r] = at[r] /\ tx'[r] = tx[r]
  BY <1>1, FreshTxType DEF ChainType, SwitchInv, SwitchType
<1>3. ChainType'
  BY <1>1, FreshTxType, SendsType DEF ChainType
<1>4. BufferOK(p)'
  BY <1>2 DEF ChainOK, BufferOK, Reached
<1>5. at[p] # "done" /\ outcome[p] \notin {"none", "closed", "deployed"}
  BY DEF InRun, Processing, TxSteps, ChainOK, LineOK
<1>6. LineOK(p)'
  BY <1>1, <1>5 DEF LineOK
<1> QED BY <1>1, <1>2, <1>3, <1>4, <1>5, <1>6, CallKeeps

\* A step that the accounts do not see
LEMMA SameChain ==
  ASSUME ChainInv,
         UNCHANGED <<at, tx, outcome, how, flight, buffer, reached, unseen, project, network>>
  PROVE  ChainInv'
BY ZenonT(30) DEF ChainInv, ChainType, ChainOK, SentOK, BufferOK, LineOK, Reached, Gone, Unsure

\* The call before it is a run
LEMMA BeginsChain ==
  ASSUME ChainInv, SwitchInv, NEW p \in Presses, Begins(p) \/ ChecksReply(p)
  PROVE  ChainInv'
<1> USE DEF ChainInv
<1>1. /\ at[p] \in Checks \cup {"idle"}
      /\ UNCHANGED <<tx, how, flight, buffer, reached, unseen, project, network>>
  BY DEF Begins, Press, ChecksAsk, ChecksReply, ChecksFail, Handle, runVars, accountVars,
     openVars, Checks
<1>2. /\ outcome' = outcome
         \/ \E o \in {"failed", "toggled"} : outcome' = [outcome EXCEPT ![p] = o]
      /\ \E s \in Checks \cup {"fetch", "done"} : at' = [at EXCEPT ![p] = s]
  <2>1. CASE UNCHANGED at
    BY <1>1, <2>1 DEF Begins, Press, ChecksAsk, ChecksReply, ChecksFail, Handle, Finish,
       SwitchInv, SwitchType, callVars, Checks
  <2>2. CASE ~UNCHANGED at
    BY <2>2 DEF Begins, Press, ChecksAsk, ChecksReply, ChecksFail, Handle, Finish, Checks,
       callVars
  <2> QED BY <2>1, <2>2
<1>3. /\ at'[p] \in Checks \cup {"fetch", "done"}
      /\ outcome'[p] = outcome[p] \/ outcome'[p] \in {"failed", "toggled"}
      /\ \A r \in Presses \ {p} : at'[r] = at[r] /\ outcome'[r] = outcome[r]
      /\ DOMAIN outcome' = Presses
  BY <1>2 DEF ChainType, SwitchInv, SwitchType
<1>4. ChainType'
  BY <1>1, <1>3 DEF ChainType
<1>5. at[p] \in Unmade /\ at[p] \notin {"close", "reclaim", "final", "done"}
  BY <1>1 DEF Unmade, Checks
<1>6. BufferOK(p)'
  BY <1>1, <1>3, <1>5 DEF ChainOK, BufferOK, Unloaded, Unmade, Checks
<1>7. LineOK(p)'
  BY <1>1, <1>3, <1>5 DEF ChainOK, LineOK
<1> QED BY <1>1, <1>3, <1>4, <1>5, <1>6, <1>7, CallKeeps

\* processDeploy reads where it deploys, and the network is held from then on
LEMMA FetchedChain ==
  ASSUME ChainInv, SwitchInv, NEW p \in Presses, Fetched(p)
  PROVE  ChainInv'
<1> USE DEF ChainInv
<1>1. /\ at[p] = "fetch" /\ UNCHANGED <<flight, buffer, reached, unseen, project, network>>
      /\ at[p] \in Unmade /\ InRun(p)
  BY DEF Fetched, accountVars, openVars, Unmade, InRun, Processing
<1>2. \/ UNCHANGED how /\ \E o : o \in {"failed", "none"} /\ Ends(p, o, ask)
      \/ \E h \in [pays : Wallets, upgrade : BOOLEAN, on : {network}, grows : BOOLEAN] :
           /\ how' = [how EXCEPT ![p] = h]
           /\ \/ \E o : o \in {"failed", "funding"} /\ Ends(p, o, ask)
              \/ \E s, q : s \in {"spendable", "airdrop", "askAirdrop"} /\ Goes(p, s, q)
  <2>1. CASE UNCHANGED how /\ \E o : o \in {"failed", "none"} /\ Ends(p, o, ask)
    BY <2>1
  <2>2. ASSUME NEW pays \in Payers, NEW grows \in {FALSE, Grows}, NEW short \in {FALSE, Short},
               how' = [how EXCEPT ![p] = [pays |-> pays, upgrade |-> program[Here] # {},
                         on |-> network, grows |-> grows /\ program[Here] # {}]],
               \/ ~short /\ Goes(p, "spendable", ask)
               \/ short /\ answers /\ Ends(p, "funding", ask)
               \/ short /\ answers /\ Goes(p, "airdrop", ask)
               \/ short /\ ~answers /\ Ends(p, "failed", ask)
               \/ short /\ ~answers /\ Asks(p, "askAirdrop")
        PROVE  \E h \in [pays : Wallets, upgrade : BOOLEAN, on : {network}, grows : BOOLEAN] :
                 /\ how' = [how EXCEPT ![p] = h]
                 /\ \/ \E o : o \in {"failed", "funding"} /\ Ends(p, o, ask)
                    \/ \E s, q : s \in {"spendable", "airdrop", "askAirdrop"} /\ Goes(p, s, q)
    <3> DEFINE h == [pays |-> pays, upgrade |-> program[Here] # {}, on |-> network,
                     grows |-> grows /\ program[Here] # {}]
    <3>1. h \in [pays : Wallets, upgrade : BOOLEAN, on : {network}, grows : BOOLEAN]
      BY DeployAssumption DEF Wallets
    <3>2. \/ \E o : o \in {"failed", "funding"} /\ Ends(p, o, ask)
          \/ \E s, q : s \in {"spendable", "airdrop", "askAirdrop"} /\ Goes(p, s, q)
      BY <2>2 DEF Asks
    <3> QED BY <2>2, <3>1, <3>2
  <2> QED BY <2>1, <2>2 DEF Fetched
<1>3. CASE UNCHANGED how /\ \E o : o \in {"failed", "none"} /\ Ends(p, o, ask)
  BY <1>1, <1>3, EndsChain
<1>4. ASSUME NEW h \in [pays : Wallets, upgrade : BOOLEAN, on : {network}, grows : BOOLEAN],
             how' = [how EXCEPT ![p] = h],
             \/ \E o : o \in {"failed", "funding"} /\ Ends(p, o, ask)
             \/ \E s, q : s \in {"spendable", "airdrop", "askAirdrop"} /\ Goes(p, s, q)
      PROVE  ChainInv'
  <2>1. /\ tx' = [tx EXCEPT ![p] = FreshTx]
        /\ \/ /\ at' = [at EXCEPT ![p] = "done"]
              /\ \E o \in {"failed", "funding"} : outcome' = [outcome EXCEPT ![p] = o]
           \/ \E s \in {"spendable", "airdrop", "askAirdrop"} :
                at' = [at EXCEPT ![p] = s] /\ outcome' = outcome
    BY <1>4 DEF Ends, Finish, Goes
  <2>2. /\ how'[p].on = network /\ tx'[p].got = "nothing"
        /\ how' \in [Presses -> [pays : Wallets, upgrade : BOOLEAN, on : Networks,
                                 grows : BOOLEAN]]
        /\ \A r \in Presses \ {p} : how'[r] = how[r]
    BY <1>4, <2>1, FreshTxType DEF ChainType
  <2>3. /\ at'[p] \in {"spendable", "airdrop", "askAirdrop", "done"}
        /\ outcome'[p] = outcome[p] \/ outcome'[p] \in {"failed", "funding"}
        /\ \A r \in Presses \ {p} : at'[r] = at[r] /\ tx'[r] = tx[r] /\ outcome'[r] = outcome[r]
        /\ DOMAIN outcome' = Presses
    BY <2>1 DEF ChainType, SwitchInv, SwitchType
  <2>4. ChainType'
    BY <1>1, <2>1, <2>2, <2>3, FreshTxType DEF ChainType
  <2>5. buffer[p].made = 0 /\ buffer[p].on = Nowhere
    BY <1>1 DEF ChainOK, BufferOK, ChainType
  <2>6. BufferOK(p)'
    BY <1>1, <2>2, <2>3, <2>5 DEF BufferOK, Unloaded, Unmade, Checks
  <2>7. LineOK(p)'
    BY <1>1, <2>3 DEF ChainOK, LineOK
  <2>8. at[p] \notin {"close", "reclaim", "final", "done"}
    BY <1>1
  <2> QED BY <1>1, <2>2, <2>3, <2>4, <2>6, <2>7, <2>8, CallKeeps
<1> QED BY <1>2, <1>3, <1>4

\* The run up to its buffer
LEMMA FundsChain ==
  ASSUME ChainInv, SwitchInv, NEW p \in Presses,
         AirdropReply(p) \/ Airdropped(p) \/ Funding(p)
  PROVE  ChainInv'
<1>1. /\ at[p] \in {"askAirdrop", "airdrop", "spendable", "transfer", "extend"}
      /\ UNCHANGED <<how, flight, buffer, reached, unseen, project, network>>
  BY DEF AirdropReply, Airdropped, Funding, runVars, accountVars, openVars
<1>2. \/ \E o, q : o \in {"failed", "none"} /\ Ends(p, o, q)
      \/ \E s, q : s \in {"airdrop", "spendable", "transfer", "extend", "create"}
                   /\ Goes(p, s, q)
  BY DEF AirdropReply, Airdropped, Funding, Unless
<1>3. /\ at[p] \in Unmade /\ InRun(p)
      /\ at[p] \in Unloaded \ (Checks \cup {"idle", "fetch"})
      /\ at[p] \notin {"close", "reclaim", "final"}
      /\ \A s \in {"airdrop", "spendable", "transfer", "extend", "create"} : s \in Processing
  BY <1>1 DEF Unmade, Unloaded, Checks, InRun, Processing, TxSteps
<1>4. network = how[p].on
  BY <1>3 DEF ChainInv, ChainOK, BufferOK
<1>5. CASE \E o, q : o \in {"failed", "none"} /\ Ends(p, o, q)
  BY <1>1, <1>3, <1>5, EndsChain
<1>6. ASSUME NEW s \in {"airdrop", "spendable", "transfer", "extend", "create"}, NEW q,
             Goes(p, s, q)
      PROVE  ChainInv'
  BY <1>1, <1>3, <1>4, <1>6, GoesChain
<1> QED BY <1>2, <1>5, <1>6

-----------------------------------------------------------------------------
\* A transaction goes out from its step, and is still of it if the step is over
LEMMA StepSends ==
  ASSUME ChainInv, NEW p \in Presses, at[p] \in TxSteps, UNCHANGED how,
         at'[p] \notin Unmade,
         at[p] \in {"close", "reclaim", "final"} => at'[p] \in {at[p], "done"},
         flight' = flight \cup {[run |-> p, kind |-> at[p], n |-> tx[p].tries, to |-> Here]}
  PROVE  Sends(p)
<1>1. Here \in Projects \X Networks /\ Here[2] = network
  BY DEF ChainInv, ChainType, Here
<1>2. at[p] = "create" => network = how[p].on
  BY DEF ChainInv, ChainOK, BufferOK, Unloaded, Unmade, Checks
<1>3. ASSUME NEW t \in flight', t \notin flight
      PROVE  /\ t.run = p /\ t.to \in Projects \X Networks /\ t.kind \in TxSteps \cup {"write"}
             /\ t.kind = "write" => t.n \in Chunks
             /\ SentOK(t)'
  <2>1. t.run = p /\ t.kind = at[p] /\ t.to = Here
    BY <1>3
  <2>2. t.kind # "write"
    BY <2>1 DEF TxSteps
  <2> QED BY <1>1, <1>2, <2>1, <2>2 DEF SentOK
<1> QED BY <1>3 DEF Sends

\* An attempt that failed, with or without a transaction that is on its way
LEMMA AttemptChain ==
  ASSUME ChainInv, SwitchInv, NEW p \in Presses, at[p] \in TxSteps,
         UNCHANGED <<how, buffer, reached, unseen, project, network>>,
         \/ Again(p)
         \/ UNCHANGED <<at, outcome>> /\ tx' = [tx EXCEPT ![p].phase = "confirm"]
         \/ UNCHANGED <<at, outcome>> /\ tx' = [tx EXCEPT ![p].phase = "check"],
         \/ flight' = flight
         \/ flight' = flight \cup {[run |-> p, kind |-> at[p], n |-> tx[p].tries, to |-> Here]}
  PROVE  ChainInv'
<1> USE DEF ChainInv
<1>1. /\ tx'[p].got \in {"nothing", tx[p].got}
      /\ tx' \in [Presses -> [tries : Nat, phase : {"send", "confirm", "check", "balance"},
                              got : {"nothing", "ok", "err"}]]
      /\ \A r \in Presses \ {p} : tx'[r] = tx[r]
  <2>1. CASE Again(p)
    <3>1. \/ tx' = [tx EXCEPT ![p] = FreshTx]
          \/ \E f \in {"send", "balance"} :
               tx' = [tx EXCEPT ![p] = [tries |-> tx[p].tries + 1, got |-> "nothing",
                                        phase |-> f]]
      BY <2>1 DEF Again, Ends, ChainType
    <3> QED BY <3>1, FreshTxType DEF ChainType
  <2>2. CASE UNCHANGED <<at, outcome>> /\ tx' = [tx EXCEPT ![p].phase = "confirm"]
    BY <2>2 DEF ChainType
  <2>3. CASE UNCHANGED <<at, outcome>> /\ tx' = [tx EXCEPT ![p].phase = "check"]
    BY <2>3 DEF ChainType
  <2> QED BY <2>1, <2>2, <2>3
<1>2. \/ UNCHANGED <<at, outcome>>
      \/ at' = [at EXCEPT ![p] = "done"] /\ outcome' = [outcome EXCEPT ![p] = "failed"]
  BY DEF Again, Ends, Finish, callVars
<1>3. /\ at'[p] \in {at[p], "done"}
      /\ outcome'[p] \in {outcome[p], "failed"} /\ DOMAIN outcome' = Presses
      /\ \A r \in Presses \ {p} : at'[r] = at[r] /\ outcome'[r] = outcome[r]
  BY <1>2 DEF ChainType, SwitchInv, SwitchType
<1>4. /\ "done" \notin Unloaded /\ "done" \notin Unmade /\ at[p] \notin Unmade
      /\ at[p] # "done" /\ "create" \in Unloaded \ (Checks \cup {"idle", "fetch"})
  BY DEF Unloaded, Unmade, Checks, TxSteps
<1>5. BufferOK(p)'
  <2>1. BufferOK(p)
    BY DEF ChainOK
  <2> QED BY <1>1, <1>3, <1>4, <2>1 DEF BufferOK, Reached, Gone, Unsure
<1>6. LineOK(p)'
  <2>1. outcome[p] \notin {"none", "closed", "deployed"}
    BY <1>4 DEF ChainOK, LineOK
  <2> QED BY <1>3, <2>1 DEF LineOK
<1>7. flight' = flight \/ Sends(p)
  BY <1>3, <1>4, StepSends
<1>8. ChainType'
  BY <1>1, <1>3, <1>7, SendsType DEF ChainType
<1> QED BY <1>1, <1>3, <1>4, <1>5, <1>6, <1>7, <1>8, CallKeeps

\* A transaction is done only when its account says so, or the run is not sure of it
LEMMA DoneChain ==
  ASSUME ChainInv, SwitchInv, NEW p \in Presses, at[p] \in TxSteps, Done(p),
         UNCHANGED <<how, buffer, reached, project, network>>, unseen \subseteq unseen',
         \/ flight' = flight
         \/ flight' = flight \cup {[run |-> p, kind |-> at[p], n |-> tx[p].tries, to |-> Here]},
         at[p] = "create" => buffer[p].on = how[p].on \/ Unsure(p, "create")',
         at[p] = "close" => Gone(p) \/ Unsure(p, "create")' \/ Unsure(p, "close")',
         at[p] = "final" => Reached(p) \/ Unsure(p, "final")'
  PROVE  ChainInv'
<1> USE DEF ChainInv
<1>1. InRun(p) /\ {"final", "load"} \subseteq Processing
      /\ {"load", "final", "done"} \cap (Unloaded \cup Unmade) = {}
  BY DEF InRun, Processing, TxSteps, Unloaded, Unmade, Checks
<1>2. flight' = flight \/ Sends(p)
  <2>1. \/ at' = [at EXCEPT ![p] = "done"]
        \/ at[p] = "create" /\ at' = [at EXCEPT ![p] = "load"]
        \/ at[p] = "authority" /\ at' = [at EXCEPT ![p] = "final"]
    BY EndsMoves, GoesMoves DEF Done, TxSteps
  <2>2. /\ at'[p] \notin Unmade
        /\ at[p] \in {"close", "reclaim", "final"} => at'[p] \in {at[p], "done"}
    BY <1>1, <2>1 DEF SwitchInv, SwitchType
  <2> QED BY <2>2, StepSends
<1>3. CASE at[p] = "create"
  <2>1. /\ at' = [at EXCEPT ![p] = "load"] /\ tx' = [tx EXCEPT ![p] = FreshTx]
        /\ UNCHANGED outcome
    BY <1>3 DEF Done
  <2>2. /\ at'[p] = "load" /\ tx'[p].got = "nothing"
        /\ \A r \in Presses \ {p} : at'[r] = at[r] /\ tx'[r] = tx[r]
    BY <2>1, FreshTxType DEF ChainType, SwitchInv, SwitchType
  <2>3. ChainType'
    BY <1>2, <2>1, FreshTxType, SendsType DEF ChainType
  <2>4. BufferOK(p)'
    BY <1>1, <1>3, <2>2 DEF ChainOK, BufferOK
  <2>5. LineOK(p)'
    <3>1. outcome[p] \notin {"none", "closed", "deployed"}
      BY <1>3 DEF ChainOK, LineOK
    <3> QED BY <2>1, <3>1 DEF LineOK
  <2> QED BY <1>1, <1>2, <1>3, <2>1, <2>2, <2>3, <2>4, <2>5, CallKeeps
<1>4. ASSUME NEW o, Ends(p, o, ask), o \in {"closed", "cancelled", "deployed"},
             o = "closed" => Gone(p) \/ Unsure(p, "create")' \/ Unsure(p, "close")',
             o = "deployed" => Reached(p) \/ Unsure(p, "final")'
      PROVE  ChainInv'
  BY <1>1, <1>2, <1>4, EndsChain
<1>5. CASE at[p] = "close"
  <2>1. Ends(p, "closed", ask)
    BY <1>5 DEF Done
  <2> QED BY <1>4, <1>5, <2>1
<1>6. CASE at[p] = "reclaim"
  <2>1. Ends(p, "cancelled", ask)
    BY <1>6 DEF Done
  <2> QED BY <1>4, <2>1
<1>7. CASE at[p] = "final"
  <2>1. Ends(p, "deployed", ask)
    BY <1>7 DEF Done
  <2> QED BY <1>4, <1>7, <2>1
<1>8. CASE at[p] = "authority"
  <2>1. Goes(p, "final", ask) /\ buffer[p].on = how[p].on
    BY <1>8 DEF Done, ChainOK, BufferOK
  <2> QED BY <1>1, <1>2, <1>8, <2>1, GoesChain
<1> QED BY <1>3, <1>5, <1>6, <1>7, <1>8 DEF TxSteps

LEMMA TookGrows ==
  ASSUME NEW p, NEW sure \in BOOLEAN, Took(p, sure)
  PROVE  /\ unseen \subseteq unseen' /\ (sure => unseen' = unseen)
         /\ ~sure => <<p, at[p]>> \in unseen'
BY DEF Took, Unsure

\* What a buffer that is not where the run reads it says of the run's step
LEMMA NotHeld ==
  ASSUME ChainInv, NEW p \in Presses, ~Held(p)
  PROVE  /\ at[p] = "close" => Gone(p) \/ Unsure(p, "create")
         /\ at[p] = "final" => Reached(p)
<1>1. /\ BufferOK(p) /\ how[p].on \in Networks /\ Nowhere \notin Networks
      /\ buffer[p].made \in Nat
  BY DeployAssumption DEF ChainInv, ChainOK, ChainType
<1> QED BY <1>1 DEF BufferOK, Gone, Held

\* sendAndConfirmTxWithRetries: a transaction that was confirmed, or one whose effect the
\* deploy's own connection shows, has landed; the run is not sure of the other ones that
\* it takes for done
LEMMA TransactionChain ==
  ASSUME ChainInv, SwitchInv, NEW p \in Presses, Transaction(p)
  PROVE  ChainInv'
<1> USE DEF ChainInv
<1>1. at[p] \in TxSteps /\ UNCHANGED <<how, buffer, reached, project, network>>
  BY DEF Transaction, Send, Confirm, Check, KeptBalance, runVars, accountVars, openVars, TxSteps
<1>2. BufferOK(p)
  BY DEF ChainOK
<1>3. CASE Send(p)
  <2>1. \/ flight' = flight
        \/ flight' = flight \cup {[run |-> p, kind |-> at[p], n |-> tx[p].tries, to |-> Here]}
    BY <1>3 DEF Send
  <2>2. CASE Took(p, TRUE) /\ (\/ Again(p)
                              \/ /\ UNCHANGED <<at, outcome>>
                                 /\ tx' = [tx EXCEPT ![p].phase = "confirm"])
    <3>1. unseen' = unseen
      BY <2>2, TookGrows
    <3> QED BY <1>1, <2>1, <2>2, <3>1, AttemptChain
  <2>3. CASE Took(p, FALSE) /\ Done(p)
    <3>1. unseen \subseteq unseen' /\ <<p, at[p]>> \in unseen'
      BY <2>3, TookGrows
    <3> QED BY <1>1, <2>1, <2>3, <3>1, DoneChain DEF Unsure
  <2> QED BY <1>3, <2>2, <2>3 DEF Send, callVars
<1>4. CASE Confirm(p)
  <2>1. flight' = flight /\ unseen' = unseen
    BY <1>4 DEF Confirm, accountVars
  <2>2. CASE tx[p].got = "ok" /\ Done(p)
    <3>1. /\ at[p] = "create" => buffer[p].on = how[p].on
          /\ at[p] = "close" => Gone(p)
          /\ at[p] = "final" => Reached(p)
      BY <1>2, <2>2 DEF BufferOK
    <3> QED BY <1>1, <2>1, <2>2, <3>1, DoneChain
  <2>3. CASE tx' = [tx EXCEPT ![p].phase = "check"] /\ UNCHANGED callVars
    BY <1>1, <2>1, <2>3, AttemptChain DEF callVars
  <2>4. CASE Again(p)
    BY <1>1, <2>1, <2>4, AttemptChain
  <2> QED BY <1>4, <2>2, <2>3, <2>4 DEF Confirm
<1>5. CASE Check(p)
  <2>1. flight' = flight
    BY <1>5 DEF Check
  <2>2. ASSUME NEW there \in {FALSE, Held(p)}, Confirmed(p, there), Done(p),
               Took(p, there = Held(p))
        PROVE  ChainInv'
    <3>0. Held(p) \in BOOLEAN
      BY DEF Held
    <3>1. /\ unseen \subseteq unseen' /\ (there # Held(p) => <<p, at[p]>> \in unseen')
      BY <2>2, <3>0, TookGrows
    <3>2. CASE at[p] = "create"
      <4>1. Held(p)
        BY <2>2, <3>0, <3>2 DEF Confirmed
      <4> QED BY <1>1, <2>1, <2>2, <3>1, <3>2, <4>1, DoneChain DEF Held
    <3>3. CASE at[p] \in {"close", "final"}
      <4>1. ~there
        BY <2>2, <3>3 DEF Confirmed
      <4>2. CASE Held(p)
        BY <1>1, <2>1, <2>2, <3>0, <3>1, <3>3, <4>1, <4>2, DoneChain DEF Unsure
      <4>3. CASE ~Held(p)
        <5>1. Unsure(p, "create") => Unsure(p, "create")'
          BY <3>1 DEF Unsure
        <5> QED BY <1>1, <2>1, <2>2, <3>1, <3>3, <4>3, <5>1, NotHeld, DoneChain
      <4> QED BY <4>2, <4>3
    <3>4. CASE at[p] \in {"reclaim", "authority"}
      BY <1>1, <2>1, <2>2, <3>1, <3>4, DoneChain
    <3> QED BY <1>1, <3>2, <3>3, <3>4 DEF TxSteps
  <2>3. CASE Again(p) /\ Took(p, TRUE)
    <3>1. unseen' = unseen
      BY <2>3, TookGrows
    <3> QED BY <1>1, <2>1, <2>3, <3>1, AttemptChain
  <2> QED BY <1>5, <2>2, <2>3 DEF Check
<1>6. CASE KeptBalance(p)
  <2>1. at[p] = "close" /\ flight' = flight /\ InRun(p) /\ Held(p) \in BOOLEAN
    BY <1>6 DEF KeptBalance, InRun, Processing, TxSteps, Held
  <2>2. CASE Ends(p, "closed", ask) /\ Took(p, ~Held(p))
    <3>1. unseen \subseteq unseen' /\ (Held(p) => Unsure(p, "close")')
      BY <2>1, <2>2, TookGrows DEF Unsure
    <3>2. Unsure(p, "create") => Unsure(p, "create")'
      BY <3>1 DEF Unsure
    <3>3. Gone(p) \/ Unsure(p, "create")' \/ Unsure(p, "close")'
      BY <2>1, <3>1, <3>2, NotHeld
    <3> QED BY <1>1, <2>1, <2>2, <3>1, <3>3, EndsChain
  <2>3. CASE Ends(p, "kept", ask) /\ Took(p, TRUE)
    <3>1. unseen' = unseen
      BY <2>3, TookGrows
    <3> QED BY <1>1, <2>1, <2>3, <3>1, EndsChain
  <2> QED BY <1>6, <2>2, <2>3 DEF KeptBalance
<1> QED BY <1>3, <1>4, <1>5, <1>6 DEF Transaction

\* processDeploy after the load: a buffer that was written is there, where the run reads
\* it; one that is to be closed may not be there if the run is not sure of its create
LEMMA LoadedChain ==
  ASSUME ChainInv, SwitchInv, NEW p \in Presses, Loaded(p)
  PROVE  ChainInv'
<1> USE DEF ChainInv
<1>1. /\ at[p] = "load" /\ InRun(p)
      /\ UNCHANGED <<how, flight, buffer, reached, unseen, project, network>>
  BY DEF Loaded, accountVars, openVars, InRun, Processing
<1>2. \/ Ends(p, "failed", ask)
      \/ \E s, q : s \in {"close", "askClose", "authority", "final"} /\ Goes(p, s, q)
  BY DEF Loaded, Asks
<1>3. CASE Ends(p, "failed", ask)
  BY <1>1, <1>3, EndsChain
<1>4. ASSUME NEW s \in {"close", "askClose", "authority", "final"}, NEW q, Goes(p, s, q)
      PROVE  ChainInv'
  <2>1. s \in Processing /\ s \notin Unmade /\ s \notin Unloaded
    BY DEF Processing, TxSteps, Unmade, Unloaded, Checks
  <2>2. /\ BufferOK(p) /\ how[p].on \in Networks /\ Nowhere \notin Networks
        /\ Unsure(p, "create")' = Unsure(p, "create")
    BY <1>1, DeployAssumption DEF ChainOK, ChainType, Unsure
  <2>3. buffer[p].made > 0 \/ Unsure(p, "create")
    BY <1>1, <2>2 DEF BufferOK
  <2>4. ASSUME s \in {"authority", "final"} PROVE buffer[p].on = how[p].on
    <3>1. loaded[p] = "success"
      <4>1. at' = [at EXCEPT ![p] = s]
        BY <1>4 DEF Goes
      <4>2. at'[p] = s
        BY <4>1 DEF SwitchInv, SwitchType
      <4>3. loaded[p] = "success" \/ \E r \in {"close", "askClose", "done"} : at' = [at EXCEPT ![p] = r]
        BY EndsMoves, GoesMoves, AsksMoves DEF Loaded
      <4> QED BY <2>4, <4>2, <4>3 DEF SwitchInv, SwitchType
    <3>2. buffer[p].on # Nowhere
      BY <1>1, <3>1 DEF SwitchInv, LoadedWhole
    <3> QED BY <2>2, <3>2 DEF BufferOK
  <2> QED BY <1>1, <1>4, <2>1, <2>2, <2>3, <2>4, GoesChain
<1> QED BY <1>2, <1>3, <1>4

LEMMA CloseReplyChain ==
  ASSUME ChainInv, SwitchInv, NEW p \in Presses, CloseReply(p)
  PROVE  ChainInv'
<1>1. /\ at[p] = "askClose" /\ InRun(p)
      /\ UNCHANGED <<how, flight, buffer, reached, unseen, project, network>>
  BY DEF CloseReply, runVars, accountVars, openVars, InRun, Processing
<1>2. CASE Ends(p, "cancelled", Quiet(p))
  BY <1>1, <1>2, EndsChain
<1>3. CASE Goes(p, "reclaim", Quiet(p))
  <2>1. "reclaim" \in Processing /\ "reclaim" \notin Unmade /\ "reclaim" \notin Unloaded
    BY DEF Processing, TxSteps, Unmade, Unloaded, Checks
  <2> QED BY <1>1, <1>3, <2>1, GoesChain
<1> QED BY <1>2, <1>3 DEF CloseReply

LEMMA SegmentChain ==
  ASSUME ChainInv, NEW p \in Presses, NEW k \in DOMAIN segs[p], Segment(p, k)
  PROVE  ChainInv'
<1>1. UNCHANGED <<at, tx, outcome, how, flight, buffer, reached, unseen, project, network>>
  BY DEF Segment, SegmentStarts, Simulate, Load, HandleFails, callVars, runVars, accountVars,
     openVars
<1> QED BY <1>1, SameChain

\* loadBuffer writes only for a run that has its buffer
LEMMA ReadChain ==
  ASSUME ChainInv, SwitchInv, NEW p \in Presses, NEW k \in DOMAIN segs[p], Read(p, k)
  PROVE  ChainInv'
<1> USE DEF ChainInv
<1>1. /\ UNCHANGED <<at, tx, outcome, how, buffer, reached, unseen, project, network>>
      /\ buffer[p].on = how[p].on
  BY DEF Read, Held, callVars, runVars, accountVars, openVars
<1>2. at'[p] \notin Unmade
  <2>1. at[p] \notin Unloaded
    BY DEF SwitchInv, SegmentsOK
  <2> QED BY <1>1, <2>1 DEF Unloaded
<1>3. Here \in Projects \X Networks
  BY DEF ChainType, Here
<1>4. Sends(p)
  BY <1>2, <1>3, ReadSends DEF Sends, SentOK
<1>5. ChainType'
  BY <1>1, <1>4, SendsType DEF ChainType
<1>6. BufferOK(p)'
  BY <1>1 DEF ChainOK, BufferOK, Reached, Gone, Unsure
<1>7. outcome[p] # "none"
  <2>1. buffer[p].made # 0
    BY <1>1, DeployAssumption DEF ChainOK, BufferOK, ChainType
  <2> QED BY <2>1 DEF ChainOK, LineOK
<1>8. LineOK(p)'
  BY <1>1, <1>7 DEF ChainOK, LineOK, Reached, Gone, Unsure
<1> QED BY <1>1, <1>4, <1>5, <1>6, <1>8, CallKeeps

\* The user: the network moves only where no run has a transaction before it that the
\* network decides
LEMMA UserChain ==
  ASSUME ChainInv, SwitchInv, User
  PROVE  ChainInv'
<1> USE DEF ChainInv
<1>1. UNCHANGED <<at, tx, outcome, how, flight, buffer, reached, unseen>>
  BY DEF User, Stop, SwitchProject, SwitchNetwork, Answer, callVars, runVars, accountVars
<1>2. project' \in Projects /\ network' \in Networks
  BY DEF User, Stop, SwitchProject, SwitchNetwork, Answer, openVars, ChainType
<1>3. ChainType'
  BY <1>1, <1>2 DEF ChainType
<1>4. ASSUME NEW p \in Presses,
             at[p] \in Unloaded \ (Checks \cup {"idle", "fetch"})
      PROVE  network' = network
  <2>1. CASE SwitchNetwork
    <3>1. InRun(p) /\ at[p] \notin {"askClose", "close", "reclaim", "load"}
      BY <1>4 DEF InRun, Processing, TxSteps, Unloaded, Unmade, Checks
    <3>2. deployState # "ready"
      BY <3>1 DEF SwitchInv, OneRun
    <3>3. deployState # "cancelled"
      BY <3>1 DEF SwitchInv, CancelledOK
    <3> QED BY <2>1, <3>2, <3>3 DEF SwitchNetwork, SwitchInv, SwitchType, States
  <2>2. CASE ~SwitchNetwork
    BY <2>2 DEF User, Stop, SwitchProject, Answer, openVars
  <2> QED BY <2>1, <2>2
<1>5. ASSUME NEW p \in Presses PROVE BufferOK(p)' /\ LineOK(p)'
  <2>1. BufferOK(p)'
    BY <1>1, <1>4 DEF ChainOK, BufferOK, Reached, Gone, Unsure
  <2>2. LineOK(p)'
    BY <1>1 DEF ChainOK, LineOK, Reached, Gone, Unsure
  <2> QED BY <2>1, <2>2
<1>6. \A t \in flight' : SentOK(t)'
  BY <1>1 DEF ChainOK, SentOK
<1> QED BY <1>3, <1>5, <1>6 DEF ChainOK

\* What a transaction's confirmation says is one of its fields.
LEMMA GotType ==
  ASSUME NEW f \in [Presses -> [tries : Nat, phase : {"send", "confirm", "check", "balance"},
                                got : {"nothing", "ok", "err"}]],
         NEW p \in Presses, NEW g \in {"ok", "err"}
  PROVE  /\ [f EXCEPT ![p].got = g] \in
              [Presses -> [tries : Nat, phase : {"send", "confirm", "check", "balance"},
                           got : {"nothing", "ok", "err"}]]
         /\ [f EXCEPT ![p].got = g][p].got = g
         /\ \A r \in Presses \ {p} : [f EXCEPT ![p].got = g][r] = f[r]
OBVIOUS

\* What lands, lands in a buffer of its run.  A run that goes on with its buffer has sent
\* nothing yet that would close it.
LEMMA LandChain ==
  ASSUME ChainInv, SwitchInv, NEW t \in flight, Land(t)
  PROVE  ChainInv'
<1> USE DEF ChainInv
<1> DEFINE p == t.run
<1>1. /\ UNCHANGED <<at, outcome, how, unseen, project, network>>
      /\ flight' = flight \ {t}
  BY DEF Land, Effect, callVars, runVars, accountVars, openVars
<1>2. /\ p \in Presses /\ t.to \in Projects \X Networks /\ SentOK(t)
      /\ t.kind \in TxSteps \cup {"write"} /\ (t.kind = "write" => t.n \in Chunks)
      /\ BufferOK(p) /\ LineOK(p)
      /\ Nowhere \notin Networks
      /\ buffer[p] \in [on : Networks \cup {Nowhere}, data : SUBSET Chunks,
                         owner : Wallets, made : Nat]
      /\ how[p].on \in Networks /\ t.to[2] \in Networks
  BY DeployAssumption DEF ChainOK, ChainType
<1>3. /\ tx' \in [Presses -> [tries : Nat, phase : {"send", "confirm", "check", "balance"},
                              got : {"nothing", "ok", "err"}]]
      /\ \A r \in Presses \ {p} : tx'[r] = tx[r]
      /\ tx'[p].got = "ok" => (Valid(t) /\ at[p] = t.kind) \/ tx[p].got = "ok"
  <2>1. tx' = tx \/ (/\ tx' = [tx EXCEPT ![p].got = IF Valid(t) THEN "ok" ELSE "err"]
                    /\ at[p] = t.kind)
    BY DEF Land
  <2>2. CASE tx' = tx
    BY <2>2 DEF ChainType
  <2>3. CASE /\ tx' = [tx EXCEPT ![p].got = IF Valid(t) THEN "ok" ELSE "err"]
             /\ at[p] = t.kind
    <3>1. PICK g \in {"ok", "err"} : (g = "ok" => Valid(t)) /\ tx' = [tx EXCEPT ![p].got = g]
      BY <2>3
    <3>2. /\ tx'[p].got = g
          /\ tx' \in [Presses -> [tries : Nat, phase : {"send", "confirm", "check", "balance"},
                                  got : {"nothing", "ok", "err"}]]
          /\ \A r \in Presses \ {p} : tx'[r] = tx[r]
      <4> tx \in [Presses -> [tries : Nat, phase : {"send", "confirm", "check", "balance"},
                              got : {"nothing", "ok", "err"}]]
        BY DEF ChainType
      <4> HIDE DEF p
      <4> QED BY <1>2, <3>1, GotType
    <3> QED BY <2>3, <3>1, <3>2
  <2> QED BY <2>1, <2>2, <2>3
<1>4. \A r \in Presses \ {p} : buffer'[r] = buffer[r]
  BY <1>2 DEF Land, Effect, accountVars, ChainType
<1>5. reached \subseteq reached'
  BY DEF Land, Effect, accountVars
<1>6. \A u \in flight' : u \in flight /\ SentOK(u)'
  BY <1>1 DEF ChainOK, SentOK
<1>7. ASSUME NEW r \in Presses \ {p} PROVE BufferOK(r)' /\ LineOK(r)'
  <2>1. BufferOK(r) /\ LineOK(r)
    BY DEF ChainOK
  <2>2. BufferOK(r)'
    BY <1>1, <1>3, <1>4, <1>5, <2>1 DEF BufferOK, Reached, Gone, Unsure
  <2>3. LineOK(r)'
    BY <1>1, <1>4, <1>5, <1>6, <2>1 DEF LineOK, Reached, Gone, Unsure
  <2> QED BY <2>2, <2>3
<1>8. at[p] \notin Unmade /\ outcome[p] # "none"
  BY <1>2 DEF SentOK, LineOK
<1>9. CASE ~Valid(t)
  <2>1. UNCHANGED <<buffer, reached>>
    BY <1>9 DEF Land, accountVars
  <2>2. ChainType'
    BY <1>1, <1>3, <1>6, <2>1 DEF ChainType
  <2>3. BufferOK(p)'
    BY <1>1, <1>2, <1>3, <1>9, <2>1 DEF BufferOK, Reached, Gone, Unsure
  <2>4. LineOK(p)'
    BY <1>1, <1>2, <1>6, <2>1 DEF LineOK, Reached, Gone, Unsure
  <2> QED BY <1>6, <1>7, <2>2, <2>3, <2>4 DEF ChainOK
<1>10. ASSUME Valid(t), NEW b, buffer' = [buffer EXCEPT ![p] = b],
              b \in [on : Networks \cup {Nowhere}, data : SUBSET Chunks,
                     owner : Wallets, made : Nat],
              BufferOK(p)', LineOK(p)'
       PROVE  ChainInv'
  <2>1. ChainType'
    BY <1>1, <1>3, <1>6, <1>10 DEF ChainType
  <2> QED BY <1>6, <1>7, <1>10, <2>1 DEF ChainOK
<1>11. CASE Valid(t) /\ t.kind = "create"
  <2> DEFINE b == [on |-> t.to[2], data |-> {}, owner |-> "pg", made |-> buffer[p].made + 1]
  <2>1. buffer' = [buffer EXCEPT ![p] = b] /\ reached' = reached
    BY <1>11 DEF Land, Effect
  <2>2. b \in [on : Networks \cup {Nowhere}, data : SUBSET Chunks, owner : Wallets, made : Nat]
    BY <1>2 DEF Wallets
  <2>3. /\ buffer'[p].on = how[p].on /\ buffer'[p].made = buffer[p].made + 1
        /\ buffer[p].on = Nowhere /\ buffer[p].made \in Nat
    <3>1. buffer'[p] = b
      BY <1>2, <2>1 DEF ChainType
    <3>2. buffer[p].on = Nowhere
      BY <1>11 DEF Valid
    <3>3. t.to[2] = how[p].on /\ buffer[p].made \in Nat
      BY <1>2, <1>11 DEF SentOK
    <3> QED BY <3>1, <3>2, <3>3
  <2>4. BufferOK(p)'
    <3>1. /\ at'[p] = at[p] /\ how'[p] = how[p] /\ reached' = reached /\ network' = network
          /\ unseen' = unseen
      BY <1>1, <2>1
    <3>2. buffer'[p].made > 0
      BY <2>3
    <3>3. at[p] # "close" \/ ~(tx'[p].got = "ok") \/ Gone(p)'
      BY <1>2, <1>3, <1>11, <2>3, <3>1 DEF BufferOK, Gone
    <3>4. at[p] # "final" \/ ~(tx'[p].got = "ok") \/ Reached(p)
      BY <1>2, <1>3, <1>11 DEF BufferOK
    <3>5. /\ at[p] \in Unloaded \ (Checks \cup {"idle", "fetch"}) => network = how[p].on
          /\ at[p] = "final" => buffer'[p].on = how'[p].on \/ Reached(p)'
      BY <1>2, <2>3, <3>1 DEF BufferOK
    <3>6. at[p] = "final" /\ tx'[p].got = "ok" => Reached(p)'
      BY <3>1, <3>4 DEF Reached
    <3> QED BY ONLY <1>8, <2>3, <3>1, <3>2, <3>3, <3>5, <3>6 DEF BufferOK
  <2>5. LineOK(p)'
    BY <1>1, <1>2, <1>8, <2>1, <2>3 DEF LineOK, Reached, Gone, Unsure
  <2> QED BY <1>10, <1>11, <2>1, <2>2, <2>4, <2>5
<1>12. CASE Valid(t) /\ t.kind \in {"write", "authority"}
  <2>1. PICK b \in [on : Networks \cup {Nowhere}, data : SUBSET Chunks, owner : Wallets,
                     made : Nat] :
          /\ buffer' = [buffer EXCEPT ![p] = b]
          /\ b.on = buffer[p].on /\ b.made = buffer[p].made
    <3>1. CASE t.kind = "write"
      <4> DEFINE w == [buffer[p] EXCEPT !.data = buffer[p].data \cup {t.n}]
      <4>1. buffer' = [buffer EXCEPT ![p] = w]
        BY <1>12, <3>1 DEF Land, Effect
      <4>2. /\ w \in [on : Networks \cup {Nowhere}, data : SUBSET Chunks, owner : Wallets,
                      made : Nat]
            /\ w.on = buffer[p].on /\ w.made = buffer[p].made
        BY <1>2, <3>1
      <4> HIDE DEF w
      <4> QED BY <4>1, <4>2
    <3>2. CASE t.kind = "authority"
      <4> DEFINE w == [buffer[p] EXCEPT !.owner = "standard"]
      <4>1. buffer' = [buffer EXCEPT ![p] = w]
        BY <1>12, <3>2 DEF Land, Effect
      <4>2. /\ w \in [on : Networks \cup {Nowhere}, data : SUBSET Chunks, owner : Wallets,
                      made : Nat]
            /\ w.on = buffer[p].on /\ w.made = buffer[p].made
        BY <1>2, <3>2 DEF Wallets
      <4> HIDE DEF w
      <4> QED BY <4>1, <4>2
    <3> QED BY <1>12, <3>1, <3>2
  <2>2. reached' = reached
    BY <1>12 DEF Land, Effect
  <2>4. buffer'[p].on = buffer[p].on /\ buffer'[p].made = buffer[p].made
    BY <1>2, <2>1 DEF ChainType
  <2>5. BufferOK(p)'
    BY <1>1, <1>2, <1>3, <1>12, <2>2, <2>4 DEF BufferOK, Reached, Gone, Unsure
  <2>6. LineOK(p)'
    BY <1>1, <1>2, <1>8, <2>2, <2>4 DEF LineOK, Reached, Gone, Unsure
  <2> QED BY <1>10, <1>12, <2>1, <2>5, <2>6
<1>13. CASE Valid(t) /\ t.kind \in {"close", "reclaim", "final"}
  <2> DEFINE b == [buffer[p] EXCEPT !.on = Nowhere, !.data = {}]
  <2>1. buffer' = [buffer EXCEPT ![p] = b]
    BY <1>13 DEF Land, Effect
  <2>2. b \in [on : Networks \cup {Nowhere}, data : SUBSET Chunks, owner : Wallets, made : Nat]
    BY <1>2
  <2>3. /\ buffer'[p].on = Nowhere /\ buffer'[p].made = buffer[p].made
        /\ buffer[p].made > 0 /\ at[p] \in {t.kind, "done"}
    <3>1. buffer'[p].on = Nowhere /\ buffer'[p].made = buffer[p].made
      BY <1>2, <2>1 DEF ChainType
    <3>2. buffer[p].made > 0
      BY <1>2, <1>13 DEF Valid, BufferOK
    <3>3. at[p] \in {t.kind, "done"}
      BY <1>2, <1>13 DEF SentOK
    <3> QED BY <3>1, <3>2, <3>3
  <2>4. t.kind = "final" => Reached(p)'
    <3>1. t.kind = "final" => reached' = reached \cup {<<p, t.to>>}
      BY <1>13 DEF Land, Effect
    <3> QED BY <1>2, <3>1 DEF Reached
  <2>5. at[p] \notin Unloaded /\ at[p] \notin {"load", "authority", "create"}
    BY <1>13, <2>3 DEF Unloaded, Unmade, Checks
  <2>6. BufferOK(p)'
    BY <1>1, <1>2, <1>3, <1>5, <1>8, <2>3, <2>4, <2>5 DEF BufferOK, Reached, Gone, Unsure
  <2>7. LineOK(p)'
    BY <1>1, <1>2, <1>5, <1>8, <2>3 DEF LineOK, Reached, Gone, Unsure
  <2> QED BY <1>10, <1>13, <2>1, <2>2, <2>6, <2>7
<1> QED BY <1>2, <1>9, <1>11, <1>12, <1>13 DEF TxSteps

-----------------------------------------------------------------------------
LEMMA ChainInit == Init => ChainInv
<1> SUFFICES ASSUME Init PROVE ChainInv
  OBVIOUS
<1> USE DEF Init
<1>1. ChainType
  <2>1. Nowhere \notin Networks /\ flight = {} /\ DOMAIN outcome = Presses
    BY DeployAssumption
  <2>2. tx \in [Presses -> [tries : Nat, phase : {"send", "confirm", "check", "balance"},
                            got : {"nothing", "ok", "err"}]]
    BY FreshTxType
  <2>3. how \in [Presses -> [pays : Wallets, upgrade : BOOLEAN, on : Networks, grows : BOOLEAN]]
    BY DEF Wallets
  <2>4. buffer \in [Presses -> [on : Networks \cup {Nowhere}, data : SUBSET Chunks,
                                owner : Wallets, made : Nat]]
    BY DEF Wallets
  <2> QED BY <2>1, <2>2, <2>3, <2>4 DEF ChainType
<1>2. ASSUME NEW p \in Presses PROVE BufferOK(p) /\ LineOK(p)
  <2>1. BufferOK(p)
    BY DEF BufferOK
  <2>2. LineOK(p)
    BY DEF LineOK
  <2> QED BY <2>1, <2>2
<1> QED BY <1>1, <1>2 DEF ChainInv, ChainOK

LEMMA ChainNext == ChainInv /\ SwitchInv /\ [Next]_deployVars => ChainInv'
<1> SUFFICES ASSUME ChainInv, SwitchInv, [Next]_deployVars PROVE ChainInv'
  OBVIOUS
<1>1. ASSUME NEW p \in Presses, TakesUp(p) PROVE ChainInv'
  <2>1. ASSUME NEW k \in DOMAIN segs[p], Continue(p, k) PROVE ChainInv'
    <3>1. UNCHANGED <<at, tx, outcome, how, flight, buffer, reached, unseen, project, network>>
      BY <2>1 DEF Continue, callVars, runVars, accountVars, openVars
    <3> QED BY <3>1, SameChain
  <2> QED BY <1>1, <2>1, BeginsChain, FundsChain, CloseReplyChain, LoadedChain DEF TakesUp
<1>2. ASSUME NEW p \in Presses, Begins(p) PROVE ChainInv'
  BY <1>2, BeginsChain
<1>3. ASSUME NEW p \in Presses, Proceeds(p) PROVE ChainInv'
  BY <1>3, FetchedChain, FundsChain, TransactionChain, SegmentChain DEF Proceeds
<1>4. ASSUME User PROVE ChainInv'
  BY <1>4, UserChain
<1>5. ASSUME NEW t \in flight, Land(t) PROVE ChainInv'
  BY <1>5, LandChain
<1>6. ASSUME NEW p \in Presses, Reads(p) PROVE ChainInv'
  BY <1>6, ReadChain DEF Reads
<1>7. CASE UNCHANGED deployVars
  <2>1. UNCHANGED <<at, tx, outcome, how, flight, buffer, reached, unseen, project, network>>
    BY <1>7 DEF deployVars, callVars, runVars, accountVars, openVars
  <2> QED BY <2>1, SameChain
<1> QED BY <1>1, <1>2, <1>3, <1>4, <1>5, <1>6, <1>7 DEF Next

LEMMA RunInv == Spec => [](SwitchInv /\ ChainInv)
<1>1. Init => SwitchInv /\ ChainInv
  BY SwitchInit, ChainInit
<1>2. SwitchInv /\ ChainInv /\ [Next]_deployVars => (SwitchInv /\ ChainInv)'
  BY SwitchNext, ChainNext
<1> QED BY <1>1, <1>2, PTL DEF Spec

\* However presses pause, resume, stop and end deploys, and whatever listens to the
\* state, at most one deploy runs and PgGlobal.deployState is "ready" exactly while none
\* does: no listener of an earlier segment or run sets it for a run that is over
THEOREM OneRunTheorem == Spec => []OneRun
<1>1. SwitchInv => OneRun
  BY DEF SwitchInv
<1> QED BY <1>1, RunInv, PTL

\* PgTx.confirm may say nothing, an attempt may be lost, late or sent twice, and the node
\* that is read may be behind: "Deployment successful." is still said only of a last
\* transaction that landed, of one whose send returned no hash (`if (!txHash) return`), or
\* of one that failed where a node that is behind knew of no buffer
THEOREM DeployedTheorem == Spec => []DeployedIsThere
<1>1. ChainInv => DeployedIsThere
  BY DEF ChainInv, ChainOK, LineOK, Reached, Unsure, DeployedIsThere
<1> QED BY <1>1, RunInv, PTL

\* deployStoppedLine is true however long transactions stay on their way: after "none"
\* there is no buffer and none can come, and after "closed" the buffer is gone, unless a
\* create that was sent again has landed a second time, the send of the create or of the
\* close returned no hash, or a node that is behind knew of no buffer
THEOREM StoppedLineTheorem == Spec => []StoppedLine
<1>1. ChainInv => StoppedLine
  BY DEF ChainInv, ChainOK, LineOK, Gone, Unsure, StoppedLine
<1> QED BY <1>1, RunInv, PTL

\* A step to the last transactions is the one of processDeploy after the load
LEMMA LastFromLoad ==
  ASSUME SwitchInv, [Next]_deployVars, NEW p \in Presses, at[p] = "load",
         at'[p] \in LastSteps
  PROVE  loaded[p] = "success"
<1>1. /\ at \in [Presses -> Places]
      /\ "load" \notin LastSteps /\ {"close", "askClose", "done"} \cap LastSteps = {}
  BY DEF SwitchInv, SwitchType, LastSteps
<1>2. at' # at
  BY <1>1
<1>3. ASSUME NEW q \in Presses, Elsewhere(q) PROVE FALSE
  BY <1>1, <1>2, <1>3 DEF Elsewhere
<1>4. ASSUME NEW q \in Presses, Loaded(q) PROVE loaded[p] = "success"
  <2>1. PICK s : /\ at' = [at EXCEPT ![q] = s]
                 /\ s \in {"close", "askClose", "done"} \/ loaded[q] = "success"
    BY <1>4, EndsMoves, GoesMoves, AsksMoves DEF Loaded
  <2> QED BY <1>1, <2>1
<1>5. ASSUME NEW q \in Presses, Send(q) PROVE FALSE
  <2>1. at' = at \/ (at[q] \in TxSteps /\ (Done(q) \/ Again(q)))
    BY <1>5 DEF Send, callVars
  <2>2. \/ at' = at
        \/ \E s \in Places : at' = [at EXCEPT ![q] = s] /\ (s \in LastSteps => at[q] \in LastSteps)
    BY <2>1, TriedMoves
  <2> QED BY <1>1, <1>2, <2>2
<1>6. ASSUME NEW q \in Presses, Reads(q) PROVE FALSE
  BY <1>2, <1>6 DEF Reads, Read, callVars
<1>7. ASSUME NEW q \in Presses, TakesUp(q) PROVE loaded[p] = "success"
  BY <1>3, <1>4, <1>7, BeginsElsewhere, FundsElsewhere, CloseReplyElsewhere, LoadElsewhere
  DEF TakesUp
<1>8. ASSUME NEW q \in Presses, Begins(q) PROVE FALSE
  BY <1>3, <1>8, BeginsElsewhere
<1>9. ASSUME NEW q \in Presses, Proceeds(q) PROVE FALSE
  BY <1>3, <1>5, <1>9, FundsElsewhere, ConfirmElsewhere, LoadElsewhere
  DEF Proceeds, Transaction, Segment
<1>10. ~User
  BY <1>2 DEF User, Stop, SwitchProject, SwitchNetwork, Answer, callVars
<1>11. ASSUME NEW t \in flight, Land(t) PROVE FALSE
  BY <1>2, <1>11 DEF Land, callVars
<1>12. ~UNCHANGED deployVars
  BY <1>2 DEF deployVars, callVars
<1> QED BY <1>6, <1>7, <1>8, <1>9, <1>10, <1>11, <1>12 DEF Next

\* However often the load was paused and resumed, and whatever a stray answer did to its
\* segments, processDeploy goes on to its last transactions only with every chunk of the
\* program in the buffer
THEOREM WholeBufferTheorem == Spec => WholeBuffer
<1>1. SwitchInv /\ [Next]_deployVars =>
        [\A p \in Presses : at[p] = "load" /\ at'[p] \in {"authority", "final"} =>
           buffer[p].data = Chunks]_deployVars
  BY LastFromLoad DEF LastSteps, SwitchInv, LoadedWhole
<1> QED BY <1>1, RunInv, PTL DEF Spec, WholeBuffer
=============================================================================
