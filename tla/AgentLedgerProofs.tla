------------------------- MODULE AgentLedgerProofs --------------------------
(***************************************************************************)
(* The ledger for any users, turns, prices, caps, reports and days: types, *)
(* the cap, that hanging up is not free, that the two tables agree row by  *)
(* row, that no settle is refused, and that they implement Allowance.      *)
(*                                                                         *)
(* CapHeld is inductive given the types: a turn is admitted under the cap, *)
(* a settle adds no more than it counts in `over`, and the cap of a user   *)
(* only rises, since a stored date stays and accounts only grow older.     *)
(* The others need TurnStages, which says what a request's place in the    *)
(* handler tells about its row: no row before `reserve`, the reservation   *)
(* while it is started, and "unfinished" until something better is known.  *)
(* LedgerAgrees is a statement about sums, so it rests on what a sum over  *)
(* a finite set does when one element joins or leaves it.                  *)
(***************************************************************************)
EXTENDS AgentLedger, FiniteSetTheorems, WellFoundedInduction, TLAPS

TurnStages ==
  \A t \in Turns :
    /\ place[t] \in {"idle", "reserving"} => outcome[t] = "none" /\ ~taken[t]
    /\ place[t] = "admitted" => ~taken[t]
    /\ place[t] \notin {"done", "aging", "killed"} => outcome[t] \in {"none", "started"}
    /\ place[t] \in {"admitted", "fetching", "streaming", "draining", "settling"}
         => outcome[t] = "started"
    /\ outcome[t] = "started" => charged[t] = amount[t]
    /\ place[t] \in {"idle", "reserving", "admitted", "fetching", "streaming", "draining"}
         => end[t] = "unfinished"
    /\ place[t] = "settling" /\ taken[t] /\ ~here[t] => end[t] = "unfinished"
    /\ end[t] = "completed" => usage[t] # NoReport

LedgerInv == LedgerTypeOK /\ TurnStages /\ CapHeld /\ HangUpNotFree /\ LedgerAgrees

-----------------------------------------------------------------------------
LEMMA CeilNat == \A n \in Nat : CeilHundredths(n) \in Nat
BY DEF CeilHundredths

LEMMA CeilInt == \A n \in Int : CeilHundredths(n) \in Int
BY DEF CeilHundredths

LEMMA ProductNat == \A m, n \in Nat : m * n \in Nat
OBVIOUS

LEMMA ProductInt == \A m, n \in Int : m * n \in Int
OBVIOUS

\* A reservation is an amount
LEMMA WorstCaseNat == \A bytes \in Nat : WorstCaseCost(bytes) \in Nat
<1> TAKE bytes \in Nat
<1>1. (bytes + 3) \div 4 \in Nat
  OBVIOUS
<1>2. ((bytes + 3) \div 4) * PriceIn \in Nat /\ MaxOutput * PriceOut \in Nat
  BY <1>1, ProductNat, LedgerAssumption
<1>3. ((bytes + 3) \div 4) * PriceIn + MaxOutput * PriceOut \in Nat
  BY <1>2
<1> QED
  BY <1>3, CeilNat DEF WorstCaseCost

\* A reported cost is a number, negative if the counts were
LEMMA CostInt == \A u \in Reports : CostOf(u) \in Int
<1> TAKE u \in Reports
<1>1. u.prompt \in Counts /\ u.completion \in Counts
  BY LedgerAssumption
<1>2. OrZero(u.prompt) \in Int /\ OrZero(u.completion) \in Int
  BY <1>1 DEF OrZero, Counts
<1>3. OrZero(u.prompt) * PriceIn \in Int /\ OrZero(u.completion) * PriceOut \in Int
  BY <1>2, ProductInt, LedgerAssumption
<1>4. OrZero(u.prompt) * PriceIn + OrZero(u.completion) * PriceOut \in Int
  BY <1>3
<1> QED
  BY <1>4, CeilInt DEF CostOf

\* What a turn in its last stage is charged; TypeOK and TurnStages are about
\* the state, so the lemma takes what it needs of them
LEMMA ChargeInt ==
  ASSUME LedgerTypeOK, NEW t \in Turns,
         end[t] = "completed" => usage[t] # NoReport
  PROVE  ChargeFor(t) \in Int
<1>1. CASE end[t] \in {"refused", "abandoned"}
  BY <1>1 DEF ChargeFor
<1>2. CASE end[t] = "completed" /\ IsPriceable(usage[t])
  <2>1. usage[t] \in Reports
    BY <1>2 DEF LedgerTypeOK
  <2> QED
    BY <1>2, <2>1, CostInt DEF ChargeFor
<1>3. CASE /\ end[t] \notin {"refused", "abandoned"}
           /\ ~(end[t] = "completed" /\ IsPriceable(usage[t]))
  BY <1>3 DEF ChargeFor, LedgerTypeOK
<1> QED
  BY <1>1, <1>2, <1>3

-----------------------------------------------------------------------------
\* What the two statements of the ledger write, for the steps that contain them

LEMMA AdmitEffect ==
  ASSUME LedgerTypeOK, NEW t \in Turns, Admit(t)
  PROVE  /\ key[t] \in Keys /\ amount[t] \in Nat
         /\ spent[key[t]] + reserved[key[t]] + amount[t] <= Cap(key[t][1])
         /\ reserved' = [reserved EXCEPT ![key[t]] = @ + amount[t]]
         /\ reserved' \in [Keys -> Nat]
         /\ outcome' = [outcome EXCEPT ![t] = "started"]
         /\ charged' = [charged EXCEPT ![t] = amount[t]]
         /\ charged' \in [Turns -> Nat]
         /\ outcome' \in [Turns -> Ends \cup {"none", "started"}]
         /\ UNCHANGED <<dated, spent, capped, over>>
BY DEF Admit, Fits, LedgerTypeOK

LEMMA SettleEffect ==
  ASSUME LedgerTypeOK, NEW t \in Turns, SettleRow(t),
         end[t] = "completed" => usage[t] # NoReport
  PROVE  \E charge \in Nat :
         /\ charge = ChargeFor(t)
         /\ key[t] \in Keys
         /\ outcome[t] = "started"
         /\ charged[t] <= reserved[key[t]]
         /\ reserved' = [reserved EXCEPT ![key[t]] = @ - charged[t]]
         /\ spent' = [spent EXCEPT ![key[t]] = @ + charge]
         /\ over' = [over EXCEPT ![key[t]] =
                       @ + (IF charge > charged[t] THEN charge - charged[t] ELSE 0)]
         /\ reserved' \in [Keys -> Nat] /\ spent' \in [Keys -> Nat] /\ over' \in [Keys -> Nat]
         /\ outcome' = [outcome EXCEPT ![t] = end[t]]
         /\ charged' = [charged EXCEPT ![t] = charge]
         /\ charged' \in [Turns -> Nat]
         /\ outcome' \in [Turns -> Ends \cup {"none", "started"}]
         /\ UNCHANGED <<dated, capped>>
<1> DEFINE charge == ChargeFor(t)
<1>1. charge \in Int
  BY ChargeInt
<1>2. charge \in Nat /\ charged[t] <= reserved[key[t]]
  BY <1>1 DEF SettleRow, Storable
<1>3. key[t] \in Keys /\ charged[t] \in Nat /\ end[t] \in Ends
  BY DEF LedgerTypeOK
<1>4. MoveSpend(key[t], charged[t], charge) /\ EndRow(t, charge) /\ outcome[t] = "started"
  BY DEF SettleRow
<1> HIDE DEF charge
<1>5. reserved' \in [Keys -> Nat] /\ spent' \in [Keys -> Nat] /\ over' \in [Keys -> Nat]
  BY <1>2, <1>3, <1>4 DEF MoveSpend, LedgerTypeOK
<1>6. charged' \in [Turns -> Nat] /\ outcome' \in [Turns -> Ends \cup {"none", "started"}]
  BY <1>2, <1>3, <1>4 DEF EndRow, LedgerTypeOK
<1> QED
  BY <1>2, <1>3, <1>4, <1>5, <1>6 DEF MoveSpend, EndRow, charge

\* Types
LEMMA TypeStep ==
  ASSUME LedgerTypeOK, TurnStages, [LedgerNext]_ledgerVars
  PROVE  LedgerTypeOK'
<1>1. ASSUME NEW t \in Turns,
             \/ \E bytes \in BodySizes : Take(t, bytes)
             \/ Reserve(t) \/ ReserveFails(t)
             \/ CallerLeaves(t)
             \/ StartRelay(t)
             \/ UpstreamTakes(t) \/ FetchThrows(t) \/ UpstreamRefuses(t)
             \/ \E body \in BOOLEAN : UpstreamAnswers(t, body)
             \/ \E report \in Reports \cup {NoReport}, full \in BOOLEAN :
                  ReadChunk(t, report, full)
             \/ Drain(t) \/ CloseEndsWait(t)
             \/ ReadDone(t) \/ ReadFails(t)
             \/ Settle(t) \/ RecordCapped(t) \/ LearnAccountAge(t)
             \/ Kill(t)
      PROVE  LedgerTypeOK'
  <2>1. CASE \E bytes \in BodySizes : Take(t, bytes)
    BY <2>1, WorstCaseNat, LedgerAssumption DEF Take, Goto, dbVars, turnVars, relayVars, LedgerTypeOK, Places, Ends, Keys, Days
  <2>2. CASE Reserve(t)
    <3>1. CASE Admit(t)
      BY <2>2, <3>1, AdmitEffect DEF Reserve, Goto, turnVars, relayVars, LedgerTypeOK, Places, Ends, Keys, Days
    <3>2. CASE UNCHANGED dbVars
      BY <2>2, <3>2 DEF Reserve, Goto, dbVars, turnVars, relayVars, LedgerTypeOK, Places, Ends, Keys, Days
    <3> QED
      BY <2>2, <3>1, <3>2 DEF Reserve
  <2>3. CASE ReserveFails(t)
    <3>1. CASE Admit(t)
      BY <2>3, <3>1, AdmitEffect DEF ReserveFails, Goto, turnVars, relayVars, LedgerTypeOK, Places, Ends, Keys, Days
    <3>2. CASE UNCHANGED dbVars
      BY <2>3, <3>2 DEF ReserveFails, Goto, dbVars, turnVars, relayVars, LedgerTypeOK, Places, Ends, Keys, Days
    <3> QED
      BY <2>3, <3>1, <3>2 DEF ReserveFails
  <2>4. CASE CallerLeaves(t)
    BY <2>4 DEF CallerLeaves, dbVars, turnVars, relayVars, LedgerTypeOK, Places, Ends, Keys, Days
  <2>5. CASE StartRelay(t)
    BY <2>5 DEF StartRelay, EndAs, Goto, dbVars, turnVars, relayVars, LedgerTypeOK, Places, Ends, Keys, Days
  <2>6. CASE UpstreamTakes(t)
    BY <2>6 DEF UpstreamTakes, dbVars, turnVars, relayVars, LedgerTypeOK, Places, Ends, Keys, Days
  <2>7. CASE FetchThrows(t)
    BY <2>7 DEF FetchThrows, FetchFailure, EndAs, Goto, dbVars, turnVars, relayVars, LedgerTypeOK, Places, Ends, Keys, Days
  <2>8. CASE UpstreamRefuses(t)
    BY <2>8 DEF UpstreamRefuses, EndAs, Goto, dbVars, turnVars, relayVars, LedgerTypeOK, Places, Ends, Keys, Days
  <2>9. CASE \E body \in BOOLEAN : UpstreamAnswers(t, body)
    BY <2>9 DEF UpstreamAnswers, EndAs, Goto, dbVars, turnVars, relayVars, LedgerTypeOK, Places, Ends, Keys, Days
  <2>10. CASE \E report \in Reports \cup {NoReport}, full \in BOOLEAN :
            ReadChunk(t, report, full)
    BY <2>10 DEF ReadChunk, UsageAfter, dbVars, turnVars, relayVars, LedgerTypeOK, Places, Ends, Keys, Days
  <2>11. CASE Drain(t)
    BY <2>11 DEF Drain, Goto, dbVars, turnVars, relayVars, LedgerTypeOK, Places, Ends, Keys, Days
  <2>12. CASE CloseEndsWait(t)
    BY <2>12 DEF CloseEndsWait, Goto, dbVars, turnVars, relayVars, LedgerTypeOK, Places, Ends, Keys, Days
  <2>13. CASE ReadDone(t)
    BY <2>13 DEF ReadDone, StreamEnd, EndAs, Goto, dbVars, turnVars, relayVars, LedgerTypeOK, Places, Ends, Keys, Days
  <2>14. CASE ReadFails(t)
    BY <2>14 DEF ReadFails, EndAs, Goto, dbVars, turnVars, relayVars, LedgerTypeOK, Places, Ends, Keys, Days
  <2>15. CASE Settle(t)
    <3>1. CASE SettleRow(t)
      BY <2>15, <3>1, SettleEffect DEF TurnStages, Settle, Goto, AfterLedger, turnVars, relayVars, LedgerTypeOK, Places, Ends, Keys, Days
    <3>2. CASE UNCHANGED dbVars
      BY <2>15, <3>2 DEF Settle, Goto, AfterLedger, dbVars, turnVars, relayVars, LedgerTypeOK, Places, Ends, Keys, Days
    <3> QED
      BY <2>15, <3>1, <3>2 DEF Settle
  <2>16. CASE RecordCapped(t)
    BY <2>16 DEF RecordCapped, Goto, AfterLedger, dbVars, turnVars, relayVars, LedgerTypeOK, Places, Ends, Keys, Days
  <2>17. CASE LearnAccountAge(t)
    BY <2>17 DEF LearnAccountAge, Goto, dbVars, turnVars, relayVars, LedgerTypeOK, Places, Ends, Keys, Days
  <2>18. CASE Kill(t)
    BY <2>18 DEF Kill, dbVars, turnVars, relayVars, LedgerTypeOK, Places, Ends, Keys, Days
  <2> QED
    BY <1>1, <2>1, <2>2, <2>3, <2>4, <2>5, <2>6, <2>7, <2>8, <2>9, <2>10, <2>11, <2>12, <2>13, <2>14, <2>15, <2>16, <2>17, <2>18
<1>2. CASE NewDay
  BY <1>2, LedgerAssumption DEF NewDay, dbVars, turnVars, relayVars, LedgerTypeOK, Places, Ends, Keys, Days
<1>3. CASE UNCHANGED ledgerVars
  BY <1>3 DEF ledgerVars, dbVars, turnVars, relayVars, LedgerTypeOK, Places, Ends, Keys, Days
<1> QED
  BY <1>1, <1>2, <1>3 DEF LedgerNext

\* What a request's place tells about its row
LEMMA StageStep ==
  ASSUME LedgerTypeOK, TurnStages, [LedgerNext]_ledgerVars
  PROVE  TurnStages'
<1>1. ASSUME NEW t \in Turns,
             \/ \E bytes \in BodySizes : Take(t, bytes)
             \/ Reserve(t) \/ ReserveFails(t)
             \/ CallerLeaves(t)
             \/ StartRelay(t)
             \/ UpstreamTakes(t) \/ FetchThrows(t) \/ UpstreamRefuses(t)
             \/ \E body \in BOOLEAN : UpstreamAnswers(t, body)
             \/ \E report \in Reports \cup {NoReport}, full \in BOOLEAN :
                  ReadChunk(t, report, full)
             \/ Drain(t) \/ CloseEndsWait(t)
             \/ ReadDone(t) \/ ReadFails(t)
             \/ Settle(t) \/ RecordCapped(t) \/ LearnAccountAge(t)
             \/ Kill(t)
      PROVE  TurnStages'
  <2>1. CASE \E bytes \in BodySizes : Take(t, bytes)
    BY <2>1 DEF Take, Goto, dbVars, turnVars, relayVars, LedgerTypeOK, TurnStages, Ends, Places
  <2>2. CASE Reserve(t)
    <3>1. CASE Admit(t)
      BY <2>2, <3>1, AdmitEffect DEF Reserve, Goto, turnVars, relayVars, LedgerTypeOK, TurnStages, Ends, Places
    <3>2. CASE Goto(t, "reserving", "capped") /\ UNCHANGED dbVars
      BY <2>2, <3>2 DEF Reserve, Goto, dbVars, turnVars, relayVars, LedgerTypeOK, TurnStages, Ends, Places
    <3> QED
      BY <2>2, <3>1, <3>2 DEF Reserve
  <2>3. CASE ReserveFails(t)
    <3>1. CASE Admit(t)
      BY <2>3, <3>1, AdmitEffect DEF ReserveFails, Goto, turnVars, relayVars, LedgerTypeOK, TurnStages, Ends, Places
    <3>2. CASE UNCHANGED dbVars
      BY <2>3, <3>2 DEF ReserveFails, Goto, dbVars, turnVars, relayVars, LedgerTypeOK, TurnStages, Ends, Places
    <3> QED
      BY <2>3, <3>1, <3>2 DEF ReserveFails
  <2>4. CASE CallerLeaves(t)
    BY <2>4 DEF CallerLeaves, dbVars, turnVars, relayVars, LedgerTypeOK, TurnStages, Ends, Places
  <2>5. CASE StartRelay(t)
    BY <2>5 DEF StartRelay, EndAs, Goto, dbVars, turnVars, relayVars, LedgerTypeOK, TurnStages, Ends, Places
  <2>6. CASE UpstreamTakes(t)
    BY <2>6 DEF UpstreamTakes, dbVars, turnVars, relayVars, LedgerTypeOK, TurnStages, Ends, Places
  <2>7. CASE FetchThrows(t)
    BY <2>7 DEF FetchThrows, FetchFailure, EndAs, Goto, dbVars, turnVars, relayVars, LedgerTypeOK, TurnStages, Ends, Places
  <2>8. CASE UpstreamRefuses(t)
    BY <2>8 DEF UpstreamRefuses, EndAs, Goto, dbVars, turnVars, relayVars, LedgerTypeOK, TurnStages, Ends, Places
  <2>9. CASE \E body \in BOOLEAN : UpstreamAnswers(t, body)
    BY <2>9 DEF UpstreamAnswers, EndAs, Goto, dbVars, turnVars, relayVars, LedgerTypeOK, TurnStages, Ends, Places
  <2>10. CASE \E report \in Reports \cup {NoReport}, full \in BOOLEAN :
            ReadChunk(t, report, full)
    BY <2>10 DEF ReadChunk, UsageAfter, dbVars, turnVars, relayVars, LedgerTypeOK, TurnStages, Ends, Places
  <2>11. CASE Drain(t)
    BY <2>11 DEF Drain, Goto, dbVars, turnVars, relayVars, LedgerTypeOK, TurnStages, Ends, Places
  <2>12. CASE CloseEndsWait(t)
    BY <2>12 DEF CloseEndsWait, Goto, dbVars, turnVars, relayVars, LedgerTypeOK, TurnStages, Ends, Places
  <2>13. CASE ReadDone(t)
    BY <2>13 DEF ReadDone, StreamEnd, EndAs, Goto, dbVars, turnVars, relayVars, LedgerTypeOK, TurnStages, Ends, Places
  <2>14. CASE ReadFails(t)
    BY <2>14 DEF ReadFails, EndAs, Goto, dbVars, turnVars, relayVars, LedgerTypeOK, TurnStages, Ends, Places
  <2>15. CASE Settle(t)
    <3>1. CASE SettleRow(t)
      BY <2>15, <3>1, SettleEffect DEF TurnStages, Settle, Goto, AfterLedger, turnVars, relayVars, LedgerTypeOK, TurnStages, Ends, Places
    <3>2. CASE UNCHANGED dbVars
      BY <2>15, <3>2 DEF Settle, Goto, AfterLedger, dbVars, turnVars, relayVars, LedgerTypeOK, TurnStages, Ends, Places
    <3> QED
      BY <2>15, <3>1, <3>2 DEF Settle
  <2>16. CASE RecordCapped(t)
    BY <2>16 DEF RecordCapped, Goto, AfterLedger, dbVars, turnVars, relayVars, LedgerTypeOK, TurnStages, Ends, Places
  <2>17. CASE LearnAccountAge(t)
    BY <2>17 DEF LearnAccountAge, Goto, dbVars, turnVars, relayVars, LedgerTypeOK, TurnStages, Ends, Places
  <2>18. CASE Kill(t)
    BY <2>18 DEF Kill, dbVars, turnVars, relayVars, LedgerTypeOK, TurnStages, Ends, Places
  <2> QED
    BY <1>1, <2>1, <2>2, <2>3, <2>4, <2>5, <2>6, <2>7, <2>8, <2>9, <2>10, <2>11, <2>12, <2>13, <2>14, <2>15, <2>16, <2>17, <2>18
<1>2. CASE NewDay
  BY <1>2 DEF NewDay, dbVars, turnVars, relayVars, LedgerTypeOK, TurnStages, Ends, Places
<1>3. CASE UNCHANGED ledgerVars
  BY <1>3 DEF ledgerVars, dbVars, turnVars, relayVars, LedgerTypeOK, TurnStages, Ends, Places
<1> QED
  BY <1>1, <1>2, <1>3 DEF LedgerNext

-----------------------------------------------------------------------------
\* A step that moves no amount: a row that exists keeps its user and day, one
\* that has ended keeps what decided its charge, and no user's cap goes down
Quiet ==
  /\ UNCHANGED <<spent, reserved, outcome, charged, over>>
  /\ \A t \in Turns : outcome[t] # "none" => key'[t] = key[t] /\ amount'[t] = amount[t]
  /\ \A t \in Turns : outcome[t] \in Ends => taken'[t] = taken[t] /\ here'[t] = here[t]
  /\ \A u \in Users : dated[u] => dated'[u]
  /\ today <= today'

\* Every step admits a turn, settles one, or is quiet
LEMMA StepKinds ==
  ASSUME LedgerTypeOK, TurnStages, [LedgerNext]_ledgerVars
  PROVE  \/ \E t \in Turns : /\ place[t] = "reserving" /\ Admit(t)
                              /\ UNCHANGED <<today, key, amount, relayVars>>
         \/ \E t \in Turns : /\ place[t] = "settling" /\ SettleRow(t)
                              /\ UNCHANGED <<today, key, amount, relayVars>>
         \/ Quiet
<1> DEFINE Kinds ==
      \/ \E t \in Turns : /\ place[t] = "reserving" /\ Admit(t)
                           /\ UNCHANGED <<today, key, amount, relayVars>>
      \/ \E t \in Turns : /\ place[t] = "settling" /\ SettleRow(t)
                           /\ UNCHANGED <<today, key, amount, relayVars>>
      \/ Quiet
<1>0. today \in Int
  BY DEF LedgerTypeOK, Days
<1>1. ASSUME NEW t \in Turns,
             \/ \E bytes \in BodySizes : Take(t, bytes)
             \/ Reserve(t) \/ ReserveFails(t)
             \/ CallerLeaves(t)
             \/ StartRelay(t)
             \/ UpstreamTakes(t) \/ FetchThrows(t) \/ UpstreamRefuses(t)
             \/ \E body \in BOOLEAN : UpstreamAnswers(t, body)
             \/ \E report \in Reports \cup {NoReport}, full \in BOOLEAN :
                  ReadChunk(t, report, full)
             \/ Drain(t) \/ CloseEndsWait(t)
             \/ ReadDone(t) \/ ReadFails(t)
             \/ Settle(t) \/ RecordCapped(t) \/ LearnAccountAge(t)
             \/ Kill(t)
      PROVE  Kinds
  <2>1. CASE \E bytes \in BodySizes : Take(t, bytes)
    BY <1>0, <2>1 DEF Take, Goto, Quiet, LedgerTypeOK, TurnStages, Ends, dbVars, turnVars, relayVars
  <2>2. CASE Reserve(t)
    <3>1. CASE Admit(t)
      BY <2>2, <3>1 DEF Reserve, Goto, turnVars
    <3>2. CASE UNCHANGED dbVars
      BY <1>0, <2>2, <3>2 DEF Reserve, Goto, Quiet, LedgerTypeOK, TurnStages, Ends, dbVars, turnVars, relayVars
    <3> QED
      BY <2>2, <3>1, <3>2 DEF Reserve
  <2>3. CASE ReserveFails(t)
    <3>1. CASE Admit(t)
      BY <2>3, <3>1 DEF ReserveFails, Goto, turnVars
    <3>2. CASE UNCHANGED dbVars
      BY <1>0, <2>3, <3>2 DEF ReserveFails, Goto, Quiet, LedgerTypeOK, TurnStages, Ends, dbVars, turnVars, relayVars
    <3> QED
      BY <2>3, <3>1, <3>2 DEF ReserveFails
  <2>4. CASE CallerLeaves(t)
    <3>1. outcome[t] \notin Ends
      BY <2>4 DEF CallerLeaves, TurnStages, Ends
    <3>2. \A s \in Turns \ {t} : here'[s] = here[s]
      BY <2>4 DEF CallerLeaves, LedgerTypeOK
    <3>3. UNCHANGED <<today, dbVars, turnVars, taken>>
      BY <2>4 DEF CallerLeaves
    <3> QED
      BY <1>0, <3>1, <3>2, <3>3 DEF Quiet, dbVars, turnVars
  <2>5. CASE StartRelay(t)
    BY <1>0, <2>5 DEF StartRelay, EndAs, Goto, Quiet, LedgerTypeOK, TurnStages, Ends, dbVars, turnVars, relayVars
  <2>6. CASE UpstreamTakes(t)
    <3>1. outcome[t] \notin Ends
      BY <2>6 DEF UpstreamTakes, TurnStages, Ends
    <3>2. \A s \in Turns \ {t} : taken'[s] = taken[s]
      BY <2>6 DEF UpstreamTakes, LedgerTypeOK
    <3>3. UNCHANGED <<today, dbVars, turnVars, here>>
      BY <2>6 DEF UpstreamTakes
    <3> QED
      BY <1>0, <3>1, <3>2, <3>3 DEF Quiet, dbVars, turnVars
  <2>7. CASE FetchThrows(t)
    BY <1>0, <2>7 DEF FetchThrows, FetchFailure, EndAs, Goto, Quiet, LedgerTypeOK, TurnStages, Ends, dbVars, turnVars, relayVars
  <2>8. CASE UpstreamRefuses(t)
    <3>1. outcome[t] \notin Ends
      BY <2>8 DEF UpstreamRefuses, EndAs, Goto, TurnStages, Ends
    <3>2. \A s \in Turns \ {t} : taken'[s] = taken[s]
      BY <2>8 DEF UpstreamRefuses, EndAs, Goto, LedgerTypeOK
    <3>3. UNCHANGED <<today, dbVars, turnVars, here>>
      BY <2>8 DEF UpstreamRefuses, EndAs, Goto
    <3> QED
      BY <1>0, <3>1, <3>2, <3>3 DEF Quiet, dbVars, turnVars
  <2>9. CASE \E body \in BOOLEAN : UpstreamAnswers(t, body)
    BY <1>0, <2>9 DEF UpstreamAnswers, EndAs, Goto, Quiet, LedgerTypeOK, TurnStages, Ends, dbVars, turnVars, relayVars
  <2>10. CASE \E report \in Reports \cup {NoReport}, full \in BOOLEAN :
            ReadChunk(t, report, full)
    BY <1>0, <2>10 DEF ReadChunk, UsageAfter, Quiet, LedgerTypeOK, TurnStages, Ends, dbVars, turnVars, relayVars
  <2>11. CASE Drain(t)
    BY <1>0, <2>11 DEF Drain, Goto, Quiet, LedgerTypeOK, TurnStages, Ends, dbVars, turnVars, relayVars
  <2>12. CASE CloseEndsWait(t)
    BY <1>0, <2>12 DEF CloseEndsWait, Goto, Quiet, LedgerTypeOK, TurnStages, Ends, dbVars, turnVars, relayVars
  <2>13. CASE ReadDone(t)
    BY <1>0, <2>13 DEF ReadDone, StreamEnd, EndAs, Goto, Quiet, LedgerTypeOK, TurnStages, Ends, dbVars, turnVars, relayVars
  <2>14. CASE ReadFails(t)
    BY <1>0, <2>14 DEF ReadFails, EndAs, Goto, Quiet, LedgerTypeOK, TurnStages, Ends, dbVars, turnVars, relayVars
  <2>15. CASE Settle(t)
    <3>1. CASE SettleRow(t)
      BY <2>15, <3>1 DEF Settle, Goto, turnVars
    <3>2. CASE UNCHANGED dbVars
      BY <1>0, <2>15, <3>2 DEF Settle, Goto, AfterLedger, Quiet, LedgerTypeOK, TurnStages, Ends, dbVars, turnVars, relayVars
    <3> QED
      BY <2>15, <3>1, <3>2 DEF Settle
  <2>16. CASE RecordCapped(t)
    BY <1>0, <2>16 DEF RecordCapped, Goto, AfterLedger, Quiet, LedgerTypeOK, TurnStages, Ends, dbVars, turnVars, relayVars
  <2>17. CASE LearnAccountAge(t)
    BY <1>0, <2>17 DEF LearnAccountAge, Goto, Quiet, LedgerTypeOK, TurnStages, Ends, dbVars, turnVars, relayVars
  <2>18. CASE Kill(t)
    BY <1>0, <2>18 DEF Kill, Quiet, LedgerTypeOK, TurnStages, Ends, dbVars, turnVars, relayVars
  <2> QED
    BY <1>1, <2>1, <2>2, <2>3, <2>4, <2>5, <2>6, <2>7, <2>8, <2>9, <2>10, <2>11, <2>12, <2>13, <2>14, <2>15, <2>16, <2>17, <2>18
<1>2. CASE NewDay
  BY <1>0, <1>2 DEF NewDay, Quiet, LedgerTypeOK, TurnStages, Ends, dbVars, turnVars, relayVars
<1>3. CASE UNCHANGED ledgerVars
  BY <1>0, <1>3 DEF ledgerVars, Quiet, LedgerTypeOK, TurnStages, Ends, dbVars, turnVars, relayVars
<1> QED
  BY <1>1, <1>2, <1>3 DEF LedgerNext

\* No user's cap goes down
LEMMA CapRises ==
  ASSUME LedgerTypeOK, LedgerTypeOK', NEW u \in Users,
         dated[u] => dated'[u], today <= today'
  PROVE  /\ Cap(u) \in Nat /\ Cap(u)' \in Nat
         /\ Cap(u) <= Cap(u)' /\ Cap(u) <= EstablishedCap
<1>1. today \in Int /\ today' \in Int /\ OldOn[u] \in Int
  BY LedgerAssumption DEF LedgerTypeOK, Days
<1> QED
  BY <1>1, LedgerAssumption DEF Cap, Established

LEMMA CapStep ==
  ASSUME LedgerTypeOK, LedgerTypeOK', TurnStages, CapHeld, [LedgerNext]_ledgerVars
  PROVE  CapHeld'
<1> SUFFICES ASSUME NEW k \in Keys
             PROVE  spent'[k] + reserved'[k] <= Cap(k[1])' + over'[k]
  BY DEF CapHeld
<1>1. k[1] \in Users
  BY DEF Keys
<1>2. /\ spent[k] \in Nat /\ reserved[k] \in Nat /\ over[k] \in Nat
      /\ spent'[k] \in Nat /\ reserved'[k] \in Nat /\ over'[k] \in Nat
      /\ spent[k] + reserved[k] <= Cap(k[1]) + over[k]
      /\ today \in Int
  BY DEF LedgerTypeOK, CapHeld, Days
<1>3. CASE Quiet
  <2>1. Cap(k[1]) \in Nat /\ Cap(k[1])' \in Nat /\ Cap(k[1]) <= Cap(k[1])'
    BY <1>1, <1>3, CapRises DEF Quiet
  <2> QED
    BY <1>2, <1>3, <2>1 DEF Quiet
<1>4. ASSUME NEW t \in Turns, Admit(t), UNCHANGED <<today, key, amount, relayVars>>
      PROVE  spent'[k] + reserved'[k] <= Cap(k[1])' + over'[k]
  <2>1. dated' = dated /\ today' = today
    BY <1>4 DEF Admit
  <2>2. Cap(k[1]) \in Nat /\ Cap(k[1])' = Cap(k[1])
    BY <1>1, <1>2, <2>1, CapRises DEF Cap, Established
  <2> QED
    BY <1>2, <1>4, <2>2, AdmitEffect DEF LedgerTypeOK
<1>5. ASSUME NEW t \in Turns, SettleRow(t), UNCHANGED <<today, key, amount, relayVars>>
      PROVE  spent'[k] + reserved'[k] <= Cap(k[1])' + over'[k]
  <2>0. end[t] = "completed" => usage[t] # NoReport
    BY DEF TurnStages
  <2>1. PICK charge \in Nat :
         /\ reserved' = [reserved EXCEPT ![key[t]] = @ - charged[t]]
         /\ spent' = [spent EXCEPT ![key[t]] = @ + charge]
         /\ over' = [over EXCEPT ![key[t]] =
                       @ + (IF charge > charged[t] THEN charge - charged[t] ELSE 0)]
         /\ UNCHANGED dated
    BY <1>5, <2>0, SettleEffect
  <2>2. Cap(k[1]) \in Nat /\ Cap(k[1])' = Cap(k[1])
    BY <1>1, <1>2, <1>5, <2>1, CapRises DEF Cap, Established
  <2>3. charged[t] \in Nat /\ spent \in [Keys -> Nat] /\ reserved \in [Keys -> Nat] /\ over \in [Keys -> Nat]
    BY DEF LedgerTypeOK
  <2> QED
    BY <1>2, <2>1, <2>2, <2>3
<1> QED
  BY <1>3, <1>4, <1>5, StepKinds

LEMMA HangUpStep ==
  ASSUME LedgerTypeOK, TurnStages, HangUpNotFree, [LedgerNext]_ledgerVars
  PROVE  HangUpNotFree'
<1>1. CASE Quiet
  BY <1>1 DEF Quiet, HangUpNotFree, Ends
<1>2. ASSUME NEW t \in Turns, Admit(t), UNCHANGED <<today, key, amount, relayVars>>
      PROVE  HangUpNotFree'
  BY <1>2, AdmitEffect DEF HangUpNotFree, LedgerTypeOK, relayVars, Ends
<1>3. ASSUME NEW t \in Turns, place[t] = "settling", SettleRow(t),
             UNCHANGED <<today, key, amount, relayVars>>
      PROVE  HangUpNotFree'
  <2>0. end[t] = "completed" => usage[t] # NoReport
    BY DEF TurnStages
  <2>1. charged' = [charged EXCEPT ![t] = ChargeFor(t)] /\ outcome' = [outcome EXCEPT ![t] = end[t]]
    BY <1>3, <2>0, SettleEffect
  <2>2. taken[t] /\ ~here[t] => ChargeFor(t) = amount[t]
    BY <1>3 DEF TurnStages, ChargeFor
  <2> QED
    BY <1>3, <2>1, <2>2 DEF HangUpNotFree, LedgerTypeOK, relayVars
<1> QED
  BY <1>1, <1>2, <1>3, StepKinds

-----------------------------------------------------------------------------
(***************************************************************************)
(* Sums over finite sets.  MapThenSumSet adds in the order of CHOOSE; what *)
(* follows is that the order does not matter.  An induction is a least     *)
(* counterexample.                                                         *)
(***************************************************************************)
LEMMA LeastOf ==
  ASSUME NEW S \in SUBSET Nat, S # {}
  PROVE  \E n \in S : \A k \in S : n <= k
<1>1. \A y, z \in Nat : y < z => <<y, z>> \in OpToRel(<, Nat)
  BY Zenon DEF OpToRel
<1>2. \E R : IsWellFoundedOn(R, Nat) /\ \A y, z \in Nat : y < z => <<y, z>> \in R
  BY <1>1, NatLessThanWellFounded, Zenon
<1>3. PICK R : IsWellFoundedOn(R, Nat) /\ \A y, z \in Nat : y < z => <<y, z>> \in R
  BY ONLY <1>2
<1>4. PICK x \in S : \A y \in S : ~(<<y, x>> \in R)
  <2>1. S \subseteq Nat
    OBVIOUS
  <2>2. IsWellFoundedOn(R, Nat)
    BY <1>3
  <2> QED BY ONLY <2>1, <2>2, S # {}, WFMin, Zenon
<1>5. ASSUME NEW y \in S PROVE x <= y
  <2>1. x \in Nat /\ y \in Nat /\ ~(y < x)
    BY <1>3, <1>4
  <2> QED BY <2>1
<1> QED BY <1>5

Pick(s) == CHOOSE x \in s : TRUE

\* f adds up h over every set of the collection sets
Adds(f, h, sets) ==
  \A s \in sets : f[s] = IF s = {} THEN 0 ELSE h[Pick(s)] + f[s \ {Pick(s)}]

IsSum(f, h, S) ==
  f = [s \in SUBSET S |-> IF s = {} THEN 0 ELSE h[Pick(s)] + f[s \ {Pick(s)}]]

SumFun(h, S) == CHOOSE f : IsSum(f, h, S)

LEMMA PickIs ==
  ASSUME NEW s, s # {}
  PROVE  Pick(s) \in s
BY DEF Pick

LEMMA SmallerIs ==
  ASSUME NEW S, IsFiniteSet(S), NEW s \in SUBSET S, NEW x \in s
  PROVE  /\ IsFiniteSet(s) /\ Cardinality(s) \in Nat /\ Cardinality(s \ {x}) \in Nat
         /\ Cardinality(s \ {x}) = Cardinality(s) - 1
BY FS_Subset, FS_RemoveElement, FS_CardinalityType

LEMMA SumExists ==
  ASSUME NEW S, IsFiniteSet(S), NEW h
  PROVE  \E f : IsSum(f, h, S)
<1> DEFINE D(n) == {s \in SUBSET S : Cardinality(s) <= n}
           C(n) == \E f : DOMAIN f = D(n) /\ Adds(f, h, D(n))
           bad == {n \in Nat : ~C(n)}
<1>0. \A s \in SUBSET S : IsFiniteSet(s) /\ Cardinality(s) \in Nat
  BY FS_Subset, FS_CardinalityType
<1>1. C(0)
  <2> DEFINE f == [s \in D(0) |-> 0]
  <2>1. \A s \in D(0) : s = {}
    BY <1>0, FS_EmptySet
  <2>2. DOMAIN f = D(0) /\ Adds(f, h, D(0))
    BY <2>1 DEF Adds
  <2> QED BY <2>2
<1>2. ASSUME NEW n \in Nat, C(n) PROVE C(n + 1)
  <2>1. PICK f : DOMAIN f = D(n) /\ Adds(f, h, D(n))
    BY <1>2
  <2> DEFINE g == [s \in D(n + 1) |-> IF s = {} THEN 0 ELSE h[Pick(s)] + f[s \ {Pick(s)}]]
  <2>2. D(n) \subseteq D(n + 1)
    BY <1>0
  <2>3. \A s \in D(n) : g[s] = f[s]
    BY <2>1, <2>2 DEF Adds
  <2>4. ASSUME NEW s \in D(n + 1), s # {} PROVE s \ {Pick(s)} \in D(n)
    <3>1. Pick(s) \in s
      BY <2>4, PickIs
    <3>2. Cardinality(s \ {Pick(s)}) = Cardinality(s) - 1 /\ Cardinality(s) \in Nat
      BY <3>1, SmallerIs
    <3> QED BY <3>2
  <2>5. Adds(g, h, D(n + 1))
    BY <2>3, <2>4 DEF Adds
  <2> QED BY <2>5
<1>3. \A n \in Nat : C(n)
  <2> SUFFICES ASSUME bad # {} PROVE FALSE
    OBVIOUS
  <2> HIDE DEF C
  <2>1. PICK n \in bad : \A k \in bad : n <= k
    BY LeastOf
  <2>2. n # 0 /\ n - 1 \in Nat
    BY <1>1
  <2>3. C(n - 1)
    BY <2>1, <2>2
  <2>4. C(n - 1 + 1)
    BY <1>2, <2>2, <2>3
  <2> QED BY <2>1, <2>2, <2>4
<1>4. D(Cardinality(S)) = SUBSET S
  BY <1>0, FS_Subset
<1>5. PICK f : DOMAIN f = SUBSET S /\ Adds(f, h, SUBSET S)
  <2>1. C(Cardinality(S))
    BY <1>3, FS_CardinalityType
  <2> QED BY <1>4, <2>1
<1> DEFINE g == [s \in SUBSET S |-> f[s]]
<1>6. IsSum(g, h, S)
  BY <1>5, PickIs DEF Adds, IsSum
<1> QED BY <1>6

LEMMA SumIs ==
  ASSUME NEW S, IsFiniteSet(S), NEW h
  PROVE  LET f == SumFun(h, S) IN
         /\ f[{}] = 0
         /\ \A s \in SUBSET S : s # {} => /\ Pick(s) \in s
                                          /\ f[s] = h[Pick(s)] + f[s \ {Pick(s)}]
<1> DEFINE f == SumFun(h, S)
<1>1. IsSum(f, h, S)
  BY SumExists DEF SumFun
<1> HIDE DEF f
<1>2. f[{}] = 0 /\ \A s \in SUBSET S : s # {} => f[s] = h[Pick(s)] + f[s \ {Pick(s)}]
  BY <1>1 DEF IsSum
<1> QED BY <1>2, PickIs DEF f

\* A collection of subsets of S is all of them when it has the empty one, and each
\* that it has without one element
LEMMA BySize ==
  ASSUME NEW S, IsFiniteSet(S), NEW G,
         \A s \in SUBSET S : (\A r \in SUBSET S : Cardinality(r) < Cardinality(s) => r \in G) => s \in G
  PROVE  \A s \in SUBSET S : s \in G
<1> DEFINE bad == {s \in SUBSET S : s \notin G}
           sizes == {Cardinality(s) : s \in bad}
<1> SUFFICES ASSUME bad # {} PROVE FALSE
  OBVIOUS
<1>1. sizes \in SUBSET Nat /\ sizes # {}
  BY FS_Subset, FS_CardinalityType
<1>2. PICK n \in sizes : \A k \in sizes : n <= k
  BY <1>1, LeastOf
<1>3. PICK s \in bad : n = Cardinality(s)
  OBVIOUS
<1>4. ASSUME NEW r \in SUBSET S, Cardinality(r) < Cardinality(s) PROVE r \in G
  <2>1. Cardinality(r) \in Nat /\ Cardinality(s) \in Nat
    BY FS_Subset, FS_CardinalityType
  <2>2. Cardinality(r) \notin sizes
    BY <1>2, <1>3, <1>4, <2>1
  <2> QED BY <2>2
<1> QED BY <1>3, <1>4

LEMMA SumNat ==
  ASSUME NEW S, IsFiniteSet(S), NEW h, \A x \in S : h[x] \in Nat
  PROVE  \A s \in SUBSET S : SumFun(h, S)[s] \in Nat
<1> DEFINE f == SumFun(h, S)
           G == {s \in SUBSET S : f[s] \in Nat}
<1>1. /\ f[{}] = 0
      /\ \A s \in SUBSET S : s # {} => Pick(s) \in s /\ f[s] = h[Pick(s)] + f[s \ {Pick(s)}]
  BY SumIs
<1> HIDE DEF f
<1>2. ASSUME NEW s \in SUBSET S, \A r \in SUBSET S : Cardinality(r) < Cardinality(s) => r \in G
      PROVE  s \in G
  <2>1. CASE s = {}
    BY <1>1, <2>1
  <2>2. CASE s # {}
    <3>1. Pick(s) \in s /\ f[s] = h[Pick(s)] + f[s \ {Pick(s)}]
      BY <1>1, <2>2
    <3>2. Cardinality(s \ {Pick(s)}) < Cardinality(s)
      BY <3>1, SmallerIs
    <3>3. f[s \ {Pick(s)}] \in Nat
      BY <1>2, <3>2
    <3> QED BY <3>1, <3>3
  <2> QED BY <2>1, <2>2
<1>3. \A s \in SUBSET S : s \in G
  <2> HIDE DEF G
  <2> QED BY <1>2, BySize
<1> QED BY <1>3 DEF f

\* The sum depends on what h is on the set, and on nothing else
LEMMA SumAgrees ==
  ASSUME NEW S, IsFiniteSet(S), NEW Q \in SUBSET S, NEW h, NEW k, \A x \in Q : h[x] = k[x]
  PROVE  SumFun(h, S)[Q] = SumFun(k, Q)[Q]
<1> DEFINE f == SumFun(h, S)
           g == SumFun(k, Q)
           G == {s \in SUBSET Q : f[s] = g[s]}
<1>0. IsFiniteSet(Q)
  BY FS_Subset
<1>1. /\ f[{}] = 0
      /\ \A s \in SUBSET S : s # {} => Pick(s) \in s /\ f[s] = h[Pick(s)] + f[s \ {Pick(s)}]
  BY SumIs
<1>2. /\ g[{}] = 0
      /\ \A s \in SUBSET Q : s # {} => Pick(s) \in s /\ g[s] = k[Pick(s)] + g[s \ {Pick(s)}]
  BY <1>0, SumIs
<1> HIDE DEF f, g
<1>3. ASSUME NEW s \in SUBSET Q, \A r \in SUBSET Q : Cardinality(r) < Cardinality(s) => r \in G
      PROVE  s \in G
  <2>1. CASE s = {}
    BY <1>1, <1>2, <2>1
  <2>2. CASE s # {}
    <3>1. /\ Pick(s) \in s /\ f[s] = h[Pick(s)] + f[s \ {Pick(s)}]
          /\ g[s] = k[Pick(s)] + g[s \ {Pick(s)}]
      BY <1>1, <1>2, <2>2
    <3>2. Cardinality(s \ {Pick(s)}) < Cardinality(s)
      BY <1>0, <3>1, SmallerIs
    <3>3. f[s \ {Pick(s)}] = g[s \ {Pick(s)}]
      BY <1>3, <3>2
    <3> QED BY <3>1, <3>3
  <2> QED BY <2>1, <2>2
<1>4. \A s \in SUBSET Q : s \in G
  <2> HIDE DEF G
  <2> QED BY <1>0, <1>3, BySize
<1> QED BY <1>4 DEF f, g

\* ... and not on the order
LEMMA SumAnyOrder ==
  ASSUME NEW S, IsFiniteSet(S), NEW h, \A x \in S : h[x] \in Nat
  PROVE  \A s \in SUBSET S : \A x \in s :
           SumFun(h, S)[s] = h[x] + SumFun(h, S)[s \ {x}]
<1> DEFINE f == SumFun(h, S)
           G == {s \in SUBSET S : \A x \in s : f[s] = h[x] + f[s \ {x}]}
<1>1. /\ f[{}] = 0
      /\ \A s \in SUBSET S : s # {} => Pick(s) \in s /\ f[s] = h[Pick(s)] + f[s \ {Pick(s)}]
  BY SumIs
<1>2. \A s \in SUBSET S : f[s] \in Nat
  BY SumNat
<1> HIDE DEF f
<1>3. ASSUME NEW s \in SUBSET S, \A r \in SUBSET S : Cardinality(r) < Cardinality(s) => r \in G
      PROVE  s \in G
  <2> SUFFICES ASSUME NEW x \in s PROVE f[s] = h[x] + f[s \ {x}]
    OBVIOUS
  <2> DEFINE p == Pick(s)
  <2>1. p \in s /\ f[s] = h[p] + f[s \ {p}]
    BY <1>1
  <2> HIDE DEF p
  <2>2. CASE p = x
    BY <2>1, <2>2
  <2>3. CASE p # x
    <3>1. Cardinality(s \ {p}) < Cardinality(s) /\ Cardinality(s \ {x}) < Cardinality(s)
      BY <2>1, SmallerIs
    <3>2. s \ {p} \in G /\ s \ {x} \in G
      BY <1>3, <3>1
    <3>3. /\ f[s \ {p}] = h[x] + f[(s \ {p}) \ {x}]
          /\ f[s \ {x}] = h[p] + f[(s \ {x}) \ {p}]
      BY <2>1, <2>3, <3>2
    <3>4. (s \ {p}) \ {x} = (s \ {x}) \ {p} /\ (s \ {p}) \ {x} \in SUBSET S
      OBVIOUS
    <3>5. h[x] \in Nat /\ h[p] \in Nat /\ f[(s \ {x}) \ {p}] \in Nat
      BY <1>2, <2>1, <3>4
    <3> DEFINE rest == f[(s \ {x}) \ {p}]
    <3>6. /\ rest \in Nat /\ f[s] = h[p] + f[s \ {p}]
          /\ f[s \ {p}] = h[x] + rest /\ f[s \ {x}] = h[p] + rest
      BY <2>1, <3>3, <3>4, <3>5
    <3> HIDE DEF rest
    <3> QED BY <3>5, <3>6
  <2> QED BY <2>2, <2>3
<1>4. \A s \in SUBSET S : s \in G
  <2> HIDE DEF G
  <2> QED BY <1>3, BySize
<1> QED BY <1>4 DEF f

LEMMA TotalIs ==
  ASSUME NEW h, NEW S
  PROVE  Total(h, S) = SumFun(h, S)[S]
BY DEF Total, MapThenSumSet, MapThenFoldSet, SumFun, IsSum, Pick

LEMMA TotalSame ==
  ASSUME NEW S, IsFiniteSet(S), NEW h, NEW k, \A x \in S : h[x] = k[x]
  PROVE  Total(h, S) = Total(k, S)
<1>1. S \in SUBSET S
  OBVIOUS
<1> QED BY <1>1, SumAgrees, TotalIs

LEMMA TotalSplits ==
  ASSUME NEW S, IsFiniteSet(S), NEW h, \A y \in S : h[y] \in Nat, NEW x \in S
  PROVE  /\ Total(h, S) \in Nat /\ Total(h, S \ {x}) \in Nat
         /\ Total(h, S) = h[x] + Total(h, S \ {x})
<1>1. S \in SUBSET S /\ S \ {x} \in SUBSET S
  OBVIOUS
<1>2. SumFun(h, S)[S] \in Nat /\ SumFun(h, S)[S \ {x}] \in Nat
  BY <1>1, SumNat
<1>3. SumFun(h, S)[S] = h[x] + SumFun(h, S)[S \ {x}]
  BY <1>1, SumAnyOrder
<1>4. SumFun(h, S)[S \ {x}] = SumFun(h, S \ {x})[S \ {x}]
  BY <1>1, SumAgrees
<1> QED BY <1>2, <1>3, <1>4, TotalIs

LEMMA TotalEmpty == \A h : Total(h, {}) = 0
BY FS_EmptySet, SumIs, TotalIs


\* A turn joins the rows that are added up ...
LEMMA TotalJoins ==
  ASSUME NEW S, IsFiniteSet(S), NEW x, x \notin S, NEW h, NEW k,
         \A y \in S : k[y] = h[y], \A y \in S : h[y] \in Nat, k[x] \in Nat
  PROVE  Total(k, S \cup {x}) = Total(h, S) + k[x]
<1> DEFINE T == S \cup {x}
<1>1. IsFiniteSet(T)
  BY FS_AddElement
<1>2. x \in T /\ T \ {x} = S /\ \A y \in T : k[y] \in Nat
  OBVIOUS
<1> HIDE DEF T
<1>3. Total(k, T \ {x}) \in Nat /\ Total(k, T) = k[x] + Total(k, T \ {x})
  BY <1>1, <1>2, TotalSplits
<1>4. Total(k, S) = Total(h, S)
  BY TotalSame
<1> QED BY <1>2, <1>3, <1>4 DEF T

\* ... or leaves them
LEMMA TotalLeaves ==
  ASSUME NEW S, IsFiniteSet(S), NEW x \in S, NEW h, NEW k,
         \A y \in S \ {x} : k[y] = h[y], \A y \in S : h[y] \in Nat
  PROVE  Total(k, S \ {x}) = Total(h, S) - h[x]
<1>1. IsFiniteSet(S \ {x})
  BY FS_Subset
<1>2. Total(k, S \ {x}) = Total(h, S \ {x})
  BY <1>1, TotalSame
<1>3. /\ Total(h, S) \in Nat /\ Total(h, S \ {x}) \in Nat
      /\ Total(h, S) = h[x] + Total(h, S \ {x})
  BY TotalSplits
<1> QED BY <1>2, <1>3

\* The rows of a day are finitely many, and each holds an amount
LEMMA RowsFinite ==
  ASSUME LedgerTypeOK, NEW k, NEW outcomes
  PROVE  IsFiniteSet(Rows(k, outcomes)) /\ \A t \in Rows(k, outcomes) : charged[t] \in Nat
<1>1. Rows(k, outcomes) \subseteq Turns
  BY DEF Rows
<1>2. IsFiniteSet(Rows(k, outcomes))
  BY <1>1, FS_Subset, LedgerAssumption
<1> QED BY <1>1, <1>2 DEF LedgerTypeOK

\* reserve and settle move one row and one day by the same amount; a quiet step
\* moves no row
LEMMA AgreesStep ==
  ASSUME LedgerTypeOK, LedgerTypeOK', TurnStages, LedgerAgrees, [LedgerNext]_ledgerVars
  PROVE  LedgerAgrees'
<1> SUFFICES ASSUME NEW k \in Keys
             PROVE  /\ reserved'[k] = Total(charged', Rows(k, {"started"})')
                    /\ spent'[k] = Total(charged', Rows(k, Ends)')
  BY DEF LedgerAgrees
<1> DEFINE started == Rows(k, {"started"})
           ended == Rows(k, Ends)
<1>1. /\ reserved[k] = Total(charged, started) /\ spent[k] = Total(charged, ended)
      /\ reserved[k] \in Nat /\ spent[k] \in Nat
  BY DEF LedgerAgrees, LedgerTypeOK
<1>2. /\ IsFiniteSet(started) /\ \A t \in started : charged[t] \in Nat
      /\ IsFiniteSet(ended) /\ \A t \in ended : charged[t] \in Nat
  BY RowsFinite
<1>3. \A t : /\ t \in started <=> t \in Turns /\ key[t] = k /\ outcome[t] = "started"
             /\ t \in ended <=> t \in Turns /\ key[t] = k /\ outcome[t] \in Ends
  BY DEF Rows
<1>4. \A t : /\ t \in started' <=> t \in Turns /\ key'[t] = k /\ outcome'[t] = "started"
             /\ t \in ended' <=> t \in Turns /\ key'[t] = k /\ outcome'[t] \in Ends
  BY DEF Rows
<1> HIDE DEF started, ended
<1>5. ASSUME Quiet
      PROVE  /\ reserved'[k] = Total(charged', started')
             /\ spent'[k] = Total(charged', ended')
  <2>1. /\ outcome' = outcome /\ charged' = charged
        /\ reserved' = reserved /\ spent' = spent
        /\ \A t \in Turns : outcome[t] # "none" => key'[t] = key[t]
        /\ "none" \notin Ends
    BY <1>5 DEF Quiet, Ends
  <2>2. started' = started /\ ended' = ended
    <3>1. \A t \in Turns : outcome[t] = "none" => outcome[t] # "started" /\ outcome[t] \notin Ends
      BY <2>1
    <3>2. \A t : (t \in started' <=> t \in started) /\ (t \in ended' <=> t \in ended)
      BY <1>3, <1>4, <2>1, <3>1
    <3> QED BY <3>2
  <2> QED BY <1>1, <2>1, <2>2
<1>6. ASSUME NEW t \in Turns, place[t] = "reserving", Admit(t),
             UNCHANGED <<today, key, amount, relayVars>>
      PROVE  /\ reserved'[k] = Total(charged', started')
             /\ spent'[k] = Total(charged', ended')
  <2>1. /\ key[t] \in Keys /\ amount[t] \in Nat /\ outcome[t] = "none"
        /\ reserved' = [reserved EXCEPT ![key[t]] = @ + amount[t]]
        /\ outcome' = [outcome EXCEPT ![t] = "started"]
        /\ charged' = [charged EXCEPT ![t] = amount[t]]
        /\ spent' = spent /\ key' = key
    BY <1>6, AdmitEffect DEF TurnStages
  <2>2. /\ \A s \in Turns \ {t} : outcome'[s] = outcome[s] /\ charged'[s] = charged[s]
        /\ outcome'[t] = "started" /\ charged'[t] = amount[t]
        /\ t \notin started /\ t \notin ended
        /\ "started" \notin Ends /\ "none" \notin Ends
    BY <1>3, <2>1 DEF LedgerTypeOK, Ends
  <2>3. /\ \A s \in started : charged'[s] = charged[s]
        /\ \A s \in ended : charged'[s] = charged[s]
    BY <1>3, <2>2
  <2>4. ended' = ended
    BY <1>3, <1>4, <2>1, <2>2
  <2>5. Total(charged', ended) = Total(charged, ended)
    BY <1>2, <2>3, TotalSame
  <2>6. CASE key[t] = k
    <3>1. started' = started \cup {t}
      BY <1>3, <1>4, <2>1, <2>2, <2>6
    <3>2. Total(charged', started \cup {t}) = Total(charged, started) + charged'[t]
      <4>1. /\ IsFiniteSet(started) /\ t \notin started /\ charged'[t] \in Nat
            /\ \A y \in started : charged'[y] = charged[y]
            /\ \A y \in started : charged[y] \in Nat
        BY <1>2, <2>1, <2>2, <2>3
      <4> QED BY ONLY <4>1, TotalJoins
    <3>3. reserved'[k] = reserved[k] + amount[t]
      BY <2>1, <2>6 DEF LedgerTypeOK
    <3> QED BY <1>1, <2>1, <2>2, <2>4, <2>5, <3>1, <3>2, <3>3
  <2>7. CASE key[t] # k
    <3>1. started' = started
      BY <1>3, <1>4, <2>1, <2>2, <2>7
    <3>2. Total(charged', started) = Total(charged, started)
      BY <1>2, <2>3, TotalSame
    <3>3. reserved'[k] = reserved[k]
      BY <2>1, <2>7 DEF LedgerTypeOK
    <3> QED BY <1>1, <2>1, <2>4, <2>5, <3>1, <3>2, <3>3
  <2> QED BY <2>6, <2>7
<1>7. ASSUME NEW t \in Turns, place[t] = "settling", SettleRow(t),
             UNCHANGED <<today, key, amount, relayVars>>
      PROVE  /\ reserved'[k] = Total(charged', started')
             /\ spent'[k] = Total(charged', ended')
  <2>0. end[t] = "completed" => usage[t] # NoReport
    BY DEF TurnStages
  <2>1. PICK charge \in Nat :
         /\ key[t] \in Keys /\ outcome[t] = "started"
         /\ reserved' = [reserved EXCEPT ![key[t]] = @ - charged[t]]
         /\ spent' = [spent EXCEPT ![key[t]] = @ + charge]
         /\ outcome' = [outcome EXCEPT ![t] = end[t]]
         /\ charged' = [charged EXCEPT ![t] = charge]
         /\ key' = key
    BY <1>7, <2>0, SettleEffect
  <2>2. /\ \A s \in Turns \ {t} : outcome'[s] = outcome[s] /\ charged'[s] = charged[s]
        /\ outcome'[t] \in Ends /\ charged'[t] = charge /\ t \notin ended
        /\ "started" \notin Ends
    BY <1>3, <2>1 DEF LedgerTypeOK, Ends
  <2>3. CASE key[t] = k
    <3>1. t \in started /\ started' = started \ {t} /\ ended' = ended \cup {t}
      BY <1>3, <1>4, <2>1, <2>2, <2>3
    <3>2. /\ \A s \in started \ {t} : charged'[s] = charged[s]
          /\ \A s \in ended : charged'[s] = charged[s]
      BY <1>3, <2>2
    <3>3. Total(charged', started \ {t}) = Total(charged, started) - charged[t]
      BY <1>2, <3>1, <3>2, TotalLeaves
    <3>4. Total(charged', ended \cup {t}) = Total(charged, ended) + charged'[t]
      <4>1. /\ IsFiniteSet(ended) /\ t \notin ended /\ charged'[t] \in Nat
            /\ \A y \in ended : charged'[y] = charged[y]
            /\ \A y \in ended : charged[y] \in Nat
        BY <1>2, <2>1, <2>2, <3>2
      <4> QED BY ONLY <4>1, TotalJoins
    <3>5. reserved'[k] = reserved[k] - charged[t] /\ spent'[k] = spent[k] + charge
      BY <2>1, <2>3 DEF LedgerTypeOK
    <3> QED BY <1>1, <2>2, <3>1, <3>3, <3>4, <3>5
  <2>4. CASE key[t] # k
    <3>1. started' = started /\ ended' = ended /\ t \notin started
      BY <1>3, <1>4, <2>1, <2>2, <2>4
    <3>2. /\ \A s \in started : charged'[s] = charged[s]
          /\ \A s \in ended : charged'[s] = charged[s]
      BY <1>3, <2>2, <3>1
    <3>3. /\ Total(charged', started) = Total(charged, started)
          /\ Total(charged', ended) = Total(charged, ended)
      BY <1>2, <3>2, TotalSame
    <3>4. reserved'[k] = reserved[k] /\ spent'[k] = spent[k]
      BY <2>1, <2>4 DEF LedgerTypeOK
    <3> QED BY <1>1, <3>1, <3>3, <3>4
  <2> QED BY <2>3, <2>4
<1>8. /\ reserved'[k] = Total(charged', started')
      /\ spent'[k] = Total(charged', ended')
  BY <1>5, <1>6, <1>7, StepKinds
<1> QED BY <1>8 DEF started, ended

\* A turn that settles has its row, so its reservation is part of the day's; and
\* what it is charged is an amount, since counts that are none are not priced
LEMMA StorableFrom ==
  ASSUME LedgerTypeOK, TurnStages, LedgerAgrees, NEW t \in Turns, outcome[t] = "started"
  PROVE  Storable(key[t], charged[t], ChargeFor(t))
<1> DEFINE k == key[t]
           rows == Rows(k, {"started"})
<1>1. k \in Keys /\ reserved[k] = Total(charged, rows) /\ spent[k] \in Nat
  BY DEF LedgerTypeOK, LedgerAgrees
<1>2. IsFiniteSet(rows) /\ \A s \in rows : charged[s] \in Nat
  BY RowsFinite
<1>3. t \in rows
  BY DEF Rows
<1> HIDE DEF rows
<1>4. /\ Total(charged, rows \ {t}) \in Nat
      /\ Total(charged, rows) = charged[t] + Total(charged, rows \ {t})
  BY <1>2, <1>3, TotalSplits
<1>5. charged[t] <= reserved[k]
  BY <1>1, <1>2, <1>3, <1>4
<1>6. ChargeFor(t) \in Nat
  <2>1. CASE end[t] \in {"refused", "abandoned"}
    BY <2>1 DEF ChargeFor
  <2>2. CASE end[t] = "completed" /\ IsPriceable(usage[t])
    <3>1. usage[t] \in Reports
      BY <2>2 DEF LedgerTypeOK, TurnStages
    <3> DEFINE u == usage[t]
    <3>2. OrZero(u.prompt) \in Nat /\ OrZero(u.completion) \in Nat
      BY <2>2, LedgerAssumption DEF IsPriceable, IsTokenCount, OrZero
    <3>3. OrZero(u.prompt) * PriceIn \in Nat /\ OrZero(u.completion) * PriceOut \in Nat
      BY <3>2, ProductNat, LedgerAssumption
    <3>4. OrZero(u.prompt) * PriceIn + OrZero(u.completion) * PriceOut \in Nat
      BY <3>3
    <3>5. CostOf(u) \in Nat
      BY <3>4, CeilNat DEF CostOf
    <3> QED BY <2>2, <3>5 DEF ChargeFor
  <2>3. CASE /\ end[t] \notin {"refused", "abandoned"}
             /\ ~(end[t] = "completed" /\ IsPriceable(usage[t]))
    BY <2>3 DEF ChargeFor, LedgerTypeOK
  <2> QED BY <2>1, <2>2, <2>3
<1> QED BY <1>1, <1>5, <1>6 DEF Storable

-----------------------------------------------------------------------------
\* A quiet step leaves the allowance alone, an admitted turn opens its grant,
\* and a settled one closes it
LEMMA RefineStep ==
  ASSUME LedgerTypeOK, LedgerTypeOK', TurnStages, [LedgerNext]_ledgerVars
  PROVE  [A!Next]_<<AccountUse, TurnGrant>>
<1>1. CASE Quiet
  <2>1. AccountUse' = AccountUse
    BY <1>1 DEF Quiet, AccountUse
  <2>2. TurnGrant' = TurnGrant
    BY <1>1 DEF Quiet, TurnGrant
  <2> QED
    BY <2>1, <2>2
<1>2. ASSUME NEW t \in Turns, place[t] = "reserving", Admit(t),
             UNCHANGED <<today, key, amount, relayVars>>
      PROVE  A!Next
  <2> DEFINE k == key[t]
  <2>1. /\ k \in Keys /\ amount[t] \in Nat /\ outcome[t] = "none"
        /\ spent[k] + reserved[k] + amount[t] <= Cap(k[1])
        /\ reserved' = [reserved EXCEPT ![k] = @ + amount[t]]
        /\ outcome' = [outcome EXCEPT ![t] = "started"]
        /\ charged' = [charged EXCEPT ![t] = amount[t]]
        /\ spent' = spent /\ key' = key
    BY <1>2, AdmitEffect DEF TurnStages
  <2>2. TurnGrant[t] = A!NoGrant
    BY <2>1 DEF TurnGrant, A!NoGrant
  <2>3. AccountUse[k] + amount[t] <= EstablishedCap
    <3>1. Cap(k[1]) <= EstablishedCap /\ Cap(k[1]) \in Nat /\ EstablishedCap \in Nat
      BY LedgerAssumption DEF Cap
    <3> QED
      BY <2>1, <3>1 DEF AccountUse, LedgerTypeOK
  <2>4. AccountUse' = [AccountUse EXCEPT ![k] = @ + amount[t]]
    <3>1. ASSUME NEW a \in Keys
          PROVE  spent'[a] + reserved'[a] =
                   IF a = k THEN spent[a] + reserved[a] + amount[t] ELSE spent[a] + reserved[a]
      BY <2>1 DEF LedgerTypeOK
    <3>2. AccountUse' = [a \in Keys |->
                IF a = k THEN spent[a] + reserved[a] + amount[t] ELSE spent[a] + reserved[a]]
      BY <3>1 DEF AccountUse
    <3> HIDE DEF k
    <3> QED
      BY <3>2 DEF AccountUse
  <2>5. TurnGrant' = [TurnGrant EXCEPT ![t] =
                        [state |-> "open", account |-> k, amount |-> amount[t]]]
    BY <2>1 DEF TurnGrant, LedgerTypeOK
  <2>6. TurnGrant'[t].amount = amount[t]
    BY <2>5 DEF TurnGrant
  <2>7. A!Open(t, k, TurnGrant'[t].amount)
    BY <2>1, <2>2, <2>3, <2>4, <2>5, <2>6 DEF A!Open
  <2> QED
    BY <2>1, <2>7 DEF A!Next
<1>3. ASSUME NEW t \in Turns, place[t] = "settling", SettleRow(t),
             UNCHANGED <<today, key, amount, relayVars>>
      PROVE  A!Next
  <2> DEFINE k == key[t]
  <2>0. end[t] = "completed" => usage[t] # NoReport
    BY DEF TurnStages
  <2>1. PICK charge \in Nat :
         /\ k \in Keys /\ outcome[t] = "started"
         /\ reserved' = [reserved EXCEPT ![k] = @ - charged[t]]
         /\ spent' = [spent EXCEPT ![k] = @ + charge]
         /\ outcome' = [outcome EXCEPT ![t] = end[t]]
         /\ charged' = [charged EXCEPT ![t] = charge]
         /\ key' = key
    BY <1>3, <2>0, SettleEffect
  <2>2. end[t] \in Ends /\ charged[t] \in Nat
    BY DEF LedgerTypeOK
  <2>3. /\ TurnGrant[t].state = "open"
        /\ TurnGrant[t].account = k
        /\ TurnGrant[t].amount = charged[t]
    BY <2>1 DEF TurnGrant
  <2>4. AccountUse' = [AccountUse EXCEPT ![k] = @ - charged[t] + charge]
    <3>1. ASSUME NEW a \in Keys
          PROVE  spent'[a] + reserved'[a] =
                   IF a = k THEN (spent[a] + reserved[a]) - charged[t] + charge ELSE spent[a] + reserved[a]
      BY <2>1, <2>2 DEF LedgerTypeOK
    <3>2. AccountUse' = [a \in Keys |->
                IF a = k THEN (spent[a] + reserved[a]) - charged[t] + charge ELSE spent[a] + reserved[a]]
      BY <3>1 DEF AccountUse
    <3> HIDE DEF k
    <3> QED
      BY <3>2 DEF AccountUse
  <2>5. TurnGrant' = [TurnGrant EXCEPT ![t] =
                        [state |-> "closed", account |-> k, amount |-> charge]]
    BY <2>1, <2>2 DEF TurnGrant, LedgerTypeOK, Ends
  <2>6. TurnGrant'[t].amount = charge
    BY <2>5 DEF TurnGrant
  <2>7. A!Close(t, TurnGrant'[t].amount)
    BY <2>1, <2>3, <2>4, <2>5, <2>6 DEF A!Close
  <2> QED
    BY <2>7 DEF A!Next
<1> QED
  BY <1>1, <1>2, <1>3, StepKinds

-----------------------------------------------------------------------------
LEMMA InvInit == LedgerInit => LedgerInv
<1> SUFFICES ASSUME LedgerInit PROVE LedgerInv
  OBVIOUS
<1>1. LedgerTypeOK
  BY LedgerAssumption DEF LedgerInit, LedgerTypeOK, Places, Ends, Keys, Days
<1>2. TurnStages
  BY DEF LedgerInit, TurnStages
<1>3. CapHeld
  BY <1>1, LedgerAssumption DEF LedgerInit, CapHeld, Cap, Keys
<1>4. HangUpNotFree
  BY DEF LedgerInit, HangUpNotFree, Ends
<1>5. LedgerAgrees
  <2> SUFFICES ASSUME NEW k \in Keys
               PROVE  /\ reserved[k] = Total(charged, Rows(k, {"started"}))
                      /\ spent[k] = Total(charged, Rows(k, Ends))
    BY DEF LedgerAgrees
  <2>1. Rows(k, {"started"}) = {} /\ Rows(k, Ends) = {}
    BY DEF LedgerInit, Rows, Ends
  <2> QED
    BY <2>1, TotalEmpty DEF LedgerInit
<1> QED
  BY <1>1, <1>2, <1>3, <1>4, <1>5 DEF LedgerInv

LEMMA InvStep == LedgerInv /\ [LedgerNext]_ledgerVars => LedgerInv'
<1> SUFFICES ASSUME LedgerInv, [LedgerNext]_ledgerVars PROVE LedgerInv'
  OBVIOUS
<1>1. LedgerTypeOK'
  BY TypeStep DEF LedgerInv
<1>2. TurnStages'
  BY StageStep DEF LedgerInv
<1>3. CapHeld'
  BY <1>1, CapStep DEF LedgerInv
<1>4. HangUpNotFree'
  BY HangUpStep DEF LedgerInv
<1>5. LedgerAgrees'
  BY <1>1, AgreesStep DEF LedgerInv
<1> QED
  BY <1>1, <1>2, <1>3, <1>4, <1>5 DEF LedgerInv

LEMMA InvHolds == LedgerSpec => []LedgerInv
BY InvInit, InvStep, PTL DEF LedgerSpec

\* Types, for every step of the handler, the database and the platform
THEOREM LedgerTypes == LedgerSpec => []LedgerTypeOK
<1>1. LedgerInv => LedgerTypeOK
  BY DEF LedgerInv
<1> QED
  BY <1>1, InvHolds, PTL

\* However many turns run side by side and whenever they settle, a user's day
\* stays within the cap of their tier, but for charges above their reservation
THEOREM LedgerCapHeld == LedgerSpec => []CapHeld
<1>1. LedgerInv => CapHeld
  BY DEF LedgerInv
<1> QED
  BY <1>1, InvHolds, PTL

\* A caller who hangs up on a turn that the upstream accepted is charged no
\* less than its reservation
THEOREM LedgerHangUp == LedgerSpec => []HangUpNotFree
<1>1. LedgerInv => HangUpNotFree
  BY DEF LedgerInv
<1> QED
  BY <1>1, InvHolds, PTL

\* The two tables agree, for any number of turns: the day's `reserved` is the sum
\* of what its started turns hold, and its `spent` the sum of what its ended turns
\* were charged, through failed statements, killed functions and midnight
THEOREM LedgerTablesAgree == LedgerSpec => []LedgerAgrees
<1>1. LedgerInv => LedgerAgrees
  BY DEF LedgerInv
<1> QED
  BY <1>1, InvHolds, PTL

\* `settle` is never refused by agent_spend_amounts_check or by
\* agent_turn_charged_check, whatever the upstream reported as usage
THEOREM LedgerSettles == LedgerSpec => []SettleStorable
<1>1. LedgerInv => SettleStorable
  <2> SUFFICES ASSUME LedgerInv, NEW t \in Turns, place[t] = "settling"
               PROVE  Storable(key[t], charged[t], ChargeFor(t))
    BY DEF SettleStorable
  <2>1. outcome[t] = "started"
    BY DEF LedgerInv, TurnStages
  <2> QED
    BY <2>1, StorableFrom DEF LedgerInv
<1> QED
  BY <1>1, InvHolds, PTL

\* agent_spend and agent_turn implement the allowance: `reserve` grants under
\* the cap, `settle` closes a grant once on the day it came from, and nothing
\* else touches either
THEOREM LedgerRefines == LedgerSpec => LedgerImplements
<1>1. LedgerInit => A!Init
  <2> SUFFICES ASSUME LedgerInit PROVE A!Init
    OBVIOUS
  <2>1. AccountUse = [a \in Keys |-> 0]
    BY DEF LedgerInit, AccountUse
  <2>2. TurnGrant = [g \in Turns |-> A!NoGrant]
    BY DEF LedgerInit, TurnGrant, A!NoGrant
  <2> QED
    BY <2>1, <2>2 DEF A!Init
<1>2. LedgerInv /\ LedgerInv' /\ [LedgerNext]_ledgerVars => [A!Next]_<<AccountUse, TurnGrant>>
  BY RefineStep DEF LedgerInv
<1> QED
  BY <1>1, <1>2, InvHolds, PTL DEF LedgerSpec, LedgerImplements, A!Spec
=============================================================================
