---------------------------- MODULE AgentLedger -----------------------------
(***************************************************************************)
(* /api/agent (api/agent.mjs) and its ledger (features/agent/server):      *)
(* a turn of the assistant reserves its worst-case cost against the        *)
(* user's allowance of the UTC day, is relayed to the upstream model, and  *)
(* settles to what it cost once its response has ended.                    *)
(*                                                                         *)
(* Requests run side by side, callers hang up, the upstream fails, the     *)
(* database fails before or after it has committed, the platform kills a   *)
(* function at any point, and midnight passes in between.  Requests that   *)
(* are refused before `reserve` (method, origin, session, body) change     *)
(* nothing and are left out.  A day without a row in agent_spend is one    *)
(* with zeros: `reserve` admits the same turns either way.                 *)
(***************************************************************************)
EXTENDS Integers, FiniteSetsExt

CONSTANTS
  Turns,          \* POSTs
  Users,          \* signed-in users
  MaxDay,         \* the last day looked at
  OldOn,          \* OldOn[u]: the day from which u's GitHub account is old enough
  NewcomerCap,    \* PG_AI_NEWCOMER_DAILY_CAP and PG_AI_ESTABLISHED_DAILY_CAP,
  EstablishedCap, \* in micro-USD
  PriceIn,        \* hundredths of a micro-USD per token
  PriceOut,
  MaxOutput,      \* max_completion_tokens
  MaxBody,        \* PG_AI_MAX_BODY_BYTES
  BodySizes,      \* sizes of the requests tried
  MaxTokens,      \* what a Postgres integer holds
  Missing,        \* a count that the upstream left out
  Reports,        \* the usage that an upstream may report
  NoReport        \* an event without usage

Counts == Int \cup {Missing}

ASSUME LedgerAssumption ==
  /\ IsFiniteSet(Turns)
  /\ MaxDay \in Nat
  /\ OldOn \in [Users -> Nat]
  /\ NewcomerCap \in Nat /\ EstablishedCap \in Nat
  /\ NewcomerCap <= EstablishedCap
  /\ PriceIn \in Nat /\ PriceOut \in Nat
  /\ MaxOutput \in Nat /\ MaxBody \in Nat /\ MaxTokens \in Nat
  /\ BodySizes \subseteq Nat
  /\ Missing \notin Int
  /\ Reports \subseteq [prompt : Counts, completion : Counts]
  /\ NoReport \notin Reports

Days == 0 .. MaxDay
Keys == Users \X Days

VARIABLES
  today,    \* the UTC day
  dated,    \* dated[u]: "user"."githubCreatedAt" is stored
  spent,    \* agent_spend, by user and day
  reserved,
  capped,
  outcome,  \* agent_turn, by the request that wrote the row: none, started,
  charged,  \*   or how it ended; and what it weighs on the day key[t]
  place,    \* where the request is in the handler
  key,      \* key[t]: the user and the day that the turn is for
  amount,   \* amount[t]: worstCaseCost of its body
  knew,     \* knew[t]: gate.dated
  here,     \* here[t]: the caller is still connected
  taken,    \* taken[t]: the upstream has accepted the request (external)
  usage,    \* usage[t]: the last usage its stream reported
  end,      \* end[t]: the handler's `end`
  over      \* history: by how much charges have passed their reservations

dbVars == <<dated, spent, reserved, capped, outcome, charged, over>>
turnVars == <<key, amount, knew>>
relayVars == <<here, taken, usage, end>>
ledgerVars == <<today, dbVars, place, turnVars, relayVars>>

Ends == {"refused", "abandoned", "completed", "unfinished"}
Places == {"idle", "reserving", "admitted", "fetching", "streaming", "draining",
           "settling", "capped", "aging", "done", "killed"}

-----------------------------------------------------------------------------
\* Costs, in micro-USD

CeilHundredths(n) == (n + 99) \div 100

\* bounds.mjs: four bytes are taken for a token
WorstCaseCost(bytes) ==
  CeilHundredths(((bytes + 3) \div 4) * PriceIn + MaxOutput * PriceOut)

\* tokenCount: a fractional count or one that is no number is a member of Int
\* outside the range
IsTokenCount(c) == c \in 0 .. MaxTokens

IsPriceable(u) ==
  \A c \in {u.prompt, u.completion} : c = Missing \/ IsTokenCount(c)

OrZero(c) == IF c = Missing THEN 0 ELSE c

CostOf(u) == CeilHundredths(OrZero(u.prompt) * PriceIn + OrZero(u.completion) * PriceOut)

\* Mutant of ChargeFor: usage is priced without looking at it
ChargeForAnyCount(t) ==
  CASE end[t] \in {"refused", "abandoned"} -> 0
    [] end[t] = "completed" -> CostOf(usage[t])
    [] OTHER -> amount[t]

ChargeFor(t) ==
  CASE end[t] \in {"refused", "abandoned"} -> 0
    [] end[t] = "completed" /\ IsPriceable(usage[t]) -> CostOf(usage[t])
    [] OTHER -> amount[t]

\* The tier of the caller, as `reserve` finds it
Established(u) == dated[u] /\ OldOn[u] <= today
Cap(u) == IF Established(u) THEN EstablishedCap ELSE NewcomerCap

-----------------------------------------------------------------------------
LedgerInit ==
  /\ today = 0
  /\ dated \in [Users -> BOOLEAN]
  /\ spent = [k \in Keys |-> 0]
  /\ reserved = [k \in Keys |-> 0]
  /\ capped = [k \in Keys |-> 0]
  /\ outcome = [t \in Turns |-> "none"]
  /\ charged = [t \in Turns |-> 0]
  /\ place = [t \in Turns |-> "idle"]
  /\ key \in [Turns -> Users \X {0}]
  /\ amount = [t \in Turns |-> 0]
  /\ knew = [t \in Turns |-> FALSE]
  /\ here = [t \in Turns |-> TRUE]
  /\ taken = [t \in Turns |-> FALSE]
  /\ usage = [t \in Turns |-> NoReport]
  /\ end = [t \in Turns |-> "unfinished"]
  /\ over = [k \in Keys |-> 0]

Goto(t, from, to) == place[t] = from /\ place' = [place EXCEPT ![t] = to]

\* readBoundedBody: a larger body is answered 413
BodyFits(bytes) == bytes <= MaxBody

\* Mutant of Take: the day is the one the allowance resets on
TakeTomorrow(t, bytes) ==
  /\ Goto(t, "idle", "reserving")
  /\ BodyFits(bytes)
  /\ key' = [key EXCEPT ![t] = <<@[1], today + 1>>]
  /\ amount' = [amount EXCEPT ![t] = WorstCaseCost(bytes)]
  /\ UNCHANGED <<today, dbVars, knew, relayVars>>

\* The handler has read the body and fixes the turn's day
Take(t, bytes) ==
  /\ Goto(t, "idle", "reserving")
  /\ BodyFits(bytes)
  /\ key' = [key EXCEPT ![t] = <<@[1], today>>]
  /\ amount' = [amount EXCEPT ![t] = WorstCaseCost(bytes)]
  /\ UNCHANGED <<today, dbVars, knew, relayVars>>

\* Mutant of Fits: a turn in flight does not count
FitsSpent(t) == spent[key[t]] + amount[t] <= Cap(key[t][1])

Fits(t) == spent[key[t]] + reserved[key[t]] + amount[t] <= Cap(key[t][1])

\* What the one statement of `reserve` writes when it admits the turn.  The
\* lock that `on conflict` takes makes it atomic
Admit(t) ==
  /\ Fits(t)
  /\ reserved' = [reserved EXCEPT ![key[t]] = @ + amount[t]]
  /\ outcome' = [outcome EXCEPT ![t] = "started"]
  /\ charged' = [charged EXCEPT ![t] = amount[t]]
  /\ UNCHANGED <<dated, spent, capped, over>>

Reserve(t) ==
  /\ \/ Goto(t, "reserving", "admitted") /\ Admit(t)
     \/ Goto(t, "reserving", "capped") /\ ~Fits(t) /\ UNCHANGED dbVars
  /\ knew' = [knew EXCEPT ![t] = dated[key[t][1]]]
  /\ UNCHANGED <<today, key, amount, relayVars>>

\* 503: the database failed, and may have committed first
ReserveFails(t) ==
  /\ Goto(t, "reserving", "done")
  /\ Admit(t) \/ UNCHANGED dbVars
  /\ UNCHANGED <<today, turnVars, relayVars>>

\* The response closes: `res.destroyed`, and the "close" event
CallerLeaves(t) ==
  /\ place[t] \in {"reserving", "admitted", "fetching", "streaming", "draining"}
  /\ here[t]
  /\ here' = [here EXCEPT ![t] = FALSE]
  /\ UNCHANGED <<today, dbVars, place, turnVars, taken, usage, end>>

EndAs(t, from, kind) ==
  /\ Goto(t, from, "settling")
  /\ end' = [end EXCEPT ![t] = kind]
  /\ UNCHANGED <<today, dbVars, turnVars, here, usage>>

\* relay: nothing is sent for a caller who left while `reserve` was waiting
StartRelay(t) ==
  \/ ~here[t] /\ EndAs(t, "admitted", "abandoned") /\ UNCHANGED taken
  \/ /\ here[t]
     /\ Goto(t, "admitted", "fetching")
     /\ UNCHANGED <<today, dbVars, turnVars, relayVars>>

UpstreamTakes(t) ==
  /\ place[t] = "fetching"
  /\ ~taken[t]
  /\ taken' = [taken EXCEPT ![t] = TRUE]
  /\ UNCHANGED <<today, dbVars, place, turnVars, here, usage, end>>

\* Mutant of FetchFailure: a fetch that fails was never sent
FetchFailureFree(t) == "refused"

\* The caller's leaving aborts the fetch, and the upstream may already have
\* taken it; otherwise the upstream could not be reached
FetchFailure(t) == IF here[t] THEN "refused" ELSE "unfinished"

FetchThrows(t) ==
  EndAs(t, "fetching", FetchFailure(t)) /\ UNCHANGED taken

\* Not 2xx: nothing was generated
UpstreamRefuses(t) ==
  /\ EndAs(t, "fetching", "refused")
  /\ taken' = [taken EXCEPT ![t] = FALSE]

UpstreamAnswers(t, body) ==
  /\ taken[t]
  /\ \/ ~body /\ EndAs(t, "fetching", "unfinished") /\ UNCHANGED taken
     \/ /\ body
        /\ Goto(t, "fetching", "streaming")
        /\ UNCHANGED <<today, dbVars, turnVars, relayVars>>

\* usageReader: the last usage that an event carried
UsageAfter(t, report) == IF report = NoReport THEN usage[t] ELSE report

\* pipeStream: a chunk is observed, and written to the caller if there is one;
\* a full buffer is waited for
ReadChunk(t, report, full) ==
  /\ place[t] = "streaming"
  /\ usage' = [usage EXCEPT ![t] = UsageAfter(t, report)]
  /\ place' = [place EXCEPT ![t] = IF ~here[t] THEN "settling"
                             ELSE IF full THEN "draining" ELSE "streaming"]
  /\ UNCHANGED <<today, dbVars, turnVars, here, taken, end>>

\* endWait, called by "drain"
Drain(t) ==
  /\ here[t]
  /\ Goto(t, "draining", "streaming")
  /\ UNCHANGED <<today, dbVars, turnVars, relayVars>>

\* Mutant of CloseEndsWait: only "drain" ends the wait
CloseEndsWaitNot(t) == FALSE /\ UNCHANGED ledgerVars

\* endWait, called by "close"
CloseEndsWait(t) ==
  /\ ~here[t]
  /\ Goto(t, "draining", "streaming")
  /\ UNCHANGED <<today, dbVars, turnVars, relayVars>>

\* Only a stream read to its end with the caller there is charged what it
\* reported: usage seen before that may be a running total
StreamEnd(t) ==
  IF here[t] /\ usage[t] # NoReport THEN "completed" ELSE "unfinished"

ReadDone(t) ==
  EndAs(t, "streaming", StreamEnd(t)) /\ UNCHANGED taken

\* The upstream broke, the abort broke it, or observing or writing threw
ReadFails(t) ==
  EndAs(t, "streaming", "unfinished") /\ UNCHANGED taken

AfterLedger(t) == IF knew[t] THEN "done" ELSE "aging"

\* agent_spend_amounts_check and agent_turn_charged_check, which would fail the
\* statement
Storable(k, held, charge) ==
  held <= reserved[k] /\ 0 <= spent[k] + charge /\ 0 <= charge

MoveSpend(k, held, charge) ==
  /\ reserved' = [reserved EXCEPT ![k] = @ - held]
  /\ spent' = [spent EXCEPT ![k] = @ + charge]
  /\ over' = [over EXCEPT ![k] = @ + (IF charge > held THEN charge - held ELSE 0)]
  /\ UNCHANGED <<dated, capped>>

EndRow(t, charge) ==
  /\ outcome' = [outcome EXCEPT ![t] = end[t]]
  /\ charged' = [charged EXCEPT ![t] = charge]

\* Mutant of SettleRow: the reservation goes back on the day it is now
SettleRowToday(t) ==
  LET k == <<key[t][1], today>> charge == ChargeFor(t) IN
  /\ outcome[t] = "started"
  /\ Storable(k, charged[t], charge)
  /\ MoveSpend(k, charged[t], charge)
  /\ EndRow(t, charge)

\* Mutant of SettleRow: RETURNING gives the row as it has just been written
SettleRowNew(t) ==
  LET k == key[t] charge == ChargeFor(t) IN
  /\ outcome[t] = "started"
  /\ Storable(k, charge, charge)
  /\ MoveSpend(k, charge, charge)
  /\ EndRow(t, charge)

\* The one statement of `settle`: the row's own charge is its reservation
\* until now, and its own day is the one that moves
SettleRow(t) ==
  LET k == key[t] charge == ChargeFor(t) IN
  /\ outcome[t] = "started"
  /\ Storable(k, charged[t], charge)
  /\ MoveSpend(k, charged[t], charge)
  /\ EndRow(t, charge)

\* Settled, or the database failed before it committed
Settle(t) ==
  /\ Goto(t, "settling", AfterLedger(t))
  /\ SettleRow(t) \/ UNCHANGED dbVars
  /\ UNCHANGED <<today, turnVars, relayVars>>

RecordCapped(t) ==
  /\ Goto(t, "capped", AfterLedger(t))
  /\ \/ /\ capped' = [capped EXCEPT ![key[t]] = @ + 1]
        /\ UNCHANGED <<dated, spent, reserved, outcome, charged, over>>
     \/ UNCHANGED dbVars
  /\ UNCHANGED <<today, turnVars, relayVars>>

\* learnAccountAge: stores the date, or skips
LearnAccountAge(t) ==
  /\ Goto(t, "aging", "done")
  /\ \/ /\ dated' = [dated EXCEPT ![key[t][1]] = TRUE]
        /\ UNCHANGED <<spent, reserved, capped, outcome, charged, over>>
     \/ UNCHANGED dbVars
  /\ UNCHANGED <<today, turnVars, relayVars>>

\* The platform ends the function (maxDuration, a deploy, a crash)
Kill(t) ==
  /\ place[t] \notin {"idle", "done", "killed"}
  /\ place' = [place EXCEPT ![t] = "killed"]
  /\ UNCHANGED <<today, dbVars, turnVars, relayVars>>

NewDay ==
  /\ today < MaxDay
  /\ today' = today + 1
  /\ UNCHANGED <<dbVars, place, turnVars, relayVars>>

\* What the handler does by itself, and what an abort makes of a fetch
Handler(t) ==
  \/ Reserve(t) \/ ReserveFails(t)
  \/ StartRelay(t)
  \/ ~here[t] /\ FetchThrows(t)
  \/ CloseEndsWait(t)
  \/ ~here[t] /\ ReadFails(t)
  \/ Settle(t) \/ RecordCapped(t) \/ LearnAccountAge(t)

LedgerNext ==
  \/ \E t \in Turns :
       \/ \E bytes \in BodySizes : Take(t, bytes)
       \/ Reserve(t) \/ ReserveFails(t)
       \/ CallerLeaves(t)
       \/ StartRelay(t)
       \/ UpstreamTakes(t) \/ FetchThrows(t) \/ UpstreamRefuses(t)
       \/ \E body \in BOOLEAN : UpstreamAnswers(t, body)
       \/ \E report \in Reports \cup {NoReport}, full \in BOOLEAN :
            ReadChunk(t, report, full)
       \/ Drain(t) \/ CloseEndsWait(t)
       \/ ReadDone(t) \/ ReadFails(t)
       \/ Settle(t) \/ RecordCapped(t) \/ LearnAccountAge(t)
       \/ Kill(t)
  \/ NewDay

LedgerSpec == LedgerInit /\ [][LedgerNext]_ledgerVars

LedgerFairness == \A t \in Turns : WF_ledgerVars(Handler(t))

LedgerFairSpec == LedgerSpec /\ LedgerFairness

-----------------------------------------------------------------------------
LedgerTypeOK ==
  /\ today \in Days
  /\ dated \in [Users -> BOOLEAN]
  /\ spent \in [Keys -> Nat]
  /\ reserved \in [Keys -> Nat]
  /\ capped \in [Keys -> Nat]
  /\ outcome \in [Turns -> Ends \cup {"none", "started"}]
  /\ charged \in [Turns -> Nat]
  /\ place \in [Turns -> Places]
  /\ key \in [Turns -> Keys]
  /\ amount \in [Turns -> Nat]
  /\ knew \in [Turns -> BOOLEAN]
  /\ here \in [Turns -> BOOLEAN]
  /\ taken \in [Turns -> BOOLEAN]
  /\ usage \in [Turns -> Reports \cup {NoReport}]
  /\ end \in [Turns -> Ends]
  /\ over \in [Keys -> Nat]

\* The daily cap, with turns in parallel: what a user has spent and reserved on
\* a day stays within the cap of the tier they are in now, but for the charges
\* that turned out above their reservation
CapHeld ==
  \A k \in Keys : spent[k] + reserved[k] <= Cap(k[1]) + over[k]

\* "The ledger may overcharge a user, never undercharge them", where a caller
\* could make it do so: one who hangs up after the upstream has accepted the
\* turn pays no less than its reservation
HangUpNotFree ==
  \A t \in Turns :
    outcome[t] \in Ends /\ taken[t] /\ ~here[t] => charged[t] >= amount[t]

\* sum(...) over rows
Total(h, S) == MapThenSumSet(LAMBDA t : h[t], S)

Rows(k, outcomes) == {t \in Turns : key[t] = k /\ outcome[t] \in outcomes}

\* The two tables agree: the day's `reserved` is what its started turns hold,
\* and its `spent` what its ended turns were charged, whatever day they ended
\* on, which of them were killed, and which statements failed
LedgerAgrees ==
  \A k \in Keys :
    /\ reserved[k] = Total(charged, Rows(k, {"started"}))
    /\ spent[k] = Total(charged, Rows(k, Ends))

\* No settle is ever refused by a check of the tables, whatever the upstream
\* reported: the reservation it gives back is there, and its charge is an
\* amount
SettleStorable ==
  \A t \in Turns :
    place[t] = "settling" => Storable(key[t], charged[t], ChargeFor(t))

\* A caller who hangs up never parks the function: the turn is settled (or its
\* settle failed), or the platform killed it, even when the caller left in the
\* middle of a wait for the socket to drain
HangUpSettles ==
  \A t \in Turns :
    (place[t] = "draining" /\ ~here[t]) ~> (place[t] \in {"aging", "done", "killed"})

\* The tables implement the allowance: used is what a day's row holds, and a
\* grant is a turn's row
AccountUse == [k \in Keys |-> spent[k] + reserved[k]]

TurnGrant ==
  [t \in Turns |->
     IF outcome[t] = "none" THEN [state |-> "none", amount |-> 0]
     ELSE [state |-> IF outcome[t] = "started" THEN "open" ELSE "closed",
           account |-> key[t], amount |-> charged[t]]]

A == INSTANCE Allowance WITH
       Accounts <- Keys, Grants <- Turns, Limit <- EstablishedCap,
       used <- AccountUse, grant <- TurnGrant

\* `reserve` and `settle`, through failures, kills and midnight, only ever
\* grant under the cap and close a grant once, on the account it came from
LedgerImplements == A!Spec
=============================================================================
