------------------------------- MODULE Deploy -------------------------------
(***************************************************************************)
(* The deploy command: a buffer account is made and written, and a last    *)
(* transaction turns it into the program.                                  *)
(*                                                                         *)
(*   commands/deploy/deploy.ts            the run, its questions, pause,   *)
(*     resume and stop, and the retries of its transactions                *)
(*   commands/deploy/bpf-loader-upgradeable.ts   loadBuffer                *)
(*   commands/deploy/run.ts, features/deploy/model/stage-deploy.ts         *)
(*     the answers that the Deploy stage gives in place of the terminal's  *)
(*     questions                                                           *)
(*   utils/command.ts, utils/terminal/shell.ts   runs, stops, and the one  *)
(*     question that a terminal can have open                              *)
(*                                                                         *)
(* A press is one call of PgCommand.deploy.execute, by the Deploy stage or *)
(* by anything else ("typed": the terminal, the explorer's menu, the       *)
(* assistant).  Any press runs the pre-checks; the handler then deploys,   *)
(* or pauses or resumes the deploy that is running.  The cluster is        *)
(* external: a transaction that was sent lands at any later time or never, *)
(* and whoever waits for it is told, or is told nothing.  A node that is   *)
(* read may be behind: it may know of no buffer, or of an older one.  An   *)
(* action is the code between two awaits, except that the writes that a    *)
(* pass of the load leads to are one action, and that the transfer from a  *)
(* connected wallet and the extension of a program, whose effect no        *)
(* property looks at, are one action each with their retries.              *)
(***************************************************************************)
EXTENDS Naturals, Sequences, FiniteSets

CONSTANTS
  Presses,      \* calls of the command
  Callers,      \* who makes them: "stage", "typed"
  Projects,     \* one program each
  Networks,
  Chunks,       \* of a program's bytes, one transaction each
  Payers,       \* "pg": the Playground wallet; "standard": a connected wallet
  Grows,        \* whether an upgrade may need a longer program data account
  Short,        \* whether the wallet may hold too little
  Preflight,    \* PgSettings.connection.preflightChecks
  MaxRetries,   \* MAX_RETRIES
  Deployed,     \* where a program is at first: pairs of a project and a network
  Nowhere       \* where an account is that does not exist

ASSUME DeployAssumption ==
  /\ Callers \subseteq {"stage", "typed"} /\ Payers \subseteq {"pg", "standard"}
  /\ {Grows, Short, Preflight} \subseteq BOOLEAN
  /\ MaxRetries \in Nat \ {0} /\ Nowhere \notin Networks
  /\ Deployed \subseteq Projects \X Networks

VARIABLES
  deployState,  \* PgGlobal.deployState
  at,           \* at[p]: where the call is
  by,           \* by[p]: its caller
  how,          \* how[p]: what processDeploy has read at its start
  ask,          \* ask[p]: the call's question in the terminal
  aborted,      \* aborted[p]: its signal
  locked,       \* locked[p]: lockStop was called
  tx,           \* tx[p]: sendAndConfirmTxWithRetries
  segs,         \* segs[p]: calls of loadBufferWithControl, a pause ends one
  loaded,       \* loaded[p]: the promise of the first of them
  outcome,      \* outcome[p]: how the call ended
  answers,      \* PgDeployRun._answers: whether they are the stage's
  project,      \* the project that is open
  network,      \* PgConnection.current
  buffer,       \* buffer[p]: the run's buffer account
  flight,       \* transactions that were sent and may land
  program,      \* program[x]: the chunks of the program at a project and network
  reached,      \* the runs whose last transaction landed
  unseen        \* history: the transactions that a run took for done with no sign
                \* that they are: runs and their steps

callVars == <<at, outcome, answers>>
runVars == <<by, how, aborted, locked>>
loadVars == <<segs, loaded>>
accountVars == <<buffer, program, reached, unseen>>
openVars == <<project, network>>
deployVars == <<deployState, ask, tx, flight, callVars, runVars, loadVars,
                accountVars, openVars>>

TxSteps == {"create", "close", "reclaim", "authority", "final"}
Processing == TxSteps \cup
  {"fetch", "askAirdrop", "airdrop", "spendable", "transfer", "extend", "load", "askClose"}
Checks == {"wallet", "program", "checked"}
Replies == {"yes", "no"}

InRun(p) == at[p] \in Processing
Waiting(q) == \E p \in Presses : q[p] = "open"
Here == <<project, network>>

FreshTx == [tries |-> 0, phase |-> "send", got |-> "nothing"]
FreshSegment ==
  [stage |-> "terminal", cut |-> FALSE, listens |-> FALSE, prev |-> "loading",
   stops |-> FALSE, answersNo |-> FALSE, asks |-> FALSE, stray |-> FALSE]

-----------------------------------------------------------------------------
(* PgGlobal.update({ deployState }) and its listeners.                      *)

Fires(g, state) ==
  g.listens /\ g.prev # state /\ "paused" \in {g.prev, state}

\* `handle` of one segment: the first time it cuts the segment and asks whether to go
\* on; once the segment is cut it types "yes".  `busy`: a question is open.  A "yes"
\* that answers no question runs as a command, which there is none of (stray).
Told(g, state, busy) ==
  LET seen == [g EXCEPT !.prev = IF g.listens THEN state ELSE g.prev]
  IN  IF ~Fires(g, state) THEN seen
      ELSE IF g.cut THEN [seen EXCEPT !.stray = g.stray \/ ~busy]
      ELSE [seen EXCEPT !.cut = TRUE, !.stops = FALSE, !.answersNo = TRUE,
                        !.asks = ~busy, !.stray = busy]

\* ss and q: the segments and the questions as the rest of the step leaves them
SetState(state, ss, q) ==
  LET busy == Waiting(q)
      fired == {pk \in UNION {{p} \X DOMAIN ss[p] : p \in Presses} :
                  Fires(ss[pk[1]][pk[2]], state)}
      typesYes == \E pk \in fired : ss[pk[1]][pk[2]].cut
      asks(p) == \E pk \in fired : pk[1] = p /\ ~ss[p][pk[2]].cut
  IN  /\ deployState' = state
      /\ segs' = [p \in Presses |->
                    [k \in DOMAIN ss[p] |-> Told(ss[p][k], state, busy)]]
      /\ ask' = [p \in Presses |->
                   IF busy /\ typesYes /\ q[p] = "open" THEN "yes"
                   ELSE IF ~busy /\ asks(p) THEN "open"
                   ELSE q[p]]

\* The call ends: the handler's `finally`, execute's, and runWith's
Finish(p, o) ==
  /\ at' = [at EXCEPT ![p] = "done"]
  /\ outcome' = [outcome EXCEPT ![p] = o]
  /\ answers' = (answers /\ by[p] # "stage")

Ends(p, o, q) ==
  /\ Finish(p, o)
  /\ SetState("ready", segs, q)
  /\ tx' = [tx EXCEPT ![p] = FreshTx]

Goes(p, step, q) ==
  /\ at' = [at EXCEPT ![p] = step]
  /\ tx' = [tx EXCEPT ![p] = FreshTx]
  /\ ask' = q
  /\ UNCHANGED <<deployState, segs, outcome, answers>>

\* throwIfStopped before a step of the run that leaves nothing behind
Unless(p, step) ==
  IF aborted[p] THEN Ends(p, "none", ask) ELSE Goes(p, step, ask)

\* term.waitForInput, which throws while another question is open
Asks(p, step) ==
  IF Waiting(ask) THEN Ends(p, "failed", ask)
  ELSE Goes(p, step, [ask EXCEPT ![p] = "open"])

Quiet(p) == [ask EXCEPT ![p] = "quiet"]

-----------------------------------------------------------------------------
(* The call up to the deploy.                                               *)

\* PgStageDeploy._startWith returns while a run of the stage is on or a deploy loads;
\* the other callers can start nothing unless no deploy is on
Press(p) ==
  /\ at[p] = "idle"
  /\ \E c \in Callers :
       /\ IF c = "stage"
            THEN /\ deployState # "loading"
                 /\ ~\E q \in Presses : by[q] = "stage" /\ at[q] \notin {"idle", "done"}
            ELSE deployState = "ready"
       /\ by' = [by EXCEPT ![p] = c]
       /\ answers' = (answers \/ c = "stage")
  /\ at' = [at EXCEPT ![p] = "wallet"]
  /\ UNCHANGED <<deployState, ask, tx, flight, how, aborted, locked, outcome, loadVars,
                 accountVars, openVars>>

\* checkWallet, and checkProgram after a build that failed, of a caller that brings no
\* answers of its own: a question each, if at all
ChecksAsk(p) ==
  /\ at[p] \in {"wallet", "program"} /\ ask[p] = "quiet" /\ by[p] = "typed"
  /\ IF Waiting(ask)
       THEN Finish(p, "failed") /\ UNCHANGED ask
       ELSE ask' = [ask EXCEPT ![p] = "open"] /\ UNCHANGED callVars
  /\ UNCHANGED <<deployState, tx, flight, runVars, loadVars, accountVars, openVars>>

ChecksReply(p) ==
  /\ at[p] \in Checks /\ ask[p] \in Replies
  /\ ask' = Quiet(p)
  /\ IF ask[p] = "no" THEN Finish(p, "failed")
     ELSE /\ at' = [at EXCEPT ![p] = IF @ = "wallet" THEN "program" ELSE "checked"]
          /\ UNCHANGED <<outcome, answers>>
  /\ UNCHANGED <<deployState, tx, flight, runVars, loadVars, accountVars, openVars>>

ChecksFail(p) ==
  /\ at[p] \in Checks /\ ask[p] = "quiet"
  /\ Finish(p, "failed")
  /\ UNCHANGED <<deployState, ask, tx, flight, runVars, loadVars, accountVars, openVars>>

\* Mutant of Handle: the switch inside the `try`, so that a pause ends in `finally` too
HandleInTry(p) ==
  /\ at[p] \in Checks /\ ask[p] = "quiet"
  /\ IF deployState = "ready"
       THEN /\ SetState("loading", segs, ask)
            /\ at' = [at EXCEPT ![p] = "fetch"]
            /\ UNCHANGED <<outcome, answers>>
       ELSE SetState("ready", segs, ask) /\ Finish(p, "toggled")
  /\ UNCHANGED <<tx, flight, runVars, loaded, accountVars, openVars>>

\* `handle` of the command, once the checks that are left have passed
Handle(p) ==
  /\ at[p] \in Checks /\ ask[p] = "quiet"
  /\ \/ /\ deployState = "ready"
        /\ SetState("loading", segs, ask)
        /\ at' = [at EXCEPT ![p] = "fetch"]
        /\ UNCHANGED <<outcome, answers>>
     \/ deployState = "loading" /\ SetState("paused", segs, ask) /\ Finish(p, "toggled")
     \/ deployState = "paused" /\ SetState("loading", segs, ask) /\ Finish(p, "toggled")
     \/ /\ deployState = "cancelled" /\ Finish(p, "failed")
        /\ UNCHANGED <<deployState, segs, ask>>
  /\ UNCHANGED <<tx, flight, runVars, loaded, accountVars, openVars>>

-----------------------------------------------------------------------------
(* processDeploy: what it needs before there is a buffer.                   *)

\* The bytes and the balances have come, or one of them has not
Fetched(p) ==
  /\ at[p] = "fetch"
  /\ \/ Ends(p, "failed", ask) /\ UNCHANGED how
     \/ aborted[p] /\ Ends(p, "none", ask) /\ UNCHANGED how
     \/ /\ ~aborted[p]
        /\ \E pays \in Payers, grows \in {FALSE, Grows}, short \in {FALSE, Short} :
             LET upgrade == program[Here] # {}
             IN  /\ how' = [how EXCEPT ![p] =
                              [pays |-> pays, upgrade |-> upgrade, on |-> network,
                               grows |-> grows /\ upgrade]]
                 /\ \/ ~short /\ Goes(p, "spendable", ask)
                    \/ short /\ answers /\ Ends(p, "funding", ask)
                    \/ short /\ answers /\ Goes(p, "airdrop", ask)
                    \/ short /\ ~answers /\ Ends(p, "failed", ask)
                    \/ short /\ ~answers /\ Asks(p, "askAirdrop")
  /\ UNCHANGED <<flight, by, aborted, locked, loaded, accountVars, openVars>>

AirdropReply(p) ==
  /\ at[p] = "askAirdrop" /\ ask[p] \in Replies
  /\ IF aborted[p] THEN Ends(p, "none", Quiet(p))
     ELSE IF ask[p] = "no" THEN Ends(p, "failed", Quiet(p))
     ELSE Goes(p, "airdrop", Quiet(p))
  /\ UNCHANGED <<flight, runVars, loaded, accountVars, openVars>>

Airdropped(p) ==
  /\ at[p] = "airdrop"
  /\ Goes(p, "spendable", ask) \/ Ends(p, "failed", ask)
  /\ UNCHANGED <<flight, runVars, loaded, accountVars, openVars>>

\* The transactions before the buffer's, each behind its throwIfStopped
Funding(p) ==
  /\ at[p] \in {"spendable", "transfer", "extend"}
  /\ LET next == IF at[p] = "spendable" /\ how[p].pays = "standard" THEN "transfer"
                 ELSE IF at[p] # "extend" /\ how[p].grows THEN "extend"
                 ELSE "create"
     IN  Unless(p, next) \/ Ends(p, "failed", ask)
  /\ UNCHANGED <<flight, runVars, loaded, accountVars, openVars>>

-----------------------------------------------------------------------------
(* sendAndConfirmTxWithRetries.                                             *)

\* What the cluster holds when a transaction arrives.  The last transaction takes the
\* program from PgProgramInfo, which follows the project that is open.
Valid(t) ==
  LET held == buffer[t.run]
      owner == how[t.run].pays
      mine == held.on = t.to[2]
  IN  CASE t.kind = "create" -> held.on = Nowhere
        [] t.kind \in {"write", "close", "reclaim", "authority"} -> mine /\ held.owner = "pg"
        [] t.kind = "final" -> /\ mine /\ held.owner = owner /\ held.data = Chunks
                               /\ how[t.run].upgrade <=> program[t.to] # {}

Held(p) == buffer[p].on = how[p].on

\* Mutant of Confirmed: any answer of the node confirms the last transaction
ConfirmedAnyway(p, there) ==
  CASE at[p] \in {"create", "authority"} -> there
    [] at[p] \in {"close", "reclaim"} -> ~there
    [] at[p] = "final" -> TRUE

\* checkConfirmation: what the node that is read says of the buffer
Confirmed(p, there) ==
  CASE at[p] = "create" -> there
    [] at[p] \in {"close", "reclaim", "final"} -> ~there
    [] at[p] = "authority" -> there /\ buffer[p].owner = "standard"

Took(p, sure) ==
  unseen' = IF sure THEN unseen ELSE unseen \cup {<<p, at[p]>>}

\* The transaction is done: what processDeploy does next
Done(p) ==
  CASE at[p] = "create" ->
         /\ at' = [at EXCEPT ![p] = "load"]
         /\ tx' = [tx EXCEPT ![p] = FreshTx]
         /\ IF aborted[p]
              THEN loaded' = [loaded EXCEPT ![p] = "cancelled"] /\ UNCHANGED segs
              ELSE segs' = [segs EXCEPT ![p] = <<FreshSegment>>] /\ UNCHANGED loaded
         /\ UNCHANGED <<deployState, ask, outcome, answers>>
    [] at[p] = "close" -> Ends(p, "closed", ask) /\ UNCHANGED loaded
    [] at[p] = "reclaim" -> Ends(p, "cancelled", ask) /\ UNCHANGED loaded
    [] at[p] = "authority" -> Goes(p, "final", ask) /\ UNCHANGED loaded
    [] at[p] = "final" -> Ends(p, "deployed", ask) /\ UNCHANGED loaded

\* An attempt has failed.  A stop that cannot close its buffer reads what it holds.
Again(p) ==
  LET last == tx[p].tries + 1 = MaxRetries
  IN  IF last /\ at[p] # "close"
        THEN Ends(p, "failed", ask) /\ UNCHANGED loaded
        ELSE /\ tx' = [tx EXCEPT ![p] =
                         [tries |-> @.tries + 1, got |-> "nothing",
                          phase |-> IF last THEN "balance" ELSE "send"]]
             /\ UNCHANGED <<deployState, ask, callVars, loadVars>>

\* sendTx: sent; sent, though the answer does not come back; or not sent.  The
\* preflight refuses what could not land.  An answer without a hash ends the step as
\* done, whether or not the transaction was sent.
Send(p) ==
  /\ at[p] \in TxSteps /\ tx[p].phase = "send"
  /\ LET t == [run |-> p, kind |-> at[p], n |-> tx[p].tries, to |-> Here]
         sends == (Preflight => Valid(t)) /\ flight' = flight \cup {t}
     IN  \/ sends /\ tx' = [tx EXCEPT ![p].phase = "confirm"] /\ Took(p, TRUE)
            /\ UNCHANGED <<deployState, ask, callVars, loadVars>>
         \/ (sends \/ UNCHANGED flight) /\ Again(p) /\ Took(p, TRUE)
         \/ (sends \/ UNCHANGED flight) /\ Done(p) /\ Took(p, FALSE)
  /\ UNCHANGED <<runVars, buffer, program, reached, openVars>>

\* PgTx.confirm: what became of the transaction, or nothing
Confirm(p) ==
  /\ at[p] \in TxSteps /\ tx[p].phase = "confirm"
  /\ \/ tx[p].got = "ok" /\ Done(p)
     \/ /\ tx[p].got = "err" /\ tx' = [tx EXCEPT ![p].phase = "check"]
        /\ UNCHANGED <<deployState, ask, callVars, loadVars>>
     \/ Again(p)
  /\ UNCHANGED <<flight, runVars, accountVars, openVars>>

\* The node that is read may be behind, and then has no buffer, or may not answer
Check(p) ==
  /\ at[p] \in TxSteps /\ tx[p].phase = "check"
  /\ \/ \E there \in {FALSE, Held(p)} :
          Confirmed(p, there) /\ Done(p) /\ Took(p, there = Held(p))
     \/ Again(p) /\ Took(p, TRUE)
  /\ UNCHANGED <<flight, runVars, buffer, program, reached, openVars>>

\* Mutant of KeptBalance: a balance that could not be read is none
KeptBalanceUnread(p) ==
  /\ at[p] = "close" /\ tx[p].phase = "balance"
  /\ Ends(p, "closed", ask)
  /\ UNCHANGED <<flight, runVars, loaded, accountVars, openVars>>

\* stopWithBuffer, once the retries are used up: keptLamportsOn.  Zero is the balance of
\* no buffer, and the answer of a node that is behind.
KeptBalance(p) ==
  /\ at[p] = "close" /\ tx[p].phase = "balance"
  /\ \/ Ends(p, "closed", ask) /\ Took(p, ~Held(p))
     \/ Ends(p, "kept", ask) /\ Took(p, TRUE)
  /\ UNCHANGED <<flight, runVars, loaded, buffer, program, reached, openVars>>

-----------------------------------------------------------------------------
(* loadBufferWithControl and loadBuffer.                                    *)

Resolve(p, r) ==
  loaded' = [loaded EXCEPT ![p] = IF @ = "pending" THEN r ELSE @]

\* Mutant of SegmentStarts: an abort while the terminal was fetched is not looked for
SegmentStartsDeaf(p, k) ==
  /\ segs[p][k].stage = "terminal"
  /\ segs' = [segs EXCEPT ![p][k] =
                [@ EXCEPT !.stage = "simulate", !.stops = TRUE,
                          !.listens = TRUE, !.prev = deployState]]
  /\ UNCHANGED <<deployState, ask, tx, flight, callVars, runVars, loaded, accountVars,
                 openVars>>

\* The terminal has come: the stop and the state are listened to from here on
SegmentStarts(p, k) ==
  /\ segs[p][k].stage = "terminal"
  /\ segs' = [segs EXCEPT ![p][k] =
                [@ EXCEPT !.stage = "simulate", !.cut = aborted[p], !.stops = ~aborted[p],
                          !.listens = TRUE, !.prev = deployState]]
  /\ UNCHANGED <<deployState, ask, tx, flight, callVars, runVars, loaded, accountVars,
                 openVars>>

\* Mutant of LoadEnds: a segment that a pause ended counts as written
LoadEndsPaused(p, k, threw) ==
  /\ Resolve(p, IF aborted[p] THEN "cancelled" ELSE IF threw THEN "error" ELSE "success")
  /\ segs' = [segs EXCEPT ![p][k] =
                [@ EXCEPT !.stage = "ended", !.stops = FALSE, !.listens = FALSE]]

\* loadBuffer has returned, or has thrown
LoadEnds(p, k, threw) ==
  LET g == segs[p][k]
      paused == g.cut /\ ~aborted[p]
  IN  /\ IF aborted[p] THEN Resolve(p, "cancelled")
         ELSE IF paused THEN UNCHANGED loaded
         ELSE Resolve(p, IF threw THEN "error" ELSE "success")
      /\ segs' = [segs EXCEPT ![p][k] =
                    [@ EXCEPT !.stage = "ended", !.stops = FALSE,
                              !.listens = g.listens /\ paused]]

Simulate(p, k) ==
  /\ segs[p][k].stage = "simulate"
  /\ \/ segs' = [segs EXCEPT ![p][k].stage = "load"] /\ UNCHANGED loaded
     \/ LoadEnds(p, k, TRUE)
  /\ UNCHANGED <<deployState, ask, tx, flight, callVars, runVars, accountVars, openVars>>

\* The top of loadBuffer's loop, once what the last pass sent was answered or failed
Load(p, k) ==
  /\ segs[p][k].stage = "load"
  /\ IF segs[p][k].cut THEN LoadEnds(p, k, FALSE)
     ELSE segs' = [segs EXCEPT ![p][k].stage = "read"] /\ UNCHANGED loaded
  /\ UNCHANGED <<deployState, ask, tx, flight, callVars, runVars, accountVars, openVars>>

\* The read of the buffer, which is tried until it succeeds (tryUntilSuccess), the
\* signal not looked at, and what it leads to: what is missing is sent, unless the
\* segment was cut.  A node that is behind has an older buffer, or none.  A write that
\* is not sent, for an error or a rate limit, is one that never lands.
Read(p, k) ==
  /\ segs[p][k].stage = "read" /\ Held(p)
  /\ \E seen \in SUBSET buffer[p].data :
       IF seen = Chunks \/ segs[p][k].cut
         THEN LoadEnds(p, k, FALSE) /\ UNCHANGED flight
         ELSE /\ flight' = flight \cup
                   {[run |-> p, kind |-> "write", n |-> c, to |-> Here] :
                      c \in Chunks \ seen}
              /\ segs' = [segs EXCEPT ![p][k].stage = "load"]
              /\ UNCHANGED loaded
  /\ UNCHANGED <<deployState, ask, tx, callVars, runVars, accountVars, openVars>>

\* The rest of `handle`, once "Continue deployment?" is answered
Continue(p, k) ==
  /\ segs[p][k].asks /\ ask[p] \in Replies
  /\ LET over == [segs EXCEPT ![p][k] =
                    [@ EXCEPT !.asks = FALSE, !.answersNo = FALSE, !.listens = FALSE]]
     IN  IF ask[p] = "yes" /\ ~aborted[p]
           THEN /\ SetState("loading", [over EXCEPT ![p] = Append(@, FreshSegment)], Quiet(p))
                /\ UNCHANGED loaded
           ELSE SetState("cancelled", over, Quiet(p)) /\ Resolve(p, "cancelled")
  /\ UNCHANGED <<tx, flight, callVars, runVars, accountVars, openVars>>

\* handle().catch(rej)
HandleFails(p, k) ==
  /\ segs[p][k].stray
  /\ segs' = [segs EXCEPT ![p][k].stray = FALSE]
  /\ Resolve(p, "error")
  /\ UNCHANGED <<deployState, ask, tx, flight, callVars, runVars, accountVars, openVars>>

\* processDeploy after loadBufferWithControl
Loaded(p) ==
  /\ at[p] = "load" /\ loaded[p] # "pending"
  /\ \/ loaded[p] = "error" /\ Ends(p, "failed", ask) /\ UNCHANGED locked
     \/ loaded[p] # "error" /\ aborted[p] /\ Goes(p, "close", ask) /\ UNCHANGED locked
     \/ /\ loaded[p] = "cancelled" /\ ~aborted[p] /\ Asks(p, "askClose")
        /\ UNCHANGED locked
     \/ /\ loaded[p] = "success" /\ ~aborted[p]
        /\ locked' = [locked EXCEPT ![p] = TRUE]
        /\ Goes(p, IF how[p].pays = "standard" THEN "authority" ELSE "final", ask)
  /\ UNCHANGED <<flight, by, how, aborted, loaded, accountVars, openVars>>

CloseReply(p) ==
  /\ at[p] = "askClose" /\ ask[p] \in Replies
  /\ IF ask[p] = "yes" THEN Goes(p, "reclaim", Quiet(p))
     ELSE Ends(p, "cancelled", Quiet(p))
  /\ UNCHANGED <<flight, runVars, loaded, accountVars, openVars>>

-----------------------------------------------------------------------------
(* The user and the cluster.                                                *)

Answer(p) ==
  /\ ask[p] = "open"
  /\ \E r \in Replies : ask' = [ask EXCEPT ![p] = r]
  /\ UNCHANGED <<deployState, tx, flight, callVars, runVars, loadVars, accountVars, openVars>>

\* Mutant of Stop: lockStop is not looked at
StopAnyStep ==
  LET stopped == {p \in Presses : at[p] \notin {"idle", "done"} /\ ~aborted[p]}
  IN  /\ stopped # {}
      /\ aborted' = [p \in Presses |-> aborted[p] \/ p \in stopped]
      /\ UNCHANGED <<deployState, ask, tx, flight, callVars, by, how, locked, loadVars,
                     accountVars, openVars>>

\* PgCommandManager.stop: every run that can stop has its signal aborted, with what
\* listens to it: stopLoad, and the two answerNo
Stop ==
  LET stopped == {p \in Presses : /\ at[p] \notin {"idle", "done"}
                                  /\ ~locked[p] /\ ~aborted[p]}
      typesNo == \E p \in stopped : \/ at[p] = "askAirdrop"
                                    \/ \E k \in DOMAIN segs[p] : segs[p][k].answersNo
  IN  /\ stopped # {}
      /\ aborted' = [p \in Presses |-> aborted[p] \/ p \in stopped]
      /\ segs' = [p \in Presses |-> [k \in DOMAIN segs[p] |->
                    LET g == segs[p][k]
                    IN  IF p \in stopped
                          THEN [g EXCEPT !.cut = g.cut \/ g.stops, !.stops = FALSE,
                                         !.answersNo = FALSE]
                          ELSE g]]
      /\ ask' = [p \in Presses |-> IF typesNo /\ ask[p] = "open" THEN "no" ELSE ask[p]]
      /\ UNCHANGED <<deployState, tx, flight, callVars, by, how, locked, loaded,
                     accountVars, openVars>>

SwitchProject ==
  /\ \E x \in Projects \ {project} : project' = x
  /\ UNCHANGED <<deployState, ask, tx, flight, callVars, runVars, loadVars, accountVars,
                 network>>

\* canSwitchNetwork
SwitchNetwork ==
  /\ deployState \notin {"loading", "paused"}
  /\ \E n \in Networks \ {network} : network' = n
  /\ UNCHANGED <<deployState, ask, tx, flight, callVars, runVars, loadVars, accountVars,
                 project>>

\* What a transaction does that lands and is valid
Effect(t) ==
  LET p == t.run
      held == buffer[p]
  IN  /\ buffer' = [buffer EXCEPT ![p] =
           CASE t.kind = "create" -> [on |-> t.to[2], data |-> {}, owner |-> "pg",
                                      made |-> held.made + 1]
             [] t.kind = "write" -> [held EXCEPT !.data = held.data \cup {t.n}]
             [] t.kind = "authority" -> [held EXCEPT !.owner = "standard"]
             [] OTHER -> [held EXCEPT !.on = Nowhere, !.data = {}]]
      /\ IF t.kind = "final"
           THEN /\ program' = [program EXCEPT ![t.to] = held.data]
                /\ reached' = reached \cup {<<p, t.to>>}
           ELSE UNCHANGED <<program, reached>>
      /\ UNCHANGED unseen

Land(t) ==
  /\ flight' = flight \ {t}
  /\ IF Valid(t) THEN Effect(t) ELSE UNCHANGED accountVars
  /\ LET waits == /\ at[t.run] = t.kind /\ tx[t.run].tries = t.n
                  /\ tx[t.run].phase = "confirm"
     IN  tx' = IF waits
                 THEN [tx EXCEPT ![t.run].got = IF Valid(t) THEN "ok" ELSE "err"]
                 ELSE tx
  /\ UNCHANGED <<deployState, ask, callVars, runVars, loadVars, openVars>>

-----------------------------------------------------------------------------
Init ==
  /\ deployState = "ready" /\ answers = FALSE
  /\ at = [p \in Presses |-> "idle"]
  /\ by = [p \in Presses |-> "typed"]
  /\ project \in Projects /\ network \in Networks
  /\ how = [p \in Presses |-> [pays |-> "pg", upgrade |-> FALSE, on |-> network,
                              grows |-> FALSE]]
  /\ ask = [p \in Presses |-> "quiet"]
  /\ aborted = [p \in Presses |-> FALSE]
  /\ locked = [p \in Presses |-> FALSE]
  /\ tx = [p \in Presses |-> FreshTx]
  /\ segs = [p \in Presses |-> << >>]
  /\ loaded = [p \in Presses |-> "pending"]
  /\ outcome = [p \in Presses |-> "running"]
  /\ buffer = [p \in Presses |-> [on |-> Nowhere, data |-> {}, owner |-> "pg", made |-> 0]]
  /\ flight = {} /\ reached = {} /\ unseen = {}
  /\ program = [x \in Projects \X Networks |-> IF x \in Deployed THEN Chunks ELSE {}]

\* A reply to a question, and the end of the load, are taken up in the same turn of the
\* event loop, before anything else happens
Settled ==
  \A p \in Presses : ask[p] \notin Replies /\ (at[p] = "load" => loaded[p] = "pending")

TakesUp(p) ==
  \/ ChecksReply(p) \/ AirdropReply(p) \/ CloseReply(p) \/ Loaded(p)
  \/ \E k \in DOMAIN segs[p] : Continue(p, k)

Segment(p, k) ==
  SegmentStarts(p, k) \/ Simulate(p, k) \/ Load(p, k) \/ HandleFails(p, k)

Transaction(p) == Send(p) \/ Confirm(p) \/ Check(p) \/ KeptBalance(p)

Proceeds(p) ==
  \/ Fetched(p) \/ Airdropped(p) \/ Funding(p) \/ Transaction(p)
  \/ \E k \in DOMAIN segs[p] : Segment(p, k)

\* No part of Proceeds: nothing makes a node answer a read
Reads(p) == \E k \in DOMAIN segs[p] : Read(p, k)

Begins(p) == Press(p) \/ ChecksAsk(p) \/ ChecksFail(p) \/ Handle(p)

User == Stop \/ SwitchProject \/ SwitchNetwork \/ \E p \in Presses : Answer(p)

Next ==
  \/ \E p \in Presses : TakesUp(p)
  \/ /\ Settled
     /\ \/ \E p \in Presses : Begins(p) \/ Proceeds(p) \/ Reads(p)
        \/ User
        \/ \E t \in flight : Land(t)

Spec == Init /\ [][Next]_deployVars

\* What is under way comes back: a request is answered or fails, a timer runs out, and a
\* reply is read.  Nothing makes the user answer, the cluster take a transaction, or a
\* read that is tried until it succeeds do so.
ComesBack(p) == WF_deployVars(TakesUp(p)) /\ WF_deployVars(Settled /\ Proceeds(p))

-----------------------------------------------------------------------------
\* The handler sets the state and its `finally` sets it back: at most one deploy runs,
\* and the state is "ready" exactly while none does, whatever presses pause, resume
\* and end it, and whatever listens to the state
OneRun ==
  /\ \A p, q \in Presses : InRun(p) /\ InRun(q) => p = q
  /\ deployState = "ready" <=> \A p \in Presses : ~InRun(p)

\* "Retry until all bytes are written": a run goes on from the write only with the
\* whole program in its buffer, however often it was paused and resumed
WholeBuffer ==
  [][\A p \in Presses : at[p] = "load" /\ at'[p] \in {"authority", "final"} =>
       buffer[p].data = Chunks]_deployVars

\* "The program on chain SHALL stay as it was": a run that was stopped sends no last
\* transaction, and one that sends it can no longer be stopped
StopHolds ==
  \A p \in Presses : aborted[p] =>
    /\ at[p] \notin {"authority", "final"}
    /\ \A x \in Projects \X Networks : <<p, x>> \notin reached

\* deployStoppedLine is true: "none" if there is no buffer and none can come; "closed"
\* if it is gone, unless a create that was sent twice has landed twice, or the run took
\* its create or its close for done with no sign of it
StoppedLine ==
  \A p \in Presses :
    /\ outcome[p] = "none" =>
         buffer[p].made = 0 /\ \A t \in flight : t.run = p => t.kind # "create"
    /\ outcome[p] = "closed" /\ buffer[p].on # Nowhere =>
         buffer[p].made > 1 \/ {<<p, "create">>, <<p, "close">>} \cap unseen # {}

\* "Deployment successful." is said only of a last transaction that landed, though
\* PgTx.confirm can be unreliable, unless its send returned no hash or a node that is
\* behind confirmed one that had failed
DeployedIsThere ==
  \A p \in Presses : outcome[p] = "deployed" =>
    \/ \E x \in Projects \X Networks : <<p, x>> \in reached
    \/ <<p, "final">> \in unseen

\* The segment that runs waits for a read of the buffer
Unread(p) == at[p] = "load" /\ \E k \in DOMAIN segs[p] :
               k = Len(segs[p]) /\ segs[p][k].stage = "read"

\* A stop ends the run whatever becomes of its transactions and whether or not the user
\* answers anything, unless the question about the buffer is open already, or the read
\* of the buffer that was under way at the stop never succeeds.  With one run at a time
\* (OneRun), that is: time and again no stopped run is still on, or in the end one waits
\* for its read for ever.
StopSettles ==
  \/ []<>(\A p \in Presses : aborted[p] /\ InRun(p) => at[p] = "askClose")
  \/ <>[](\E p \in Presses : aborted[p] /\ Unread(p))

-----------------------------------------------------------------------------
\* "A second click while a deploy is already running pauses it": a paused deploy does
\* not go on to its last transactions
PauseHolds ==
  deployState = "paused" => \A p \in Presses : at[p] \notin {"authority", "final"}

\* "The terminal never sets answers, so a typed `deploy` keeps asking in the terminal":
\* it does not stop at the stage's funding card
TypedKeepsAsking ==
  \A p \in Presses : by[p] = "typed" => outcome[p] # "funding"

\* "A stop after the buffer exists SHALL close the buffer": a run that is stopped while
\* it writes goes on to close what it wrote
StopCloses ==
  [][\A p \in Presses : at[p] = "load" /\ aborted[p] => at'[p] # "done"]_deployVars

\* The network may change "not while a deploy runs or waits paused, since its later
\* transactions would go to the new network while its buffer stays on the old one"
NetworkHeld ==
  \A p \in Presses : InRun(p) /\ buffer[p].on # Nowhere => network = buffer[p].on
=============================================================================
