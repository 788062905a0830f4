----------------------------- MODULE MCAnswers ------------------------------
(***************************************************************************)
(* The two parts whose calls must come to an end, for TLC: the callers of  *)
(* withSyncLock (SyncLock) and the turns of /api/agent (AgentLedger).  A   *)
(* behaviour runs one of them while the other is idle, which loses         *)
(* nothing, for neither reads what the other writes.                       *)
(*                                                                         *)
(* Lock: two tabs and three calls, enough for a nested call, a sibling     *)
(* call in the same tab and a call of the other tab to meet.               *)
(*                                                                         *)
(* Ledger: prices are 1 and 1.5 micro-USD a token, so a turn of 8 bytes    *)
(* and at most one token of output reserves 4 (3.5 rounded up).  The       *)
(* newcomer's cap admits one turn, the established one two.  Reports cover *)
(* a charge under the reservation, one above it with a count left out, and *)
(* a count that no integer column holds.                                   *)
(***************************************************************************)
EXTENDS SyncLock, AgentLedger

VARIABLE part

answersVars == <<vars, ledgerVars, part>>

MCOldOn == [u \in Users |-> 1]

MCReports == {[prompt |-> 1, completion |-> 1], [prompt |-> 5, completion |-> Missing],
              [prompt |-> -5, completion |-> 1]}

AnswersInit ==
  /\ part \in {"lock", "ledger"}
  /\ Init
  /\ part = "ledger" => weblocks
  /\ LedgerInit
  /\ part = "lock" => \A u \in Users : dated[u]

AnswersNext ==
  \/ part = "lock" /\ Next /\ UNCHANGED <<ledgerVars, part>>
  \/ part = "ledger" /\ LedgerNext /\ UNCHANGED <<vars, part>>

AnswersSpec == AnswersInit /\ [][AnswersNext]_answersVars /\ Fairness /\ LedgerFairness
=============================================================================
