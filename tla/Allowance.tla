----------------------------- MODULE Allowance ------------------------------
(***************************************************************************)
(* What the ledger of /api/agent promises, without its tables: a daily     *)
(* allowance per user.  A turn is granted its worst case when that still   *)
(* fits under the limit, and is closed once, at what it is charged, on the *)
(* account it was granted from, whatever day it is by then.  AgentLedger   *)
(* implements it (LedgerImplements).                                       *)
(***************************************************************************)
EXTENDS Naturals

CONSTANTS
  Accounts, \* what an allowance is kept for: a user on a day
  Grants,   \* turns
  Limit     \* the most that grants may bring an account to

VARIABLES
  used,  \* used[a]: what has been granted or charged on account a
  grant  \* grant[g]: its state, its account and what it weighs there

NoGrant == [state |-> "none", amount |-> 0]

Init ==
  /\ used = [a \in Accounts |-> 0]
  /\ grant = [g \in Grants |-> NoGrant]

Open(g, a, n) ==
  /\ n \in Nat
  /\ grant[g] = NoGrant
  /\ used[a] + n <= Limit
  /\ used' = [used EXCEPT ![a] = @ + n]
  /\ grant' = [grant EXCEPT ![g] = [state |-> "open", account |-> a, amount |-> n]]

Close(g, n) ==
  /\ n \in Nat
  /\ grant[g].state = "open"
  /\ used' = [used EXCEPT ![grant[g].account] = @ - grant[g].amount + n]
  /\ grant' = [grant EXCEPT ![g] =
                 [state |-> "closed", account |-> grant[g].account, amount |-> n]]

\* Any amount: what the grant weighs after the step
Next ==
  \E g \in Grants :
    \/ \E a \in Accounts : Open(g, a, grant'[g].amount)
    \/ Close(g, grant'[g].amount)

Spec == Init /\ [][Next]_<<used, grant>>
=============================================================================
