------------------------------ MODULE MCDeploy ------------------------------
(***************************************************************************)
(* Deploy for TLC.  One program is on one network at first: a deploy       *)
(* upgrades it, and makes the other ones.                                  *)
(*                                                                         *)
(* A behaviour is of one of four scenarios.  "chain": one press, whose     *)
(* run meets all that payers, balances, the cluster, another project and   *)
(* another network can do, but for steps taken for done with no sign of    *)
(* them.  "unseen": one press, on either network and with either payer,    *)
(* which takes any of its steps for done so.  "presses": two presses meet  *)
(* each other, on one project and network and with the Playground wallet,  *)
(* which has enough.  "resume": the same with a third press, which resumes *)
(* what the second paused.  In these two no chunk is written that is there *)
(* already, and the retries of a close are not used up.                    *)
(***************************************************************************)
EXTENDS Deploy

CONSTANTS p1, p2, p3, a, b, n1, n2

VARIABLE scenario

scenarioVars == <<deployVars, scenario>>

MCDeployed == {<<a, n1>>}

\* Presses are alike: p1 is the first, p2 the second
InScenario ==
  /\ at[p1] = "idle" => at[p2] = "idle"
  /\ scenario \in {"chain", "unseen"} => at[p2] = "idle"
  /\ scenario # "unseen" => unseen = {}
  /\ scenario # "chain" =>
       \A p \in Presses : ~how[p].grows /\ at[p] \notin {"askAirdrop", "airdrop"}
  /\ scenario = "unseen" => project = a
  /\ scenario \in {"presses", "resume"} =>
       /\ Here = <<a, n1>> /\ \A p \in Presses : how[p].pays = "pg"
       /\ \A t \in flight : t.kind = "write" => t.n \notin buffer[t.run].data
       /\ \A p \in Presses : tx[p].tries <= 1
  /\ at[p3] # "idle" => scenario = "resume" /\ outcome[p2] = "toggled"
  /\ scenario = "resume" =>
       /\ \A p \in {p2, p3} : /\ at[p] \in {"idle", "wallet", "done"}
                             /\ ask[p] = "quiet" /\ outcome[p] \in {"running", "toggled"}
       /\ outcome[p1] # "running" => outcome[p3] = "toggled"

DeployInit == Init /\ scenario \in {"chain", "unseen", "presses", "resume"} /\ InScenario

DeployNext == Next /\ UNCHANGED scenario /\ InScenario'

\* p3 deploys nothing
DeploySpec ==
  DeployInit /\ [][DeployNext]_scenarioVars /\ \A p \in {p1, p2} : ComesBack(p)
=============================================================================
