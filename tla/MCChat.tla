------------------------------- MODULE MCChat -------------------------------
(***************************************************************************)
(* The two halves of a conversation, for TLC: the server's (ChatStore) and *)
(* one tab's (ChatPanel).  A behaviour runs one of them while the other is *)
(* idle.  ChatPanel has its own server, which takes a push or refuses it   *)
(* whole; ChatStore shows what a push and a delete do to each other inside.*)
(*                                                                         *)
(* Server: two pushes, of versions of one message or of none, to one       *)
(* thread or to two, and two deletes.                                      *)
(*                                                                         *)
(* Tab: two workspaces, one of which another device has too, and one       *)
(* scenario per member of MCBudgets: how many messages are typed, how many *)
(* switches, pushes, deletes elsewhere, failed reads or requests, sign-ins *)
(* and sign-outs there are.                                                *)
(***************************************************************************)
EXTENDS ChatStore, ChatPanel, TLC

VARIABLE half

bothVars == <<chatVars, panelVars, half>>

B(ty, sw, pu, de, fa, si, so) ==
  [type |-> ty, switch |-> sw, push |-> pu, delete |-> de, fail |-> fa, signIn |-> si, signOut |-> so]

MCBudgets == {B(2, 2, 0, 0, 0, 0, 0), B(1, 1, 1, 1, 0, 0, 0), B(1, 0, 1, 1, 1, 0, 0),
              B(1, 1, 0, 0, 0, 1, 0), B(1, 0, 0, 0, 1, 0, 1), B(2, 1, 0, 0, 1, 0, 0)}

MessageSymmetry == Permutations(Messages)

IdleStore ==
  /\ project = "none"
  /\ post = [p \in Pushes |-> <<CHOOSE c \in Conversations : TRUE, NoMessage, 1>>]

IdlePanel ==
  /\ current = Shared
  /\ budget = CHOOSE b \in Budgets : TRUE
  /\ index[Shared] = NoThread
  /\ account[1] = Gone

ChatHalvesInit ==
  /\ half \in {"server", "tab"}
  /\ ChatInit
  /\ half = "tab" => IdleStore
  /\ ChatPanelInit
  /\ half = "server" => IdlePanel

ChatHalvesNext ==
  \/ half = "server" /\ ChatNext /\ UNCHANGED <<panelVars, half>>
  \/ half = "tab" /\ ChatPanelNext /\ UNCHANGED <<chatVars, half>>

ChatHalvesSpec == ChatHalvesInit /\ [][ChatHalvesNext]_bothVars
=============================================================================
