--------------------------- MODULE MCProjectSync ----------------------------
(***************************************************************************)
(* ProjectSync for TLC: two devices.                                       *)
(***************************************************************************)
EXTENDS ProjectSync, TLC

CONSTANTS n1, n2, n3, i1, i2

\* The names a user gives, and the stand-ins that freeName makes of them (only
\* n2 is ever held by another workspace)
MCNames == {n1, n2, n3, i1, i2}
MCImported == [n \in MCNames |-> IF n = n2 THEN i2 ELSE i1]
NoneElsewhere == [d \in Devices |-> NoName]
OneElsewhere == [d \in Devices |-> IF d = CHOOSE e \in Devices : TRUE THEN n2 ELSE NoName]

\* Faults and closed tabs meet one edit: with more, an edit can go unflagged and then
\* unsent (UnsentIsFlagged), and nothing has to converge
OneEditWithFaults == edits <= 1 \/ faults + crashes = 0

DeviceSymmetry == Permutations(Devices)
=============================================================================
