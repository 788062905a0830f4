---------------------------- MODULE MCSyncFaults ----------------------------
(***************************************************************************)
(* ProjectSync for TLC, in two scenarios that are too large together.      *)
(* "typing": three edits, typed into rewrites too, and no faults.          *)
(* "faults": two edits, none typed into a rewrite, and a closed tab and a  *)
(* lost or late request.                                                   *)
(***************************************************************************)
EXTENDS MCProjectSync

VARIABLE scenario

faultVars == <<vars, scenario>>

\* Nothing is typed or saved while sync rewrites the workspace
Waits ==
  task' = task =>
    \A d \in Devices : <<buf'[d], typed'[d]>> # <<buf[d], typed[d]>> =>
                         task[d].job \in {"none", "push"}

FaultsInit == Init /\ scenario \in {"typing", "faults"}

FaultsNext ==
  /\ Next
  /\ UNCHANGED scenario
  /\ scenario = "typing" => faults' = 0 /\ crashes' = 0
  /\ scenario = "faults" => edits' <= 2 /\ Waits

\* No path is ProgramInfo, so nothing tells the regions apart
FaultsSymmetry == DeviceSymmetry \cup Permutations(Regions)

FaultsSpec == FaultsInit /\ [][FaultsNext]_faultVars
=============================================================================
