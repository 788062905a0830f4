------------------------------- MODULE Files --------------------------------
(***************************************************************************)
(* File sets, as features/persistence/model/snapshot.ts handles them.      *)
(*                                                                         *)
(* A snapshot maps every path of a project to its content, Absent where    *)
(* the project has no such file.  A text is abstracted to what its regions *)
(* hold: regions are stretches of lines that neither overlap nor touch, so *)
(* two edits fall in one region exactly when merge3 groups their hunks.    *)
(***************************************************************************)
EXTENDS Naturals, FiniteSets

CONSTANTS
  Paths,     \* the paths a project can have
  Generated, \* those in SYNCED_WORKSPACE_FILES, written by the IDE itself
  Regions,   \* the regions of a text
  Vals,      \* what a region can hold
  Absent     \* no file

Contents == [Regions -> Vals]

\* The files of a project, Absent where there is none
FileSets == [Paths -> Contents \cup {Absent}]

Present(files) == {p \in DOMAIN files : files[p] # Absent}

NoFiles == [p \in Paths |-> Absent]

IsEmpty(files) == Present(files) = {}

IsUserFile(p) == p \notin Generated

\* SHA-256: equal hashes mean equal content, and a hash is not a content
Sha256(content) == [sha256 |-> content]

ASSUME FilesAssumption == /\ Generated \subseteq Paths
                          /\ Absent \notin Contents
                          /\ \A c \in Contents : Sha256(c) # Absent

HashFiles(files) ==
  [p \in Paths |-> IF files[p] = Absent THEN Absent ELSE Sha256(files[p])]

Hashes == [Paths -> {Sha256(c) : c \in Contents} \cup {Absent}]

\* diffFiles: the patch that takes `base` to `next`, both given by hashes
DiffFiles(base, next) ==
  [changed |-> {p \in Present(next) : next[p] # base[p]},
   removed |-> Present(base) \ Present(next)]

\* sameUserFiles: generated files do not count
SameUserFiles(a, b) == \A p \in Paths : IsUserFile(p) => a[p] = b[p]

\* `files` with the paths outside `paths` dropped
Only(files, paths) == [p \in Paths |-> IF p \in paths THEN files[p] ELSE Absent]
=============================================================================
