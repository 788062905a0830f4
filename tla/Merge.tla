------------------------------- MODULE Merge --------------------------------
(***************************************************************************)
(* features/persistence/model/merge.ts: the three-way merge of two copies  *)
(* of a project against what they last agreed on.                          *)
(***************************************************************************)
EXTENDS Files

CONSTANTS
  ProgramInfo, \* PROGRAM_INFO_PATH, one of the generated files
  Key,         \* the region of that file that holds the program's keypair
  Blank        \* what a region without anything holds

ASSUME MergeAssumption == Key \in Regions /\ Blank \in Vals

\* merge3, for three texts: a region only one side changed is that side's,
\* a region both changed alike is settled, any other is a conflict
Merge3Clean(base, ours, theirs) ==
  \A r \in Regions : ours[r] = theirs[r] \/ ours[r] = base[r] \/ theirs[r] = base[r]

Merge3Text(base, ours, theirs) ==
  [r \in Regions |-> IF ours[r] = base[r] THEN theirs[r] ELSE ours[r]]

\* keepLocalKeypair: the account's copy, with this device's keypair where the
\* account has none
KeepLocalKeypair(local, account) ==
  IF local = Absent \/ local[Key] = Blank THEN account
  ELSE IF account = Absent THEN [r \in Regions |-> IF r = Key THEN local[Key] ELSE Blank]
  ELSE IF account[Key] # Blank THEN account
  ELSE [account EXCEPT ![Key] = local[Key]]

\* Mutant of WithLocalKeypair: the account's copy as it is
WithoutLocalKeypair(files, local) == files

\* withLocalKeypair
WithLocalKeypair(files, local) ==
  [p \in Paths |-> IF p = ProgramInfo THEN KeepLocalKeypair(local[p], files[p])
                                      ELSE files[p]]

\* planMerge.  `base` holds the hashes of the mark (all Absent without one),
\* `kept` the contents that PgSyncBase kept for the files changed here since
Untouched(base, side, p) == HashFiles(side)[p] = base[p]

Mergeable(base, kept, local, server, p) ==
  /\ base[p] # Absent /\ kept[p] # Absent /\ Sha256(kept[p]) = base[p]
  /\ local[p] # Absent /\ server[p] # Absent
  /\ Merge3Clean(kept[p], local[p], server[p])

\* The user files that both sides changed and no rule settles
Conflicts(base, kept, local, server) ==
  {p \in Paths : /\ IsUserFile(p)
                 /\ local[p] # server[p]
                 /\ ~Untouched(base, local, p) /\ ~Untouched(base, server, p)
                 /\ ~Mergeable(base, kept, local, server, p)}

\* The merged file, where there is no conflict
Merged(base, kept, local, server, p) ==
  IF local[p] = server[p] THEN local[p]
  ELSE IF Untouched(base, local, p) THEN server[p]
  ELSE IF Untouched(base, server, p) THEN local[p]
  ELSE IF ~IsUserFile(p)
    THEN IF server[p] = Absent THEN local[p]
         ELSE IF p = ProgramInfo THEN KeepLocalKeypair(local[p], server[p])
         ELSE server[p]
  ELSE Merge3Text(kept[p], local[p], server[p])

\* settleConflicts, with a side's copy of every conflicted file
SettleConflicts(base, kept, local, server, prefer) ==
  [p \in Paths |->
     IF p \in Conflicts(base, kept, local, server)
       THEN IF prefer = "local" THEN local[p] ELSE server[p]
       ELSE Merged(base, kept, local, server, p)]

\* baseAfterMerge: the server's copy of every user file that is ahead of it
BaseAfterMerge(merged, server) ==
  [p \in Paths |-> IF IsUserFile(p) /\ merged[p] # server[p] THEN server[p] ELSE Absent]

\* mergeName: a side that did not rename takes the other's name; when both
\* did, this device's stands unless the user took the other version
TakesServerName(base, local, server, prefer) ==
  /\ server # local
  /\ local = base \/ prefer = "server"
=============================================================================
