----------------------------- MODULE ProjectRow -----------------------------
(***************************************************************************)
(* What the account keeps for one project, and what a write may do to it:  *)
(* the promise of features/persistence/model/projects.mjs, with every      *)
(* write one atomic step.  ProjectStore has the transactions behind it.    *)
(*                                                                         *)
(* `updated_at` is the token of a compare-and-swap.  It is the start time  *)
(* of the transaction that wrote the row, and no two writes of one row are *)
(* assumed to start in the same millisecond (`timestamp(3)`).              *)
(***************************************************************************)
EXTENDS Files

CONSTANTS
  Names,   \* names a project can have
  IdName,  \* the project's id, used as a name
  Taken,   \* those that other live rows of the account hold
  Kind,    \* projectKindOf(id): "project" or "tutorial"
  Tokens,  \* timestamps
  NoToken  \* no baseUpdatedAt: a create-only write

ASSUME RowAssumption == /\ Kind \in {"project", "tutorial"}
                        /\ Taken \subseteq Names
                        /\ Tokens \subseteq Nat
                        /\ NoToken \notin Nat

VARIABLES
  row, \* the row of the project
  rev  \* history: what each token stood for, and the token its write named

rowVars == <<row, rev>>

NoRow == [state |-> "none", name |-> "", token |-> NoToken, files |-> NoFiles]

\* A body of PUT /api/projects: the whole file set, or a patch against the
\* state that `base` names
Bodies == [base : Tokens \cup {NoToken}, name : Names, whole : BOOLEAN,
           files : FileSets, removed : SUBSET Paths]

\* describeWrite: what the API lets through to the database
ValidBody(b) ==
  IF b.whole THEN ~IsEmpty(b.files) /\ b.removed = {}
             ELSE b.base # NoToken /\ b.removed \cap Present(b.files) = {}

\* Mutant of Lands: the swap does not compare the token
LandsAnyToken(r, base) ==
  IF base # NoToken
    THEN r.state = "live"
    ELSE \/ r.state = "none"
         \/ r.state = "live" /\ IsEmpty(r.files)
         \/ r.state = "deleted" /\ Kind = "tutorial"

\* Mutant of Lands: the swap does not ask whether the row is deleted
LandsOnTombstone(r, base) ==
  IF base # NoToken
    THEN r.token = base
    ELSE \/ r.state = "none"
         \/ r.state = "live" /\ IsEmpty(r.files)
         \/ r.state = "deleted" /\ Kind = "tutorial"

\* Mutant of Lands: a create takes any live row
LandsOnFiles(r, base) ==
  IF base # NoToken
    THEN r.state = "live" /\ r.token = base
    ELSE \/ r.state \in {"none", "live"}
         \/ r.state = "deleted" /\ Kind = "tutorial"

\* The swap lands on the live row whose token the caller read; a create on no
\* row, on a live row without files (a chat turn made it), or on the
\* tombstone of a tutorial
Lands(r, base) ==
  IF base # NoToken
    THEN r.state = "live" /\ r.token = base
    ELSE \/ r.state = "none"
         \/ r.state = "live" /\ IsEmpty(r.files)
         \/ r.state = "deleted" /\ Kind = "tutorial"

\* DELETE_OTHERS and UPSERT_FILES, or DELETE_NAMED and UPSERT_FILES
FilesAfter(files, b) ==
  [p \in Paths |-> IF b.files[p] # Absent THEN b.files[p]
                   ELSE IF b.whole \/ p \in b.removed THEN Absent
                   ELSE files[p]]

\* A patch that adds nothing and leaves nothing is rolled back
LeavesNothing(r, b) == ~b.whole /\ IsEmpty(b.files) /\ IsEmpty(FilesAfter(r.files, b))

\* The row a landed write leaves
Written(r, b, token) ==
  [state |-> "live", name |-> b.name, token |-> token,
   files |-> FilesAfter(r.files, b)]

RowInit == row = NoRow /\ rev = << >>

\* The write with token `token` left row r, and named `base` as what it replaces
Record(token, r, base) ==
  rev' = [k \in DOMAIN rev \cup {token} |->
            IF k = token THEN [files |-> r.files, name |-> r.name, base |-> base]
                         ELSE rev[k]]

\* A write lands on the revision it names, under a token nobody has seen, and
\* leaves at least one file
Save(base) ==
  /\ Lands(row, base)
  /\ row'.state = "live"
  /\ row'.token \in Tokens \ DOMAIN rev
  /\ row'.name \in Names \ Taken
  /\ row'.files \in FileSets /\ ~IsEmpty(row'.files)
  /\ Record(row'.token, row', base)

\* deleteProject: the row stays as a tombstone, its files go
Delete ==
  /\ row.state # "none"
  /\ row' = [row EXCEPT !.state = "deleted", !.files = NoFiles]
  /\ UNCHANGED rev

\* ensureThread: a chat turn makes the parent row, under the id as its name
EnsureParent(token) ==
  /\ row.state = "none"
  /\ token \in Tokens \ DOMAIN rev
  /\ row' = [state |-> "live", name |-> IdName, token |-> token, files |-> NoFiles]
  /\ Record(token, row', NoToken)

RowNext ==
  \/ \E base \in DOMAIN rev \cup {NoToken} : Save(base)
  \/ Delete
  \/ \E token \in Tokens : EnsureParent(token)

RowSpec == RowInit /\ [][RowNext]_rowVars
=============================================================================
