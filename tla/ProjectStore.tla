---------------------------- MODULE ProjectStore ----------------------------
(***************************************************************************)
(* features/persistence/model/projects.mjs: the transactions behind a      *)
(* project's row, statement by statement, under READ COMMITTED.            *)
(*                                                                         *)
(* What Postgres does is modelled from how the code relies on it           *)
(* (external): a statement reads a snapshot taken when it starts; one that *)
(* must write a row which another transaction holds waits, and then        *)
(* re-checks its WHERE on the newest version of that row only, so that its *)
(* subqueries still answer from the snapshot; a row stays locked until its *)
(* transaction ends.                                                       *)
(*                                                                         *)
(* `row` and `rev` are the committed state.                                *)
(***************************************************************************)
EXTENDS ProjectRow

CONSTANTS
  Txs,    \* the requests to serve
  Bodies0, \* the bodies those requests may carry, before their token
  NoTx

ASSUME StoreAssumption == NoTx \notin Txs /\ Bodies0 \subseteq Bodies

VARIABLES
  at,      \* at[t]: idle, or where the transaction of request t is
  body,    \* body[t]: the write it carries
  now,     \* now[t]: now() of the transaction, its start time
  snap,    \* snap[t]: the row as the snapshot of its first statement shows it
  pending, \* pending[t]: its uncommitted version of the row
  clock,   \* the latest start time
  lock,    \* the transaction that holds the row
  reply    \* reply[t]: what the caller is told

txVars == <<at, body, now, snap, pending, clock, lock, reply>>
vars == <<row, rev, txVars>>

NoBody == [base |-> NoToken, name |-> IdName, whole |-> TRUE,
           files |-> NoFiles, removed |-> {}]

Init ==
  /\ RowInit
  /\ at = [t \in Txs |-> "idle"]
  /\ body = [t \in Txs |-> NoBody]
  /\ now = [t \in Txs |-> NoToken]
  /\ snap = [t \in Txs |-> NoRow]
  /\ pending = [t \in Txs |-> NoRow]
  /\ clock = 0
  /\ lock = NoTx
  /\ reply = [t \in Txs |-> "none"]

Creating(t) == body[t].base = NoToken

\* settle: the refusal names a tombstone when the snapshot shows one
\* (TOMBSTONED), whatever version of the row refused the write
Refusal(r) == IF r.state = "deleted" THEN "deleted" ELSE "conflict"

\* The transaction of t ends with an answer; whatever it wrote is committed
\* before, or rolled back
End(t, answer) ==
  /\ at' = [at EXCEPT ![t] = "done"]
  /\ reply' = [reply EXCEPT ![t] = answer]
  /\ lock' = IF lock = t THEN NoTx ELSE lock

\* Time has passed since every transaction before
Begin(t) ==
  /\ at[t] = "idle"
  /\ clock' = clock + 1
  /\ clock' \in Tokens
  /\ now' = [now EXCEPT ![t] = clock']
  /\ snap' = [snap EXCEPT ![t] = row]

\* saveProject: SWAP and CREATE take their snapshot; a swap that its snapshot
\* already refuses does not wait for the row
SaveStart(t, b) ==
  /\ Begin(t)
  /\ ValidBody(b)
  /\ body' = [body EXCEPT ![t] = b]
  /\ IF b.base = NoToken \/ Lands(row, b.base)
       THEN at' = [at EXCEPT ![t] = "waiting"] /\ UNCHANGED <<lock, reply>>
       ELSE End(t, Refusal(row))
  /\ UNCHANGED <<row, rev, pending>>

\* The statement holds the row now: it writes its own version of it
Hold(t, next) ==
  /\ lock' = t
  /\ pending' = [pending EXCEPT ![t] =
       [state |-> "live", name |-> body[t].name, token |-> now[t], files |-> row.files]]
  /\ at' = [at EXCEPT ![t] = next]
  /\ UNCHANGED reply

Refuse(t, answer) == End(t, answer) /\ UNCHANGED pending

\* The name is unique among the account's live rows: 23505
HoldUnlessTaken(t, next) ==
  IF body[t].name \in Taken THEN Refuse(t, "name-taken") ELSE Hold(t, next)

\* SWAP re-checks the token on the newest version
Swap(t) ==
  /\ at[t] = "waiting" /\ ~Creating(t)
  /\ lock = NoTx
  /\ IF Lands(row, body[t].base) THEN HoldUnlessTaken(t, "writing")
                            ELSE Refuse(t, Refusal(snap[t]))
  /\ UNCHANGED <<row, rev, clock, body, now, snap>>

\* CREATE: its `not exists (project_files)` answers from the snapshot
Adoptable(t) == \/ row.state = "live" /\ IsEmpty(snap[t].files)
                \/ row.state = "deleted" /\ Kind = "tutorial"

Create(t) ==
  /\ at[t] = "waiting" /\ Creating(t)
  /\ lock = NoTx
  /\ \/ row.state = "none" /\ HoldUnlessTaken(t, "writing")
     \/ row.state # "none" /\ Adoptable(t) /\ HoldUnlessTaken(t, "checking")
     \/ row.state # "none" /\ ~Adoptable(t) /\ Refuse(t, Refusal(snap[t]))
  /\ UNCHANGED <<row, rev, clock, body, now, snap>>

\* Mutant of Recheck: the answer of CREATE's snapshot is enough
RecheckNothing(t) ==
  /\ at[t] = "checking"
  /\ at' = [at EXCEPT ![t] = "writing"]
  /\ UNCHANGED <<row, rev, clock, body, now, snap, pending, lock, reply>>

\* HAS_FILES after an adoption, in a statement of its own
Recheck(t) ==
  /\ at[t] = "checking"
  /\ IF IsEmpty(row.files)
       THEN at' = [at EXCEPT ![t] = "writing"] /\ UNCHANGED <<lock, reply>>
       ELSE End(t, "conflict")
  /\ UNCHANGED <<row, rev, clock, body, now, snap, pending>>

\* A create spends no DELETE_OTHERS: the row has no files, by the checks above
StoredFiles(files, b) ==
  IF b.base = NoToken
    THEN [p \in Paths |-> IF b.files[p] # Absent THEN b.files[p] ELSE files[p]]
    ELSE FilesAfter(files, b)

WriteFiles(t) ==
  /\ at[t] = "writing"
  /\ LET files == StoredFiles(row.files, body[t])
         refused == ~body[t].whole /\ IsEmpty(body[t].files) /\ IsEmpty(files)
     IN IF refused
          THEN End(t, "no-files") /\ UNCHANGED pending
          ELSE /\ pending' = [pending EXCEPT ![t].files = files]
               /\ at' = [at EXCEPT ![t] = "committing"]
               /\ UNCHANGED <<lock, reply>>
  /\ UNCHANGED <<row, rev, clock, body, now, snap>>

Commit(t) ==
  /\ at[t] = "committing"
  /\ row' = pending[t]
  /\ Record(now[t], row', body[t].base)
  /\ End(t, "ok")
  /\ UNCHANGED <<clock, body, now, snap, pending>>

\* The connection or the function dies, or the driver throws: rolled back
Abort(t) ==
  /\ at[t] \notin {"idle", "done"}
  /\ End(t, "error")
  /\ UNCHANGED <<row, rev, clock, body, now, snap, pending>>

\* deleteProject.  A client deletes what its mark says the account had, so the
\* row exists.  The first statement waits for the row only if its snapshot
\* shows it live
DeleteStart(t) ==
  /\ Begin(t)
  /\ row.state # "none"
  /\ at' = [at EXCEPT ![t] = IF row.state = "live" THEN "tombstoning" ELSE "erasing"]
  /\ UNCHANGED <<row, rev, body, pending, lock, reply>>

Tombstone(t) ==
  /\ at[t] = "tombstoning"
  /\ lock = NoTx
  /\ IF row.state = "live"
       THEN lock' = t /\ pending' = [pending EXCEPT ![t] = [row EXCEPT !.state = "deleted"]]
       ELSE UNCHANGED <<lock, pending>>
  /\ at' = [at EXCEPT ![t] = "erasing"]
  /\ UNCHANGED <<row, rev, clock, body, now, snap, reply>>

\* The files go in a statement of their own, with a snapshot of its own; only
\* the files are named, not the state of the row.  The commit is part of it:
\* the conversations that go in between are not this row's
Erase(t) ==
  /\ at[t] = "erasing"
  /\ row' = [(IF lock = t THEN pending[t] ELSE row) EXCEPT !.files = NoFiles]
  /\ End(t, "ok")
  /\ UNCHANGED <<rev, clock, body, now, snap, pending>>

\* pushItems -> ensureThread: a chat turn makes the parent row if there is none
Chat(t) ==
  /\ Begin(t)
  /\ lock = NoTx
  /\ IF row.state = "none" THEN EnsureParent(clock') ELSE UNCHANGED <<row, rev>>
  /\ End(t, IF row.state = "deleted" THEN "deleted" ELSE "ok")
  /\ UNCHANGED <<body, pending>>

WithBase(b, base) == [b EXCEPT !.base = base]

Next ==
  \E t \in Txs :
    \/ \E b \in Bodies0, base \in DOMAIN rev \cup {NoToken} :
         SaveStart(t, WithBase(b, base))
    \/ Swap(t)
    \/ Create(t)
    \/ Recheck(t)
    \/ WriteFiles(t)
    \/ Commit(t)
    \/ Abort(t)
    \/ DeleteStart(t)
    \/ Tombstone(t)
    \/ Erase(t)
    \/ Chat(t)

Spec == Init /\ [][Next]_vars

-----------------------------------------------------------------------------
Rows == [state : {"none", "live", "deleted"}, name : Names \cup {IdName, ""},
         token : Tokens \cup {NoToken}, files : FileSets]

TypeOK ==
  /\ row \in Rows
  /\ DOMAIN rev \subseteq Tokens
  /\ at \in [Txs -> {"idle", "waiting", "checking", "writing", "committing",
                     "tombstoning", "erasing", "done"}]
  /\ now \in [Txs -> Tokens \cup {NoToken}]
  /\ snap \in [Txs -> Rows]
  /\ pending \in [Txs -> Rows]
  /\ clock \in Nat
  /\ lock \in Txs \cup {NoTx}
  /\ reply \in [Txs -> {"none", "ok", "conflict", "deleted", "name-taken",
                        "no-files", "error"}]

IsSave(t) == body[t] # NoBody

Saved(t) == IsSave(t) /\ reply[t] = "ok"

\* An accepted write left exactly the file set its caller has: the whole set
\* sent, or the revision of its token with the patch applied.  A create that
\* mixed with another writer's files would break it.
AcceptedExactly ==
  \A t \in Txs : Saved(t) =>
    rev[now[t]].files =
      FilesAfter(IF Creating(t) THEN NoFiles ELSE rev[body[t].base].files, body[t])

\* "A refusal says which row refused it: `reason: deleted` when the row is a
\* tombstone, nothing when it is a live row that has moved on" (projects.mjs).
\* A tombstone of a project stays one, so a swap told to merge with a live
\* row must not have been refused by a tombstone.  The code does not keep this
\* for a swap that waited while deleteProject committed.
RefusalNamesTombstone ==
  [][\A t \in Txs : at[t] = "waiting" /\ reply'[t] = "conflict"
        => row.state # "deleted"]_vars
=============================================================================
