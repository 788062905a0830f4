----------------------------- MODULE ChatStore ------------------------------
(***************************************************************************)
(* features/persistence/model/conversations.mjs: a push of chat messages   *)
(* (appendMessages and ensureThread) against deleteProject of the same     *)
(* project (projects.mjs), statement by statement under READ COMMITTED.    *)
(*                                                                         *)
(* One account and one project.  What Postgres does is modelled from how   *)
(* the code relies on it (external): a statement reads a snapshot taken    *)
(* when it starts; a statement that must lock or write a row which another *)
(* transaction has written waits for that one to end and looks at the row  *)
(* again; `for share` and the update of deleteProject exclude each other;  *)
(* an insert waits for an uncommitted one of the same key.  The check of a *)
(* foreign key only takes `for key share`, which excludes neither.         *)
(*                                                                         *)
(* A message is its id and its version: what `updatedAt ?? createdAt`      *)
(* orders.  A push carries one message, or none (a thread's first push).   *)
(***************************************************************************)
EXTENDS Naturals, FiniteSets

CONSTANTS
  Pushes,      \* POSTs of messages
  Deletes,     \* DELETEs of the project
  Conversations,
  MessageIds,
  MaxVersion,
  ProjectKind, \* projectKindOf: only a tutorial is started again
  NoMessage,
  NoReq

ASSUME ChatStoreAssumption ==
  /\ Pushes \cap Deletes = {}
  /\ NoReq \notin Pushes \cup Deletes
  /\ NoMessage \notin MessageIds
  /\ MaxVersion \in Nat
  /\ ProjectKind \in {"project", "tutorial"}

Requests == Pushes \cup Deletes

VARIABLES
  project,  \* the committed row: none, live or deleted
  thread,   \* thread[c]: its committed row, likewise
  stored,   \* stored[c][m]: the version of the committed message, 0 for none
  pc,       \* pc[r]: the statement that request r is at
  saw,      \* saw[r]: the project row in the snapshot of its first statement
  post,     \* post[p]: the thread, the message and the version it carries
  writer,   \* the transaction that holds the project row's uncommitted version
  sharers,  \* those that hold it `for share`
  making,   \* making[c]: the transaction that has inserted thread c, uncommitted
  wrote,    \* wrote[p]: its upsert holds the message's row, uncommitted
  erases,   \* erases[d]: the threads whose live row it has tombstoned, uncommitted
  removes,  \* removes[d]: the messages that it has deleted, uncommitted
  answer,   \* answer[r]: none, ok, gone-project, gone-thread, error
  blind,    \* history: pushes that found no row and made none
  acked     \* history: acked[c][m]: the newest version answered ok since the
            \*   last delete that answered ok

rowsVars == <<project, thread, stored>>
lockVars == <<writer, sharers, making, wrote, erases, removes>>
chatVars == <<rowsVars, pc, saw, post, lockVars, answer, blind, acked>>

Empty == [m \in MessageIds |-> 0]

ChatInit ==
  /\ project \in {"none", "live"}
  /\ thread = [c \in Conversations |-> "none"]
  /\ stored = [c \in Conversations |-> Empty]
  /\ pc = [r \in Requests |-> "idle"]
  /\ saw = [r \in Requests |-> "none"]
  /\ post \in [Pushes -> Conversations \X (MessageIds \cup {NoMessage}) \X (1 .. MaxVersion)]
  /\ writer = NoReq
  /\ sharers = {}
  /\ making = [c \in Conversations |-> NoReq]
  /\ wrote = [p \in Pushes |-> FALSE]
  /\ erases = [d \in Deletes |-> {}]
  /\ removes = [d \in Deletes |-> {}]
  /\ answer = [r \in Requests |-> "none"]
  /\ blind = {}
  /\ acked = [c \in Conversations |-> Empty]

ThreadOf(p) == post[p][1]
MessageOf(p) == post[p][2]

VersionOf(p) == post[p][3]

Step(r, from, to) == pc[r] = from /\ pc' = [pc EXCEPT ![r] = to]

\* The transaction of r ends: its locks go, and what it had not committed
EndTx(r, reply) ==
  /\ answer' = [answer EXCEPT ![r] = reply]
  /\ writer' = IF writer = r THEN NoReq ELSE writer
  /\ sharers' = sharers \ {r}
  /\ making' = [c \in Conversations |-> IF making[c] = r THEN NoReq ELSE making[c]]
  /\ wrote' = [p \in Pushes |-> p # r /\ wrote[p]]
  /\ erases' = [d \in Deletes |-> IF d = r THEN {} ELSE erases[d]]
  /\ removes' = [d \in Deletes |-> IF d = r THEN {} ELSE removes[d]]

Refuse(r, from, reply) ==
  /\ Step(r, from, "done")
  /\ EndTx(r, reply)
  /\ UNCHANGED <<rowsVars, saw, post, blind, acked>>

-----------------------------------------------------------------------------
\* appendMessages: begin, and the snapshot of ensureThread's first statement
PushStart(p) ==
  /\ Step(p, "idle", "parent")
  /\ saw' = [saw EXCEPT ![p] = project]
  /\ UNCHANGED <<rowsVars, post, lockVars, answer, blind, acked>>

\* Mutant of Share: the project's row is read without a lock
ShareNothing(p) == UNCHANGED sharers

Share(p) == sharers' = sharers \cup {p}

\* The row is in the snapshot: wait for whoever is writing it, look again,
\* and hold it `for share` until the push ends
FindParent(p) ==
  /\ saw[p] # "none"
  /\ writer = NoReq
  /\ \/ project = "deleted" /\ Refuse(p, "parent", "gone-project")
     \/ /\ project = "live"
        /\ Step(p, "parent", "thread")
        /\ Share(p)
        /\ UNCHANGED <<rowsVars, saw, post, writer, making, wrote, erases, removes, answer,
                       blind, acked>>

\* It is not: the insert makes it, or finds that another request has made it
\* since.  The select has only the snapshot, so nothing is locked then
MakeParent(p) ==
  /\ saw[p] = "none"
  /\ writer = NoReq
  /\ Step(p, "parent", "thread")
  /\ \/ project = "none" /\ writer' = p /\ UNCHANGED blind
     \/ project # "none" /\ blind' = blind \cup {p} /\ UNCHANGED writer
  /\ UNCHANGED <<rowsVars, saw, post, sharers, making, wrote, erases, removes, answer, acked>>

\* insert into conversations ... on conflict do nothing
MakeThread(p) ==
  LET c == ThreadOf(p) IN
  /\ making[c] = NoReq
  /\ Step(p, "thread", "check")
  /\ making' = IF thread[c] = "none" THEN [making EXCEPT ![c] = p] ELSE making
  /\ UNCHANGED <<rowsVars, saw, post, writer, sharers, wrote, erases, removes, answer, blind, acked>>

\* The read of the thread's own row
CheckThread(p) ==
  LET c == ThreadOf(p) IN
  \/ /\ making[c] # p /\ thread[c] = "deleted"
     /\ Refuse(p, "check", "gone-thread")
  \/ /\ making[c] = p \/ thread[c] = "live"
     /\ Step(p, "check", "upsert")
     /\ UNCHANGED <<rowsVars, saw, post, lockVars, answer, blind, acked>>

\* Mutant of Newer: a message that is there is never replaced
NewerInsertOnly(p) == stored[ThreadOf(p)][MessageOf(p)] = 0

Newer(p) == VersionOf(p) > stored[ThreadOf(p)][MessageOf(p)]

\* Two uncommitted writes of one message, or one and its removal
Clash(p, r) ==
  \/ r \in Pushes /\ wrote[r] /\ ThreadOf(r) = ThreadOf(p) /\ MessageOf(r) = MessageOf(p)
  \/ r \in Deletes /\ <<ThreadOf(p), MessageOf(p)>> \in removes[r]

\* insert into messages ... on conflict do update: the row is locked, whether
\* or not the version is newer
Upsert(p) ==
  /\ Step(p, "upsert", "touch")
  /\ \/ /\ MessageOf(p) # NoMessage
        /\ \A r \in Requests \ {p} : ~Clash(p, r)
        /\ wrote' = [wrote EXCEPT ![p] = TRUE]
     \/ MessageOf(p) = NoMessage /\ UNCHANGED wrote
  /\ UNCHANGED <<rowsVars, saw, post, writer, sharers, making, erases, removes, answer, blind, acked>>

\* update conversations set updated_at: waits for a delete that has written
\* the row
Touch(p) ==
  /\ \A d \in Deletes : ThreadOf(p) \notin erases[d]
  /\ Step(p, "touch", "commit")
  /\ UNCHANGED <<rowsVars, saw, post, lockVars, answer, blind, acked>>

PushCommit(p) ==
  LET c == ThreadOf(p) m == MessageOf(p) v == VersionOf(p) IN
  /\ Step(p, "commit", "done")
  /\ project' = IF writer = p THEN "live" ELSE project
  /\ thread' = IF making[c] = p THEN [thread EXCEPT ![c] = "live"] ELSE thread
  /\ stored' = IF wrote[p] /\ Newer(p) THEN [stored EXCEPT ![c][m] = v] ELSE stored
  /\ acked' = IF m = NoMessage \/ acked[c][m] >= v THEN acked
              ELSE [acked EXCEPT ![c][m] = v]
  /\ EndTx(p, "ok")
  /\ UNCHANGED <<saw, post, blind>>

-----------------------------------------------------------------------------
\* deleteProject.  A client deletes what its mark says the account had, so the
\* row exists
DeleteStart(d) ==
  /\ project # "none"
  /\ Step(d, "idle", "tombstone")
  /\ saw' = [saw EXCEPT ![d] = project]
  /\ UNCHANGED <<rowsVars, post, lockVars, answer, blind, acked>>

\* update projects set deleted_at ... where deleted_at is null
Tombstone(d) ==
  /\ Step(d, "tombstone", "threads")
  /\ \/ saw[d] = "live" /\ writer = NoReq /\ sharers = {} /\ project = "live" /\ writer' = d
     \/ saw[d] = "live" /\ writer = NoReq /\ project = "deleted" /\ UNCHANGED writer
     \/ saw[d] = "deleted" /\ UNCHANGED writer
  /\ UNCHANGED <<rowsVars, saw, post, sharers, making, wrote, erases, removes, answer, blind, acked>>

\* update conversations set deleted_at: the live ones that the statement sees,
\* once no push is about to commit its own update of one
TombstoneThreads(d) ==
  LET live == {c \in Conversations : thread[c] = "live"} IN
  /\ \A p \in Pushes : ~(pc[p] = "commit" /\ ThreadOf(p) \in live)
  /\ \A e \in Deletes \ {d} : erases[e] \cap live = {}
  /\ Step(d, "threads", "messages")
  /\ erases' = [erases EXCEPT ![d] = live]
  /\ UNCHANGED <<rowsVars, saw, post, writer, sharers, making, wrote, removes, answer, blind, acked>>

\* delete from messages, under every conversation that the statement sees; it
\* waits for pushes that have rewritten one of them
EraseMessages(d) ==
  LET seen == {x \in Conversations \X MessageIds : stored[x[1]][x[2]] > 0} IN
  /\ \A p \in Pushes : ~(wrote[p] /\ <<ThreadOf(p), MessageOf(p)>> \in seen)
  /\ Step(d, "messages", "commit")
  /\ removes' = [removes EXCEPT ![d] = seen]
  /\ UNCHANGED <<rowsVars, saw, post, writer, sharers, making, wrote, erases, answer, blind, acked>>

\* The titles are cleared, and the transaction commits
DeleteCommit(d) ==
  /\ Step(d, "commit", "done")
  /\ project' = IF writer = d THEN "deleted" ELSE project
  /\ thread' = [c \in Conversations |-> IF c \in erases[d] THEN "deleted" ELSE thread[c]]
  /\ stored' = [c \in Conversations |->
                  [m \in MessageIds |-> IF <<c, m>> \in removes[d] THEN 0 ELSE stored[c][m]]]
  /\ acked' = [c \in Conversations |-> Empty]
  /\ EndTx(d, "ok")
  /\ UNCHANGED <<saw, post, blind>>

\* The connection or the function dies, Postgres ends a deadlock, or the driver
\* throws: rolled back
AbortTx(r) == pc[r] \notin {"idle", "done"} /\ Refuse(r, pc[r], "error")

\* saveProject: the tutorial is started again under its id (CREATE on a
\* tombstone)
StartAgain ==
  /\ ProjectKind = "tutorial"
  /\ project = "deleted"
  /\ writer = NoReq /\ sharers = {}
  /\ project' = "live"
  /\ UNCHANGED <<thread, stored, pc, saw, post, lockVars, answer, blind, acked>>

ChatNext ==
  \/ \E p \in Pushes :
       \/ PushStart(p) \/ FindParent(p) \/ MakeParent(p)
       \/ MakeThread(p) \/ CheckThread(p)
       \/ Upsert(p) \/ Touch(p) \/ PushCommit(p)
  \/ \E d \in Deletes :
       \/ DeleteStart(d) \/ Tombstone(d)
       \/ TombstoneThreads(d) \/ EraseMessages(d) \/ DeleteCommit(d)
  \/ \E r \in Requests : AbortTx(r)
  \/ StartAgain

ChatSpec == ChatInit /\ [][ChatNext]_chatVars

-----------------------------------------------------------------------------
Versions == 0 .. MaxVersion

ChatTypeOK ==
  /\ project \in {"none", "live", "deleted"}
  /\ thread \in [Conversations -> {"none", "live", "deleted"}]
  /\ stored \in [Conversations -> [MessageIds -> Versions]]
  /\ pc \in [Requests -> {"idle", "parent", "thread", "check", "upsert", "touch", "commit",
                          "tombstone", "threads", "messages", "done"}]
  /\ saw \in [Requests -> {"none", "live", "deleted"}]
  /\ post \in [Pushes -> Conversations \X (MessageIds \cup {NoMessage}) \X (1 .. MaxVersion)]
  /\ writer \in Requests \cup {NoReq}
  /\ sharers \subseteq Pushes
  /\ making \in [Conversations -> Pushes \cup {NoReq}]
  /\ wrote \in [Pushes -> BOOLEAN]
  /\ erases \in [Deletes -> SUBSET Conversations]
  /\ removes \in [Deletes -> SUBSET (Conversations \X MessageIds)]
  /\ answer \in [Requests -> {"none", "ok", "gone-project", "gone-thread", "error"}]
  /\ blind \subseteq Pushes
  /\ acked \in [Conversations -> [MessageIds -> Versions]]

Erased == project = "deleted" =>
            \A c \in Conversations : thread[c] # "live" /\ stored[c] = Empty

\* "So a delete either waits for the push and then erases what it wrote, or
\* lands first and the push, re-reading the row once the delete commits, is
\* refused": a deleted project has no live thread and no message.  The code
\* does not keep it for a push that raced another one for the project's first
\* row and so holds no lock.
ErasedStaysErased == Erased

\* The lock does order them: without such a push, a deleted project has no live
\* thread and no message, whatever was in flight when it was deleted.  The comment
\* at the lock says so.  The docstring of ensureThread says otherwise: "An ordering,
\* not a lock: under READ COMMITTED a `deleteProject` committing between the two
\* statements still leaves such a thread".  With `for share` that is left to the
\* pushes in `blind`.
LockedStaysErased == blind = {} => Erased

\* What a push was told is there: a message answered ok is kept, in that version
\* or a newer one, until the project is deleted
AckedKept ==
  \A c \in Conversations, m \in MessageIds : stored[c][m] >= acked[c][m]
=============================================================================
