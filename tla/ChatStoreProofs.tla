--------------------------- MODULE ChatStoreProofs --------------------------
(***************************************************************************)
(* What appendMessages and deleteProject promise each other, for any       *)
(* number of pushes, deletes, conversations and messages, for a project    *)
(* and for a tutorial that is started again.                               *)
(***************************************************************************)
EXTENDS ChatStore, TLAPS

\* The statements of a push that has found or made the project's row
Inside == {"thread", "check", "upsert", "touch", "commit"}

\* AckedKept is not inductive: that an answer "ok" is true of the message needs that the
\* push has locked the message's row before it commits
Upserted ==
  \A p \in Pushes :
    pc[p] \in {"touch", "commit"} /\ MessageOf(p) # NoMessage => wrote[p]

\* The lock: a push inside holds the row, a delete that writes it has it alone, and who
\* holds it for share holds a live project's
Locked ==
  /\ \A p \in Pushes : pc[p] \in Inside => p \in sharers \/ writer = p
  /\ writer \in Deletes => sharers = {}
  /\ sharers # {} => project = "live"

\* What a delete that writes the row has found is all there is
Swept ==
  \A d \in Deletes : writer = d =>
    /\ pc[d] \in {"messages", "commit"} =>
         \A c \in Conversations : thread[c] = "live" => c \in erases[d]
    /\ pc[d] = "commit" =>
         \A c \in Conversations, m \in MessageIds : stored[c][m] > 0 => <<c, m>> \in removes[d]

LockInv == ChatTypeOK /\ Upserted /\ AckedKept /\ (blind = {} => Locked /\ Swept /\ Erased)

Stages == {"idle", "parent", "thread", "check", "upsert", "touch", "commit", "tombstone",
           "threads", "messages", "done"}

\* No request but r takes a step
Alone(r) == \A s \in Requests \ {r} : pc'[s] = pc[s]

-----------------------------------------------------------------------------
\* pc after a step, and after the end of a transaction
LEMMA StepIs ==
  ASSUME ChatTypeOK, NEW r \in Requests, NEW from, NEW to \in Stages, Step(r, from, to)
  PROVE  /\ pc[r] = from /\ pc'[r] = to /\ Alone(r)
         /\ pc' \in [Requests -> Stages]
BY DEF ChatTypeOK, Step, Alone, Stages

LEMMA EndTxIs ==
  ASSUME ChatTypeOK, NEW r \in Requests, EndTx(r, "ok") \/ EndTx(r, "error")
           \/ EndTx(r, "gone-project") \/ EndTx(r, "gone-thread")
  PROVE  /\ answer' \in [Requests -> {"none", "ok", "gone-project", "gone-thread", "error"}]
         /\ writer' \in Requests \cup {NoReq} /\ sharers' \subseteq Pushes
         /\ making' \in [Conversations -> Pushes \cup {NoReq}]
         /\ wrote' \in [Pushes -> BOOLEAN]
         /\ erases' \in [Deletes -> SUBSET Conversations]
         /\ removes' \in [Deletes -> SUBSET (Conversations \X MessageIds)]
         /\ writer' = IF writer = r THEN NoReq ELSE writer
         /\ sharers' = sharers \ {r}
         /\ \A p \in Pushes \ {r} : wrote'[p] = wrote[p]
         /\ \A d \in Deletes \ {r} : erases'[d] = erases[d] /\ removes'[d] = removes[d]
<1>1. /\ answer' \in [Requests -> {"none", "ok", "gone-project", "gone-thread", "error"}]
      /\ writer' = IF writer = r THEN NoReq ELSE writer
      /\ sharers' = sharers \ {r}
  BY DEF ChatTypeOK, EndTx
<1>2. making' = [c \in Conversations |-> IF making[c] = r THEN NoReq ELSE making[c]]
  BY DEF EndTx
<1>3. wrote' = [p \in Pushes |-> p # r /\ wrote[p]]
  BY DEF EndTx
<1>4. /\ erases' = [d \in Deletes |-> IF d = r THEN {} ELSE erases[d]]
      /\ removes' = [d \in Deletes |-> IF d = r THEN {} ELSE removes[d]]
  BY DEF EndTx
<1>5. wrote' \in [Pushes -> BOOLEAN] /\ \A p \in Pushes \ {r} : wrote'[p] = wrote[p]
  BY <1>3 DEF ChatTypeOK
<1> QED BY <1>1, <1>2, <1>4, <1>5 DEF ChatTypeOK

\* A transaction that is refused or rolled back leaves what is committed
LEMMA RefuseKeeps ==
  ASSUME LockInv, NEW r \in Requests, NEW from,
         Refuse(r, from, "error") \/ Refuse(r, from, "gone-project")
           \/ Refuse(r, from, "gone-thread")
  PROVE  LockInv'
<1>1. /\ Step(r, from, "done") /\ UNCHANGED <<project, thread, stored, saw, post, blind, acked>>
      /\ EndTx(r, "error") \/ EndTx(r, "gone-project") \/ EndTx(r, "gone-thread")
  BY DEF Refuse, rowsVars
<1>2. ChatTypeOK /\ "done" \in Stages
  BY DEF LockInv, Stages
<1>3. pc'[r] = "done" /\ Alone(r) /\ pc' \in [Requests -> Stages]
  BY <1>1, <1>2, StepIs
<1>4. /\ answer' \in [Requests -> {"none", "ok", "gone-project", "gone-thread", "error"}]
      /\ writer' \in Requests \cup {NoReq} /\ sharers' \subseteq Pushes
      /\ making' \in [Conversations -> Pushes \cup {NoReq}]
      /\ wrote' \in [Pushes -> BOOLEAN]
      /\ erases' \in [Deletes -> SUBSET Conversations]
      /\ removes' \in [Deletes -> SUBSET (Conversations \X MessageIds)]
  BY <1>1, <1>2, EndTxIs
<1>5. /\ writer' = IF writer = r THEN NoReq ELSE writer
      /\ sharers' = sharers \ {r}
      /\ \A p \in Pushes \ {r} : wrote'[p] = wrote[p]
      /\ \A d \in Deletes \ {r} : erases'[d] = erases[d] /\ removes'[d] = removes[d]
  BY <1>1, <1>2, EndTxIs
<1>6. ChatTypeOK'
  BY <1>1, <1>2, <1>3, <1>4 DEF ChatTypeOK, Stages
<1>7. Upserted'
  BY <1>1, <1>3, <1>5 DEF LockInv, Upserted, Alone, Requests, MessageOf
<1>8. AckedKept'
  BY <1>1 DEF LockInv, AckedKept
<1>9. ASSUME blind = {} PROVE Locked' /\ Swept' /\ Erased'
  <2>1. Locked'
    BY <1>1, <1>3, <1>5, <1>9, ChatStoreAssumption DEF LockInv, Locked, Alone, Requests, Inside
  <2>2. Swept'
    BY <1>1, <1>3, <1>5, <1>9, ChatStoreAssumption DEF LockInv, Swept, Alone, Requests
  <2>3. Erased'
    BY <1>1, <1>9 DEF LockInv, Erased
  <2> QED BY <2>1, <2>2, <2>3
<1> QED BY <1>1, <1>6, <1>7, <1>8, <1>9 DEF LockInv

-----------------------------------------------------------------------------
\* A push up to its first write
LEMMA StartKeeps ==
  ASSUME LockInv, NEW r \in Requests, PushStart(r) \/ DeleteStart(r)
  PROVE  LockInv'
<1>1. /\ Step(r, "idle", "parent") \/ Step(r, "idle", "tombstone")
      /\ saw' = [saw EXCEPT ![r] = project]
      /\ UNCHANGED <<project, thread, stored, post, writer, sharers, making, wrote, erases,
                     removes, answer, blind, acked>>
  BY DEF PushStart, DeleteStart, rowsVars, lockVars
<1>2. ChatTypeOK /\ "parent" \in Stages /\ "tombstone" \in Stages
  BY DEF LockInv, Stages
<1>3. /\ pc'[r] \in {"parent", "tombstone"} /\ Alone(r) /\ pc' \in [Requests -> Stages]
  BY <1>1, <1>2, StepIs
<1>4. ChatTypeOK'
  BY <1>1, <1>2, <1>3 DEF ChatTypeOK, Stages
<1>5. Upserted' /\ AckedKept'
  BY <1>1, <1>3 DEF LockInv, Upserted, AckedKept, Alone, Requests, MessageOf
<1>6. ASSUME blind = {} PROVE Locked' /\ Swept' /\ Erased'
  <2>1. Locked'
    BY <1>1, <1>3, <1>6 DEF LockInv, Locked, Alone, Requests, Inside
  <2>2. Swept'
    BY <1>1, <1>3, <1>6 DEF LockInv, Swept, Alone, Requests
  <2>3. Erased'
    BY <1>1, <1>6 DEF LockInv, Erased
  <2> QED BY <2>1, <2>2, <2>3
<1> QED BY <1>1, <1>4, <1>5, <1>6 DEF LockInv

\* The project's row is found and locked, or made, or neither
LEMMA ParentKeeps ==
  ASSUME LockInv, NEW p \in Pushes, FindParent(p) \/ MakeParent(p)
  PROVE  LockInv'
<1>1. CASE Refuse(p, "parent", "gone-project")
  BY <1>1, RefuseKeeps DEF Requests
<1>2. CASE ~Refuse(p, "parent", "gone-project")
  <2>1. /\ Step(p, "parent", "thread") /\ writer = NoReq
        /\ UNCHANGED <<project, thread, stored, saw, post, making, wrote, erases, removes,
                       answer, acked>>
    BY <1>2 DEF FindParent, MakeParent, rowsVars
  <2>2. \/ project = "live" /\ sharers' = sharers \cup {p} /\ UNCHANGED <<writer, blind>>
        \/ project = "none" /\ writer' = p /\ UNCHANGED <<sharers, blind>>
        \/ blind' = blind \cup {p} /\ UNCHANGED <<writer, sharers>>
    BY <1>2 DEF FindParent, MakeParent, Share
  <2>3. ChatTypeOK /\ "thread" \in Stages
    BY DEF LockInv, Stages
  <2>4. pc'[p] = "thread" /\ Alone(p) /\ pc' \in [Requests -> Stages]
    BY <2>1, <2>3, StepIs DEF Requests
  <2>5. ChatTypeOK'
    BY <2>1, <2>2, <2>3, <2>4 DEF ChatTypeOK, Stages, Requests
  <2>6. Upserted' /\ AckedKept'
    BY <2>1, <2>4 DEF LockInv, Upserted, AckedKept, Alone, Requests, MessageOf
  <2>7. ASSUME blind' = {} PROVE Locked' /\ Swept' /\ Erased'
    <3>1. /\ \/ project = "live" /\ sharers' = sharers \cup {p} /\ UNCHANGED writer
             \/ project = "none" /\ writer' = p /\ UNCHANGED sharers
          /\ blind = {}
      BY <2>2, <2>7
    <3>2. NoReq \notin Deletes /\ p \notin Deletes
      BY ChatStoreAssumption
    <3>3. Locked'
      BY <2>1, <2>4, <3>1, <3>2, ChatStoreAssumption DEF LockInv, Locked, Alone, Requests
    <3>4. Swept'
      BY <2>1, <3>1, <3>2 DEF Swept
    <3>5. Erased'
      BY <2>1, <3>1 DEF LockInv, Erased
    <3> QED BY <3>3, <3>4, <3>5
  <2> QED BY <2>5, <2>6, <2>7 DEF LockInv
<1> QED BY <1>1, <1>2

\* The statements of a push between the project's row and its commit
LEMMA InsideKeeps ==
  ASSUME LockInv, NEW p \in Pushes,
         MakeThread(p) \/ CheckThread(p) \/ Upsert(p) \/ Touch(p)
  PROVE  LockInv'
<1>1. CASE Refuse(p, "check", "gone-thread")
  BY <1>1, RefuseKeeps DEF Requests
<1>2. CASE ~Refuse(p, "check", "gone-thread")
  <2>1. PICK from \in Inside, to \in Inside :
          /\ Step(p, from, to) /\ to # "thread"
          /\ to = "touch" /\ MessageOf(p) # NoMessage => wrote' = [wrote EXCEPT ![p] = TRUE]
          /\ to = "commit" => from = "touch"
    BY <1>2 DEF MakeThread, CheckThread, Upsert, Touch, Inside
  <2>2. /\ UNCHANGED <<project, thread, stored, saw, post, writer, sharers, erases, removes,
                       answer, blind, acked>>
        /\ wrote' = wrote \/ wrote' = [wrote EXCEPT ![p] = TRUE]
        /\ making' = making \/ making' = [making EXCEPT ![ThreadOf(p)] = p]
    BY <1>2 DEF MakeThread, CheckThread, Upsert, Touch, rowsVars, lockVars
  <2>3. ChatTypeOK /\ to \in Stages /\ p \in Requests /\ p \notin Deletes
    BY ChatStoreAssumption DEF LockInv, Stages, Inside, Requests
  <2>4. pc[p] = from /\ pc'[p] = to /\ Alone(p) /\ pc' \in [Requests -> Stages]
    <3>1. Step(p, from, to)
      BY <2>1
    <3> QED BY ONLY <2>3, <3>1, StepIs
  <2>5. ChatTypeOK'
    <3>1. wrote' \in [Pushes -> BOOLEAN]
      BY <2>2, <2>3 DEF ChatTypeOK
    <3>2. making' \in [Conversations -> Pushes \cup {NoReq}]
      BY <2>2, <2>3 DEF ChatTypeOK
    <3> QED BY <2>2, <2>3, <2>4, <3>1, <3>2 DEF ChatTypeOK, Stages
  <2>6. Upserted'
    <3>1. \A q \in Pushes \ {p} : pc'[q] = pc[q] /\ (wrote[q] => wrote'[q])
      <4>1. \A q \in Pushes \ {p} : pc'[q] = pc[q]
        BY <2>4 DEF Alone, Requests
      <4>2. \A q \in Pushes \ {p} : wrote'[q] = wrote[q]
        BY <2>2, <2>3 DEF ChatTypeOK
      <4> QED BY <4>1, <4>2
    <3>2. pc'[p] \in {"touch", "commit"} /\ MessageOf(p) # NoMessage => wrote'[p]
      <4>1. CASE wrote' = [wrote EXCEPT ![p] = TRUE]
        <5>1. wrote'[p] = TRUE
          BY <2>3, <4>1 DEF ChatTypeOK
        <5> QED BY <5>1
      <4>2. CASE wrote' = wrote /\ to = "commit"
        BY <2>1, <2>4, <4>2 DEF LockInv, Upserted
      <4> QED BY <2>1, <2>2, <2>4, <4>1, <4>2
    <3> QED BY <2>2, <3>1, <3>2 DEF LockInv, Upserted, MessageOf
  <2>7. AckedKept'
    BY <2>2 DEF LockInv, AckedKept
  <2>8. ASSUME blind' = {} PROVE Locked' /\ Swept' /\ Erased'
    <3>1. Locked'
      BY <2>1, <2>2, <2>4, <2>8 DEF LockInv, Locked, Alone, Requests
    <3>2. Swept'
      BY <2>2, <2>3, <2>4, <2>8 DEF LockInv, Swept, Alone, Requests
    <3>3. Erased'
      BY <2>2, <2>8 DEF LockInv, Erased
    <3> QED BY <3>1, <3>2, <3>3
  <2> QED BY <2>5, <2>6, <2>7, <2>8 DEF LockInv
<1> QED BY <1>1, <1>2

\* One version is written in a table of messages
LEMMA TableUpdate ==
  ASSUME NEW t \in [Conversations -> [MessageIds -> Versions]], NEW c \in Conversations,
         NEW m, NEW v \in Versions, NEW u, u = [t EXCEPT ![c][m] = v]
  PROVE  /\ u \in [Conversations -> [MessageIds -> Versions]]
         /\ \A e \in Conversations, n \in MessageIds :
              u[e][n] = IF e = c /\ n = m THEN v ELSE t[e][n]
<1>1. u = [t EXCEPT ![c] = [t[c] EXCEPT ![m] = v]]
  OBVIOUS
<1>2. t[c] \in [MessageIds -> Versions]
  OBVIOUS
<1> DEFINE row == [t[c] EXCEPT ![m] = v]
<1>3. row \in [MessageIds -> Versions] /\ \A n \in MessageIds : row[n] = IF n = m THEN v ELSE t[c][n]
  BY <1>2
<1> HIDE DEF row
<1>4. u = [t EXCEPT ![c] = row]
  BY <1>1 DEF row
<1> QED BY <1>3, <1>4

\* The push commits: its message is there in its version or a newer one, and a push that
\* holds the project's row commits under a live project
LEMMA PushCommitKeeps ==
  ASSUME LockInv, NEW p \in Pushes, PushCommit(p)
  PROVE  LockInv'
<1> DEFINE c == ThreadOf(p) m == MessageOf(p) v == VersionOf(p)
<1>1. /\ ChatTypeOK /\ p \in Requests /\ p \notin Deletes /\ "done" \in Stages
      /\ Step(p, "commit", "done") /\ EndTx(p, "ok")
  BY ChatStoreAssumption DEF LockInv, Requests, Stages, PushCommit
<1>2. /\ project' = IF writer = p THEN "live" ELSE project
      /\ thread' = IF making[c] = p THEN [thread EXCEPT ![c] = "live"] ELSE thread
      /\ stored' = IF wrote[p] /\ v > stored[c][m] THEN [stored EXCEPT ![c][m] = v] ELSE stored
      /\ acked' = IF m = NoMessage \/ acked[c][m] >= v THEN acked
                  ELSE [acked EXCEPT ![c][m] = v]
      /\ UNCHANGED <<saw, post, blind>>
  BY DEF PushCommit, Newer
<1>3. /\ c \in Conversations /\ m \in MessageIds \cup {NoMessage} /\ v \in 1 .. MaxVersion
      /\ MaxVersion \in Nat
  BY <1>1, ChatStoreAssumption DEF ChatTypeOK, ThreadOf, MessageOf, VersionOf
<1>4. pc[p] = "commit" /\ pc'[p] = "done" /\ Alone(p) /\ pc' \in [Requests -> Stages]
  BY ONLY <1>1, StepIs
<1>5. /\ answer' \in [Requests -> {"none", "ok", "gone-project", "gone-thread", "error"}]
      /\ writer' \in Requests \cup {NoReq} /\ sharers' \subseteq Pushes
      /\ making' \in [Conversations -> Pushes \cup {NoReq}]
      /\ wrote' \in [Pushes -> BOOLEAN]
      /\ erases' \in [Deletes -> SUBSET Conversations]
      /\ removes' \in [Deletes -> SUBSET (Conversations \X MessageIds)]
  BY ONLY <1>1, EndTxIs
<1>6. /\ writer' = IF writer = p THEN NoReq ELSE writer
      /\ sharers' = sharers \ {p}
      /\ \A q \in Pushes \ {p} : wrote'[q] = wrote[q]
      /\ \A d \in Deletes \ {p} : erases'[d] = erases[d] /\ removes'[d] = removes[d]
  BY ONLY <1>1, EndTxIs
<1>7. m # NoMessage => wrote[p]
  BY <1>4 DEF LockInv, Upserted
<1>8. /\ stored' \in [Conversations -> [MessageIds -> Versions]]
      /\ \A e \in Conversations, n \in MessageIds : stored'[e][n] >= stored[e][n]
      /\ m # NoMessage => stored'[c][m] >= v
  <2>0. v \in Versions
    BY <1>3 DEF Versions
  <2>1. stored \in [Conversations -> [MessageIds -> Versions]]
    BY <1>1 DEF ChatTypeOK
  <2>2. CASE wrote[p] /\ v > stored[c][m]
    <3>1. stored' = [stored EXCEPT ![c][m] = v]
      BY <1>2, <2>2
    <3>2. stored' \in [Conversations -> [MessageIds -> Versions]]
      BY <1>3, <2>1, <2>0, <3>1, TableUpdate
    <3>3. \A e \in Conversations, n \in MessageIds :
            stored'[e][n] = IF e = c /\ n = m THEN v ELSE stored[e][n]
      BY <1>3, <2>1, <2>0, <3>1, TableUpdate
    <3>4. ASSUME NEW e \in Conversations, NEW n \in MessageIds
          PROVE  stored'[e][n] >= stored[e][n]
      BY <1>3, <2>1, <2>2, <3>3 DEF Versions
    <3>5. ASSUME m # NoMessage PROVE stored'[c][m] >= v
      BY <1>3, <3>3, <3>5
    <3> QED BY <3>2, <3>4, <3>5
  <2>3. CASE ~(wrote[p] /\ v > stored[c][m])
    <3>1. stored' = stored
      BY <1>2, <2>3
    <3>2. ASSUME m # NoMessage PROVE stored[c][m] >= v
      BY <1>3, <1>7, <2>1, <2>3, <3>2 DEF Versions
    <3>3. ASSUME NEW e \in Conversations, NEW n \in MessageIds PROVE stored[e][n] \in Nat
      BY <2>1 DEF Versions
    <3> QED BY <2>1, <3>1, <3>2, <3>3
  <2> QED BY <2>2, <2>3
<1>9. /\ acked' \in [Conversations -> [MessageIds -> Versions]]
      /\ \A e \in Conversations, n \in MessageIds :
           \/ acked'[e][n] = acked[e][n]
           \/ e = c /\ n = m /\ acked'[e][n] = v
  <2>1. acked \in [Conversations -> [MessageIds -> Versions]]
    BY <1>1 DEF ChatTypeOK
  <2>2. CASE acked' = acked
    BY <2>1, <2>2
  <2>3. CASE acked' = [acked EXCEPT ![c][m] = v]
    <3>1. v \in Versions
      BY <1>3 DEF Versions
    <3>2. acked' \in [Conversations -> [MessageIds -> Versions]]
      BY <1>3, <2>1, <2>3, <3>1, TableUpdate
    <3>3. \A e \in Conversations, n \in MessageIds :
            acked'[e][n] = IF e = c /\ n = m THEN v ELSE acked[e][n]
      BY <1>3, <2>1, <2>3, <3>1, TableUpdate
    <3> QED BY <3>2, <3>3
  <2> QED BY <1>2, <2>2, <2>3
<1>10. AckedKept'
  <2> SUFFICES ASSUME NEW e \in Conversations, NEW n \in MessageIds
               PROVE  stored'[e][n] >= acked'[e][n]
    BY DEF AckedKept
  <2>1. /\ stored[e][n] \in Nat /\ stored'[e][n] \in Nat /\ acked[e][n] \in Nat
        /\ stored[e][n] >= acked[e][n]
    BY <1>1, <1>8 DEF LockInv, AckedKept, ChatTypeOK, Versions
  <2>2. n # NoMessage
    BY ChatStoreAssumption
  <2> QED BY <1>8, <1>9, <2>1, <2>2
<1>11. ChatTypeOK'
  <2>1. project' \in {"none", "live", "deleted"}
    BY <1>1, <1>2 DEF ChatTypeOK
  <2>2. thread' \in [Conversations -> {"none", "live", "deleted"}]
    BY <1>1, <1>2 DEF ChatTypeOK
  <2> QED BY <1>1, <1>2, <1>4, <1>5, <1>8, <1>9, <2>1, <2>2 DEF ChatTypeOK, Stages
<1>12. Upserted'
  <2>1. \A q \in Pushes \ {p} : pc'[q] = pc[q] /\ MessageOf(q)' = MessageOf(q)
    BY <1>2, <1>4 DEF Alone, Requests, MessageOf
  <2> QED BY <1>4, <1>6, <2>1 DEF LockInv, Upserted
<1>13. ASSUME blind' = {} PROVE Locked' /\ Swept' /\ Erased'
  <2>1. blind = {} /\ Locked /\ (p \in sharers \/ writer = p)
    BY <1>2, <1>4, <1>13 DEF LockInv, Locked, Inside
  <2>2. writer \notin Deletes /\ writer' \notin Deletes /\ project' = "live"
    BY <1>1, <1>2, <1>6, <2>1, ChatStoreAssumption DEF Locked
  <2>3. Locked'
    BY <1>4, <1>6, <2>1, <2>2 DEF Locked, Alone, Requests, Inside
  <2>4. Swept' /\ Erased'
    BY <2>2 DEF Swept, Erased
  <2> QED BY <2>3, <2>4
<1> QED BY <1>10, <1>11, <1>12, <1>13 DEF LockInv

-----------------------------------------------------------------------------
\* A delete up to its commit: what it finds is all there is, once it has the row
LEMMA DeletingKeeps ==
  ASSUME LockInv, NEW d \in Deletes,
         Tombstone(d) \/ TombstoneThreads(d) \/ EraseMessages(d)
  PROVE  LockInv'
<1>1. ChatTypeOK /\ d \in Requests /\ d \notin Pushes /\ d # NoReq
  BY ChatStoreAssumption DEF LockInv, Requests
<1>2. /\ UNCHANGED <<project, thread, stored, saw, post, sharers, making, wrote, answer, blind,
                     acked>>
  BY DEF Tombstone, TombstoneThreads, EraseMessages, rowsVars
<1>3. PICK to \in {"threads", "messages", "commit"} :
        /\ pc'[d] = to /\ Alone(d) /\ pc' \in [Requests -> Stages]
        /\ pc[d] = CASE to = "threads" -> "tombstone" [] to = "messages" -> "threads"
                     [] to = "commit" -> "messages"
        /\ Step(d, pc[d], to)
  <2>1. {"threads", "messages", "commit"} \subseteq Stages
    BY DEF Stages
  <2>2. CASE Tombstone(d)
    <3>1. Step(d, "tombstone", "threads")
      BY <2>2 DEF Tombstone
    <3>2. pc[d] = "tombstone" /\ pc'[d] = "threads" /\ Alone(d) /\ pc' \in [Requests -> Stages]
      BY <1>1, <2>1, <3>1, StepIs
    <3> QED BY <3>1, <3>2
  <2>3. CASE TombstoneThreads(d)
    <3>1. Step(d, "threads", "messages")
      BY <2>3 DEF TombstoneThreads
    <3>2. pc[d] = "threads" /\ pc'[d] = "messages" /\ Alone(d) /\ pc' \in [Requests -> Stages]
      BY <1>1, <2>1, <3>1, StepIs
    <3> QED BY <3>1, <3>2
  <2>4. CASE EraseMessages(d)
    <3>1. Step(d, "messages", "commit")
      BY <2>4 DEF EraseMessages
    <3>2. pc[d] = "messages" /\ pc'[d] = "commit" /\ Alone(d) /\ pc' \in [Requests -> Stages]
      BY <1>1, <2>1, <3>1, StepIs
    <3> QED BY <3>1, <3>2
  <2> QED BY <2>2, <2>3, <2>4
<1>4. /\ to = "threads" => /\ writer' \in {d, writer} /\ UNCHANGED <<erases, removes>>
                           /\ writer' = writer \/ (writer = NoReq /\ sharers = {})
      /\ to = "messages" => /\ erases' = [erases EXCEPT ![d] = {c \in Conversations : thread[c] = "live"}]
                            /\ UNCHANGED <<writer, removes>>
      /\ to = "commit" => /\ removes' = [removes EXCEPT ![d] =
                                {x \in Conversations \X MessageIds : stored[x[1]][x[2]] > 0}]
                          /\ UNCHANGED <<writer, erases>>
  BY <1>3 DEF Tombstone, TombstoneThreads, EraseMessages, Step
<1>5. ChatTypeOK'
  <2>1. writer' \in Requests \cup {NoReq}
    BY <1>1, <1>3, <1>4 DEF ChatTypeOK
  <2> DEFINE live == {c \in Conversations : thread[c] = "live"}
             seen == {x \in Conversations \X MessageIds : stored[x[1]][x[2]] > 0}
  <2>2. live \in SUBSET Conversations /\ seen \in SUBSET (Conversations \X MessageIds)
    OBVIOUS
  <2>3. /\ erases' = erases \/ erases' = [erases EXCEPT ![d] = live]
        /\ removes' = removes \/ removes' = [removes EXCEPT ![d] = seen]
    BY <1>3, <1>4
  <2> HIDE DEF live, seen
  <2>4. erases' \in [Deletes -> SUBSET Conversations]
    BY <1>1, <2>2, <2>3 DEF ChatTypeOK
  <2>5. removes' \in [Deletes -> SUBSET (Conversations \X MessageIds)]
    BY <1>1, <2>2, <2>3 DEF ChatTypeOK
  <2> QED BY <1>1, <1>2, <1>3, <2>1, <2>4, <2>5 DEF ChatTypeOK, Stages
<1>6. Upserted' /\ AckedKept'
  BY <1>1, <1>2, <1>3 DEF LockInv, Upserted, AckedKept, Alone, Requests, MessageOf
<1>7. ASSUME blind' = {} PROVE Locked' /\ Swept' /\ Erased'
  <2>1. Locked /\ Swept /\ Erased
    BY <1>2, <1>7 DEF LockInv
  <2>2. Locked'
    <3>1. \A p \in Pushes : pc'[p] = pc[p]
      BY <1>1, <1>3 DEF Alone, Requests
    <3>2. writer' = writer \/ (writer = NoReq /\ sharers = {})
      BY <1>3, <1>4
    <3>3. NoReq \notin Pushes
      BY ChatStoreAssumption
    <3> QED BY <1>2, <2>1, <3>1, <3>2, <3>3 DEF Locked
  <2>3. ASSUME NEW e \in Deletes, writer' = e
        PROVE  /\ pc'[e] \in {"messages", "commit"} =>
                    \A c \in Conversations : thread'[c] = "live" => c \in erases'[e]
               /\ pc'[e] = "commit" =>
                    \A c \in Conversations, m \in MessageIds :
                      stored'[c][m] > 0 => <<c, m>> \in removes'[e]
    <3>1. CASE e # d
      <4>1. /\ writer = e /\ pc'[e] = pc[e] /\ erases'[e] = erases[e]
            /\ removes'[e] = removes[e]
        BY <1>1, <1>3, <1>4, <2>3, <3>1 DEF ChatTypeOK, Alone, Requests
      <4> QED BY <1>2, <2>1, <2>3, <4>1 DEF Swept
    <3>2. CASE e = d /\ to = "threads"
      BY <1>3, <3>2
    <3>3. CASE e = d /\ to = "messages"
      <4>1. erases'[d] = {c \in Conversations : thread[c] = "live"}
        BY <1>1, <1>4, <3>3 DEF ChatTypeOK
      <4> QED BY <1>2, <1>3, <3>3, <4>1
    <3>4. CASE e = d /\ to = "commit"
      <4>1. removes'[d] = {x \in Conversations \X MessageIds : stored[x[1]][x[2]] > 0}
        BY <1>1, <1>4, <3>4 DEF ChatTypeOK
      <4>2. pc[d] = "messages" /\ writer = d /\ erases' = erases
        BY <1>3, <1>4, <2>3, <3>4
      <4> QED BY <1>2, <1>3, <2>1, <3>4, <4>1, <4>2 DEF Swept
    <3> QED BY <3>1, <3>2, <3>3, <3>4
  <2>4. Swept'
    BY <2>3 DEF Swept
  <2>5. Erased'
    BY <1>2, <2>1 DEF Erased
  <2> QED BY <2>2, <2>4, <2>5
<1> QED BY <1>5, <1>6, <1>7 DEF LockInv

\* The delete commits: a delete that has written the project's row takes every live thread
\* and every message with it, another one only takes more
LEMMA DeleteCommitKeeps ==
  ASSUME LockInv, NEW d \in Deletes, DeleteCommit(d)
  PROVE  LockInv'
<1>1. /\ ChatTypeOK /\ d \in Requests /\ d \notin Pushes /\ "done" \in Stages
      /\ Step(d, "commit", "done") /\ EndTx(d, "ok")
  BY ChatStoreAssumption DEF LockInv, Requests, Stages, DeleteCommit
<1>2. /\ project' = IF writer = d THEN "deleted" ELSE project
      /\ thread' = [c \in Conversations |-> IF c \in erases[d] THEN "deleted" ELSE thread[c]]
      /\ stored' = [c \in Conversations |->
                      [m \in MessageIds |-> IF <<c, m>> \in removes[d] THEN 0 ELSE stored[c][m]]]
      /\ acked' = [c \in Conversations |-> Empty]
      /\ UNCHANGED <<saw, post, blind>>
  BY DEF DeleteCommit
<1>3. pc[d] = "commit" /\ pc'[d] = "done" /\ Alone(d) /\ pc' \in [Requests -> Stages]
  BY ONLY <1>1, StepIs
<1>4. /\ answer' \in [Requests -> {"none", "ok", "gone-project", "gone-thread", "error"}]
      /\ writer' \in Requests \cup {NoReq} /\ sharers' \subseteq Pushes
      /\ making' \in [Conversations -> Pushes \cup {NoReq}]
      /\ wrote' \in [Pushes -> BOOLEAN]
      /\ erases' \in [Deletes -> SUBSET Conversations]
      /\ removes' \in [Deletes -> SUBSET (Conversations \X MessageIds)]
  BY ONLY <1>1, EndTxIs
<1>5. /\ writer' = IF writer = d THEN NoReq ELSE writer
      /\ sharers' = sharers \ {d}
      /\ \A q \in Pushes \ {d} : wrote'[q] = wrote[q]
      /\ \A e \in Deletes \ {d} : erases'[e] = erases[e] /\ removes'[e] = removes[e]
  BY ONLY <1>1, EndTxIs
<1>6. 0 \in Versions /\ Empty \in [MessageIds -> Versions]
  BY ChatStoreAssumption DEF Versions, Empty
<1>7. /\ stored' \in [Conversations -> [MessageIds -> Versions]]
      /\ \A c \in Conversations, m \in MessageIds :
           stored'[c][m] = IF <<c, m>> \in removes[d] THEN 0 ELSE stored[c][m]
  BY <1>1, <1>2, <1>6 DEF ChatTypeOK
<1>8. ChatTypeOK'
  BY <1>1, <1>2, <1>3, <1>4, <1>6, <1>7 DEF ChatTypeOK, Stages
<1>9. Upserted'
  BY <1>1, <1>2, <1>3, <1>5 DEF LockInv, Upserted, Alone, Requests, MessageOf
<1>10. AckedKept'
  <2>1. ASSUME NEW c \in Conversations, NEW m \in MessageIds
        PROVE  acked'[c][m] = 0 /\ stored'[c][m] \in Nat
    BY <1>2, <1>7 DEF Empty, Versions
  <2> QED BY <2>1 DEF AckedKept
<1>11. ASSUME blind' = {} PROVE Locked' /\ Swept' /\ Erased'
  <2>1. Locked /\ Swept /\ Erased
    BY <1>2, <1>11 DEF LockInv
  <2>2. Locked'
    <3>1. \A p \in Pushes : pc'[p] = pc[p] /\ p # d
      BY <1>1, <1>3 DEF Alone, Requests
    <3>2. sharers' = sharers /\ sharers \subseteq Pushes
      BY <1>1, <1>5 DEF ChatTypeOK
    <3>3. writer = d => sharers = {}
      BY <2>1 DEF Locked
    <3>4. NoReq \notin Deletes
      BY ChatStoreAssumption
    <3> QED BY <1>2, <1>5, <2>1, <3>1, <3>2, <3>3, <3>4 DEF Locked
  <2>3. \A c \in Conversations : thread'[c] = "live" => thread[c] = "live"
    BY <1>2
  <2>4. \A c \in Conversations, m \in MessageIds : stored'[c][m] > 0 => stored[c][m] > 0
    <3> TAKE c \in Conversations, m \in MessageIds
    <3>1. stored'[c][m] = 0 \/ stored'[c][m] = stored[c][m]
      BY <1>7
    <3> QED BY <3>1
  <2>5. Swept'
    <3> SUFFICES ASSUME NEW e \in Deletes, writer' = e
                 PROVE  /\ pc'[e] \in {"messages", "commit"} =>
                             \A c \in Conversations : thread'[c] = "live" => c \in erases'[e]
                        /\ pc'[e] = "commit" =>
                             \A c \in Conversations, m \in MessageIds :
                               stored'[c][m] > 0 => <<c, m>> \in removes'[e]
      BY DEF Swept
    <3>1. e # d /\ writer = e
      BY <1>5, ChatStoreAssumption
    <3>2. pc'[e] = pc[e] /\ erases'[e] = erases[e] /\ removes'[e] = removes[e]
      BY <1>3, <1>5, <3>1 DEF Alone, Requests
    <3> QED BY <2>1, <2>3, <2>4, <3>1, <3>2 DEF Swept
  <2>6. ASSUME project' = "deleted", NEW c \in Conversations
        PROVE  thread'[c] # "live" /\ stored'[c] = Empty
    <3>1. CASE writer = d
      <4>1. thread'[c] # "live"
        BY <1>2, <1>3, <2>1, <3>1 DEF Swept
      <4>2. \A m \in MessageIds : stored[c][m] \in Nat /\ (stored[c][m] > 0 => <<c, m>> \in removes[d])
        BY <1>1, <1>3, <2>1, <3>1 DEF Swept, ChatTypeOK, Versions
      <4>3. \A m \in MessageIds : stored'[c][m] = 0
        <5> TAKE m \in MessageIds
        <5>1. CASE <<c, m>> \in removes[d]
          BY <1>7, <5>1
        <5>2. CASE <<c, m>> \notin removes[d]
          <6>1. stored'[c][m] = stored[c][m] /\ stored[c][m] \in Nat /\ ~(stored[c][m] > 0)
            BY <1>7, <4>2, <5>2
          <6> QED BY <6>1
        <5> QED BY <5>1, <5>2
      <4> QED BY <1>7, <4>1, <4>3 DEF Empty
    <3>2. CASE writer # d
      <4>1. thread[c] # "live" /\ stored[c] = Empty
        BY <1>2, <2>1, <2>6, <3>2 DEF Erased
      <4>2. \A m \in MessageIds : stored'[c][m] = 0
        BY <1>7, <4>1 DEF Empty
      <4> QED BY <1>7, <2>3, <4>1, <4>2 DEF Empty
    <3> QED BY <3>1, <3>2
  <2>7. Erased'
    BY <2>6 DEF Erased, Empty
  <2> QED BY <2>2, <2>5, <2>7
<1> QED BY <1>8, <1>9, <1>10, <1>11 DEF LockInv

LEMMA StartAgainKeeps ==
  ASSUME LockInv, StartAgain
  PROVE  LockInv'
<1>1. /\ writer = NoReq /\ project' = "live"
      /\ UNCHANGED <<thread, stored, pc, saw, post, writer, sharers, making, wrote, erases,
                     removes, answer, blind, acked>>
  BY DEF StartAgain, lockVars
<1>2. ChatTypeOK'
  BY <1>1 DEF LockInv, ChatTypeOK
<1>3. Upserted' /\ AckedKept'
  BY <1>1 DEF LockInv, Upserted, AckedKept, MessageOf
<1>4. ASSUME blind = {} PROVE Locked' /\ Swept' /\ Erased'
  BY <1>1, <1>4, ChatStoreAssumption DEF LockInv, Locked, Swept, Erased
<1> QED BY <1>1, <1>2, <1>3, <1>4 DEF LockInv

-----------------------------------------------------------------------------
LEMMA LockInit == ChatInit => LockInv
<1> SUFFICES ASSUME ChatInit PROVE LockInv
  OBVIOUS
<1> USE DEF ChatInit
<1>1. 0 \in Versions /\ Empty \in [MessageIds -> Versions]
  BY ChatStoreAssumption DEF Versions, Empty
<1>2. ChatTypeOK
  BY <1>1 DEF ChatTypeOK
<1>3. AckedKept
  BY <1>1 DEF AckedKept, Empty
<1>4. Upserted /\ Locked /\ Swept /\ Erased
  BY ChatStoreAssumption DEF Upserted, Locked, Swept, Erased, Inside, Requests
<1> QED BY <1>2, <1>3, <1>4 DEF LockInv

LEMMA LockNext == LockInv /\ [ChatNext]_chatVars => LockInv'
<1> SUFFICES ASSUME LockInv, [ChatNext]_chatVars PROVE LockInv'
  OBVIOUS
<1>1. ASSUME NEW p \in Pushes,
             \/ PushStart(p) \/ FindParent(p) \/ MakeParent(p) \/ MakeThread(p)
             \/ CheckThread(p) \/ Upsert(p) \/ Touch(p) \/ PushCommit(p)
      PROVE  LockInv'
  BY <1>1, StartKeeps, ParentKeeps, InsideKeeps, PushCommitKeeps DEF Requests
<1>2. ASSUME NEW d \in Deletes,
             \/ DeleteStart(d) \/ Tombstone(d) \/ TombstoneThreads(d) \/ EraseMessages(d)
             \/ DeleteCommit(d)
      PROVE  LockInv'
  BY <1>2, StartKeeps, DeletingKeeps, DeleteCommitKeeps DEF Requests
<1>3. ASSUME NEW r \in Requests, AbortTx(r) PROVE LockInv'
  BY <1>3, RefuseKeeps DEF AbortTx
<1>4. CASE StartAgain
  BY <1>4, StartAgainKeeps
<1>5. CASE UNCHANGED chatVars
  BY <1>5 DEF chatVars, rowsVars, lockVars, LockInv, ChatTypeOK, Upserted, AckedKept, Locked,
     Swept, Erased, MessageOf
<1> QED BY <1>1, <1>2, <1>3, <1>4, <1>5 DEF ChatNext

\* "So a delete either waits for the push and then erases what it wrote, or lands first and
\* the push is refused": as long as no push lost the race for the project's first row, a
\* deleted project has no live thread and no message
THEOREM LockedErasedTheorem == ChatSpec => []LockedStaysErased
<1>1. LockInv => LockedStaysErased
  BY DEF LockInv, LockedStaysErased
<1> QED BY <1>1, LockInit, LockNext, PTL DEF ChatSpec

\* A message that appendMessages has answered "ok" is kept in that version or a newer one,
\* however pushes of it race each other and are rolled back, until the project is deleted
THEOREM AckedTheorem == ChatSpec => []AckedKept
<1>1. LockInv => AckedKept
  BY DEF LockInv
<1> QED BY <1>1, LockInit, LockNext, PTL DEF ChatSpec
=============================================================================
