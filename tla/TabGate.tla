------------------------------ MODULE TabGate -------------------------------
(***************************************************************************)
(* Several tabs of one browser with one project open in each: what a tab's *)
(* pushes, passes, merges, adoptions and answers do to each other and to   *)
(* the other tabs' editors.                                                *)
(*                                                                         *)
(*   features/persistence/model/project-sync.ts    the push gate, the      *)
(*     generations, _exclusive, the calls themselves                       *)
(*   features/persistence/model/project-restore.ts a pass over the project *)
(*   features/persistence/model/tab-reload.ts      what a tab re-reads     *)
(*   features/persistence/model/sync-mark.ts       the queue of the mark   *)
(*                                                                         *)
(* The tabs share the store (onDisk), the mark (agreed) and the lock of    *)
(* SyncLock, here only what it promises: no two tabs inside.  Each has its *)
(* own editor and explorer, gate, generation and queues.  The project has  *)
(* one file, in which every edit is a line of its own, so that a text is a *)
(* set of edits and a merge never has to ask.  An action is the code       *)
(* between two awaits, with three exceptions: a workspace is rewritten in  *)
(* one step (ProjectSync has it in parts), a buffer is saved and levelled  *)
(* with the file under it, and a pass decides on one read of mark and      *)
(* store.  Debounces and delays are any time.                              *)
(***************************************************************************)
EXTENDS Naturals, Sequences, FiniteSets, SequencesExt

CONSTANTS
  Tabs,
  MaxJobs,        \* calls of sync, numbered as they begin
  Typed,          \* edits made in this browser, in this order
  Elsewhere,      \* edits that other devices upload, in this order
  MergeAttempts,  \* MERGE_ATTEMPTS
  Scenarios,      \* what happens from outside: which calls begin, in which tab, and
                  \*   how many edits and how much trouble there are
  NoText

Jobs == 1 .. MaxJobs
Texts == SUBSET (Typed \cup Elsewhere)

ASSUME TabGateAssumption ==
  /\ MaxJobs \in Nat
  /\ MergeAttempts \in Nat \ {0}
  /\ Typed \subseteq Nat /\ Elsewhere \subseteq Nat
  /\ Typed \cap Elsewhere = {}
  /\ \A s \in Texts : s # NoText
  /\ \A s \in Scenarios : Len(s.calls) <= MaxJobs /\ {s.typed, s.there, s.trouble} \subseteq Nat

VARIABLES
  onDisk,    \* the file in the store
  agreed,    \* the sync mark: the text and the revision agreed on, and the flag
  past,      \* past[r]: the account's text at revision r
  shown,     \* shown[t]: the editor's buffer
  inState,   \* inState[t]: the explorer's memory
  looking,   \* looking[t]: the reload that tab t is in
  flagging,  \* flagging[t]: the markDirty that is out, and the mark it has read
  holds,     \* holds[t]: _holds, the number of holds on the push gate
  gens,      \* gens[t]: _generations
  question,  \* question[t]: _conflicts
  line,      \* line[t]: _tails and _merging, the calls in _exclusive
  job,       \* job[c]: a call of sync
  scenario,
  made,      \* edits made so far, here and elsewhere
  trouble,   \* failed and refused requests so far
  undone     \* history: edits that a buffer or a rewrite based on an older
             \*   text took from the store

storeVars == <<onDisk, agreed>>
editorVars == <<shown, inState>>
gateVars == <<holds, gens, question, line>>
userVars == <<made, trouble, undone>>
worldVars == <<past, scenario>>
tabGateVars == <<storeVars, worldVars, editorVars, looking, flagging, gateVars, job, userVars>>

Idle == [tab |-> CHOOSE t \in Tabs : TRUE, kind |-> "push", at |-> "idle", merging |-> "no",
         files |-> NoText, first |-> NoText, written |-> NoText, base |-> NoText,
         theirs |-> NoText, rev |-> 0, gen |-> 0, guarded |-> TRUE, pushed |-> FALSE,
         tries |-> 0, failed |-> FALSE]
Ended == [Idle EXCEPT !.at = "done"]

NotFlagging == [at |-> "no", mark |-> [files |-> {}, rev |-> 0, dirty |-> FALSE]]
NotLooking == [by |-> 0, memory |-> NoText, disk |-> NoText]

TabGateInit ==
  /\ onDisk = {} /\ past = <<{}>>
  /\ agreed = [files |-> {}, rev |-> 1, dirty |-> FALSE]
  /\ shown = [t \in Tabs |-> {}] /\ inState = [t \in Tabs |-> {}]
  /\ looking = [t \in Tabs |-> NotLooking]
  /\ flagging = [t \in Tabs |-> NotFlagging]
  /\ holds = [t \in Tabs |-> 0] /\ gens = [t \in Tabs |-> 0]
  /\ question = [t \in Tabs |-> "none"] /\ line = [t \in Tabs |-> <<>>]
  /\ job = [c \in Jobs |-> Idle]
  /\ scenario \in Scenarios
  /\ made = {} /\ trouble = 0 /\ undone = {}
-----------------------------------------------------------------------------
(* The editor of a tab *)

\* merge3: a line that one side added or took away since base is as that side has it
Merge3(base, ours, theirs) ==
  {e \in base \cup ours \cup theirs :
     IF (e \in ours) = (e \in base) THEN e \in theirs ELSE e \in ours}

\* The next edit of a set that count of have been made of at most
Comes(e, set, count) ==
  /\ Cardinality(made \cap set) < count
  /\ e \in set \ made /\ \A f \in set \ made : e <= f

Type(t, e) ==
  /\ Comes(e, Typed, scenario.typed)
  /\ made' = made \cup {e}
  /\ shown' = [shown EXCEPT ![t] = @ \cup {e}]
  /\ UNCHANGED <<storeVars, worldVars, inState, looking, flagging, gateVars, job,
                 trouble, undone>>

\* save: into state and, in the order of the tab's calls, to the store.  The save
\* event flags the project, at most once per debounce window (`flagged`)
Autosave(t) ==
  /\ shown[t] # inState[t]
  /\ inState' = [inState EXCEPT ![t] = shown[t]]
  /\ onDisk' = shown[t]
  /\ undone' = undone \cup (onDisk \ shown[t])
  /\ \/ flagging[t] = NotFlagging /\ flagging' = [flagging EXCEPT ![t].at = "asked"]
     \/ UNCHANGED flagging
  /\ UNCHANGED <<agreed, worldVars, shown, looking, gateVars, job, made, trouble>>

\* markDirty, in the tab's queue of the mark: a read, and a write back
FlagRead(t) ==
  /\ flagging[t].at = "asked"
  /\ flagging' = [flagging EXCEPT ![t] = IF agreed.dirty THEN NotFlagging
                                         ELSE [at |-> "read", mark |-> agreed]]
  /\ UNCHANGED <<storeVars, worldVars, editorVars, looking, gateVars, job, userVars>>

FlagWrite(t) ==
  /\ flagging[t].at = "read"
  /\ agreed' = [flagging[t].mark EXCEPT !.dirty = TRUE]
  /\ flagging' = [flagging EXCEPT ![t] = NotFlagging]
  /\ UNCHANGED <<onDisk, worldVars, editorVars, looking, gateVars, job, userVars>>

\* Another device uploads, from the newest revision
Upload(e) ==
  /\ Comes(e, Elsewhere, scenario.there)
  /\ made' = made \cup {e}
  /\ past' = Append(past, Last(past) \cup {e})
  /\ UNCHANGED <<storeVars, scenario, editorVars, looking, flagging, gateVars, job, trouble, undone>>
-----------------------------------------------------------------------------
(* reloadCurrentFromDisk: memory is noted before the store is read, and the *)
(* text read is taken only if neither memory nor the buffer has moved       *)

LookFor(t, by) ==
  /\ looking[t] = NotLooking
  /\ looking' = [looking EXCEPT ![t] = [by |-> by, memory |-> inState[t], disk |-> onDisk]]

\* The broadcast of another tab's write, some time after it
Hear(t) ==
  /\ onDisk # inState[t] /\ shown[t] = inState[t]
  /\ LookFor(t, 0)
  /\ UNCHANGED <<storeVars, worldVars, editorVars, flagging, gateVars, job, userVars>>

\* Mutant of MayTake: keystrokes that autosave has not written are not looked for
MayTakeOverTyping(t) == inState[t] = looking[t].memory

MayTake(t) == inState[t] = looking[t].memory /\ shown[t] = looking[t].memory

TakeDisk(t) ==
  IF MayTake(t)
    THEN /\ inState' = [inState EXCEPT ![t] = looking[t].disk]
         /\ shown' = [shown EXCEPT ![t] = looking[t].disk]
    ELSE UNCHANGED <<shown, inState>>

\* A call goes on once its reload is over: a pass reads the list, an adoption
\* the row, and a merge takes the gate and a generation first
LookApply(t) ==
  /\ looking[t] # NotLooking
  /\ TakeDisk(t)
  /\ looking' = [looking EXCEPT ![t] = NotLooking]
  /\ LET c == looking[t].by IN
     \/ c = 0 /\ UNCHANGED <<job, holds, gens>>
     \/ /\ c # 0 /\ job[c].merging # "merge"
        /\ job' = [job EXCEPT ![c].at = IF job[c].merging = "no" THEN "list" ELSE "fetch"]
        /\ UNCHANGED <<holds, gens>>
     \/ /\ c # 0 /\ job[c].merging = "merge"
        /\ job' = [job EXCEPT ![c].at = "fetch"]
        /\ holds' = [holds EXCEPT ![t] = @ + 1]
        /\ gens' = [gens EXCEPT ![t] = @ + 1]
  /\ UNCHANGED <<storeVars, worldVars, flagging, question, line, userVars>>
-----------------------------------------------------------------------------
(* A call of sync *)

T(c) == job[c].tab
To(c, from, to) == job[c].at = from /\ job' = [job EXCEPT ![c].at = to]

Outside == {"idle", "gate", "lock", "done"}

\* withSyncLock (SyncLock): the calls inside are all of one tab
Inside(c) == job[c].at \notin Outside

BeginCall(c, t, kind) ==
  /\ job[c].at = "idle"
  /\ c <= Len(scenario.calls) /\ scenario.calls[c] = <<kind, t>>
  /\ \A d \in Jobs : d < c => job[d].at # "idle"
  /\ job' = [job EXCEPT ![c] = [Idle EXCEPT !.tab = t, !.kind = kind,
                                            !.at = IF kind = "push" THEN "gate" ELSE "lock"]]
  /\ UNCHANGED <<storeVars, worldVars, editorVars, looking, flagging, gens, question, line, userVars>>

\* pushCurrent
PushCurrent(c, t) == BeginCall(c, t, "push") /\ UNCHANGED holds

\* refresh: one pass at a time, behind a hold
Refresh(c, t) ==
  /\ ~ \E d \in Jobs : job[d].kind = "pass" /\ T(d) = t /\ job[d].at \notin {"idle", "done"}
  /\ BeginCall(c, t, "pass")
  /\ holds' = [holds EXCEPT ![t] = @ + 1]

\* resolve: `retry` for a name or a size that was refused, one side's copy
\* for a divergence
Resolve(c, t) ==
  \/ question[t] = "refused" /\ BeginCall(c, t, "retry") /\ UNCHANGED holds
  \/ question[t] = "divergent" /\ BeginCall(c, t, "answer") /\ UNCHANGED holds

PassGate(c) ==
  /\ holds[T(c)] = 0
  /\ To(c, "gate", "lock")
  /\ UNCHANGED <<storeVars, worldVars, editorVars, looking, flagging, gateVars, userVars>>

\* _exclusive: behind the merges and adoptions of this tab
LineUp(c, merging) ==
  /\ line' = [line EXCEPT ![T(c)] = Append(@, c)]
  /\ job' = [job EXCEPT ![c].at = "line", ![c].merging = merging]

\* The lock is taken.  A push notes the generation before it reads the files; a
\* retry clears the question first, and gives no generation
EnterLock(c) ==
  /\ job[c].at = "lock"
  /\ \A d \in Jobs : Inside(d) => T(d) = T(c)
  /\ \/ /\ job[c].kind \in {"push", "retry"}
        /\ job' = [job EXCEPT ![c].at = "snapshot", ![c].gen = gens[T(c)],
                              ![c].guarded = job[c].kind = "push"]
        /\ question' = IF job[c].kind = "retry" THEN [question EXCEPT ![T(c)] = "none"]
                                               ELSE question
        /\ UNCHANGED line
     \/ /\ job[c].kind = "pass"
        /\ job' = [job EXCEPT ![c].at = "look"]
        /\ UNCHANGED <<question, line>>
     \/ /\ job[c].kind = "answer"
        /\ LineUp(c, "merge")
        /\ UNCHANGED question
  /\ UNCHANGED <<storeVars, worldVars, editorVars, looking, flagging, holds, gens, userVars>>

\* The call is over.  A retry that was not accepted puts its question back
Return(c, q) ==
  /\ job' = [job EXCEPT ![c] = Ended]
  /\ question' = [question EXCEPT ![T(c)] = q]
  /\ holds' = [holds EXCEPT ![T(c)] = IF job[c].kind = "pass" THEN @ - 1 ELSE @]

NotSent(c) ==
  IF job[c].kind = "retry" /\ job[c].merging = "no" /\ question[T(c)] = "none" THEN "refused" ELSE question[T(c)]
-----------------------------------------------------------------------------
(* push *)

\* snapshotOf, of the store that every tab shares
Snapshot(c) ==
  /\ job[c].at = "snapshot"
  /\ job' = [job EXCEPT ![c].at = "mark", ![c].files = onDisk]
  /\ UNCHANGED <<storeVars, worldVars, editorVars, looking, flagging, gateVars, userVars>>

\* Mutant of Immediate: the upload of a merge waits for the gate, like the editor's
ImmediateInPass(c) == job[c].kind = "pass" /\ job[c].merging = "no"

\* A pass and a merge's own upload are inside a hold of the gate already
Immediate(c) == job[c].kind = "pass" \/ job[c].merging # "no"

ReadMark(c) ==
  /\ job[c].at = "mark"
  /\ Immediate(c) \/ holds[T(c)] = 0
  /\ job' = [job EXCEPT ![c].at = "check", ![c].base = agreed.files, ![c].rev = agreed.rev]
  /\ UNCHANGED <<storeVars, worldVars, editorVars, looking, flagging, gateVars, userVars>>

\* Mutant of Overtaken: a rewrite since the snapshot is not noticed
OvertakenNever(c) == FALSE

\* Uploads that give no generation and are not a merge's own
Unguarded(c) == ~job[c].guarded /\ job[c].merging = "no"

\* The files have been rewritten since the generation was noted
Overtaken(c) ==
  /\ job[c].merging = "no" /\ job[c].guarded
  /\ job[c].gen # gens[T(c)]

MaySend(c) ==
  /\ question[T(c)] = "none"
  /\ ~Overtaken(c)
  /\ job[c].files # job[c].base

\* A push that has nothing more to do returns to its merge or to its caller
PushEnds(c, q) ==
  IF job[c].merging = "no" THEN Return(c, q)
  ELSE /\ job' = [job EXCEPT ![c].at = "level"]
       /\ question' = [question EXCEPT ![T(c)] = q]
       /\ UNCHANGED holds

Check(c) ==
  /\ job[c].at = "check"
  /\ IF MaySend(c) THEN To(c, "check", "sent") /\ UNCHANGED <<question, holds>>
                   ELSE PushEnds(c, NotSent(c))
  /\ UNCHANGED <<storeVars, worldVars, editorVars, looking, flagging, gens, line, userVars>>

\* The server's compare-and-swap (ProjectRow)
Serve(c) ==
  /\ job[c].at = "sent"
  /\ IF job[c].rev = Len(past)
       THEN /\ past' = Append(past, job[c].files)
            /\ job' = [job EXCEPT ![c].at = "accepted", ![c].rev = Len(past) + 1]
       ELSE To(c, "sent", "missed") /\ UNCHANGED past
  /\ UNCHANGED <<storeVars, scenario, editorVars, looking, flagging, gateVars, userVars>>

\* Refused for its name or its size, which is asked about; or the answer is
\* lost or late, whether it was served or not
ServeFails(c) ==
  /\ trouble < scenario.trouble
  /\ trouble' = trouble + 1
  /\ \/ job[c].at = "sent" /\ PushEnds(c, "refused")
     \/ job[c].at \in {"sent", "accepted"} /\ PushEnds(c, NotSent(c))
  /\ UNCHANGED <<storeVars, worldVars, editorVars, looking, flagging, gens, line, made, undone>>

MarkOf(c) == [files |-> job[c].files, rev |-> job[c].rev, dirty |-> FALSE]

\* A write of the mark waits for a markDirty of this tab that is under way
MayWriteMark(c) == flagging[T(c)].at # "read"

Accepted(c) ==
  /\ job[c].at = "accepted"
  /\ MayWriteMark(c)
  /\ agreed' = MarkOf(c)
  /\ PushEnds(c, "none")
  /\ UNCHANGED <<onDisk, worldVars, editorVars, looking, flagging, gens, line, userVars>>

\* The swap missed: merge.  Inside a merge, start over from what it wrote, a
\* few times, and then ask
Missed(c) ==
  /\ job[c].at = "missed"
  /\ \/ /\ job[c].merging = "no"
        /\ line' = [line EXCEPT ![T(c)] = Append(@, c)]
        /\ job' = [job EXCEPT ![c].at = "line", ![c].merging = "merge", ![c].pushed = TRUE]
        /\ UNCHANGED <<question, holds>>
     \/ /\ job[c].merging = "merge" /\ job[c].tries + 1 < MergeAttempts
        /\ job' = [job EXCEPT ![c].at = "fetch", ![c].tries = @ + 1]
        /\ UNCHANGED <<question, holds, line>>
     \/ /\ job[c].merging = "merge" /\ job[c].tries + 1 = MergeAttempts
        /\ job' = [job EXCEPT ![c].at = "level"]
        /\ question' = [question EXCEPT ![T(c)] = "divergent"]
        /\ UNCHANGED <<holds, line>>
  /\ UNCHANGED <<storeVars, worldVars, editorVars, looking, flagging, gens, userVars>>
-----------------------------------------------------------------------------
(* A pass over the project *)

List(c) ==
  /\ job[c].at = "list"
  /\ job' = [job EXCEPT ![c].at = "decide", ![c].rev = Len(past)]
  /\ UNCHANGED <<storeVars, worldVars, editorVars, looking, flagging, gateVars, userVars>>

\* Nothing moved, or a merge is at it already; behind: adopt; ahead: push, with
\* the generation; both: see whether the row has files to merge with
Decide(c) ==
  LET moved == agreed.rev # job[c].rev
      clean == onDisk = agreed.files
      leave == line[T(c)] # <<>> \/ (~moved /\ (clean \/ ~agreed.dirty)) IN
  /\ job[c].at = "decide"
  /\ \/ leave /\ Return(c, question[T(c)]) /\ UNCHANGED line
     \/ /\ ~leave /\ ~moved
        /\ job' = [job EXCEPT ![c].at = "snapshot", ![c].gen = gens[T(c)]]
        /\ UNCHANGED <<question, holds, line>>
     \/ /\ ~leave /\ moved
        /\ IF clean THEN LineUp(c, "adopt") ELSE To(c, "decide", "probe") /\ UNCHANGED line
        /\ UNCHANGED <<question, holds>>
  /\ UNCHANGED <<storeVars, worldVars, editorVars, looking, flagging, gens, userVars>>

\* settleDivergence: the row is read and can be merged with
SettleDivergence(c) ==
  /\ job[c].at = "probe"
  /\ LineUp(c, "merge")
  /\ UNCHANGED <<storeVars, worldVars, editorVars, looking, flagging, holds, gens, question, userVars>>

\* It cannot be read: the copy goes up, without a generation
ProbeFails(c) ==
  /\ trouble < scenario.trouble
  /\ trouble' = trouble + 1
  /\ job[c].at = "probe"
  /\ job' = [job EXCEPT ![c].at = "snapshot", ![c].guarded = FALSE]
  /\ UNCHANGED <<storeVars, worldVars, editorVars, looking, flagging, gateVars, made, undone>>
-----------------------------------------------------------------------------
(* mergeWithServer and adopt *)

\* _catchUpWithDisk, and the reload that a pass begins with
Look(c) ==
  /\ \/ job[c].at = "look"
     \/ job[c].at = "line" /\ Head(line[T(c)]) = c
  /\ LookFor(T(c), c)
  /\ job' = [job EXCEPT ![c].at = "looking"]
  /\ UNCHANGED <<storeVars, worldVars, editorVars, flagging, gateVars, userVars>>

\* The row.  An adoption takes the gate once it has it
Fetch(c) ==
  /\ job[c].at = "fetch"
  /\ job' = [job EXCEPT ![c].at = "local", ![c].theirs = Last(past), ![c].rev = Len(past)]
  /\ holds' = [holds EXCEPT ![T(c)] = IF job[c].merging = "adopt" THEN @ + 1 ELSE @]
  /\ UNCHANGED <<storeVars, worldVars, editorVars, looking, flagging, gens, question, line, userVars>>

\* The local copy: a retry's is what the first attempt wrote (carried)
ReadLocal(c) ==
  LET local == IF job[c].tries = 0 THEN onDisk ELSE job[c].files IN
  /\ job[c].at = "local"
  /\ job' = [job EXCEPT ![c].at = "base", ![c].files = local,
                        ![c].first = IF @ = NoText THEN local ELSE @]
  /\ UNCHANGED <<storeVars, worldVars, editorVars, looking, flagging, gateVars, userVars>>

Expendable(c) == job[c].files = agreed.files

\* The gate opens, the queue moves on and the call returns
LeaveLine(c, bump, q) ==
  /\ job' = [job EXCEPT ![c] = Ended]
  /\ holds' = [holds EXCEPT ![T(c)] = @ - (IF job[c].kind = "pass" THEN 2 ELSE 1)]
  /\ gens' = [gens EXCEPT ![T(c)] = @ + bump]
  /\ line' = [line EXCEPT ![T(c)] = Tail(@)]
  /\ question' = [question EXCEPT ![T(c)] = q]

\* What the row lacks of the copy only because the mark is newer than the row: an
\* upload of this tab was accepted after the row was read
TakenForRemoved(c) ==
  IF agreed.rev > job[c].rev THEN (job[c].files \cap agreed.files) \ job[c].theirs ELSE {}

\* The mark, which is read after the row.  An adoption stands down if the copy is
\* not what the mark says, and takes a generation if it is
ReadBase(c) ==
  /\ job[c].at = "base"
  /\ undone' = undone \cup TakenForRemoved(c)
  /\ \/ /\ job[c].merging = "merge"
        /\ job' = [job EXCEPT ![c].at = "rewrite", ![c].base = agreed.files]
        /\ UNCHANGED gateVars
     \/ /\ job[c].merging = "adopt" /\ Expendable(c)
        /\ job' = [job EXCEPT ![c].at = "rewrite", ![c].base = agreed.files]
        /\ gens' = [gens EXCEPT ![T(c)] = @ + 1]
        /\ UNCHANGED <<holds, question, line>>
     \/ /\ job[c].merging = "adopt" /\ ~Expendable(c)
        /\ LeaveLine(c, 0, question[T(c)])
  /\ UNCHANGED <<storeVars, worldVars, editorVars, looking, flagging, made, trouble>>

\* planMerge and replaceWorkspaceFiles.  What another tab has saved since the
\* local copy was read goes with it
Rewrite(c) ==
  LET text == IF job[c].merging = "adopt" THEN job[c].theirs
              ELSE Merge3(job[c].base, job[c].files, job[c].theirs)
      write == job[c].merging = "adopt" \/ text # job[c].files IN
  /\ job[c].at = "rewrite"
  /\ job' = [job EXCEPT ![c].at = "remark", ![c].files = text,
                        ![c].written = IF write THEN text ELSE @]
  /\ onDisk' = IF write THEN text ELSE onDisk
  /\ undone' = IF write THEN undone \cup (onDisk \ (job[c].files \cup text)) ELSE undone
  /\ UNCHANGED <<agreed, worldVars, editorVars, looking, flagging, gateVars, made, trouble>>

\* The row is what is agreed on from here; a merge uploads what it made of it
Remark(c) ==
  /\ job[c].at = "remark"
  /\ MayWriteMark(c)
  /\ agreed' = [files |-> job[c].theirs, rev |-> job[c].rev,
                dirty |-> job[c].files # job[c].theirs]
  /\ \/ /\ job[c].merging = "merge"
        /\ job' = [job EXCEPT ![c].at = "mark"]
        /\ question' = [question EXCEPT ![T(c)] = "none"]
     \/ /\ job[c].merging = "adopt"
        /\ job' = [job EXCEPT ![c].at = "level"]
        /\ UNCHANGED question
  /\ UNCHANGED <<onDisk, worldVars, editorVars, looking, flagging, holds, gens, line, userVars>>

\* The read of the row fails
FetchFails(c) ==
  /\ trouble < scenario.trouble
  /\ trouble' = trouble + 1
  /\ job[c].at = "fetch"
  /\ \/ /\ job[c].merging = "merge"
        /\ job' = [job EXCEPT ![c].at = "level", ![c].failed = TRUE]
        /\ UNCHANGED <<question, holds, line>>
     \/ /\ job[c].merging = "adopt"
        /\ Return(c, question[T(c)])
        /\ line' = [line EXCEPT ![T(c)] = Tail(@)]
  /\ UNCHANGED <<storeVars, worldVars, editorVars, looking, flagging, gens, made, undone>>
-----------------------------------------------------------------------------
(* _catchUp *)

\* The buffer's new text: what was typed since the first read, in what sync wrote
Folded(c) ==
  IF shown[T(c)] \in {job[c].first, job[c].written} THEN job[c].written
  ELSE Merge3(job[c].first, shown[T(c)], job[c].written)

\* Bring the buffer, and the file after any autosave of the old text, level
Level(c) ==
  LET t == T(c)
      write == job[c].written # NoText
      text == Folded(c) IN
  /\ job[c].at = "level"
  /\ job' = [job EXCEPT ![c].at = IF write THEN "reopen" ELSE "leave",
                        ![c].files = IF write THEN text ELSE @]
  /\ shown' = IF write THEN [shown EXCEPT ![t] = text] ELSE shown
  /\ IF write /\ (text # job[c].written \/ shown[t] \notin {job[c].first, text})
       THEN onDisk' = text /\ undone' = undone \cup (onDisk \ text)
       ELSE UNCHANGED <<onDisk, undone>>
  /\ UNCHANGED <<agreed, worldVars, inState, looking, flagging, gateVars, made, trouble>>

\* The switch to the same workspace reads it into memory again
Reopen(c) ==
  /\ To(c, "reopen", IF job[c].files # job[c].written THEN "flag" ELSE "leave")
  /\ inState' = [inState EXCEPT ![T(c)] = onDisk]
  /\ UNCHANGED <<storeVars, worldVars, shown, looking, flagging, gateVars, userVars>>

\* What was folded in is on this device alone, and is flagged before the call goes on
FlagFolded(c) ==
  /\ To(c, "flag", "leave")
  /\ flagging[T(c)] = NotFlagging
  /\ flagging' = [flagging EXCEPT ![T(c)].at = "asked"]
  /\ UNCHANGED <<storeVars, worldVars, editorVars, looking, gateVars, userVars>>

\* A push whose merge could not read the row asks the plain question
LeaveMerge(c) ==
  /\ job[c].at = "leave"
  /\ job[c].written \notin {NoText, job[c].files} => flagging[T(c)] = NotFlagging
  /\ LeaveLine(c, 1, IF job[c].failed /\ job[c].pushed THEN "divergent" ELSE question[T(c)])
  /\ UNCHANGED <<storeVars, worldVars, editorVars, looking, flagging, userVars>>
-----------------------------------------------------------------------------
TabStep(t) ==
  \/ Autosave(t) \/ FlagRead(t) \/ FlagWrite(t) \/ Hear(t) \/ LookApply(t)
  \/ \E e \in Typed : Type(t, e)

Beginning(c) == \E t \in Tabs : PushCurrent(c, t) \/ Refresh(c, t) \/ Resolve(c, t)

JobStep(c) ==
  \/ PassGate(c) \/ EnterLock(c)
  \/ Snapshot(c) \/ ReadMark(c) \/ Check(c) \/ Serve(c) \/ Accepted(c) \/ Missed(c)
  \/ List(c) \/ Decide(c) \/ SettleDivergence(c)
  \/ Look(c) \/ Fetch(c) \/ ReadLocal(c) \/ ReadBase(c) \/ Rewrite(c) \/ Remark(c)
  \/ Level(c) \/ Reopen(c) \/ FlagFolded(c) \/ LeaveMerge(c)

TabGateNext ==
  \/ \E t \in Tabs : TabStep(t)
  \/ \E c \in Jobs : Beginning(c) \/ JobStep(c) \/ ServeFails(c) \/ ProbeFails(c) \/ FetchFails(c)
  \/ \E e \in Elsewhere : Upload(e)

TabGateSpec == TabGateInit /\ [][TabGateNext]_tabGateVars
-----------------------------------------------------------------------------
\* What call c's upload takes off the account of what other devices put there
TakenOff(c) == IF job[c].at = "sent" /\ job'[c].at = "accepted"
                 THEN (Last(past) \ Last(past')) \cap Elsewhere ELSE {}

\* "A snapshot taken before that and sent after it is the pre-merge copy ... and
\* silently reverts every line the other device contributed": no upload takes
\* such a line off the account unless it had been taken from the store.
NeverReverts == [][\A c \in Jobs : TakenOff(c) \subseteq undone]_tabGateVars

\* The code keeps that for the uploads of pushCurrent, of a pass that finds this
\* device ahead, and of merges.  The banner's retry and settleDivergence's push give
\* no generation
GuardedNeverReverts ==
  [][\A c \in Jobs : ~Unguarded(c) => TakenOff(c) \subseteq undone]_tabGateVars

\* reloadCurrentFromDisk, adopt and _catchUp look again before they overwrite:
\* nothing that was typed goes missing between the tabs' buffers, the store and
\* the account, but for what `undone` counts
TypedSomewhere ==
  \A e \in made \cap Typed :
    \/ e \in onDisk \cup Last(past) \cup undone
    \/ \E t \in Tabs : e \in shown[t]

\* Begun and not over
Running(c) == job[c].at \notin {"idle", "done"}

\* What a call may have to wait for another call for: the gate, the lock, its turn
\* in the queue (a reload and a markDirty that are out end by themselves)
Waiting(c) ==
  \/ job[c].at = "gate" /\ holds[T(c)] # 0
  \/ job[c].at = "mark" /\ ~Immediate(c) /\ holds[T(c)] # 0
  \/ job[c].at = "lock" /\ \E d \in Jobs : Inside(d) /\ T(d) # T(c)
  \/ job[c].at = "line" /\ Head(line[T(c)]) # c

\* Never is everyone waiting for everyone: the gate, the lock and the queue of
\* merges are taken in different orders by a push, a pass and an answer, and
\* while a call is under way there is one that moves
SomeCallMoves == (\E c \in Jobs : Running(c)) => \E c \in Jobs : Running(c) /\ ~Waiting(c)
=============================================================================
