------------------------------- MODULE Knowledge -------------------------------
(***************************************************************************)
(* Recovery cases and the index derived from them: RecoveryCaseService     *)
(* (knowledge/case_service.py), RecoveryIndexer (knowledge/indexer.py),    *)
(* RecoveryIndex.build (knowledge/retriever.py), the Runner's part of it   *)
(* (runtime/runner.py) and the commands of cli.py, around the coordinator  *)
(* of KnowledgeSync.                                                       *)
(*                                                                         *)
(* The Runner and its worker are threads of one process; "cli" is another  *)
(* process.  They share the database and the index file.                   *)
(*                                                                         *)
(* A definition marked "Mutant" is the one after it with a plausible bug.  *)
(***************************************************************************)
EXTENDS Integers

CONSTANTS
  MaxAttempts,   \* see KnowledgeSync
  Records,       \* ids of remediation records
  Earlier,       \* what a record may be before the knowledge base is switched on
  Signature      \* occurrence_signature of the case of a record

\* "unsettled": closed, but the tick was cut off before the incident moved on, so
\* the record will be verified again and rewritten.
\* "bare": closed, and without incident or context.
Standings == {"running", "unsettled", "verified", "failed", "bare"}

ASSUME KnowledgeAssumption ==
  /\ MaxAttempts \in Nat \ {0}
  /\ Records \subseteq Nat \ {0} /\ Earlier \in [Records -> SUBSET Standings]

Worker  == "worker"
Syncers == {Worker, "cli"}

VARIABLES
  record,    \* remediation_records: is it closed, and how
  case,      \* recovery_case_records, at most one for a record
  index,     \* the rows the index file was built from
  syn,       \* RecoveryIndexer.sync of the worker and of the command line
  run,       \* the Runner's thread
  dirty, stopped, waiting, worker, owed,    \* see KnowledgeSync
  raced,     \* history: cases added between a sync's read and its mark
  gone       \* history: revoked cases a later sync has put out of the index

K == INSTANCE KnowledgeSync
coordinator == <<dirty, stopped, waiting, worker, owed>>
history     == <<raced, gone>>
vars == <<record, case, index, syn, run, coordinator, history>>

Case == [status  : {"active", "quarantined", "revoked"},
         outcome : {"verified", "failed"},
         index   : {"pending", "failed", "indexed", "not_applicable"},
         dirty   : BOOLEAN]                      \* aggregate_dirty
NoCase == [status |-> "absent"]

Sync == [pc   : {"off", "list", "cases", "build", "mark", "fail"},
         todo : SUBSET Records,                  \* record_ids of reconcile
         new  : Records \cup {0},                \* looked for and not found
         docs : SUBSET Records]                  \* what index_documents returned
Off == [pc |-> "off", todo |-> {}, new |-> 0, docs |-> {}]

RunnerStates == [pc : {"down", "idle", "notify", "stopping"}, rec : {0}]
                \cup [pc : {"look", "insert"}, rec : Records]
At(pc) == [pc |-> pc, rec |-> 0]

TypeOK ==
  /\ record \in [Records -> Standings]
  /\ case \in [Records -> Case \cup {NoCase}]
  /\ index \subseteq Records
  /\ syn \in [Syncers -> Sync]
  /\ run \in RunnerStates
  /\ K!TypeOK
  /\ raced \subseteq Records /\ gone \subseteq Records

Closed    == {r \in Records : record[r] # "running"}
Cases     == {r \in Records : case[r].status # "absent"}
Active    == {r \in Records : case[r].status = "active"}
Verified  == {r \in Active : case[r].outcome = "verified"}

Init ==
  /\ record \in [Records -> Standings]
  /\ \A r \in Records : record[r] \in Earlier[r]
  /\ case = [r \in Records |-> NoCase]
  /\ index = {}
  /\ syn = [p \in Syncers |-> Off]
  /\ run = At("idle")
  /\ K!Init
  /\ raced = {} /\ gone = {}

-----------------------------------------------------------------------------
\* What record_outcome may read in a record: either verdict while it is unsettled.
Read(r) == IF record[r] = "unsettled" THEN {"verified", "failed"} ELSE {record[r]}

\* record_outcome: the row it builds from what it read.  Without incident or
\* context there is no evidence; only a verified outcome waits for the index.
NewCase(verdict) ==
  [status  |-> IF verdict = "bare" THEN "quarantined" ELSE "active",
   outcome |-> IF verdict = "verified" THEN "verified" ELSE "failed",
   index   |-> IF verdict = "verified" THEN "pending" ELSE "not_applicable",
   dirty   |-> verdict = "failed"]

\* Some sync has read the rows and has still to mark them.
Between == \E p \in Syncers : syn[p].pc \in {"build", "mark"}

AddCase(r) ==
  /\ \E verdict \in Read(r) : case' = [case EXCEPT ![r] = NewCase(verdict)]
  /\ raced' = IF Between THEN raced \cup {r} ELSE raced

\* _record_recovery_outcome_if_enabled and _has_recovery_sync_work
WantsSync(c) == c.index = "pending" \/ c.dirty
HasWork == \E r \in Active : case[r].index \in {"pending", "failed"} \/ case[r].dirty

\* A verdict is committed and the tick cut off before the incident has moved on:
\* the record is verified again, by this process or the next.
CutOff(r) ==
  /\ run.pc = "idle" /\ record[r] = "running"
  /\ record' = [record EXCEPT ![r] = "unsettled"]
  /\ UNCHANGED <<case, index, syn, run, coordinator, history>>

\* The Runner closes a record (see Runner) and records its case: look, insert,
\* notify.
Close(r, verdict) ==
  /\ run.pc = "idle" /\ record[r] \in {"running", "unsettled"}
  /\ record' = [record EXCEPT ![r] = verdict]
  /\ run' = [pc |-> "look", rec |-> r]
  /\ UNCHANGED <<case, index, syn, coordinator, history>>

Look ==
  /\ run.pc = "look"
  /\ run' = IF run.rec \notin Cases THEN [run EXCEPT !.pc = "insert"]
            ELSE At(IF WantsSync(case[run.rec]) THEN "notify" ELSE "idle")
  /\ UNCHANGED <<record, case, index, syn, coordinator, history>>

Insert ==
  /\ run.pc = "insert" /\ run.rec \notin Cases
  /\ AddCase(run.rec)
  /\ run' = At(IF WantsSync(case'[run.rec]) THEN "notify" ELSE "idle")
  /\ UNCHANGED <<record, index, syn, coordinator, gone>>

\* The unique column refuses a second row; that or any other exception is logged,
\* and then nobody is notified.
RecordingFails ==
  /\ run.pc \in {"look", "insert"}
  /\ run' = At("idle")
  /\ UNCHANGED <<record, case, index, syn, coordinator, history>>

Notify ==
  /\ run.pc = "notify"
  /\ K!Notify
  /\ run' = At("idle")
  /\ UNCHANGED <<record, case, index, syn, history>>

-----------------------------------------------------------------------------
\* RecoveryIndexer.sync
StartSync ==
  /\ K!StartSync \/ K!TryAgain
  /\ syn' = [syn EXCEPT ![Worker] = [Off EXCEPT !.pc = "list"]]
  /\ UNCHANGED <<record, case, index, run, history>>

\* serveragent knowledge sync
CliSync ==
  /\ syn["cli"].pc = "off"
  /\ syn' = [syn EXCEPT !["cli"] = [Off EXCEPT !.pc = "list"]]
  /\ UNCHANGED <<record, case, index, run, coordinator, history>>

Set(p, s)  == syn' = [syn EXCEPT ![p] = s]
Returns(p) == Set(p, Off) /\ IF p = Worker THEN K!SyncReturns ELSE UNCHANGED coordinator
Raises(p)  == Set(p, Off) /\ IF p = Worker THEN K!SyncRaises ELSE UNCHANGED coordinator

\* reconcile: first the list, then each record by record_outcome, whether or not
\* its incident has moved on.
ListRecords(p) ==
  /\ syn[p].pc = "list"
  /\ Set(p, [syn[p] EXCEPT !.pc = "cases", !.todo = Closed \ Cases])
  /\ UNCHANGED <<record, case, index, run, coordinator, history>>

LookUp(p) ==
  /\ syn[p].pc = "cases" /\ syn[p].new = 0
  /\ \E r \in syn[p].todo :
       Set(p, IF r \in Cases THEN [syn[p] EXCEPT !.todo = @ \ {r}]
              ELSE [syn[p] EXCEPT !.new = r, !.todo = @ \ {r}])
  /\ UNCHANGED <<record, case, index, run, coordinator, history>>

AddMissing(p) ==
  /\ syn[p].pc = "cases" /\ syn[p].new # 0 /\ syn[p].new \notin Cases
  /\ AddCase(syn[p].new)
  /\ Set(p, [syn[p] EXCEPT !.new = 0])
  /\ UNCHANGED <<record, index, run, coordinator, gone>>

\* IntegrityError: somebody added the row meanwhile; the sync is over.
AddedByOther(p) ==
  /\ syn[p].pc = "cases" /\ syn[p].new # 0 /\ syn[p].new \in Cases
  /\ Raises(p)
  /\ UNCHANGED <<record, case, index, run, history>>

\* (Mutant: revoked rows are not filtered.)
DocumentsOfAll ==
  {r \in Cases : \E q \in Cases : case[q].outcome = "verified" /\ Signature[q] = Signature[r]}

\* (Mutant: only rows not indexed yet.)
DocumentsOfNew ==
  {r \in Active : \E q \in Verified : Signature[q] = Signature[r] /\ case[q].index # "indexed"}

\* index_documents: the active rows of the groups with a verified row.
Documents == {r \in Active : \E q \in Verified : Signature[q] = Signature[r]}

ReadCases(p) ==
  /\ syn[p].pc = "cases" /\ syn[p].todo = {} /\ syn[p].new = 0
  /\ Set(p, [syn[p] EXCEPT !.pc = "build", !.docs = Documents])
  /\ UNCHANGED <<record, case, index, run, coordinator, history>>

\* build: a temporary file, moved over the old one in one step.  Embeddings
\* that cannot be had are left out; any other exception leaves the old index.
HeldByOther(p, r) == \E q \in Syncers \ {p} : syn[q].pc = "build" /\ r \in syn[q].docs

Build(p) ==
  /\ syn[p].pc = "build"
  /\ index' = syn[p].docs
  /\ gone' = gone \cup {r \in Records : /\ case[r].status = "revoked"
                                         /\ r \notin syn[p].docs
                                         /\ ~HeldByOther(p, r)}
  /\ Set(p, [syn[p] EXCEPT !.pc = "mark"])
  /\ UNCHANGED <<record, case, run, coordinator, raced>>

\* (Mutant: the exception is not seen.)
BuildFailsUnseen(p) ==
  /\ syn[p].pc = "build"
  /\ Set(p, [syn[p] EXCEPT !.pc = "mark"])
  /\ UNCHANGED <<record, case, index, run, coordinator, history>>

BuildFails(p) ==
  /\ syn[p].pc = "build"
  /\ Set(p, [syn[p] EXCEPT !.pc = "fail"])
  /\ UNCHANGED <<record, case, index, run, coordinator, history>>

\* After the build every active verified row is marked, whichever was read.
Mark(p) ==
  /\ syn[p].pc = "mark"
  /\ case' = [r \in Records |->
       IF r \in Verified THEN [case[r] EXCEPT !.index = "indexed", !.dirty = FALSE] ELSE case[r]]
  /\ Returns(p)
  /\ UNCHANGED <<record, index, run, history>>

MarkFailed(p) ==
  /\ syn[p].pc = "fail"
  /\ case' = [r \in Records |->
       IF r \in Verified /\ case[r].index = "pending"
       THEN [case[r] EXCEPT !.index = "failed"] ELSE case[r]]
  /\ Raises(p)
  /\ UNCHANGED <<record, index, run, history>>

\* A query or commit of the sync raises, or the command is interrupted.
SyncFails(p) ==
  /\ syn[p].pc \notin {"off", "build"}
  /\ Raises(p)
  /\ UNCHANGED <<record, case, index, run, history>>

-----------------------------------------------------------------------------
\* serveragent knowledge revoke-case
Revoke(r) ==
  /\ r \in Cases /\ case[r].status # "revoked"
  /\ case' = [case EXCEPT ![r].status = "revoked"]
  /\ UNCHANGED <<record, index, syn, run, coordinator, history>>

\* run() is interrupted: stop() lets the worker finish, then the process ends.
Shutdown ==
  /\ run.pc \notin {"down", "stopping"}
  /\ K!Stop
  /\ run' = At("stopping")
  /\ UNCHANGED <<record, case, index, syn, history>>

Exit ==
  /\ run.pc = "stopping" /\ K!FutureDone
  /\ K!NewProcess
  /\ run' = At("down")
  /\ UNCHANGED <<record, case, index, syn, history>>

Crash ==
  /\ run.pc # "down"
  /\ K!NewProcess
  /\ run' = At("down")
  /\ syn' = [syn EXCEPT ![Worker] = Off]
  /\ UNCHANGED <<record, case, index, history>>

\* run(): cases left from before are announced.
Boot ==
  /\ run.pc = "down"
  /\ IF HasWork THEN K!Notify ELSE UNCHANGED coordinator
  /\ run' = At("idle")
  /\ UNCHANGED <<record, case, index, syn, history>>

\* The coordinator's own steps.
Coordinate ==
  /\ K!Begin \/ K!Decide \/ K!Leave
  /\ UNCHANGED <<record, case, index, syn, run, history>>

SyncStep(p) == \/ ListRecords(p) \/ LookUp(p) \/ AddMissing(p) \/ AddedByOther(p)
               \/ ReadCases(p) \/ Build(p) \/ Mark(p) \/ MarkFailed(p)
SyncFault   == \E p \in Syncers : BuildFails(p) \/ SyncFails(p)
RunnerStep  == Look \/ Insert \/ Notify \/ Boot

Next ==
  \/ \E r \in Records, v \in {"verified", "failed"} : Close(r, v)
  \/ \E r \in Records : CutOff(r)
  \/ RunnerStep \/ RecordingFails
  \/ StartSync \/ Coordinate \/ CliSync
  \/ \E p \in Syncers : SyncStep(p)
  \/ SyncFault
  \/ \E r \in Records : Revoke(r)
  \/ Shutdown \/ Exit \/ Crash

Spec == Init /\ [][Next]_vars

\* Threads and the command line go on with what they began.
FairSpec ==
  /\ Spec
  /\ WF_vars(RunnerStep) /\ WF_vars(StartSync) /\ WF_vars(Coordinate)
  /\ \A p \in Syncers : WF_vars(SyncStep(p))
-----------------------------------------------------------------------------
OneWorker   == K!OneWorker
HeardIsKept == K!HeardIsKept

\* No verified case is lost from sight, whatever fails, dies or overlaps: it
\* is in the index or still marked as work to do, unless it was added between
\* a sync's read and its mark.
FoundUnlessRaced ==
  \A r \in Verified \ raced : r \in index \/ case[r].index \in {"pending", "failed"}

\* A revoked case that a sync has put out of the index does not come back
\* (unless another sync held rows read before the revocation).
RevokedStaysOut == gone \cap index = {}

\* Rows stay in the database until a sync gets through: if the command line
\* syncs again and again and faults stop, every verified case is found.  (A sync
\* that fails when all is marked looks like one that succeeds, and is no fault.)
EveryCaseFound ==
  ([]<><<CliSync>>_vars /\ <>[][SyncFault => \E p \in Syncers : SyncStep(p)]_vars) =>
    \A r \in Records : (r \in Verified) ~> (r \in index \/ r \notin Active)
=============================================================================
