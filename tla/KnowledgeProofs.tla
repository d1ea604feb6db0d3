--------------------------- MODULE KnowledgeProofs ---------------------------
(***************************************************************************)
(* What holds of the recovery cases, their index and the coordinator for   *)
(* any number of records and attempts, and whatever fails or dies.         *)
(***************************************************************************)
EXTENDS Knowledge, TLAPS

-----------------------------------------------------------------------------
(* The coordinator: one step of it, or of the process around it. *)

CoordinatorStep ==
  \/ K!Notify \/ K!Begin \/ K!StartSync \/ K!TryAgain \/ K!Decide \/ K!Leave
  \/ K!SyncReturns \/ K!SyncRaises \/ K!Stop \/ K!NewProcess
  \/ UNCHANGED coordinator

\* The coordinator's part of the invariant: an attempt is left after a pause.
Coordinated ==
  /\ K!TypeOK /\ K!OneWorker /\ K!HeardIsKept
  /\ worker.pc = "pause" => worker.attempt < MaxAttempts

LEMMA CoordinatorInit == Init => Coordinated
<1> SUFFICES ASSUME K!Init PROVE Coordinated
  BY DEF Init
<1>1. worker \in K!WorkerStates /\ worker.pc = "idle"
  BY KnowledgeAssumption DEF K!Init, K!Resting, K!WorkerStates
<1>2. dirty \in BOOLEAN /\ stopped \in BOOLEAN /\ owed \in BOOLEAN /\ ~owed
  BY Zenon DEF K!Init
<1>3. waiting = 0
  BY DEF K!Init
<1> QED
  BY <1>1, <1>2, <1>3 DEF Coordinated, K!TypeOK, K!OneWorker, K!HeardIsKept

\* None of its steps breaks it.
LEMMA CoordinatorKeeps == Coordinated /\ CoordinatorStep => Coordinated'
<1> SUFFICES ASSUME Coordinated, CoordinatorStep PROVE Coordinated'
  OBVIOUS
<1>0. /\ dirty' \in BOOLEAN /\ stopped' \in BOOLEAN /\ owed' \in BOOLEAN
      /\ worker' \in K!WorkerStates /\ waiting' \in Nat
  <2> USE DEF Coordinated, K!TypeOK
  <2>1. CASE K!Notify
    <3>1. dirty' \in BOOLEAN /\ stopped' \in BOOLEAN /\ owed' \in BOOLEAN
      BY <2>1, Zenon DEF K!Notify
    <3>2. worker' = worker /\ (waiting' = waiting \/ waiting' = waiting + 1)
      BY <2>1, Zenon DEF K!Notify
    <3> QED
      BY <3>1, <3>2
  <2>2. CASE K!StartSync
    <3>1. dirty' \in BOOLEAN /\ stopped' \in BOOLEAN /\ owed' \in BOOLEAN
      BY <2>2, Zenon DEF K!StartSync
    <3> QED
      BY <2>2, <3>1, KnowledgeAssumption DEF K!StartSync, K!WorkerStates
  <2>3. CASE K!NewProcess
    <3>1. dirty' \in BOOLEAN /\ stopped' \in BOOLEAN /\ owed' \in BOOLEAN
      BY <2>3, Zenon DEF K!NewProcess
    <3> QED
      BY <2>3, <3>1, KnowledgeAssumption DEF K!NewProcess, K!Resting, K!WorkerStates
  <2>4. CASE K!Stop
    <3>1. dirty' \in BOOLEAN /\ stopped' \in BOOLEAN /\ owed' \in BOOLEAN
      BY <2>4, Zenon DEF K!Stop
    <3> QED
      BY <2>4, <3>1 DEF K!Stop
  <2>5. CASE K!Begin \/ K!TryAgain \/ K!Decide \/ K!Leave \/ K!SyncReturns \/ K!SyncRaises
    BY <2>5, KnowledgeAssumption
    DEF K!Begin, K!TryAgain, K!Decide, K!Leave, K!SyncReturns, K!SyncRaises,
        K!Resting, K!WorkerStates
  <2>6. CASE UNCHANGED coordinator
    BY <2>6 DEF coordinator
  <2> QED
    BY <2>1, <2>2, <2>3, <2>4, <2>5, <2>6 DEF CoordinatorStep
<1>1. (waiting + (IF worker.pc = "idle" THEN 0 ELSE 1) <= 1)'
  <2> USE DEF Coordinated, K!TypeOK, K!OneWorker, K!WorkerStates
  <2>1. CASE K!Notify
    BY <2>1 DEF K!Notify, K!FutureDone
  <2>2. CASE K!NewProcess
    BY <2>2 DEF K!NewProcess, K!Resting
  <2>3. CASE ~K!Notify /\ ~K!NewProcess
    BY <2>3 DEF CoordinatorStep, K!Begin, K!StartSync, K!TryAgain, K!Decide, K!Leave,
       K!SyncReturns, K!SyncRaises, K!Stop, coordinator, K!Resting
  <2> QED
    BY <2>1, <2>2, <2>3
<1>2. K!HeardIsKept'
  <2> USE DEF Coordinated, K!HeardIsKept, K!TypeOK
  <2>1. CASE K!Notify
    BY <2>1 DEF K!Notify, K!FutureDone, K!Unheard, K!WorkerStates
  <2>2. CASE K!StartSync
    BY <2>2 DEF K!StartSync
  <2>3. CASE K!NewProcess
    BY <2>3 DEF K!NewProcess
  <2>4. CASE K!SyncReturns \/ K!SyncRaises \/ K!TryAgain
    <3>1. UNCHANGED <<dirty, stopped, waiting, owed>>
      BY <2>4 DEF K!SyncReturns, K!SyncRaises, K!TryAgain
    <3>2. worker.pc \in {"sync", "pause"} /\ worker'.pc \in {"sync", "pause", "check"}
      BY <2>4 DEF K!SyncReturns, K!SyncRaises, K!TryAgain, K!WorkerStates
    <3> QED
      BY <3>1, <3>2
  <2>5. CASE K!Decide
    BY <2>5 DEF K!Decide, K!WorkerStates
  <2>6. CASE K!Begin \/ K!Leave
    BY <2>6 DEF K!Begin, K!Leave, K!WorkerStates, K!Resting
  <2>7. CASE K!Stop \/ UNCHANGED coordinator
    BY <2>7 DEF K!Stop, coordinator
  <2> QED
    BY <2>1, <2>2, <2>3, <2>4, <2>5, <2>6, <2>7 DEF CoordinatorStep
<1>3. (worker.pc = "pause" => worker.attempt < MaxAttempts)'
  <2> USE DEF Coordinated, K!TypeOK
  <2>1. CASE worker' = worker
    BY <2>1
  <2>2. CASE K!SyncRaises
    BY <2>2 DEF K!SyncRaises, K!WorkerStates
  <2>3. CASE K!StartSync \/ K!TryAgain
    BY <2>3 DEF K!StartSync, K!TryAgain
  <2>4. CASE K!Leave \/ K!NewProcess
    BY <2>4 DEF K!Leave, K!NewProcess, K!Resting
  <2>5. CASE K!Begin \/ K!Decide \/ K!SyncReturns
    BY <2>5 DEF K!Begin, K!Decide, K!SyncReturns, K!WorkerStates
  <2> QED
    BY <2>1, <2>2, <2>3, <2>4, <2>5 DEF CoordinatorStep, K!Notify, K!Stop, coordinator
<1> QED
  BY <1>0, <1>1, <1>2, <1>3 DEF Coordinated, K!TypeOK, K!OneWorker

\* Every step of the system is one of the coordinator's, or leaves it alone.
LEMMA StepCoordinates == [Next]_vars => CoordinatorStep
<1> USE DEF CoordinatorStep
<1>1. \/ \E r \in Records, v \in {"verified", "failed"} : Close(r, v)
      \/ \E r \in Records : CutOff(r)
      \/ Look \/ Insert \/ RecordingFails \/ CliSync \/ (\E r \in Records : Revoke(r))
      => UNCHANGED coordinator
  BY DEF Close, CutOff, Look, Insert, RecordingFails, CliSync, Revoke
<1>2. StartSync \/ Notify \/ Boot \/ Coordinate \/ Shutdown \/ Exit \/ Crash => CoordinatorStep
  BY DEF StartSync, Notify, Boot, Coordinate, Shutdown, Exit, Crash
<1>3. ASSUME NEW p \in Syncers, SyncStep(p) \/ BuildFails(p) \/ SyncFails(p)
      PROVE  CoordinatorStep
  <2>1. Returns(p) \/ Raises(p) => K!SyncReturns \/ K!SyncRaises \/ UNCHANGED coordinator
    BY DEF Returns, Raises
  <2>2. ListRecords(p) \/ LookUp(p) \/ AddMissing(p) \/ ReadCases(p) \/ Build(p) \/ BuildFails(p)
        => UNCHANGED coordinator
    BY Zenon DEF ListRecords, LookUp, AddMissing, ReadCases, Build, BuildFails
  <2>3. AddedByOther(p) \/ Mark(p) \/ MarkFailed(p) \/ SyncFails(p) => Returns(p) \/ Raises(p)
    BY Zenon DEF AddedByOther, Mark, MarkFailed, SyncFails
  <2> QED
    BY <1>3, <2>1, <2>2, <2>3 DEF SyncStep
<1>4. UNCHANGED vars => UNCHANGED coordinator
  BY DEF vars
<1> QED
  BY <1>1, <1>2, <1>3, <1>4 DEF Next, RunnerStep, SyncFault

LEMMA CoordinatorHolds == Spec => []Coordinated
<1>1. Coordinated /\ [Next]_vars => Coordinated'
  BY StepCoordinates, CoordinatorKeeps
<1> QED
  BY <1>1, CoordinatorInit, PTL DEF Spec

\* However notifications, retries, crashes and restarts fall, a process never
\* has more than one sync task (notify and _run of background.py).
THEOREM OneWorkerOnly == Spec => []OneWorker
<1>1. Coordinated => OneWorker
  BY DEF Coordinated, OneWorker
<1> QED
  BY <1>1, CoordinatorHolds, PTL

\* A notification accepted outside the exit window is never dropped.
THEOREM NoticesAreKept == Spec => []HeardIsKept
<1>1. Coordinated => HeardIsKept
  BY DEF Coordinated, HeardIsKept
<1> QED
  BY <1>1, CoordinatorHolds, PTL

-----------------------------------------------------------------------------
(* The cases and their index. *)

\* The row record_outcome builds is a row.
LEMMA CaseIsNew ==
  ASSUME NEW verdict
  PROVE  NewCase(verdict) \in Case
  BY DEF NewCase, Case

-----------------------------------------------------------------------------
(* The inductive invariant about the cases. *)

\* The cases that must be found: verified, and not added in a sync's window.
Sound == Verified \ raced

\* What a sync read covers every such case until it is marked, and leaves out
\* every case that was put out of the index.
IndexInv ==
  /\ \A p \in Syncers : syn[p].pc \in {"build", "mark"} => Sound \subseteq syn[p].docs
  /\ \A p \in Syncers : syn[p].pc = "mark" => Sound \subseteq index
  /\ FoundUnlessRaced
  /\ \A p \in Syncers : syn[p].pc = "build" => gone \cap syn[p].docs = {}
  /\ \A r \in gone : r \in Records /\ case[r].status = "revoked"
  /\ RevokedStaysOut

\* The shape of the state the argument needs.
Shape ==
  /\ case \in [Records -> Case \cup {NoCase}]
  /\ syn \in [Syncers -> Sync]

\* A step that leaves the cases and the index alone, and in which no sync
\* enters the window between its read and its mark.
Quiet ==
  /\ UNCHANGED <<case, index, raced, gone>>
  /\ \A p \in Syncers : syn'[p] = syn[p] \/ syn'[p].pc \notin {"build", "mark"}

LEMMA QuietKeeps == IndexInv /\ Quiet => IndexInv'
<1> SUFFICES ASSUME IndexInv, Quiet PROVE IndexInv'
  OBVIOUS
<1>1. Verified' = Verified /\ Sound' = Sound
  BY DEF Quiet, Verified, Active, Sound
<1> QED
  BY <1>1 DEF Quiet, IndexInv, FoundUnlessRaced, RevokedStaysOut

\* Only the process that takes a step changes its sync.
LEMMA SetOne ==
  ASSUME NEW p \in Syncers, NEW s, DOMAIN syn = Syncers, Set(p, s)
  PROVE  syn'[p] = s /\ \A q \in Syncers \ {p} : syn'[q] = syn[q]
  BY DEF Set

LEMMA QuietSteps ==
  ASSUME Shape, [Next]_vars,
         ~Insert, \A r \in Records : ~Revoke(r),
         \A p \in Syncers : ~(AddMissing(p) \/ ReadCases(p) \/ Build(p) \/ Mark(p) \/ MarkFailed(p))
  PROVE  Quiet
<1>1. ASSUME UNCHANGED <<case, index, syn, history>> PROVE Quiet
  BY <1>1 DEF Quiet, history
<1>2. ASSUME NEW p \in Syncers, NEW s, Set(p, s), s.pc \notin {"build", "mark"},
             UNCHANGED <<case, index, history>>
      PROVE  Quiet
  <2>1. syn'[p] = s /\ \A q \in Syncers \ {p} : syn'[q] = syn[q]
    BY <1>2, SetOne DEF Shape
  <2> QED
    BY <1>2, <2>1 DEF Quiet, history
<1>3. CASE UNCHANGED vars
  BY <1>1, <1>3 DEF vars
<1>4. CASE \/ \E r \in Records, v \in {"verified", "failed"} : Close(r, v)
           \/ \E r \in Records : CutOff(r)
  BY <1>1, <1>4 DEF Close, CutOff
<1>5. CASE Look \/ RecordingFails \/ Notify \/ Boot \/ Coordinate \/ Shutdown \/ Exit
  BY <1>1, <1>5 DEF Look, RecordingFails, Notify, Boot, Coordinate, Shutdown, Exit
<1>6. CASE StartSync
  <2>1. Set(Worker, [Off EXCEPT !.pc = "list"])
    BY <1>6 DEF StartSync, Set
  <2> QED
    BY <1>2, <1>6, <2>1 DEF StartSync, Off, Syncers
<1>7. CASE CliSync
  <2>1. Set("cli", [Off EXCEPT !.pc = "list"])
    BY <1>7 DEF CliSync, Set
  <2> QED
    BY <1>2, <1>7, <2>1 DEF CliSync, Off, Syncers
<1>8. CASE Crash
  <2>1. Set(Worker, Off)
    BY <1>8 DEF Crash, Set
  <2> QED
    BY <1>2, <1>8, <2>1 DEF Crash, Off, Syncers
<1>9. ASSUME NEW p \in Syncers, ListRecords(p) PROVE Quiet
  <2> DEFINE s == [syn[p] EXCEPT !.pc = "cases", !.todo = Closed \ Cases]
  <2>1. s.pc = "cases"
    BY DEF Shape, Sync
  <2> QED
    BY <1>2, <1>9, <2>1 DEF ListRecords
<1>10. ASSUME NEW p \in Syncers, LookUp(p) PROVE Quiet
  <2>1. PICK r \in syn[p].todo :
          Set(p, IF r \in Cases THEN [syn[p] EXCEPT !.todo = @ \ {r}]
                 ELSE [syn[p] EXCEPT !.new = r, !.todo = @ \ {r}])
    BY <1>10, Zenon DEF LookUp
  <2> DEFINE s == IF r \in Cases THEN [syn[p] EXCEPT !.todo = @ \ {r}]
                  ELSE [syn[p] EXCEPT !.new = r, !.todo = @ \ {r}]
  <2>2. s.pc = syn[p].pc
    BY DEF Shape, Sync
  <2>3. s.pc \notin {"build", "mark"}
    BY <1>10, <2>2 DEF LookUp
  <2>4. UNCHANGED <<case, index, history>>
    BY <1>10 DEF LookUp
  <2> HIDE DEF s
  <2>5. Set(p, s)
    BY <2>1 DEF s
  <2> QED
    BY <1>2, <2>3, <2>4, <2>5
<1>11. ASSUME NEW p \in Syncers, AddedByOther(p) \/ SyncFails(p) PROVE Quiet
  <2>1. Set(p, Off) /\ UNCHANGED <<case, index, history>>
    BY <1>11 DEF AddedByOther, SyncFails, Raises
  <2> QED
    BY <1>2, <2>1 DEF Off
<1>12. ASSUME NEW p \in Syncers, BuildFails(p) PROVE Quiet
  <2>1. [syn[p] EXCEPT !.pc = "fail"].pc = "fail"
    BY DEF Shape, Sync
  <2> QED
    BY <1>2, <1>12, <2>1 DEF BuildFails
<1> QED
  BY <1>3, <1>4, <1>5, <1>6, <1>7, <1>8, <1>9, <1>10, <1>11, <1>12
  DEF Next, RunnerStep, SyncStep, SyncFault

\* A case added outside every window is pending; one added inside is set apart.
LEMMA AddKeeps ==
  ASSUME IndexInv, Shape, NEW r \in Records \ Cases, AddCase(r), UNCHANGED <<index, gone>>,
         \A p \in Syncers : syn'[p].pc = syn[p].pc /\ syn'[p].docs = syn[p].docs
  PROVE  IndexInv'
<1>1. \A q \in Records \ {r} : case'[q] = case[q]
  BY DEF AddCase, Shape
<1>2. (\E verdict \in Read(r) : case'[r] = NewCase(verdict)) /\ r \notin gone
  BY DEF AddCase, Shape, IndexInv, Cases
<1>3. r \in Verified' => case'[r].index = "pending"
  BY <1>2 DEF Verified, Active, NewCase
<1>4. Sound' \subseteq Sound \cup {r}
  BY <1>1 DEF Sound, Verified, Active, AddCase
<1>5. Between => Sound' \subseteq Sound
  BY <1>4 DEF Sound, AddCase
<1>6. (\A p \in Syncers : syn[p].pc \in {"build", "mark"} => Sound \subseteq syn[p].docs)'
  BY <1>5 DEF IndexInv, Between
<1>7. (\A p \in Syncers : syn[p].pc = "mark" => Sound \subseteq index)'
  BY <1>5 DEF IndexInv, Between
<1>8. FoundUnlessRaced'
  <2> SUFFICES ASSUME NEW q \in Sound'
               PROVE  q \in index \/ case'[q].index \in {"pending", "failed"}
    BY DEF FoundUnlessRaced, Sound
  <2>1. CASE q = r
    BY <2>1, <1>3 DEF Sound
  <2>2. CASE q # r
    <3>1. q \in Records /\ q \in Sound
      BY <2>2, <1>4 DEF Sound, Verified, Active
    <3> QED
      BY <3>1, <1>1, <2>2 DEF IndexInv, FoundUnlessRaced, Sound
  <2> QED
    BY <2>1, <2>2
<1>9. (\A p \in Syncers : syn[p].pc = "build" => gone \cap syn[p].docs = {})'
  BY DEF IndexInv
<1>10. (\A q \in gone : q \in Records /\ case[q].status = "revoked")'
  BY <1>1, <1>2 DEF IndexInv
<1> QED
  BY <1>6, <1>7, <1>8, <1>9, <1>10 DEF IndexInv, RevokedStaysOut

\* The rows a sync reads include every verified case and no revoked one.
LEMMA ReadKeeps ==
  ASSUME IndexInv, Shape, NEW p \in Syncers, ReadCases(p)
  PROVE  IndexInv'
<1> DEFINE s == [syn[p] EXCEPT !.pc = "build", !.docs = Documents]
<1>1. UNCHANGED <<case, index, raced, gone>> /\ Set(p, s)
  BY DEF ReadCases, history
<1>2. s.pc = "build" /\ s.docs = Documents
  BY DEF Shape, Sync
<1> HIDE DEF s
<1>3. syn'[p] = s /\ \A q \in Syncers \ {p} : syn'[q] = syn[q]
  BY <1>1, SetOne DEF Shape
<1>4. Sound \subseteq Documents /\ gone \cap Documents = {}
  BY DEF Sound, Documents, Verified, Active, IndexInv
<1>5. Sound' = Sound /\ FoundUnlessRaced' /\ RevokedStaysOut'
  BY <1>1 DEF Sound, Verified, Active, IndexInv, FoundUnlessRaced, RevokedStaysOut
<1> QED
  BY <1>1, <1>2, <1>3, <1>4, <1>5 DEF IndexInv

\* The index file is replaced by rows that cover what must be found.
LEMMA BuildKeeps ==
  ASSUME IndexInv, Shape, NEW p \in Syncers, Build(p)
  PROVE  IndexInv'
<1> DEFINE s == [syn[p] EXCEPT !.pc = "mark"]
<1>1. /\ UNCHANGED <<case, raced>> /\ Set(p, s) /\ index' = syn[p].docs /\ syn[p].pc = "build"
      /\ gone' = gone \cup {r \in Records : /\ case[r].status = "revoked"
                                            /\ r \notin syn[p].docs
                                            /\ ~HeldByOther(p, r)}
  BY DEF Build
<1>2. s.pc = "mark" /\ s.docs = syn[p].docs
  BY DEF Shape, Sync
<1> HIDE DEF s
<1>3. syn'[p] = s /\ \A q \in Syncers \ {p} : syn'[q] = syn[q]
  BY <1>1, SetOne DEF Shape
<1>4. Sound' = Sound /\ Sound \subseteq index'
  BY <1>1 DEF Sound, Verified, Active, IndexInv
<1>5. FoundUnlessRaced'
  BY <1>4 DEF FoundUnlessRaced, Sound
<1>6. RevokedStaysOut'
  BY <1>1 DEF RevokedStaysOut, IndexInv
<1>7. (\A q \in Syncers : syn[q].pc = "build" => gone \cap syn[q].docs = {})'
  <2> SUFFICES ASSUME NEW q \in Syncers, syn'[q].pc = "build" PROVE gone' \cap syn'[q].docs = {}
    OBVIOUS
  <2>1. q # p /\ syn'[q] = syn[q]
    BY <1>2, <1>3
  <2> QED
    BY <1>1, <2>1 DEF HeldByOther, IndexInv
<1>8. (\A r \in gone : r \in Records /\ case[r].status = "revoked")'
  BY <1>1 DEF IndexInv
<1>9. (\A q \in Syncers : syn[q].pc \in {"build", "mark"} => Sound \subseteq syn[q].docs)'
  BY <1>1, <1>2, <1>3, <1>4 DEF IndexInv
<1>10. (\A q \in Syncers : syn[q].pc = "mark" => Sound \subseteq index)'
  BY <1>4
<1> QED
  BY <1>5, <1>6, <1>7, <1>8, <1>9, <1>10 DEF IndexInv

\* Rewriting how far a case is indexed keeps its status, and a case that is
\* marked is in the index when the mark is made.
LEMMA MarkKeeps ==
  ASSUME IndexInv, Shape, NEW p \in Syncers, Mark(p) \/ MarkFailed(p)
  PROVE  IndexInv'
<1> DEFINE marked == [r \in Records |->
             IF r \in Verified THEN [case[r] EXCEPT !.index = "indexed", !.dirty = FALSE] ELSE case[r]]
           failed == [r \in Records |->
             IF r \in Verified /\ case[r].index = "pending"
             THEN [case[r] EXCEPT !.index = "failed"] ELSE case[r]]
<1>0. \/ syn[p].pc = "mark" /\ case' = marked
      \/ case' = failed
  BY Zenon DEF Mark, MarkFailed
<1>01. \A r \in Records :
         /\ marked[r] = IF r \in Verified
                        THEN [case[r] EXCEPT !.index = "indexed", !.dirty = FALSE] ELSE case[r]
         /\ failed[r] = IF r \in Verified /\ case[r].index = "pending"
                        THEN [case[r] EXCEPT !.index = "failed"] ELSE case[r]
  BY Zenon
<1> HIDE DEF marked, failed
<1>02. \A r \in Records : case'[r] = marked[r] \/ case'[r] = failed[r]
  BY <1>0
<1>1. UNCHANGED <<index, raced, gone>> /\ Set(p, Off)
  <2>1. UNCHANGED <<index, history>> /\ (Returns(p) \/ Raises(p))
    BY Zenon DEF Mark, MarkFailed
  <2> QED
    BY <2>1, Zenon DEF Returns, Raises, history
<1>2. syn'[p] = Off /\ \A q \in Syncers \ {p} : syn'[q] = syn[q]
  BY <1>1, SetOne DEF Shape
<1>3. \A r \in Records : case'[r].status = case[r].status /\ case'[r].outcome = case[r].outcome
  <2> SUFFICES ASSUME NEW r \in Records
               PROVE  case'[r].status = case[r].status /\ case'[r].outcome = case[r].outcome
    OBVIOUS
  <2>1. CASE r \in Verified
    <3>1. case[r] \in Case
      BY <2>1 DEF Shape, Verified, Active, NoCase
    <3>2. \/ case'[r] = [case[r] EXCEPT !.index = "indexed", !.dirty = FALSE]
          \/ case'[r] = [case[r] EXCEPT !.index = "failed"]
          \/ case'[r] = case[r]
      BY <1>01, <1>02, <2>1, Zenon
    <3> QED
      BY <3>1, <3>2 DEF Case
  <2>2. CASE r \notin Verified
    BY <1>01, <1>02, <2>2, Zenon
  <2> QED
    BY <2>1, <2>2
<1>4. Verified' = Verified /\ Sound' = Sound
  BY <1>1, <1>3 DEF Verified, Active, Sound
<1>5. FoundUnlessRaced'
  <2>1. CASE syn[p].pc = "mark"
    BY <1>1, <1>4, <2>1 DEF IndexInv, FoundUnlessRaced, Sound
  <2>2. CASE case' = failed
    <3> SUFFICES ASSUME NEW r \in Sound, r \notin index
                 PROVE  case'[r].index \in {"pending", "failed"}
      BY <1>1, <1>4 DEF FoundUnlessRaced, Sound
    <3>1. r \in Verified /\ case[r] \in Case /\ case[r].index \in {"pending", "failed"}
      BY DEF Sound, IndexInv, FoundUnlessRaced, Shape, Verified, Active, NoCase
    <3>2. case'[r] = [case[r] EXCEPT !.index = "failed"] \/ case'[r] = case[r]
      <4>1. r \in Records /\ case'[r] = failed[r]
        BY <2>2, <3>1 DEF Verified, Active
      <4> QED
        BY <1>01, <4>1, Zenon
    <3> QED
      BY <3>1, <3>2 DEF Case
  <2> QED
    BY <1>0, <2>1, <2>2
<1>6. Off.pc = "off"
  BY DEF Off
<1> QED
  BY <1>1, <1>2, <1>3, <1>4, <1>5, <1>6 DEF IndexInv, RevokedStaysOut

LEMMA RevokeKeeps ==
  ASSUME IndexInv, Shape, NEW r \in Records, Revoke(r)
  PROVE  IndexInv'
<1>1. UNCHANGED <<index, syn, raced, gone>> /\ r \in Cases
  BY DEF Revoke, history
<1>2. case[r] \in Case
  BY <1>1 DEF Cases, Shape, NoCase
<1>3. case'[r].status = "revoked" /\ \A q \in Records \ {r} : case'[q] = case[q]
  BY <1>2 DEF Revoke, Shape, Case
<1>4. Sound' \subseteq Sound /\ r \notin Sound'
  BY <1>1, <1>3 DEF Sound, Verified, Active
<1>5. FoundUnlessRaced'
  <2> SUFFICES ASSUME NEW q \in Sound'
               PROVE  q \in index \/ case'[q].index \in {"pending", "failed"}
    BY <1>1 DEF FoundUnlessRaced, Sound
  <2>1. q \in Records /\ q \in Sound /\ q # r
    BY <1>4 DEF Sound, Verified, Active
  <2> QED
    BY <2>1, <1>3 DEF IndexInv, FoundUnlessRaced, Sound
<1> QED
  BY <1>1, <1>3, <1>4, <1>5 DEF IndexInv, RevokedStaysOut

\* No step breaks the invariant.
LEMMA IndexStep == IndexInv /\ Shape /\ [Next]_vars => IndexInv'
<1> SUFFICES ASSUME IndexInv, Shape, [Next]_vars PROVE IndexInv'
  OBVIOUS
<1>1. CASE Insert
  <2>1. /\ AddCase(run.rec) /\ UNCHANGED <<index, gone, syn>> /\ run.rec \notin Cases
    BY <1>1 DEF Insert
  <2>2. CASE run.rec \in Records
    BY <2>1, <2>2, AddKeeps
  <2>3. CASE run.rec \notin Records
    <3>1. case' = case
      BY <2>1, <2>3 DEF AddCase, Shape
    <3>2. Sound' = Sound
      BY <2>1, <2>3, <3>1 DEF AddCase, Sound, Verified, Active
    <3> QED
      BY <2>1, <3>1, <3>2 DEF IndexInv, FoundUnlessRaced, RevokedStaysOut, Sound
  <2> QED
    BY <2>2, <2>3
<1>2. ASSUME NEW p \in Syncers, AddMissing(p) PROVE IndexInv'
  <2> DEFINE s == [syn[p] EXCEPT !.new = 0]
  <2>1. /\ AddCase(syn[p].new) /\ Set(p, s) /\ UNCHANGED <<index, gone>>
        /\ syn[p].new # 0 /\ syn[p].new \notin Cases
    BY <1>2 DEF AddMissing
  <2>2. syn[p].new \in Records /\ s.pc = syn[p].pc /\ s.docs = syn[p].docs
    BY <2>1 DEF Shape, Sync
  <2> HIDE DEF s
  <2>3. \A q \in Syncers : syn'[q].pc = syn[q].pc /\ syn'[q].docs = syn[q].docs
    BY <2>1, <2>2, SetOne DEF Shape
  <2> QED
    BY <2>1, <2>2, <2>3, AddKeeps
<1>3. CASE ~Insert /\ \A r \in Records : ~Revoke(r)
  <2>1. ASSUME NEW p \in Syncers,
               ReadCases(p) \/ Build(p) \/ Mark(p) \/ MarkFailed(p)
        PROVE  IndexInv'
    BY <2>1, ReadKeeps, BuildKeeps, MarkKeeps
  <2>2. CASE \A p \in Syncers :
               ~(AddMissing(p) \/ ReadCases(p) \/ Build(p) \/ Mark(p) \/ MarkFailed(p))
    BY <1>3, <2>2, QuietSteps, QuietKeeps
  <2> QED
    BY <1>2, <2>1, <2>2
<1> QED
  BY <1>1, <1>3, RevokeKeeps

-----------------------------------------------------------------------------
(* Types. *)

LEMMA TypeInit == Init => TypeOK
<1> SUFFICES ASSUME Init PROVE TypeOK
  OBVIOUS
<1>1. K!TypeOK
  BY CoordinatorInit DEF Coordinated
<1>2. syn \in [Syncers -> Sync]
  BY DEF Init, Off, Sync
<1>3. run \in RunnerStates
  BY DEF Init, At, RunnerStates
<1> QED
  BY <1>1, <1>2, <1>3 DEF Init, TypeOK

\* The sync of one process is replaced by a sync.
LEMMA SetKeepsType ==
  ASSUME syn \in [Syncers -> Sync], NEW p \in Syncers, NEW s \in Sync, Set(p, s)
  PROVE  syn' \in [Syncers -> Sync]
  BY DEF Set

LEMMA TypeStep == TypeOK /\ Coordinated /\ [Next]_vars => TypeOK'
<1> SUFFICES ASSUME TypeOK, Coordinated, [Next]_vars PROVE TypeOK'
  OBVIOUS
<1>1. K!TypeOK'
  BY StepCoordinates, CoordinatorKeeps DEF Coordinated
<1>2. record' \in [Records -> Standings]
  <2>1. CASE \/ \E r \in Records, v \in {"verified", "failed"} : Close(r, v)
             \/ \E r \in Records : CutOff(r)
    BY <2>1 DEF Close, CutOff, TypeOK, Standings
  <2>2. CASE UNCHANGED record
    BY <2>2 DEF TypeOK
  <2> QED
    BY <2>1, <2>2, Zenon DEF Next, vars, RunnerStep, Look, Insert, Notify, Boot, RecordingFails,
       StartSync, Coordinate, CliSync, SyncStep, ListRecords, LookUp, AddMissing, AddedByOther,
       ReadCases, Build, Mark, MarkFailed, SyncFault, BuildFails, SyncFails, Revoke, Shutdown,
       Exit, Crash
<1>3. run' \in RunnerStates
  <2>1. ASSUME NEW pc \in {"down", "idle", "notify", "stopping"}
        PROVE  At(pc) \in RunnerStates
    BY DEF At, RunnerStates
  <2>2. ASSUME NEW r \in Records, NEW v \in {"verified", "failed"}, Close(r, v)
        PROVE  run' \in RunnerStates
    BY <2>2 DEF Close, RunnerStates
  <2>3. CASE Look
    BY <2>1, <2>3 DEF Look, TypeOK, RunnerStates
  <2>4. CASE Insert \/ RecordingFails \/ Notify \/ Boot \/ Shutdown \/ Exit \/ Crash
    BY <2>1, <2>4 DEF Insert, RecordingFails, Notify, Boot, Shutdown, Exit, Crash
  <2>5. CASE UNCHANGED run
    BY <2>5 DEF TypeOK
  <2>6. ASSUME NEW p \in Syncers, SyncStep(p) \/ BuildFails(p) \/ SyncFails(p)
        PROVE  UNCHANGED run
    BY <2>6, Zenon DEF SyncStep, ListRecords, LookUp, AddMissing, AddedByOther, ReadCases, Build,
       Mark, MarkFailed, BuildFails, SyncFails
  <2>7. \/ StartSync \/ Coordinate \/ CliSync \/ UNCHANGED vars
        \/ \E r \in Records : Revoke(r) \/ CutOff(r)
        => UNCHANGED run
    BY Zenon DEF StartSync, Coordinate, CliSync, Revoke, CutOff, vars
  <2> QED
    BY <2>2, <2>3, <2>4, <2>5, <2>6, <2>7 DEF Next, RunnerStep, SyncFault
<1>4. case' \in [Records -> Case \cup {NoCase}]
  <2>1. ASSUME NEW r, AddCase(r) PROVE case' \in [Records -> Case \cup {NoCase}]
    BY <2>1, CaseIsNew DEF AddCase, TypeOK
  <2>2. ASSUME NEW p \in Syncers, Mark(p) \/ MarkFailed(p)
        PROVE  case' \in [Records -> Case \cup {NoCase}]
    <3> DEFINE marked == [r \in Records |->
                 IF r \in Verified THEN [case[r] EXCEPT !.index = "indexed", !.dirty = FALSE] ELSE case[r]]
               failed == [r \in Records |->
                 IF r \in Verified /\ case[r].index = "pending"
                 THEN [case[r] EXCEPT !.index = "failed"] ELSE case[r]]
    <3>1. case' = marked \/ case' = failed
      BY <2>2, Zenon DEF Mark, MarkFailed
    <3>2. \A r \in Verified : case[r] \in Case
      BY DEF Verified, Active, TypeOK, NoCase
    <3>3. ASSUME NEW r \in Records PROVE marked[r] \in Case \cup {NoCase} /\ failed[r] \in Case \cup {NoCase}
      <4>1. CASE r \in Verified
        <5>1. case[r] \in Case
          BY <3>2, <4>1
        <5>2. /\ [case[r] EXCEPT !.index = "indexed", !.dirty = FALSE] \in Case
              /\ [case[r] EXCEPT !.index = "failed"] \in Case
          BY <5>1 DEF Case
        <5> QED
          BY <5>1, <5>2, <4>1, Zenon
      <4>2. CASE r \notin Verified
        BY <4>2 DEF TypeOK
      <4> QED
        BY <4>1, <4>2
    <3> HIDE DEF marked, failed
    <3>4. marked \in [Records -> Case \cup {NoCase}]
      BY <3>3, Zenon DEF marked
    <3>5. failed \in [Records -> Case \cup {NoCase}]
      BY <3>3 DEF failed
    <3> QED
      BY <3>1, <3>4, <3>5
  <2>3. ASSUME NEW r \in Records, Revoke(r) PROVE case' \in [Records -> Case \cup {NoCase}]
    <3>1. case[r] \in Case
      BY <2>3 DEF Revoke, Cases, TypeOK, NoCase
    <3>2. [case[r] EXCEPT !.status = "revoked"] \in Case
      BY <3>1 DEF Case
    <3>3. case' = [case EXCEPT ![r] = [case[r] EXCEPT !.status = "revoked"]]
      BY <2>3 DEF Revoke
    <3> QED
      BY <3>2, <3>3 DEF TypeOK
  <2>4. \/ UNCHANGED case \/ Insert \/ (\E r \in Records : Revoke(r))
        \/ \E p \in Syncers : AddMissing(p) \/ Mark(p) \/ MarkFailed(p)
    BY Zenon DEF Next, vars, Close, CutOff, RunnerStep, Look, Notify, Boot, RecordingFails, StartSync,
       Coordinate, CliSync, SyncStep, ListRecords, LookUp, AddedByOther, ReadCases, Build,
       SyncFault, BuildFails, SyncFails, Shutdown, Exit, Crash
  <2> QED
    BY <2>1, <2>2, <2>3, <2>4 DEF Insert, AddMissing, TypeOK
<1>5. syn' \in [Syncers -> Sync]
  <2> USE DEF TypeOK
  <2>1. ASSUME NEW p \in Syncers,
               ListRecords(p) \/ ReadCases(p) \/ Build(p) \/ BuildFails(p) \/ AddMissing(p)
        PROVE  syn' \in [Syncers -> Sync]
    <3>1. Closed \ Cases \in SUBSET Records /\ Documents \in SUBSET Records
      BY DEF Closed, Documents, Active
    <3>2. PICK s \in Sync : Set(p, s)
      <4>1. ListRecords(p) => Set(p, [syn[p] EXCEPT !.pc = "cases", !.todo = Closed \ Cases])
        BY Zenon DEF ListRecords
      <4>2. ReadCases(p) => Set(p, [syn[p] EXCEPT !.pc = "build", !.docs = Documents])
        BY Zenon DEF ReadCases
      <4>3. Build(p) => Set(p, [syn[p] EXCEPT !.pc = "mark"])
        BY Zenon DEF Build
      <4>4. BuildFails(p) => Set(p, [syn[p] EXCEPT !.pc = "fail"])
        BY Zenon DEF BuildFails
      <4>5. AddMissing(p) => Set(p, [syn[p] EXCEPT !.new = 0])
        BY Zenon DEF AddMissing
      <4>6. /\ [syn[p] EXCEPT !.pc = "cases", !.todo = Closed \ Cases] \in Sync
            /\ [syn[p] EXCEPT !.pc = "build", !.docs = Documents] \in Sync
            /\ [syn[p] EXCEPT !.pc = "mark"] \in Sync
            /\ [syn[p] EXCEPT !.pc = "fail"] \in Sync
            /\ [syn[p] EXCEPT !.new = 0] \in Sync
        BY <3>1 DEF Sync
      <4> QED
        BY <2>1, <4>1, <4>2, <4>3, <4>4, <4>5, <4>6, Zenon
    <3> QED
      BY <3>2, SetKeepsType
  <2>2. ASSUME NEW p \in Syncers, LookUp(p) PROVE syn' \in [Syncers -> Sync]
    <3>1. PICK r \in syn[p].todo :
            Set(p, IF r \in Cases THEN [syn[p] EXCEPT !.todo = @ \ {r}]
                   ELSE [syn[p] EXCEPT !.new = r, !.todo = @ \ {r}])
      BY <2>2, Zenon DEF LookUp
    <3>2. r \in Records /\ syn[p] \in Sync
      BY DEF Sync
    <3>3. (IF r \in Cases THEN [syn[p] EXCEPT !.todo = @ \ {r}]
           ELSE [syn[p] EXCEPT !.new = r, !.todo = @ \ {r}]) \in Sync
      BY <3>2 DEF Sync
    <3> QED
      BY <3>1, <3>3, SetKeepsType
  <2>3. ASSUME NEW p \in Syncers, AddedByOther(p) \/ Mark(p) \/ MarkFailed(p) \/ SyncFails(p)
        PROVE  syn' \in [Syncers -> Sync]
    <3>1. Set(p, Off)
      BY <2>3, Zenon DEF AddedByOther, Mark, MarkFailed, SyncFails, Returns, Raises
    <3>2. Off \in Sync
      BY DEF Off, Sync
    <3> QED
      BY <3>1, <3>2, SetKeepsType
  <2>4. CASE StartSync \/ CliSync \/ Crash
    BY <2>4 DEF StartSync, CliSync, Crash, Off, Sync
  <2>5. \/ UNCHANGED syn \/ StartSync \/ CliSync \/ Crash
        \/ \E p \in Syncers : SyncStep(p) \/ BuildFails(p) \/ SyncFails(p)
    BY Zenon DEF Next, vars, Close, CutOff, RunnerStep, Look, Insert, Notify, Boot, RecordingFails,
       Coordinate, SyncFault, Shutdown, Exit, Revoke
  <2> QED
    BY <2>1, <2>2, <2>3, <2>4, <2>5 DEF SyncStep
<1>6. index' \subseteq Records
  <2>1. UNCHANGED index \/ \E p \in Syncers : index' = syn[p].docs
    BY Zenon DEF Next, vars, Close, CutOff, RunnerStep, Look, Insert, Notify, Boot, RecordingFails,
       StartSync, Coordinate, CliSync, SyncStep, ListRecords, LookUp, AddMissing, AddedByOther,
       ReadCases, Build, Mark, MarkFailed, SyncFault, BuildFails, SyncFails, Revoke, Shutdown,
       Exit, Crash
  <2>2. ASSUME NEW p \in Syncers PROVE syn[p].docs \subseteq Records
    BY DEF TypeOK, Sync
  <2> QED
    BY <2>1, <2>2 DEF TypeOK
<1>7. raced' \subseteq Records
  <2>1. UNCHANGED raced \/ Insert \/ \E p \in Syncers : AddMissing(p)
    BY Zenon DEF Next, vars, history, Close, CutOff, RunnerStep, Look, Notify, Boot, RecordingFails,
       StartSync, Coordinate, CliSync, SyncStep, ListRecords, LookUp, AddedByOther,
       ReadCases, Build, Mark, MarkFailed, SyncFault, BuildFails, SyncFails, Revoke, Shutdown,
       Exit, Crash
  <2>2. /\ run.pc = "insert" => run.rec \in Records
        /\ \A p \in Syncers : syn[p].new # 0 => syn[p].new \in Records
    BY DEF TypeOK, Sync, RunnerStates
  <2>3. ASSUME NEW r \in Records, AddCase(r) PROVE raced' \subseteq Records
    BY <2>3 DEF AddCase, TypeOK
  <2>4. Insert => run.rec \in Records /\ AddCase(run.rec)
    BY <2>2, Zenon DEF Insert
  <2>5. ASSUME NEW p \in Syncers, AddMissing(p) PROVE syn[p].new \in Records /\ AddCase(syn[p].new)
    BY <2>2, <2>5, Zenon DEF AddMissing
  <2> QED
    BY <2>1, <2>3, <2>4, <2>5 DEF TypeOK
<1>8. gone' \subseteq Records
  <2>1. UNCHANGED gone \/ \E p \in Syncers : Build(p)
    BY Zenon DEF Next, vars, history, Close, CutOff, RunnerStep, Look, Insert, Notify, Boot, RecordingFails,
       StartSync, Coordinate, CliSync, SyncStep, ListRecords, LookUp, AddMissing, AddedByOther,
       ReadCases, Mark, MarkFailed, SyncFault, BuildFails, SyncFails, Revoke, Shutdown, Exit, Crash
  <2>2. ASSUME NEW p \in Syncers, Build(p) PROVE gone' \subseteq Records
    BY <2>2 DEF Build, TypeOK
  <2> QED
    BY <2>1, <2>2 DEF TypeOK
<1> QED
  BY <1>1, <1>2, <1>3, <1>4, <1>5, <1>6, <1>7, <1>8 DEF TypeOK

\* Every variable keeps to its type.
THEOREM TypeCorrect == Spec => []TypeOK
<1>1. TypeOK /\ Coordinated /\ [Next]_vars => TypeOK'
  BY TypeStep
<1> QED
  BY <1>1, TypeInit, CoordinatorHolds, PTL DEF Spec

LEMMA IndexInit == Init => IndexInv
  BY DEF Init, IndexInv, FoundUnlessRaced, RevokedStaysOut, Sound, Verified, Active, NoCase, Off

\* The invariant about the cases and their index.
LEMMA IndexHolds == Spec => []IndexInv
<1>1. TypeOK => Shape
  BY DEF TypeOK, Shape
<1>2. IndexInv /\ Shape /\ [Next]_vars => IndexInv'
  BY IndexStep
<1> QED
  BY <1>1, <1>2, IndexInit, TypeCorrect, PTL DEF Spec

\* No verified case is lost from sight, for any number of records, attempts
\* and commands, whatever fails or dies.
THEOREM CasesAreFound == Spec => []FoundUnlessRaced
<1>1. IndexInv => FoundUnlessRaced
  BY DEF IndexInv
<1> QED
  BY <1>1, IndexHolds, PTL

\* A revoked case that a sync has put out of the index does not come back.
THEOREM RevokedCasesStayOut == Spec => []RevokedStaysOut
<1>1. IndexInv => RevokedStaysOut
  BY DEF IndexInv
<1> QED
  BY <1>1, IndexHolds, PTL
=============================================================================
