----------------------------- MODULE RunnerProofs -----------------------------
(***************************************************************************)
(* Theorems about Runner, for any kinds, runbooks, operators, retry budget *)
(* and faults.                                                             *)
(*                                                                         *)
(* The invariants of Runner relate rows of three tables that are written   *)
(* in different commits, so none is inductive alone.  What carries them is *)
(* the state of the one process that writes: which incident it has in      *)
(* hand, at which statement of tick(), and what it has already committed   *)
(* for it.  IInv says that, and a fault only ever throws the hand away.    *)
(***************************************************************************)
EXTENDS Runner, TLAPS, FiniteSetTheorems, WellFoundedInduction

-----------------------------------------------------------------------------
(* The approval desk as the Runner has it: what every step of the Runner,   *)
(* being a step of the desk or none, keeps of its rows, calls and runs.     *)
(*                                                                          *)
(* The statements are those of ApprovalsProofs about the instance A.  The   *)
(* prover takes no theorem through INSTANCE, so their proofs stand here     *)
(* once more, with the argument objects a gated call can carry in the       *)
(* Runner (its runbooks) and its incident ids.                              *)

\* Every step of the Runner is a step of the approval desk, or leaves it alone.
LEMMA DeskStep ==
  ASSUME run \in Process, [Next]_vars
  PROVE  [A!Next]_deskVars
<1> DEFINE Quietly == UNCHANGED deskVars
<1>1. CASE Suspend
  <2>1. PICK r \in Requests : A!CreatePending(r, run.rb, run.cur)
    BY <1>1 DEF Suspend
  <2>2. run.rb \in Runbooks /\ run.cur \in IncidentIds \cup {0}
    BY <1>1, RunnerAssumption DEF Suspend, Process
  <2> QED
    BY <2>1, <2>2 DEF A!Next
<1>2. ASSUME NEW rb \in Runbooks, ModelRestarts(rb)
      PROVE  A!Next
  BY <1>2 DEF ModelRestarts, A!Next
<1>3. CASE Sweep
  BY <1>3 DEF Sweep, A!Next
<1>4. CASE Desk
  BY <1>4 DEF Desk, A!Next
<1>5. CASE Fault
  BY <1>5 DEF Fault, ModelRaises, DatabaseRaises, Crash, deskVars
<1>6. CASE Step /\ ~Suspend /\ ~Sweep
  <2>1. ASSUME NEW reading \in [Kinds -> {"breached", "normal"}], Collect(reading)
        PROVE  Quietly
    BY <2>1 DEF Collect
  <2>2. CASE Apply \/ ListAwaiting \/ EndTick \/ Claim \/ NoConclusion \/ NoRunbook
    BY <2>2 DEF Apply, ListAwaiting, EndTick, Claim, NoConclusion, NoRunbook
  <2>3. ASSUME NEW rb \in Runbooks, ChooseRunbook(rb)
        PROVE  Quietly
    BY <2>3 DEF ChooseRunbook
  <2>4. CASE CreateRecord \/ CreateContext \/ Link \/ ExecuteNow \/ ExecuteFails
    BY <2>4 DEF CreateRecord, CreateContext, Link, ExecuteNow, ExecuteFails
  <2>5. ASSUME NEW passed \in BOOLEAN, VerifyNow(passed) \/ ApprovedAndRun(passed)
        PROVE  Quietly
    BY <2>5 DEF VerifyNow, ApprovedAndRun
  <2>6. CASE StillPending \/ Refused \/ ApprovedInVain
    BY <2>6 DEF StillPending, Refused, ApprovedInVain
  <2>7. CASE CompleteContext \/ Settle \/ RecordCase \/ Boot
    BY <2>7 DEF CompleteContext, Settle, RecordCase, Boot
  <2> QED
    BY <1>6, <2>1, <2>2, <2>3, <2>4, <2>5, <2>6, <2>7 DEF Step
<1>7. CASE Reconcile \/ UNCHANGED vars
  BY <1>7 DEF Reconcile, vars
<1> QED
  BY <1>1, <1>2, <1>3, <1>4, <1>5, <1>6, <1>7 DEF Next, Step

-----------------------------------------------------------------------------
(* Rows and calls keep their type under the updates the actions make. *)

\* A row whose status is rewritten is still a row.
LEMMA StatusUpdate ==
  ASSUME NEW x \in A!Row, NEW s \in A!Statuses
  PROVE  [x EXCEPT !.status = s] \in A!Row
  BY DEF A!Row

\* A row that a decision by p is written into is still a row.
LEMMA DecisionUpdate ==
  ASSUME NEW x \in A!Row, NEW s \in A!Statuses, NEW p \in Operators,
         NEW res \in A!Results \cup {"none"}
  PROVE  /\ [x EXCEPT !.status = s, !.by = p] \in A!Row
         /\ [x EXCEPT !.status = s, !.result = res, !.by = p] \in A!Row
  BY DEF A!Row

\* A new call on request r is a call.
LEMMA CallStart ==
  ASSUME NEW r \in Requests, NEW a \in Runbooks \cup {"none"},
         NEW pc \in {"execute", "expire", "reject"}
  PROVE  /\ [A!Idle EXCEPT !.pc = pc, !.id = r] \in A!Call
         /\ [A!Idle EXCEPT !.pc = pc, !.id = r, !.args = a] \in A!Call
  BY DEF A!Call, A!Idle

\* A call that is not idle names a request ...
LEMMA CallId ==
  ASSUME NEW c \in A!Call, c.pc # "idle"
  PROVE  c.id \in Requests /\ c.args \in Runbooks \cup {"none"} /\ c.result \in A!Results \cup {"none"}
  BY DEF A!Call, A!Idle

\* ... and the end of its tool run leaves it a call.
LEMMA CallRun ==
  ASSUME NEW c \in A!Call, c.pc # "idle", NEW res \in A!Results
  PROVE  [c EXCEPT !.pc = "commit", !.result = res] \in A!Call
<1>1. c \in [pc     : {"execute", "commit", "expire", "reject"},
            id     : Requests,
            args   : Runbooks \cup {"none"},
            result : A!Results \cup {"none"}]
  BY DEF A!Call, A!Idle
<1> QED
  BY <1>1 DEF A!Call

\* The end of a tool run is written into the call for the same request.
LEMMA RunKeepsId ==
  ASSUME NEW c \in A!Call, NEW res \in A!Results
  PROVE  [c EXCEPT !.pc = "commit", !.result = res].id = c.id
  BY DEF A!Call, A!Idle

\* The initial values have the types.
LEMMA DeskInitialTypes == A!Idle \in A!Call /\ A!Blank \in A!Row
<1>1. A!Idle \in A!Call
  BY DEF A!Call
<1>2. A!Blank \in A!Row
  BY DEF A!Row, A!Blank, A!Statuses, A!Digests
<1> QED
  BY <1>1, <1>2

\* No step of the desk breaks a type.
LEMMA DeskTypeStep == A!TypeOK /\ [A!Next]_deskVars => A!TypeOK'
<1> SUFFICES ASSUME A!TypeOK, [A!Next]_deskVars PROVE A!TypeOK'
  OBVIOUS
<1> USE DEF A!TypeOK
<1>1. ASSUME NEW r \in Requests, NEW a \in Runbooks, NEW i \in IncidentIds \cup {0},
             A!CreatePending(r, a, i)
      PROVE  A!TypeOK'
  <2>1. [A!Blank EXCEPT !.status = "pending", !.args = a,
                      !.hash = Fingerprint[a], !.incident = i] \in A!Row
    BY DEF A!Row, A!Blank, A!Statuses, A!Digests
  <2> QED
    BY <1>1, <2>1, RunnerAssumption DEF A!CreatePending
<1>2. ASSUME NEW p \in Operators, NEW r \in Requests, A!ApproveStart(p, r)
      PROVE  A!TypeOK'
  <2>1. req[r].args \in Runbooks \cup {"none"}
    BY DEF A!Row
  <2> QED
    BY <1>2, <2>1, CallStart DEF A!ApproveStart
<1>3. ASSUME NEW p \in Operators, NEW r \in Requests, A!ApproveLate(p, r)
      PROVE  A!TypeOK'
  BY <1>3, CallStart DEF A!ApproveLate
<1>4. ASSUME NEW p \in Operators, NEW r \in Requests, A!RejectStart(p, r)
      PROVE  A!TypeOK'
  BY <1>4, CallStart DEF A!RejectStart
<1>5. ASSUME NEW p \in Operators, A!ExpireWrite(p)
      PROVE  A!TypeOK'
  <2>1. op[p].id \in Requests
    BY <1>5, CallId DEF A!ExpireWrite
  <2>2. [req[op[p].id] EXCEPT !.status = "expired"] \in A!Row
    BY <2>1, StatusUpdate DEF A!Statuses
  <2> QED
    BY <1>5, <2>1, <2>2, DeskInitialTypes DEF A!ExpireWrite
<1>6. ASSUME NEW p \in Operators, NEW res \in A!Results, A!ApproveRun(p, res)
      PROVE  A!TypeOK'
  <2>1. op' \in [Operators -> A!Call]
    BY <1>6, CallRun DEF A!ApproveRun
  <2>2. op[p].id \in Requests /\ op[p].args \in Runbooks \cup {"none"}
    BY <1>6, CallId DEF A!ApproveRun
  <2>3. ran' \in [Requests -> SUBSET ((Runbooks \cup {"none"}) \X A!Results)]
    BY <1>6, <2>2 DEF A!ApproveRun
  <2>4. runs' \in [Requests -> 0..2]
    BY <1>6, <2>2 DEF A!ApproveRun
  <2> QED
    BY <1>6, <2>1, <2>3, <2>4 DEF A!ApproveRun
<1>7. ASSUME NEW p \in Operators, A!ApproveRefused(p)
      PROVE  A!TypeOK'
  BY <1>7, CallRun DEF A!ApproveRefused, A!Results
<1>8. ASSUME NEW p \in Operators, A!ApproveCommit(p)
      PROVE  A!TypeOK'
  <2> DEFINE r == op[p].id
  <2>1. r \in Requests
    BY <1>8, CallId DEF A!ApproveCommit
  <2>2. [req[r] EXCEPT !.status = "approved", !.result = op[p].result, !.by = p] \in A!Row
    <3>1. op[p].result \in A!Results \cup {"none"} /\ req[r] \in A!Row
      BY <2>1, <1>8, CallId DEF A!ApproveCommit
    <3> QED
      BY <3>1, DecisionUpdate DEF A!Statuses
  <2>3. req' = [req EXCEPT ![r] = [@ EXCEPT !.status = "approved",
                                            !.result = op[p].result, !.by = p]]
    BY <1>8, <2>1 DEF A!ApproveCommit
  <2> QED
    BY <1>8, <2>1, <2>2, <2>3, DeskInitialTypes DEF A!ApproveCommit
<1>9. ASSUME NEW p \in Operators, A!RejectWrite(p)
      PROVE  A!TypeOK'
  <2> DEFINE r == op[p].id
  <2>1. r \in Requests
    BY <1>9, CallId DEF A!RejectWrite
  <2>2. [req[r] EXCEPT !.status = "rejected", !.by = p] \in A!Row
    <3>1. req[r] \in A!Row
      BY <2>1
    <3> QED
      BY <3>1, DecisionUpdate DEF A!Statuses
  <2>3. req' = [req EXCEPT ![r] = [@ EXCEPT !.status = "rejected", !.by = p]]
    BY <1>9, <2>1 DEF A!RejectWrite
  <2> QED
    BY <1>9, <2>1, <2>2, <2>3, DeskInitialTypes DEF A!RejectWrite
<1>10. ASSUME NEW p \in Operators, A!OperatorFail(p)
       PROVE  A!TypeOK'
  BY <1>10, DeskInitialTypes DEF A!OperatorFail
<1>11. CASE A!ExpireStale
  BY <1>11, StatusUpdate DEF A!ExpireStale, A!Statuses
<1>12. CASE A!Tick
  BY <1>12, RunnerAssumption DEF A!Tick
<1>13. ASSUME NEW r \in Requests, NEW a \in Runbooks, A!Tamper(r, a)
       PROVE  A!TypeOK'
  <2>1. [req[r] EXCEPT !.args = a] \in A!Row
    BY DEF A!Row
  <2> QED
    BY <1>13, <2>1 DEF A!Tamper
<1>14. CASE UNCHANGED deskVars
  BY <1>14 DEF deskVars
<1> QED
  BY <1>1, <1>2, <1>3, <1>4, <1>5, <1>6, <1>7, <1>8, <1>9, <1>10, <1>11,
     <1>12, <1>13, <1>14 DEF A!Next, A!OperatorNext, A!OperatorStep

-----------------------------------------------------------------------------
\* The invariant is inductive: every step of every action preserves it.
LEMMA DeskIInvStep == A!TypeOK /\ A!IInv /\ [A!Next]_deskVars => A!IInv'
<1> SUFFICES ASSUME A!TypeOK, A!IInv, [A!Next]_deskVars PROVE A!IInv'
  OBVIOUS
<1> USE DEF A!IInv, A!RowInv, A!CallInv, A!ConsentBound, A!SuccessIsReal, A!ExpiredIsLate, A!Late, A!TypeOK
<1>1. ASSUME NEW r \in Requests, NEW a \in Runbooks, NEW i \in IncidentIds \cup {0},
             A!CreatePending(r, a, i)
      PROVE  A!IInv'
  BY <1>1 DEF A!CreatePending, A!Pending, A!Genuine, A!Late, A!Idle, A!Blank
<1>2. ASSUME NEW p \in Operators, NEW r \in Requests,
             A!ApproveStart(p, r)
      PROVE  A!IInv'
  <2>1. req[r].args = asked[r]
    BY <1>2, RunnerAssumption DEF A!ApproveStart, A!Pending, A!Genuine
  <2>2. A!CallInv(p)'
    BY <1>2, <2>1 DEF A!ApproveStart, A!Pending, A!Idle
  <2> QED
    BY <1>2, <2>2 DEF A!ApproveStart
<1>3. ASSUME NEW p \in Operators, NEW r \in Requests,
             A!ApproveLate(p, r)
      PROVE  A!IInv'
  BY <1>3 DEF A!ApproveLate, A!Pending, A!Genuine, A!Late, A!Idle, A!Blank
<1>4. ASSUME NEW p \in Operators, NEW r \in Requests,
             A!RejectStart(p, r)
      PROVE  A!IInv'
  BY <1>4 DEF A!RejectStart, A!Pending, A!Genuine, A!Late, A!Idle, A!Blank
<1>5. ASSUME NEW p \in Operators,
             A!ExpireWrite(p)
      PROVE  A!IInv'
  BY <1>5 DEF A!ExpireWrite, A!Pending, A!Genuine, A!Late, A!Idle, A!Blank
<1>6. ASSUME NEW p \in Operators, NEW res \in A!Results,
             A!ApproveRun(p, res)
      PROVE  A!IInv'
  <2> DEFINE r == op[p].id
  <2>1. r \in Requests /\ req[r].status # "absent" /\ op[p].args = asked[r]
    BY <1>6, CallId DEF A!ApproveRun
  <2>2. /\ ran'[r] = ran[r] \cup {<<op[p].args, res>>}
        /\ \A x \in Requests : x # r => ran'[x] = ran[x]
    BY <1>6, <2>1 DEF A!ApproveRun
  <2>3. /\ op'[p].pc = "commit" /\ op'[p].id = r /\ op'[p].result = res
        /\ \A q \in Operators : q # p => op'[q] = op[q]
    BY <1>6 DEF A!ApproveRun, A!Call
  <2>4. UNCHANGED <<req, left, asked>>
    BY <1>6 DEF A!ApproveRun
  <2>5. A!ConsentBound'
    BY <2>1, <2>2, <2>4
  <2>6. A!SuccessIsReal' /\ A!ExpiredIsLate'
    BY <2>2, <2>4
  <2>7. \A x \in Requests : A!RowInv(x)'
    BY <2>1, <2>2, <2>4
  <2>8. A!CallInv(p)'
    <3>1. <<op[p].args, res>> \in ran'[r]
      BY <2>2
    <3> QED
      BY <2>1, <2>3, <2>4, <3>1
  <2>9. ASSUME NEW q \in Operators, q # p
        PROVE  A!CallInv(q)'
    <3>1. op[q].pc # "idle" => op[q].id \in Requests /\ ran[op[q].id] \subseteq ran'[op[q].id]
      BY <2>2, CallId
    <3> QED
      BY <2>3, <2>4, <2>9, <3>1
  <2> QED
    BY <2>5, <2>6, <2>7, <2>8, <2>9
<1>7. ASSUME NEW p \in Operators,
             A!ApproveRefused(p)
      PROVE  A!IInv'
  BY <1>7 DEF A!ApproveRefused, A!Pending, A!Genuine, A!Late, A!Idle, A!Blank
<1>8. ASSUME NEW p \in Operators,
             A!ApproveCommit(p)
      PROVE  A!IInv'
  <2> DEFINE r == op[p].id
  <2>1. r \in Requests /\ req[r].status # "absent"
    BY <1>8, CallId DEF A!ApproveCommit
  <2>2. /\ req'[r].status = "approved" /\ req'[r].result = op[p].result
        /\ req'[r].args = req[r].args /\ req'[r].hash = req[r].hash
        /\ \A x \in Requests : x # r => req'[x] = req[x]
    BY <1>8, <2>1 DEF A!ApproveCommit, A!Row
  <2>3. op'[p] = A!Idle /\ \A q \in Operators : q # p => op'[q] = op[q]
    BY <1>8 DEF A!ApproveCommit
  <2>4. UNCHANGED <<left, asked, ran>>
    BY <1>8 DEF A!ApproveCommit
  <2>5. A!SuccessIsReal'
    BY <1>8, <2>1, <2>2, <2>4 DEF A!ApproveCommit
  <2>6. A!ConsentBound' /\ A!ExpiredIsLate'
    BY <2>2, <2>4
  <2>7. \A x \in Requests : A!RowInv(x)'
    BY <2>1, <2>2, <2>4
  <2>8. \A q \in Operators : A!CallInv(q)'
    BY <2>1, <2>2, <2>3, <2>4, CallId DEF A!Idle
  <2> QED
    BY <2>5, <2>6, <2>7, <2>8
<1>9. ASSUME NEW p \in Operators,
             A!RejectWrite(p)
      PROVE  A!IInv'
  <2> DEFINE r == op[p].id
  <2>1. r \in Requests /\ req[r].status # "absent"
    BY <1>9, CallId DEF A!RejectWrite
  <2>2. /\ req'[r].status = "rejected" /\ req'[r].result = req[r].result
        /\ req'[r].args = req[r].args /\ req'[r].hash = req[r].hash
        /\ \A x \in Requests : x # r => req'[x] = req[x]
    BY <1>9, <2>1 DEF A!RejectWrite, A!Row
  <2>3. op'[p] = A!Idle /\ \A q \in Operators : q # p => op'[q] = op[q]
    BY <1>9 DEF A!RejectWrite
  <2>4. UNCHANGED <<left, asked, ran>>
    BY <1>9 DEF A!RejectWrite
  <2>5. A!ConsentBound' /\ A!SuccessIsReal' /\ A!ExpiredIsLate'
    BY <2>2, <2>4
  <2>6. \A x \in Requests : A!RowInv(x)'
    BY <2>1, <2>2, <2>4
  <2>7. \A q \in Operators : A!CallInv(q)'
    BY <2>1, <2>2, <2>3, <2>4, CallId DEF A!Idle
  <2> QED
    BY <2>5, <2>6, <2>7
<1>10. ASSUME NEW p \in Operators,
             A!OperatorFail(p)
      PROVE  A!IInv'
  BY <1>10 DEF A!OperatorFail, A!Pending, A!Genuine, A!Late, A!Idle, A!Blank
<1>11. CASE A!ExpireStale
  <2>1. \A x \in Requests :
          /\ req'[x].args = req[x].args /\ req'[x].hash = req[x].hash
          /\ req'[x].result = req[x].result
          /\ \/ req'[x].status = req[x].status
             \/ A!Pending(x) /\ A!Late(x) /\ req'[x].status = "expired"
    <3> TAKE x \in Requests
    <3>1. req[x] \in A!Row
      OBVIOUS
    <3>2. CASE A!Pending(x) /\ A!Late(x)
      <4>1. req'[x] = [req[x] EXCEPT !.status = "expired"]
        BY <1>11, <3>2 DEF A!ExpireStale
      <4> QED
        BY <3>1, <3>2, <4>1 DEF A!Row
    <3>3. CASE ~(A!Pending(x) /\ A!Late(x))
      BY <1>11, <3>3 DEF A!ExpireStale
    <3> QED
      BY <3>2, <3>3
  <2>2. UNCHANGED <<left, op, asked, ran>>
    BY <1>11 DEF A!ExpireStale
  <2>3. A!ConsentBound' /\ A!SuccessIsReal' /\ A!ExpiredIsLate'
    BY <2>1, <2>2
  <2>4. \A x \in Requests : A!RowInv(x)'
    BY <2>1, <2>2 DEF A!Pending
  <2>5. \A q \in Operators : A!CallInv(q)'
    BY <2>1, <2>2, CallId
  <2> QED
    BY <2>3, <2>4, <2>5
<1>12. CASE A!Tick
  <2>1. \A x \in Requests : A!Late(x) => A!Late(x)'
    BY <1>12 DEF A!Tick
  <2>2. UNCHANGED <<req, op, asked, ran>>
    BY <1>12 DEF A!Tick
  <2>3. A!ConsentBound' /\ A!SuccessIsReal' /\ A!ExpiredIsLate'
    BY <2>1, <2>2
  <2>4. \A x \in Requests : A!RowInv(x)'
    BY <2>2
  <2>5. \A q \in Operators : A!CallInv(q)'
    BY <2>1, <2>2, CallId
  <2> QED
    BY <2>3, <2>4, <2>5
<1>13. ASSUME NEW r \in Requests, NEW a \in Runbooks,
             A!Tamper(r, a)
      PROVE  A!IInv'
  BY <1>13 DEF A!Tamper, A!Pending, A!Genuine, A!Late, A!Idle, A!Blank
<1>14. CASE UNCHANGED deskVars
  BY <1>14 DEF deskVars
<1> QED
  BY <1>1, <1>2, <1>3, <1>4, <1>5, <1>6, <1>7, <1>8, <1>9, <1>10, <1>11, <1>12, <1>13, <1>14 DEF A!Next, A!OperatorNext, A!OperatorStep

-----------------------------------------------------------------------------
\* An approved row has the result of its run.
ResultInv ==
  /\ \A r \in Requests : req[r].status = "approved" => req[r].result \in A!Results
  /\ \A p \in Operators : op[p].pc = "commit" => op[p].result \in A!Results

\* Only approve writes "approved", and writes the result with it.
LEMMA ResultStep == A!TypeOK /\ ResultInv /\ [A!Next]_deskVars => ResultInv'
<1> SUFFICES ASSUME A!TypeOK, ResultInv, [A!Next]_deskVars PROVE ResultInv'
  OBVIOUS
<1> USE DEF A!TypeOK, ResultInv
<1>1. ASSUME NEW p \in Operators, A!ApproveCommit(p)
      PROVE  ResultInv'
  <2>1. op[p].id \in Requests /\ op[p].result \in A!Results
    BY <1>1, CallId DEF A!ApproveCommit
  <2>2. /\ req'[op[p].id].result = op[p].result
        /\ \A r \in Requests : r # op[p].id => req'[r] = req[r]
    BY <1>1, <2>1 DEF A!ApproveCommit, A!Row
  <2>3. op' = [op EXCEPT ![p] = A!Idle]
    BY <1>1 DEF A!ApproveCommit
  <2> QED
    BY <2>1, <2>2, <2>3 DEF A!Idle
<1>2. ASSUME NEW p \in Operators, A!ExpireWrite(p) \/ A!RejectWrite(p)
      PROVE  ResultInv'
  <2>1. /\ req'[op[p].id].status # "approved"
        /\ \A r \in Requests : r # op[p].id => req'[r] = req[r]
    BY <1>2, CallId DEF A!ExpireWrite, A!RejectWrite, A!Row
  <2>2. op' = [op EXCEPT ![p] = A!Idle]
    BY <1>2 DEF A!ExpireWrite, A!RejectWrite
  <2> QED
    BY <2>1, <2>2 DEF A!Idle
<1>3. ASSUME NEW p \in Operators, NEW res \in A!Results, A!ApproveRun(p, res) \/ A!ApproveRefused(p)
      PROVE  ResultInv'
  <2>1. op'[p].result \in A!Results /\ \A q \in Operators : q # p => op'[q] = op[q]
    <3>1. op[p].pc = "execute" /\ op[p] \in A!Call
      BY <1>3 DEF A!ApproveRun, A!ApproveRefused
    <3>2. \E x \in A!Results : op' = [op EXCEPT ![p] = [@ EXCEPT !.pc = "commit", !.result = x]]
      BY <1>3 DEF A!ApproveRun, A!ApproveRefused, A!Results
    <3>3. \A x \in A!Results : [op[p] EXCEPT !.pc = "commit", !.result = x].result = x
      BY <3>1 DEF A!Call, A!Idle
    <3> QED
      BY <3>2, <3>3
  <2> QED
    BY <1>3, <2>1 DEF A!ApproveRun, A!ApproveRefused
<1>4. ASSUME NEW p \in Operators, NEW r \in Requests,
             A!ApproveStart(p, r) \/ A!ApproveLate(p, r) \/ A!RejectStart(p, r)
      PROVE  ResultInv'
  <2>1. op'[p].pc # "commit" /\ \A q \in Operators : q # p => op'[q] = op[q]
    BY <1>4 DEF A!ApproveStart, A!ApproveLate, A!RejectStart, A!Idle
  <2> QED
    BY <1>4, <2>1 DEF A!ApproveStart, A!ApproveLate, A!RejectStart
<1>5. ASSUME NEW p \in Operators, A!OperatorFail(p)
      PROVE  ResultInv'
  BY <1>5 DEF A!OperatorFail, A!Idle
<1>6. ASSUME NEW r \in Requests, NEW a \in Runbooks, NEW i \in IncidentIds \cup {0},
             A!CreatePending(r, a, i)
      PROVE  ResultInv'
  BY <1>6 DEF A!CreatePending, A!Blank
<1>7. CASE A!ExpireStale
  BY <1>7 DEF A!ExpireStale, A!Row
<1>8. ASSUME NEW r \in Requests, NEW a \in Runbooks, A!Tamper(r, a)
      PROVE  ResultInv'
  BY <1>8 DEF A!Tamper, A!Row
<1>9. CASE A!Tick \/ UNCHANGED deskVars
  BY <1>9 DEF A!Tick, deskVars
<1> QED
  BY <1>1, <1>2, <1>3, <1>4, <1>5, <1>6, <1>7, <1>8, <1>9
  DEF A!Next, A!OperatorNext, A!OperatorStep, A!Results

-----------------------------------------------------------------------------
(* What the Runner reads of the desk *)

\* What goes on at the desk besides the Runner's new requests.
Answers == (\E p \in Operators : A!OperatorNext(p)) \/ A!Tick \/ A!ExpireStale

\* What is on a row for good: that it exists, its incident, its call.
SameRequest(r) ==
  /\ req'[r].incident = req[r].incident
  /\ (req'[r].status = "absent") <=> (req[r].status = "absent")
  /\ asked'[r] = asked[r]

\* Whatever answers come in, requests stay those of their incident and call.
LEMMA AnswersKeepRequests ==
  ASSUME A!TypeOK, A!IInv, Answers, NEW r \in Requests
  PROVE  SameRequest(r)
<1> USE DEF A!TypeOK, SameRequest
<1>1. ASSUME NEW p \in Operators, A!ExpireWrite(p) \/ A!ApproveCommit(p) \/ A!RejectWrite(p)
      PROVE  SameRequest(r)
  <2>1. op[p].id \in Requests /\ req[op[p].id].status # "absent" /\ asked' = asked
    BY <1>1, CallId DEF A!ExpireWrite, A!ApproveCommit, A!RejectWrite, A!IInv, A!CallInv
  <2>2. CASE A!ExpireWrite(p)
    BY <2>1, <2>2 DEF A!ExpireWrite, A!Row
  <2>3. CASE A!ApproveCommit(p)
    BY <2>1, <2>3 DEF A!ApproveCommit, A!Row
  <2>4. CASE A!RejectWrite(p)
    BY <2>1, <2>4 DEF A!RejectWrite, A!Row
  <2> QED
    BY <1>1, <2>2, <2>3, <2>4
<1>2. CASE A!ExpireStale
  BY <1>2 DEF A!ExpireStale, A!Pending, A!Row
<1>3. CASE UNCHANGED <<req, asked>>
  BY <1>3
<1>4. \/ \E p \in Operators : A!ExpireWrite(p) \/ A!ApproveCommit(p) \/ A!RejectWrite(p)
      \/ A!ExpireStale
      \/ UNCHANGED <<req, asked>>
  BY Zenon DEF Answers, A!OperatorNext, A!OperatorStep, A!OperatorFail, A!Tick,
     A!ApproveStart, A!ApproveLate, A!RejectStart, A!ApproveRun, A!ApproveRefused
<1> QED
  BY <1>1, <1>2, <1>3, <1>4

\* A new request is the incident's and the call's it was made for.
LEMMA NewRequestIs ==
  ASSUME A!TypeOK, NEW r \in Requests, NEW a, NEW i, A!CreatePending(r, a, i)
  PROVE  /\ req[r].status = "absent"
         /\ req'[r].status = "pending" /\ req'[r].incident = i /\ asked'[r] = a
         /\ \A x \in Requests : x # r => req'[x] = req[x] /\ asked'[x] = asked[x]
         /\ ran' = ran
  BY DEF A!CreatePending, A!TypeOK, A!Blank

\* Tool runs are never forgotten.
LEMMA RunsStay ==
  ASSUME A!TypeOK, [A!Next]_deskVars, NEW r \in Requests
  PROVE  ran[r] \subseteq ran'[r]
<1>1. ASSUME NEW p \in Operators, NEW res \in A!Results, A!ApproveRun(p, res)
      PROVE  ran[r] \subseteq ran'[r]
  BY <1>1, CallId DEF A!ApproveRun, A!TypeOK
<1>2. \/ \E p \in Operators : \E res \in A!Results : A!ApproveRun(p, res)
      \/ ran' = ran
  BY Zenon DEF A!Next, A!OperatorNext, A!OperatorStep, A!OperatorFail, A!Tick,
     A!ApproveStart, A!ApproveLate, A!RejectStart, A!ApproveRefused, A!ExpireWrite,
     A!ApproveCommit, A!RejectWrite, A!ExpireStale, A!CreatePending, A!Tamper, deskVars
<1> QED
  BY <1>1, <1>2

-----------------------------------------------------------------------------
(* The inductive invariant *)

InHand    == {"ask", "record", "context", "execute", "link", "verify",
              "close", "status", "case"}
Acting    == {"context", "execute", "link", "verify"}
Cur       == inc[run.cur]
Fresh(i)  == JobsOf(i) = {}
OwnJob    == run.job \in JobsOf(run.cur)
Passed(j) == job[j].status = "verified" /\ job[j].verify = "passed"
Linked(i) == \E j \in JobsOf(i) : job[j].approval # 0

\* The loop the process is in, and the ids it still has to visit: what the
\* query found is still true when the loop gets there.
LoopInv ==
  /\ run.loop = "none" <=> run.pc \in {"down", "idle", "apply", "sweep"}
  /\ run.pc \in {"open", "await"} => run.loop = run.pc
  /\ run.loop = "open"  => \A i \in run.todo : inc[i].status = "open"
  /\ run.loop = "await" => \A i \in run.todo : inc[i].status = "awaiting_approval"
  /\ run.pc \in InHand => run.cur \in IncidentIds /\ run.cur \notin run.todo

\* An open incident in hand: under investigation, without a record until
\* CreateRecord, and with the verdict its next status stands on.
OpenInv ==
  run.loop = "open" /\ run.pc \in InHand =>
    /\ run.pc # "close"
    /\ run.pc # "case" => Cur.status = "investigating"
    /\ run.pc \notin {"status", "case"} => run.tell = "never"
    /\ run.pc \in {"ask", "record"} => Fresh(run.cur)
    /\ run.pc = "ask" => Cur.retry < MaxRetries /\ Cur.retry < tries[run.cur]
    /\ run.pc \in {"record"} \cup Acting => run.rb \in Runbooks
    /\ run.pc \in Acting =>
         OwnJob /\ job[run.job].runbook = run.rb /\ job[run.job].approval = 0
    /\ run.pc \in {"context", "execute"} => RequestsOf(run.cur) = {}
    /\ run.pc = "link" =>
         /\ run.ticket \in RequestsOf(run.cur)
         /\ req[run.ticket].status # "absent" /\ asked[run.ticket] = run.rb
    /\ run.pc = "status" =>
         \/ /\ run.goal = "open" /\ run.tell = "never" /\ Fresh(run.cur)
            /\ Cur.retry < MaxRetries /\ Cur.retry <= tries[run.cur]
         \/ run.goal = "failed" /\ run.tell = "never" /\ tries[run.cur] >= MaxRetries
         \/ run.goal = "failed" /\ run.tell = "after" /\ OwnJob
         \/ run.goal = "awaiting_approval" /\ run.tell = "never" /\ Linked(run.cur)
         \/ run.goal = "resolved" /\ run.tell = "after" /\ OwnJob /\ Passed(run.job)
    /\ run.pc = "case" =>
         run.tell = "after" /\ OwnJob /\ Cur.status \in {"failed", "resolved"}

\* An awaiting incident in hand: it still awaits until its status is written,
\* and is resolved only on a verdict already in its record.
AwaitInv ==
  run.loop = "await" /\ run.pc \in InHand =>
    /\ run.pc \in {"close", "status", "case"}
    /\ \/ Cur.status = "awaiting_approval"
       \/ run.pc = "case" /\ run.tell = "after" /\ Cur.status \in {"failed", "resolved"}
    /\ run.pc = "case" /\ run.tell = "after" => Cur.status # "awaiting_approval"
    /\ \/ /\ run.tell = "never" /\ run.goal = "failed" /\ run.pc # "case"
          /\ run.pc = "close" => OwnJob
       \/ run.tell \in {"before", "after"} /\ run.goal = "failed" /\ OwnJob
       \/ run.tell = "after" /\ run.goal = "resolved" /\ OwnJob /\ Passed(run.job)

\* The incidents no process has in hand.
IncidentInv ==
  \A i \in IncidentIds :
    /\ inc[i].status \in {"absent", "open"} => Fresh(i)
    /\ inc[i].status = "open" => inc[i].retry < MaxRetries /\ inc[i].retry <= tries[i]
    /\ inc[i].status = "awaiting_approval" => Linked(i)

\* Records name existing requests, and a verified gated one has been run.
JobInv ==
  \A j \in Jobs : job[j].approval # 0 =>
    /\ req[job[j].approval].status # "absent"
    /\ job[j].status = "verified" => Consented(j)

\* An incident has at most one request of its own, and only after its record.
RequestInv ==
  /\ \A r \in Requests : req[r].incident # 0 => ~Fresh(req[r].incident)
  /\ \A r, s \in Requests : req[r].incident # 0 /\ req[r].incident = req[s].incident => r = s

HandInv   == LoopInv /\ OpenInv /\ AwaitInv
TablesInv == JobInv /\ TicketMatchesJob /\ RequestInv /\ OneJobPerIncident

IInv == A!IInv /\ ResultInv /\ HandInv /\ IncidentInv /\ TablesInv

\* An incident that is open, or that this tick may still put back to open.
Held(i) ==
  \/ inc[i].status = "open"
  \/ run.loop = "open" /\ run.pc \in InHand /\ i = run.cur /\ inc[i].status = "investigating"

\* The detector and the incidents.  A kind with an incident held open is one
\* the detector will report as recovered, and has not reported yet.
KindInv ==
  /\ \A i, h \in IncidentIds :
       Held(i) /\ Held(h) /\ inc[i].kind = inc[h].kind => i = h
  /\ run.pc # "down" => \A i \in IncidentIds : Held(i) => inc[i].kind \in openKinds
  /\ run.pc = "apply" => \A k \in Kinds : events[k] = "open" => k \in openKinds /\ okay[k] = 0

ClosingInv ==
  \A i \in IncidentIds : Held(i) =>
    \/ okay[inc[i].kind] < Sustain[inc[i].kind]
    \/ run.pc = "apply" /\ events[inc[i].kind] = "resolve"

-----------------------------------------------------------------------------
(* Lemmas about the helpers *)

\* A set of numbers that is not empty has a least one.
LEMMA LeastNumber ==
  ASSUME NEW S \in SUBSET Nat, S # {}
  PROVE  \E m \in S : \A x \in S : m <= x
<1> DEFINE Less == {s \in Nat \X Nat : s[1] < s[2]}
<1>1. IsWellFoundedOn(Less, Nat)
  BY NatLessThanWellFounded DEF OpToRel
<1> HIDE DEF Less
<1>2. PICK m \in S : \A x \in S : ~ (<<x, m>> \in Less)
  <2>1. S \subseteq Nat
    OBVIOUS
  <2> QED
    BY ONLY <1>1, <2>1, S # {}, WFMin
<1>3. ASSUME NEW x \in S
      PROVE  m <= x
  <2>1. x \in Nat /\ m \in Nat /\ <<x, m>> \notin Less
    BY <1>2
  <2>2. <<x, m>> \in Less <=> x < m
    BY <2>1 DEF Less
  <2> QED
    BY <2>1, <2>2
<1> QED
  BY <1>2, <1>3

\* The latest of a bounded set of ids is its greatest element, 0 if it has none.
LEMMA LatestIs ==
  ASSUME NEW S \in SUBSET Nat, NEW n \in Nat, \A x \in S : x <= n
  PROVE  IF S = {} THEN Latest(S) = 0
         ELSE Latest(S) \in S /\ \A x \in S : x <= Latest(S)
<1>1. ASSUME S # {}
      PROVE  \E m \in S : \A x \in S : x <= m
  <2> DEFINE T == {n - x : x \in S}
  <2>1. T \in SUBSET Nat /\ T # {}
    BY <1>1
  <2>2. PICK d \in T : \A e \in T : d <= e
    BY <2>1, LeastNumber
  <2>3. PICK m \in S : d = n - m
    BY <2>2
  <2>4. \A x \in S : n - m <= n - x
    BY <2>2, <2>3
  <2> QED
    BY <2>4
<1> QED
  BY <1>1 DEF Latest

\* The latest of one id is that id.
LEMMA LatestOfOne == ASSUME NEW x \in Nat PROVE Latest({x}) = x
  BY DEF Latest

\* The first of a set of ids is one of them.
LEMMA FirstIs ==
  ASSUME NEW S \in SUBSET IncidentIds, S # {}
  PROVE  First(S) \in S
<1>1. S \in SUBSET Nat
  BY DEF IncidentIds
<1>2. \E m \in S : \A x \in S : m <= x
  BY <1>1, LeastNumber
<1> QED
  BY <1>2 DEF First
\* The record an awaiting incident is continued from is one of its own.
LEMMA ContextIs ==
  ASSUME NEW i
  PROVE  /\ Context(i) # 0 => Context(i) \in JobsOf(i) /\ job[Context(i)].context = "active"
         /\ Record(i) # 0 => Record(i) \in JobsOf(i)
         /\ Record(i) = 0 <=> JobsOf(i) = {}
         /\ Context(i) # 0 => Record(i) = Context(i)
<1>1. JobsOf(i) \in SUBSET Nat /\ 0 \notin JobsOf(i) /\ \A j \in JobsOf(i) : j <= MaxJobs
  BY RunnerAssumption DEF JobsOf, Jobs, JobIds
<1> DEFINE Active == {j \in JobsOf(i) : job[j].context = "active"}
<1>2. Active \in SUBSET Nat /\ \A j \in Active : j <= MaxJobs
  BY <1>1
<1>3. MaxJobs \in Nat
  BY RunnerAssumption
<1> HIDE DEF Active
<1>4. IF Active = {} THEN Latest(Active) = 0 ELSE Latest(Active) \in Active
  BY <1>2, <1>3, LatestIs
<1>5. IF JobsOf(i) = {} THEN Latest(JobsOf(i)) = 0 ELSE Latest(JobsOf(i)) \in JobsOf(i)
  BY <1>1, <1>3, LatestIs
<1>6. Context(i) = Latest(Active)
  BY DEF Context, Active
<1> QED
  BY <1>1, <1>4, <1>5, <1>6 DEF Record, Active

-----------------------------------------------------------------------------
(* Type correctness *)

\* What the process keeps between two statements.
LEMMA ProcessTypes ==
  ASSUME NEW l \in {"open", "await"}, NEW S \in SUBSET IncidentIds
  PROVE  /\ \A pc \in {"down", "idle"} : At(pc) \in Process
         /\ Loop(l, S) \in Process
  BY DEF At, Loop, Process

\* The process between two visits of a loop.
LEMMA LoopIs ==
  ASSUME NEW l \in {"open", "await"}, NEW S \in SUBSET IncidentIds
  PROVE  /\ Loop(l, S).pc = l /\ Loop(l, S).loop = l /\ Loop(l, S).todo = S
         /\ Loop(l, S).cur = 0 /\ Loop(l, S).tell = "never"
  BY DEF Loop, At

\* The process with an awaiting incident in hand.
LEMMA VisitIs ==
  ASSUME TypeOK, NEW i \in IncidentIds, NEW pc \in {"close", "status"},
         NEW j \in JobIds \cup {0}, NEW goal \in IncidentStatuses,
         NEW tell \in {"never", "before", "after"}, Visit(i, pc, j, goal, tell)
  PROVE  /\ run' \in Process
         /\ run'.pc = pc /\ run'.loop = "await" /\ run'.todo = run.todo \ {i}
         /\ run'.cur = i /\ run'.job = j /\ run'.goal = goal /\ run'.tell = tell
<1> DEFINE x == Loop("await", run.todo \ {i})
<1>1. run.todo \ {i} \in SUBSET IncidentIds
  BY DEF TypeOK, Process
<1>2. x \in Process /\ x.loop = "await" /\ x.todo = run.todo \ {i}
  BY <1>1, ProcessTypes, LoopIs
<1>3. run' = [x EXCEPT !.pc = pc, !.cur = i, !.job = j, !.goal = goal, !.tell = tell]
  BY DEF Visit
<1> HIDE DEF x
<1> QED
  BY <1>2, <1>3 DEF Process

\* The values of a row stay those of a row, whatever column is written.
LEMMA RowTypes ==
  /\ \A x \in Incident : \A s \in IncidentStatuses : [x EXCEPT !.status = s] \in Incident
  /\ \A x \in Incident : \A n \in 0..MaxRetries : [x EXCEPT !.retry = n] \in Incident
  /\ \A x \in Job : [x EXCEPT !.context = "active"] \in Job
  /\ \A x \in Job : [x EXCEPT !.context = "completed"] \in Job
  /\ \A x \in Job : \A c : [x EXCEPT !.context = c].incident = x.incident
  /\ \A x \in Job : \A c : [x EXCEPT !.context = c].runbook = x.runbook
  /\ \A x \in Job : \A c : [x EXCEPT !.context = c].approval = x.approval
  /\ \A x \in Job : \A c : [x EXCEPT !.context = c].status = x.status
  /\ \A x \in Job : \A c : [x EXCEPT !.context = c].verify = x.verify
  BY DEF Incident, Job

\* The rows that are there.
LEMMA PresentRows ==
  ASSUME TypeOK
  PROVE  /\ \A i \in Incidents : i \in IncidentIds /\ inc[i] \in Incident
         /\ \A j \in Jobs : j \in JobIds /\ job[j] \in Job
         /\ \A i \in IncidentIds : i \notin Incidents => inc[i] = NoIncident
         /\ \A j \in JobIds : j \notin Jobs => job[j] = NoJob
  BY DEF TypeOK, Incidents, Jobs, NoIncident, NoJob, Incident, Job, IncidentStatuses

\* A record that is given an outcome has one more, up to 2.
LEMMA CountedIs ==
  ASSUME TypeOK, NEW j \in Jobs
  PROVE  Counted(j) \in 0..2 /\ Counted(j) # 0
         /\ (job[j].verdicts # 0 => Counted(j) = 2)
<1>1. job[j].verdicts \in 0..2
  BY PresentRows DEF Job
<1> QED
  BY <1>1 DEF Counted

\* The detector keeps its types, whatever it reads.
LEMMA DetectorTypes ==
  /\ \A reading \in [Kinds -> {"breached", "normal"}] :
       D!TypeOK /\ D!Check(reading) => D!TypeOK'
  /\ \A known \in SUBSET Kinds : D!Restart(known) => D!TypeOK'
<1>1. ASSUME NEW reading \in [Kinds -> {"breached", "normal"}], D!TypeOK, D!Check(reading)
      PROVE  D!TypeOK'
  <2>1. \A k \in Kinds : D!Longer(breach[k], k) \in Nat /\ D!Longer(okay[k], k) \in Nat
    BY <1>1 DEF D!TypeOK, D!Longer
  <2> QED
    BY <1>1, <2>1 DEF D!TypeOK, D!Check
<1>2. ASSUME NEW known \in SUBSET Kinds, D!Restart(known)
      PROVE  D!TypeOK'
  BY <1>2 DEF D!Restart, D!TypeOK, D!Zero, D!Quiet
<1> QED
  BY <1>1, <1>2
\* At a statement of _handle_open or execute_runbook an open incident is in hand.
LEMMA OpenHand ==
  ASSUME TypeOK, IInv
  PROVE  /\ run.pc \in {"ask", "record"} \cup Acting =>
              run.loop = "open" /\ run.cur \in IncidentIds /\ Cur.status = "investigating"
         /\ run.pc \in {"ask", "record"} \cup Acting => run.tell = "never"
         /\ run.pc = "ask" => Fresh(run.cur) /\ Cur.retry < MaxRetries /\ Cur.retry < tries[run.cur]
         /\ run.pc = "record" => Fresh(run.cur)
         /\ run.pc \in {"record"} \cup Acting => run.rb \in Runbooks
         /\ run.pc \in Acting => /\ run.job \in Jobs /\ job[run.job].incident = run.cur
                                 /\ job[run.job].runbook = run.rb /\ job[run.job].approval = 0
         /\ run.pc \in {"context", "execute"} => RequestsOf(run.cur) = {}
<1>1. run.pc \in {"ask", "record"} \cup Acting => run.pc \in InHand /\ run.loop = "open"
  <2>1. run.loop \in {"open", "await"} \/ run.pc \notin InHand
    BY DEF IInv, HandInv, LoopInv, InHand, TypeOK, Process
  <2> QED
    BY <2>1 DEF Acting, InHand, IInv, HandInv, AwaitInv
<1> QED
  BY <1>1 DEF IInv, HandInv, LoopInv, OpenInv, Acting, InHand, OwnJob, JobsOf

\* When a status or a case is about to be written, or a context closed, the
\* incident in hand and its record are there.
LEMMA ClosingHand ==
  ASSUME TypeOK, IInv
  PROVE  /\ run.pc = "close" => run.loop = "await" /\ OwnJob
         /\ run.pc = "case" => OwnJob /\ run.tell \in {"before", "after"}
         /\ run.pc = "status" =>
              /\ run.cur \in Incidents
              /\ Cur.status = IF run.loop = "open" THEN "investigating" ELSE "awaiting_approval"
              /\ run.goal \in {"open", "failed", "awaiting_approval", "resolved"}
              /\ run.goal \in {"open", "awaiting_approval"} => run.loop = "open"
              /\ run.tell # "never" => OwnJob
<1>1. run.pc \in {"close", "status", "case"} =>
        run.pc \in InHand /\ run.loop \in {"open", "await"} /\ run.cur \in IncidentIds
  BY DEF IInv, HandInv, LoopInv, InHand, TypeOK, Process
<1>2. CASE run.loop = "open"
  BY <1>1, <1>2 DEF IInv, HandInv, OpenInv, Cur, Incidents
<1>3. CASE run.loop = "await"
  BY <1>1, <1>3 DEF IInv, HandInv, AwaitInv, Cur, Incidents
<1> QED
  BY <1>1, <1>2, <1>3

\* An incident that awaits approval has one record and one request, and is
\* continued from these, whether or not the context is still active.
LEMMA AwaitingIs ==
  ASSUME TypeOK, IInv, NEW i \in IncidentIds, inc[i].status = "awaiting_approval"
  PROVE  /\ Record(i) \in Jobs /\ JobsOf(i) = {Record(i)}
         /\ Ticket(i) \in Requests /\ job[Record(i)].approval = Ticket(i)
         /\ RequestsOf(i) = {Ticket(i)}
         /\ Context(i) \in {0, Record(i)}
         /\ Answer(i) = req[Ticket(i)].status /\ Answer(i) # "absent"
<1>1. PICK j \in JobsOf(i) : job[j].approval # 0
  BY DEF IInv, IncidentInv, Linked
<1>2. JobsOf(i) = {j}
  BY DEF IInv, TablesInv, OneJobPerIncident, JobsOf
<1>3. j # 0 /\ j \in Jobs /\ job[j].incident = i
  BY DEF JobsOf, Jobs, JobIds
<1> DEFINE r == job[j].approval
<1>4. r \in Requests
  BY <1>1, <1>3, PresentRows DEF Job
<1>5. req[r].incident = i /\ req[r].status # "absent"
  BY <1>1, <1>3 DEF IInv, TablesInv, TicketMatchesJob, JobInv
<1>6. i # 0
  BY DEF IncidentIds
<1>7. RequestsOf(i) = {r}
  BY <1>4, <1>5, <1>6 DEF IInv, TablesInv, RequestInv, RequestsOf
<1>8. Record(i) = j /\ Context(i) \in {0, j}
  BY <1>2, ContextIs
<1>9. r \in Nat /\ r # 0
  BY <1>4, RunnerAssumption
<1>10. Ticket(i) = r
  <2>1. Latest({r}) = r
    BY <1>9, LatestOfOne
  <2> QED
    BY <1>1, <1>7, <1>8, <2>1 DEF Ticket
<1> QED
  BY <1>2, <1>3, <1>4, <1>5, <1>7, <1>8, <1>9, <1>10 DEF Answer

\* No step breaks a type.
LEMMA TypeStep ==
  ASSUME TypeOK, IInv, [Next]_vars
  PROVE  TypeOK'
<1> DEFINE Rest == /\ D!TypeOK
                   /\ inc   \in [IncidentIds -> Incident \cup {NoIncident}]
                   /\ job   \in [JobIds -> Job \cup {NoJob}]
                   /\ cases \in [JobIds -> {"none", "verified", "verification_failed", "execution_failed"}]
                   /\ run   \in Process
                   /\ tries \in [IncidentIds -> Nat]
<1>1. Rest /\ A!TypeOK
  BY DEF TypeOK
<1>2. SUFFICES Rest'
  <2>1. A!TypeOK'
    BY <1>1, DeskStep, DeskTypeStep
  <2> QED
    BY <2>1 DEF TypeOK
<1>3. UNCHANGED detectorVars => D!TypeOK'
  BY <1>1 DEF detectorVars, D!TypeOK
<1>4. run \in Process /\ run.todo \in SUBSET IncidentIds /\ run.cur \in IncidentIds \cup {0}
      /\ run.job \in JobIds \cup {0}
  BY <1>1 DEF Process
<1>5. ASSUME NEW i \in Incidents, NEW s \in IncidentStatuses,
             inc' = [inc EXCEPT ![i].status = s] \/ inc' = inc
      PROVE  inc' \in [IncidentIds -> Incident \cup {NoIncident}]
  <2>1. i \in IncidentIds /\ inc[i] \in Incident
    BY PresentRows
  <2>2. [inc[i] EXCEPT !.status = s] \in Incident
    BY <2>1, RowTypes
  <2> QED
    BY <1>1, <1>5, <2>2
<1>6. ASSUME run.pc \in InHand
      PROVE  run.cur \in IncidentIds
  BY <1>6 DEF IInv, HandInv, LoopInv
<1>10. ASSUME NEW reading \in [Kinds -> {"breached", "normal"}], Collect(reading)
      PROVE  Rest'
  BY <1>1, <1>10, DetectorTypes DEF Collect, Go, Process, tables
<1>11. CASE Apply
  <2> DEFINE IdOf(k) == Latest(Incidents) + Cardinality({h \in NewlyOpened : h <= k})
  <2>1. D!TypeOK'
    BY <1>1, <1>11 DEF Apply, D!TypeOK, D!Quiet
  <2>2. ASSUME NEW i \in IncidentIds
        PROVE  inc'[i] \in Incident \cup {NoIncident}
    <3>1. CASE i \in Recovered
      <4>1. inc'[i] = [inc[i] EXCEPT !.status = "resolved"]
        BY <1>11, <3>1 DEF Apply
      <4>2. PICK k \in Kinds : i = Latest(OpenOf(k))
        BY <3>1 DEF Recovered
      <4>3. OpenOf(k) \in SUBSET Nat /\ \A x \in OpenOf(k) : x <= MaxIncidents
        BY RunnerAssumption DEF OpenOf, InStatus, Incidents, IncidentIds
      <4>4. i \in OpenOf(k)
        <5>1. i # 0 /\ MaxIncidents \in Nat
          BY RunnerAssumption DEF IncidentIds
        <5> QED
          BY <4>2, <4>3, <5>1, LatestIs
      <4>5. inc[i] \in Incident
        BY <4>4, PresentRows DEF OpenOf, InStatus
      <4> QED
        BY <4>1, <4>5, RowTypes DEF IncidentStatuses
    <3>2. CASE i \notin Recovered /\ \E k \in NewlyOpened : i = IdOf(k)
      <4> DEFINE kind == CHOOSE k \in NewlyOpened : i = IdOf(k)
      <4>1. inc'[i] = [kind |-> kind, status |-> "open", retry |-> 0]
        BY <1>11, <3>2 DEF Apply
      <4>2. kind \in NewlyOpened
        BY <3>2
      <4> HIDE DEF kind
      <4>3. kind \in Kinds
        BY <4>2 DEF NewlyOpened
      <4> QED
        BY <4>1, <4>3, RunnerAssumption DEF Incident, IncidentStatuses
    <3>3. CASE i \notin Recovered /\ ~\E k \in NewlyOpened : i = IdOf(k)
      <4>1. inc'[i] = inc[i]
        BY <1>11, <3>3 DEF Apply
      <4> QED
        BY <1>1, <4>1
    <3> QED
      BY <3>1, <3>2, <3>3
  <2>3. inc' \in [IncidentIds -> Incident \cup {NoIncident}]
    <3>1. inc' = [i \in IncidentIds |-> inc'[i]]
      BY <1>11 DEF Apply
    <3> QED
      BY <2>2, <3>1
  <2> QED
    BY <1>1, <1>11, <2>1, <2>3 DEF Apply, Go, Process
<1>12. CASE Sweep
  <2>1. InStatus("open") \in SUBSET IncidentIds
    BY DEF InStatus, Incidents
  <2> QED
    BY <1>1, <1>3, <1>12, <2>1, ProcessTypes DEF Sweep, tables
<1>13. CASE ListAwaiting \/ EndTick
  <2>1. InStatus("awaiting_approval") \in SUBSET IncidentIds
    BY DEF InStatus, Incidents
  <2> QED
    BY <1>1, <1>3, <1>13, <2>1, ProcessTypes DEF ListAwaiting, EndTick, tables
<1>14. CASE Claim
  <2> DEFINE i == First(run.todo)
  <2>1. i \in run.todo /\ i \in IncidentIds
    BY <1>4, <1>14, FirstIs DEF Claim, Visiting
  <2>2. inc[i].status = "open"
    BY <1>14, <2>1 DEF Claim, Visiting, IInv, HandInv, LoopInv
  <2>3. inc' \in [IncidentIds -> Incident \cup {NoIncident}]
    BY <1>5, <1>14, <2>1, <2>2 DEF Claim, UpdateStatus, Incidents, IncidentStatuses
  <2>4. run' \in Process
    BY <1>4, <1>14, <2>1 DEF Claim, Loop, At, Process
  <2>5. tries' \in [IncidentIds -> Nat]
    BY <1>1, <1>14, <2>1 DEF Claim
  <2> QED
    BY <1>1, <1>3, <1>14, <2>3, <2>4, <2>5 DEF Claim
<1>15. ASSUME NEW rb \in Runbooks, ModelRestarts(rb)
      PROVE  Rest'
  BY <1>1, <1>3, <1>15 DEF ModelRestarts, tables
<1>16. CASE NoConclusion \/ NoRunbook \/ \E rb \in Runbooks : ChooseRunbook(rb)
  <2>1. run.pc = "ask"
    BY <1>16 DEF NoConclusion, NoRunbook, ChooseRunbook
  <2>2. run.cur \in IncidentIds /\ Cur.status = "investigating" /\ Cur.retry < MaxRetries
    BY <1>6, <2>1, OpenHand
  <2>3. Cur \in Incident /\ Retry \in 0..MaxRetries
    <3>1. Cur \in Incident
      BY <2>2, PresentRows DEF Incidents, Cur
    <3> QED
      BY <2>2, <3>1, RunnerAssumption DEF Retry, Incident, Cur
  <2>4. [Cur EXCEPT !.retry = Retry] \in Incident /\ [Cur EXCEPT !.retry = 0] \in Incident
    BY <2>3, RowTypes, RunnerAssumption
  <2>5. inc' \in [IncidentIds -> Incident \cup {NoIncident}]
    BY <1>1, <1>16, <2>4 DEF NoConclusion, NoRunbook, ChooseRunbook, Cur
  <2>6. run' \in Process
    <3>1. AfterFailure \in IncidentStatuses
      BY DEF AfterFailure, IncidentStatuses
    <3>2. CASE NoConclusion \/ NoRunbook
      BY <1>1, <3>1, <3>2 DEF NoConclusion, NoRunbook, Process
    <3>3. ASSUME NEW rb \in Runbooks, ChooseRunbook(rb)
          PROVE  run' \in Process
      BY <1>1, <3>3 DEF ChooseRunbook, Process
    <3> QED
      BY <1>16, <3>2, <3>3
  <2> QED
    BY <1>1, <1>3, <1>16, <2>5, <2>6 DEF NoConclusion, NoRunbook, ChooseRunbook
<1>17. CASE CreateRecord
  <2>1. PICK j \in JobIds :
          /\ job' = [job EXCEPT ![j] =
               [incident |-> run.cur, runbook |-> run.rb, status |-> "planned",
                exec |-> "none", verify |-> "none", context |-> "none", approval |-> 0,
                verdicts |-> 0]]
          /\ run' = [run EXCEPT !.pc = "context", !.job = j]
    BY <1>17 DEF CreateRecord
  <2>2. run.cur \in IncidentIds /\ run.rb \in Runbooks
    BY <1>6, <1>17, OpenHand DEF CreateRecord
  <2>3. job' \in [JobIds -> Job \cup {NoJob}]
    BY <1>1, <2>1, <2>2 DEF Job
  <2>4. run' \in Process
    BY <1>1, <2>1 DEF Process
  <2> QED
    BY <1>1, <1>3, <1>17, <2>3, <2>4 DEF CreateRecord
<1>18. ASSUME NEW j \in Jobs, NEW x \in Job, job' = [job EXCEPT ![j] = x] \/ job' = job
      PROVE  job' \in [JobIds -> Job \cup {NoJob}]
  BY <1>1, <1>18
<1>19. CASE CreateContext \/ Link \/ ExecuteFails \/ \E passed \in BOOLEAN : VerifyNow(passed)
  <2>1. run.job \in Jobs /\ job[run.job] \in Job
    <3>1. run.job \in Jobs
      BY <1>19, OpenHand DEF CreateContext, Link, ExecuteFails, VerifyNow, Acting
    <3> QED
      BY <3>1, PresentRows
  <2>2. CASE CreateContext
    <3>1. job' = [job EXCEPT ![run.job] = [@ EXCEPT !.context = "active"]]
      BY <2>2 DEF CreateContext
    <3>2. run' \in Process
      BY <1>1, <2>2 DEF CreateContext, Go, Process
    <3> QED
      BY <1>1, <1>3, <1>18, <2>1, <2>2, <3>1, <3>2, RowTypes DEF CreateContext
  <2>3. CASE Link
    <3>1. job' = [job EXCEPT ![run.job] = [@ EXCEPT !.status = "executing",
                    !.exec = "approval_required", !.approval = run.ticket]]
      BY <2>1, <2>3 DEF Link
    <3>2. [job[run.job] EXCEPT !.status = "executing",
                    !.exec = "approval_required", !.approval = run.ticket] \in Job
      BY <1>1, <2>1 DEF Job, Process
    <3>3. run' \in Process
      BY <1>1, <2>3 DEF Link, Process, IncidentStatuses
    <3> QED
      BY <1>1, <1>3, <1>18, <2>1, <2>3, <3>1, <3>2, <3>3 DEF Link
  <2>4. CASE ExecuteFails
    <3>1. job' = [job EXCEPT ![run.job] = [@ EXCEPT !.status = "failed", !.exec = "error",
                    !.verdicts = Counted(run.job)]]
      BY <2>1, <2>4 DEF ExecuteFails
    <3>2. [job[run.job] EXCEPT !.status = "failed", !.exec = "error",
                    !.verdicts = Counted(run.job)] \in Job
      BY <2>1, CountedIs DEF Job
    <3>3. run' \in Process
      BY <1>1, <2>4 DEF ExecuteFails, Process, IncidentStatuses
    <3> QED
      BY <1>1, <1>3, <1>18, <2>1, <2>4, <3>1, <3>2, <3>3 DEF ExecuteFails
  <2>5. ASSUME NEW passed \in BOOLEAN, VerifyNow(passed)
        PROVE  Rest'
    <3>1. job' = [job EXCEPT ![run.job] = [@ EXCEPT !.exec = "success",
                    !.verify = Mark(passed), !.status = Verdict(passed),
                    !.verdicts = Counted(run.job)]]
      BY <2>1, <2>5 DEF VerifyNow
    <3>2. [job[run.job] EXCEPT !.exec = "success",
                    !.verify = Mark(passed), !.status = Verdict(passed),
                    !.verdicts = Counted(run.job)] \in Job
      BY <2>1, CountedIs DEF Job, Mark, Verdict
    <3>3. run' \in Process
      <4>1. Close(passed) \in IncidentStatuses
        BY DEF Close, IncidentStatuses
      <4> QED
        BY <1>1, <2>5, <4>1 DEF VerifyNow, Process
    <3> QED
      BY <1>1, <1>3, <1>18, <2>1, <2>5, <3>1, <3>2, <3>3 DEF VerifyNow
  <2> QED
    BY <1>19, <2>2, <2>3, <2>4, <2>5
<1>20. CASE Suspend
  <2>1. PICK r \in Requests : run' = [run EXCEPT !.pc = "link", !.ticket = r]
    BY <1>20 DEF Suspend
  <2>2. run' \in Process
    BY <1>1, <2>1 DEF Process
  <2> QED
    BY <1>1, <1>3, <1>20, <2>2 DEF Suspend, tables
<1>21. CASE ExecuteNow \/ ModelRaises
  BY <1>1, <1>3, <1>21, ProcessTypes DEF ExecuteNow, ModelRaises, tables, Go, Process
<1>22. CASE StillPending
  BY <1>1, <1>3, <1>4, <1>22, ProcessTypes DEF StillPending, tables
<1>23. ASSUME NEW i, NEW pc \in {"close", "status"}, NEW j \in JobIds \cup {0},
              NEW goal \in IncidentStatuses, NEW tell \in {"never", "before", "after"},
              Visiting("await"), i = First(run.todo), Visit(i, pc, j, goal, tell)
       PROVE  run' \in Process
  <2>1. i \in IncidentIds
    BY <1>4, <1>23, FirstIs DEF Visiting
  <2> QED
    BY <1>23, <2>1, VisitIs
<1>24. ASSUME NEW i
       PROVE  /\ Context(i) \in JobIds \cup {0} /\ Record(i) \in JobIds \cup {0}
              /\ Context(i) # 0 => Context(i) \in Jobs /\ job[Context(i)] \in Job
              /\ Record(i) # 0 => Record(i) \in Jobs /\ job[Record(i)] \in Job
  BY ContextIs, PresentRows DEF JobsOf
<1>25. CASE Refused
  <2> DEFINE i == First(run.todo)
  <2>1. run' \in Process
    <3>1. \/ Visit(i, "status", 0, "open", "never")
          \/ Visit(i, "status", 0, "failed", "never")
          \/ Visit(i, "close", Context(i), "failed", "never")
      BY <1>25 DEF Refused
    <3>2. Visiting("await")
      BY <1>25 DEF Refused
    <3> QED
      <4>1. {"open", "failed"} \subseteq IncidentStatuses
        BY DEF IncidentStatuses
      <4>2. Context(i) \in JobIds \cup {0}
        BY <1>24
      <4> HIDE DEF i
      <4>3. CASE Visit(i, "close", Context(i), "failed", "never")
        BY <1>23, <3>2, <4>1, <4>2, <4>3 DEF i
      <4>4. CASE Visit(i, "status", 0, "open", "never") \/ Visit(i, "status", 0, "failed", "never")
        BY <1>23, <3>2, <4>1, <4>4 DEF i
      <4> QED
        BY <3>1, <4>3, <4>4
  <2> QED
    BY <1>1, <1>3, <1>25, <2>1 DEF Refused, tables
<1>26. CASE ApprovedInVain
  <2> DEFINE i == First(run.todo)
             j == Context(i)
             result == req[Ticket(i)].result
  <2>1. Visiting("await") /\ Answer(i) = "approved"
    BY <1>26 DEF ApprovedInVain
  <2>2. CASE j # 0 /\ ~Succeeded(i)
    <3>1. job' = [job EXCEPT ![j].status = "failed", ![j].exec = result,
                             ![j].verdicts = Counted(j)]
          /\ Visit(i, "close", j, "failed", "before")
      BY <1>26, <2>2 DEF ApprovedInVain
    <3>2. j \in Jobs /\ job[j] \in Job
      BY <1>24, <2>2
    <3>3. result \in {"success", "error"}
      <4>1. i \in run.todo /\ i \in IncidentIds
        BY <1>4, <2>1, FirstIs DEF Visiting
      <4>2. inc[i].status = "awaiting_approval"
        BY <2>1, <4>1 DEF Visiting, IInv, HandInv, LoopInv
      <4>3. Ticket(i) \in Requests /\ req[Ticket(i)].status = "approved"
        BY <2>1, <4>1, <4>2, AwaitingIs
      <4> QED
        BY <4>3 DEF IInv, ResultInv, A!Results
    <3>4. [job[j] EXCEPT !.status = "failed", !.exec = result,
                         !.verdicts = Counted(j)] \in Job
      BY <3>2, <3>3, CountedIs DEF Job
    <3> HIDE DEF j, result
    <3>5. job' = [job EXCEPT ![j] = [@ EXCEPT !.status = "failed", !.exec = result,
                                      !.verdicts = Counted(j)]]
      BY <3>1, <3>2
    <3>6. job' \in [JobIds -> Job \cup {NoJob}]
      BY <1>18, <3>2, <3>4, <3>5
    <3>7. run' \in Process
      <4>1. j \in JobIds \cup {0}
        BY <1>24 DEF j
      <4> QED
        BY <1>23, <2>1, <3>1, <4>1 DEF IncidentStatuses
    <3> QED
      BY <1>1, <1>3, <1>26, <3>6, <3>7 DEF ApprovedInVain
  <2>3. CASE ~(j # 0 /\ ~Succeeded(i))
    <3>1. job' = job /\ Visit(i, "status", 0, "failed", "never")
      BY <1>26, <2>3 DEF ApprovedInVain
    <3>2. run' \in Process
      BY <1>23, <2>1, <3>1 DEF IncidentStatuses
    <3> QED
      BY <1>1, <1>3, <1>26, <3>1, <3>2 DEF ApprovedInVain
  <2> QED
    BY <2>2, <2>3
<1>27. ASSUME NEW passed \in BOOLEAN, ApprovedAndRun(passed)
       PROVE  Rest'
  <2> DEFINE i == First(run.todo)
             j == Record(i)
  <2>1. /\ Visiting("await") /\ j # 0
        /\ job' = [job EXCEPT ![j].verify = Mark(passed), ![j].status = Verdict(passed),
                              ![j].verdicts = Counted(j)]
        /\ Visit(i, "close", j, Close(passed), "after")
    BY <1>27 DEF ApprovedAndRun
  <2>2. j \in Jobs /\ job[j] \in Job
    BY <1>24, <2>1
  <2>3. [job[j] EXCEPT !.verify = Mark(passed), !.status = Verdict(passed),
                       !.verdicts = Counted(j)] \in Job
    BY <2>2, CountedIs DEF Job, Mark, Verdict
  <2> HIDE DEF i, j
  <2>4. job' = [job EXCEPT ![j] = [@ EXCEPT !.verify = Mark(passed), !.status = Verdict(passed),
                                    !.verdicts = Counted(j)]]
    BY <2>1, <2>2
  <2>5. job' \in [JobIds -> Job \cup {NoJob}]
    BY <1>18, <2>2, <2>3, <2>4
  <2>6. Close(passed) \in IncidentStatuses
    BY DEF Close, IncidentStatuses
  <2>7. run' \in Process
    <3>1. j \in JobIds \cup {0} /\ i = First(run.todo)
      BY <1>24 DEF i, j
    <3> QED
      BY <1>23, <2>1, <2>6, <3>1
  <2> QED
    BY <1>1, <1>3, <1>27, <2>5, <2>7 DEF ApprovedAndRun
<1>28. CASE CompleteContext
  <2>1. job' \in [JobIds -> Job \cup {NoJob}]
    <3>1. CASE job[run.job].context = "active"
      <4>1. job' = [job EXCEPT ![run.job] = [@ EXCEPT !.context = "completed"]]
        BY <1>28, <3>1 DEF CompleteContext
      <4>2. run.job \in Jobs
        BY <1>28, ClosingHand DEF CompleteContext, OwnJob, JobsOf
      <4>3. [job[run.job] EXCEPT !.context = "completed"] \in Job
        BY <4>2, PresentRows, RowTypes
      <4> QED
        BY <1>18, <4>1, <4>2, <4>3
    <3>2. CASE job[run.job].context # "active"
      BY <1>1, <1>28, <3>2 DEF CompleteContext
    <3> QED
      BY <3>1, <3>2
  <2>2. run' \in Process
    BY <1>1, <1>28 DEF CompleteContext, Go, Process
  <2> QED
    BY <1>1, <1>3, <1>28, <2>1, <2>2 DEF CompleteContext
<1>29. CASE Settle
  <2>1. run.cur \in IncidentIds /\ run.goal \in IncidentStatuses
    BY <1>29, ClosingHand DEF Settle, Incidents, IncidentStatuses
  <2>2. run.cur \in Incidents
    BY <1>29, ClosingHand DEF Settle
  <2>3. inc' \in [IncidentIds -> Incident \cup {NoIncident}]
    BY <1>5, <1>29, <2>1, <2>2 DEF Settle, UpdateStatus
  <2>4. run' \in Process
    <3>1. NextVisit \in Process
      <4>1. run.loop \in {"open", "await"}
        BY <1>1, <1>29 DEF Settle, IInv, HandInv, LoopInv, Process, InHand
      <4> QED
        BY <1>1, <4>1, ProcessTypes DEF NextVisit, Process
    <3> QED
      BY <1>1, <1>29, <3>1 DEF Settle, Process
  <2> QED
    BY <1>1, <1>3, <1>29, <2>3, <2>4 DEF Settle
<1>30. CASE RecordCase
  <2>1. cases' \in [JobIds -> {"none", "verified", "verification_failed", "execution_failed"}]
    <3>1. Outcome(run.job) \in {"none", "verified", "verification_failed", "execution_failed"}
      BY DEF Outcome
    <3> QED
      BY <1>1, <1>30, <3>1 DEF RecordCase, RecordOutcome
  <2>2. run' \in Process
    <3>1. NextVisit \in Process
      <4>1. run.loop \in {"open", "await"}
        BY <1>1, <1>30 DEF RecordCase, IInv, HandInv, LoopInv, Process, InHand
      <4> QED
        BY <1>1, <4>1, ProcessTypes DEF NextVisit, Process
    <3> QED
      BY <1>1, <1>30, <3>1 DEF RecordCase, Go, Process
  <2> QED
    BY <1>1, <1>3, <1>30, <2>1, <2>2 DEF RecordCase
<1>31. CASE DatabaseRaises
  <2>1. D!TypeOK'
    BY <1>1, <1>31 DEF DatabaseRaises, D!TypeOK, D!Quiet
  <2> QED
    BY <1>1, <1>31, <2>1, ProcessTypes DEF DatabaseRaises, tables
<1>32. CASE Crash \/ Boot
  <2>1. OnRecord \in SUBSET Kinds
    BY PresentRows DEF OnRecord, InStatus, Incident
  <2>2. D!TypeOK'
    BY <1>32, <2>1, DetectorTypes DEF Crash, Boot
  <2> QED
    BY <1>1, <1>32, <2>2, ProcessTypes DEF Crash, Boot, tables
<1>33. CASE Desk
  BY <1>1, <1>3, <1>33 DEF Desk, tables
<1>34. CASE UNCHANGED vars
  BY <1>1, <1>3, <1>34 DEF vars, tables
<1>35. CASE Reconcile
  <2>1. PICK j \in Jobs : RecordOutcome(j)
    BY <1>35 DEF Reconcile
  <2>2. cases' \in [JobIds -> {"none", "verified", "verification_failed", "execution_failed"}]
    <3>1. Outcome(j) \in {"none", "verified", "verification_failed", "execution_failed"}
      BY DEF Outcome
    <3> QED
      BY <1>1, <2>1, <3>1 DEF RecordOutcome
  <2> QED
    BY <1>1, <1>3, <1>35, <2>2 DEF Reconcile
<1> QED
  BY <1>10, <1>11, <1>12, <1>13, <1>14, <1>15, <1>16, <1>17, <1>19, <1>20, <1>21, <1>22,
     <1>25, <1>26, <1>27, <1>28, <1>29, <1>30, <1>31, <1>32, <1>33, <1>34, <1>35
  DEF Next, Step, Fault

-----------------------------------------------------------------------------
(* The invariant is inductive *)

\* What a step that adds no row and links no request keeps of the records ...
SameJob(j) ==
  /\ (job'[j].status = "absent") <=> (job[j].status = "absent")
  /\ job'[j].incident = job[j].incident /\ job'[j].runbook = job[j].runbook
  /\ job'[j].approval = job[j].approval

\* ... and a step that adds no row keeps of the requests.
RequestsKept == \A r \in Requests : SameRequest(r) /\ ran[r] \subseteq ran'[r]

\* Such a step keeps who has which record and request, and with it what the
\* tables owe each other, if a record it verifies is one whose call was run.
LEMMA TablesStep ==
  ASSUME TypeOK, TablesInv, \A j \in JobIds : SameJob(j), RequestsKept,
         \A j \in Jobs : job'[j].status = "verified" /\ job[j].approval # 0 =>
           job[j].status = "verified" \/ Consented(j)
  PROVE  /\ TablesInv'
         /\ \A i : JobsOf(i)' = JobsOf(i) /\ RequestsOf(i)' = RequestsOf(i)
         /\ \A i : Fresh(i)' = Fresh(i) /\ Linked(i)' = Linked(i)
<1>1. Jobs' = Jobs
  BY DEF Jobs, SameJob
<1>2. \A i : JobsOf(i)' = JobsOf(i)
  BY <1>1 DEF JobsOf, SameJob, Jobs
<1>3. \A i : RequestsOf(i)' = RequestsOf(i)
  BY DEF RequestsOf, RequestsKept, SameRequest
<1>4. \A i : Fresh(i)' = Fresh(i)
  BY <1>2 DEF Fresh
<1>5. \A i : Linked(i)' = Linked(i)
  BY <1>2 DEF Linked, SameJob, JobsOf, Jobs
<1>6. \A j \in Jobs : j \in JobIds /\ job'[j].approval = job[j].approval
                      /\ job[j].approval \in Requests \cup {0}
  BY PresentRows DEF SameJob, Job
<1>7. TicketMatchesJob'
  BY <1>1, <1>6 DEF TablesInv, TicketMatchesJob, SameJob, RequestsKept, SameRequest
<1>8. JobInv'
  <2>1. ASSUME NEW j \in Jobs, job[j].approval # 0
        PROVE  /\ req'[job'[j].approval].status # "absent"
               /\ job'[j].status = "verified" => Consented(j)'
    <3>1. job[j].approval \in Requests
      BY <1>6, <2>1
    <3>2. Consented(j) => Consented(j)'
      BY <1>6, <3>1 DEF Consented, RequestsKept, SameJob
    <3>3. req'[job'[j].approval].status # "absent"
      BY <1>6, <2>1, <3>1 DEF TablesInv, JobInv, RequestsKept, SameRequest
    <3> QED
      BY <2>1, <3>2, <3>3 DEF TablesInv, JobInv
  <2> QED
    BY <1>1, <1>6, <2>1 DEF JobInv
<1>9. RequestInv'
  BY <1>4 DEF TablesInv, RequestInv, RequestsKept, SameRequest
<1>10. OneJobPerIncident'
  BY <1>1, <1>6 DEF TablesInv, OneJobPerIncident, SameJob
<1> QED
  BY <1>2, <1>3, <1>4, <1>5, <1>7, <1>8, <1>9, <1>10 DEF TablesInv

\* A step that writes neither records nor requests is one of those.
LEMMA TablesSame ==
  ASSUME TypeOK, TablesInv, UNCHANGED <<job, req, asked, ran>>
  PROVE  /\ TablesInv'
         /\ \A i : JobsOf(i)' = JobsOf(i) /\ RequestsOf(i)' = RequestsOf(i)
         /\ \A i : Fresh(i)' = Fresh(i) /\ Linked(i)' = Linked(i)
<1>1. (\A j \in JobIds : SameJob(j)) /\ RequestsKept
  BY DEF SameJob, RequestsKept, SameRequest
<1> QED
  BY <1>1, TablesStep

\* A new request belongs to nobody, or to an incident with a record and no
\* request yet.
LEMMA NewRequestStep ==
  ASSUME TypeOK, TablesInv, job' = job,
         NEW r \in Requests, NEW a, NEW i, A!CreatePending(r, a, i),
         i # 0 => RequestsOf(i) = {} /\ ~Fresh(i)
  PROVE  /\ TablesInv'
         /\ \A x : Fresh(x)' = Fresh(x) /\ Linked(x)' = Linked(x)
<1>1. /\ req[r].status = "absent"
      /\ req'[r].status = "pending" /\ req'[r].incident = i /\ asked'[r] = a
      /\ \A x \in Requests : x # r => req'[x] = req[x] /\ asked'[x] = asked[x]
      /\ ran' = ran
  BY NewRequestIs DEF TypeOK
<1>2. Jobs' = Jobs /\ OneJobPerIncident'
  BY DEF Jobs, TablesInv, OneJobPerIncident
<1>3. \A x : Fresh(x)' = Fresh(x) /\ Linked(x)' = Linked(x)
  BY DEF Fresh, Linked, JobsOf, Jobs
<1>4. \A j \in Jobs : job[j].approval # 0 => job[j].approval \in Requests \ {r}
  BY <1>1, PresentRows DEF TablesInv, JobInv, Job
<1>5. TicketMatchesJob'
  BY <1>1, <1>2, <1>4 DEF TablesInv, TicketMatchesJob
<1>6. JobInv'
  BY <1>1, <1>2, <1>4 DEF TablesInv, JobInv, Consented
<1>7. RequestInv'
  <2>1. \A x \in Requests : req'[x].incident # 0 => ~Fresh(req'[x].incident)
    BY <1>1 DEF TablesInv, RequestInv
  <2>2. \A x, y \in Requests : req'[x].incident # 0 /\ req'[x].incident = req'[y].incident => x = y
    BY <1>1 DEF TablesInv, RequestInv, RequestsOf
  <2> QED
    BY <2>1, <2>2, <1>3 DEF RequestInv
<1> QED
  BY <1>2, <1>3, <1>5, <1>6, <1>7 DEF TablesInv

\* A record is added to an incident that had none.
LEMMA NewJobStep ==
  ASSUME TypeOK, TablesInv, NEW c \in IncidentIds, Fresh(c), NEW j \in JobIds \ Jobs,
         NEW x \in Job, x.incident = c, x.approval = 0, job' = [job EXCEPT ![j] = x],
         UNCHANGED <<req, asked, ran>>
  PROVE  /\ TablesInv'
         /\ Jobs' = Jobs \cup {j} /\ job'[j] = x
         /\ \A i : i # c => Fresh(i)' = Fresh(i)
         /\ \A i : Linked(i) => Linked(i)'
<1>1. job'[j] = x /\ \A y \in JobIds : y # j => job'[y] = job[y]
  BY DEF TypeOK
<1>2. Jobs' = Jobs \cup {j}
  BY <1>1 DEF Jobs, Job
<1>3. \A i : JobsOf(i)' = IF i = c THEN JobsOf(i) \cup {j} ELSE JobsOf(i)
  BY <1>1, <1>2 DEF JobsOf, Jobs
<1>4. \A i : i # c => Fresh(i)' = Fresh(i)
  BY <1>3 DEF Fresh
<1>5. \A i : Linked(i) => Linked(i)'
  BY <1>1, <1>3 DEF Linked, JobsOf, Jobs
<1>6. \A y \in Jobs : y \in JobIds /\ y # j /\ job[y].incident # c
  BY DEF Jobs, Fresh, JobsOf
<1>7. TicketMatchesJob' /\ OneJobPerIncident'
  BY <1>1, <1>2, <1>6 DEF TablesInv, TicketMatchesJob, OneJobPerIncident
<1>8. JobInv'
  BY <1>1, <1>2, <1>6 DEF TablesInv, JobInv, Consented
<1>9. RequestInv'
  <2>1. \A i : ~Fresh(i) => ~Fresh(i)'
    BY <1>4
  <2> QED
    BY <2>1 DEF TablesInv, RequestInv
<1> QED
  BY <1>1, <1>2, <1>4, <1>5, <1>7, <1>8, <1>9 DEF TablesInv

\* With no incident in hand there is nothing to say of the hand.
LEMMA HandEmpty ==
  ASSUME run'.loop = "none", run'.pc \in {"down", "idle", "apply", "sweep"}
  PROVE  HandInv'
  BY DEF HandInv, LoopInv, OpenInv, AwaitInv, InHand

\* Incidents that are not written keep what was said of them.
LEMMA IncidentsStep ==
  ASSUME IncidentInv, NEW c,
         \A i \in IncidentIds \ {c} :
           /\ inc'[i] = inc[i] /\ tries'[i] = tries[i]
           /\ Fresh(i)' = Fresh(i) /\ Linked(i)' = Linked(i),
         c \in IncidentIds =>
           /\ inc'[c].status \in {"absent", "open"} => Fresh(c)'
           /\ inc'[c].status = "open" => inc'[c].retry < MaxRetries /\ inc'[c].retry <= tries'[c]
           /\ inc'[c].status = "awaiting_approval" => Linked(c)'
  PROVE  IncidentInv'
  BY DEF IncidentInv

\* Incidents nobody writes at all.
LEMMA IncidentsSame ==
  ASSUME IncidentInv, inc' = inc, tries' = tries,
         \A i : Fresh(i)' = Fresh(i) /\ Linked(i)' = Linked(i)
  PROVE  IncidentInv'
  BY DEF IncidentInv

\* The loop goes on with what it still had to visit, none of it written.
LEMMA LoopKept ==
  ASSUME LoopInv, run'.loop \in {"open", "await"}, run'.loop = run.loop,
         run'.todo \subseteq run.todo, \A i \in run'.todo : inc'[i].status = inc[i].status,
         \/ run'.pc \in InHand /\ run'.cur \in IncidentIds /\ run'.cur \notin run'.todo
         \/ run'.pc = run.loop
  PROVE  LoopInv'
  BY DEF LoopInv, InHand

\* The new status of an incident, when the table of transitions allows it.
LEMMA StatusWritten ==
  ASSUME TypeOK, NEW i \in Incidents, NEW s \in IncidentStatuses, UpdateStatus(i, s)
  PROVE  /\ inc'[i].status \in {inc[i].status, s}
         /\ s \in Transitions[inc[i].status] => inc'[i].status = s
         /\ inc'[i].retry = inc[i].retry /\ inc'[i].kind = inc[i].kind
         /\ \A x \in IncidentIds : x # i => inc'[x] = inc[x]
<1>1. i \in IncidentIds /\ inc[i] \in Incident
  BY PresentRows
<1>2. CASE inc' = inc /\ s \notin Transitions[inc[i].status]
  BY <1>2
<1>3. CASE inc' = [inc EXCEPT ![i].status = s]
  BY <1>1, <1>3 DEF TypeOK, Incident
<1> QED
  BY <1>2, <1>3 DEF UpdateStatus

\* A record is written, but not whose it is, nor the request it names.
LEMMA RowWritten ==
  ASSUME TypeOK, NEW j \in Jobs, NEW y \in Job, y.incident = job[j].incident,
         y.runbook = job[j].runbook, y.approval = job[j].approval,
         job' = [job EXCEPT ![j] = y]
  PROVE  /\ \A x \in JobIds : SameJob(x)
         /\ job'[j] = y /\ \A x \in JobIds : x # j => job'[x] = job[x]
<1>1. job'[j] = y /\ \A x \in JobIds : x # j => job'[x] = job[x]
  BY DEF TypeOK, Jobs
<1>2. y.status # "absent" /\ job[j].status # "absent"
  BY DEF Job, Jobs
<1> QED
  BY <1>1, <1>2 DEF SameJob

\* apply() gives a new row an id that no row has, and closes only open rows.
LEMMA NewIdIs ==
  ASSUME NEW k \in NewlyOpened
  PROVE  /\ Latest(Incidents) + Cardinality({h \in NewlyOpened : h <= k}) \in Nat
         /\ Latest(Incidents) + Cardinality({h \in NewlyOpened : h <= k}) \notin Incidents
<1> DEFINE S == {h \in NewlyOpened : h <= k}
<1>1. k \in Nat /\ k \in S /\ S \in SUBSET Nat /\ \A h \in S : h <= k
  <2>1. \A h \in NewlyOpened : h \in Nat
    BY RunnerAssumption DEF NewlyOpened
  <2> QED
    BY <2>1
<1>2. IsFiniteSet(S)
  BY <1>1, FS_BoundedSetOfNaturals
<1> HIDE DEF S
<1>3. Cardinality(S) \in Nat /\ Cardinality(S) # 0
  BY <1>1, <1>2, FS_CardinalityType, FS_EmptySet
<1>4. Latest(Incidents) \in Nat /\ \A i \in Incidents : i \in Nat /\ i <= Latest(Incidents)
  <2>1. Incidents \in SUBSET Nat /\ MaxIncidents \in Nat /\ \A i \in Incidents : i <= MaxIncidents
    BY RunnerAssumption DEF Incidents, IncidentIds
  <2>2. IF Incidents = {} THEN Latest(Incidents) = 0
        ELSE Latest(Incidents) \in Incidents /\ \A x \in Incidents : x <= Latest(Incidents)
    BY <2>1, LatestIs
  <2>3. CASE Incidents = {}
    BY <2>2, <2>3
  <2>4. CASE Incidents # {}
    BY <2>1, <2>2, <2>4
  <2> QED
    BY <2>3, <2>4
<1>5. Latest(Incidents) + Cardinality(S) \notin Incidents
  BY <1>3, <1>4
<1> QED
  BY <1>3, <1>4, <1>5 DEF S

LEMMA RecoveredIs ==
  ASSUME TypeOK, NEW i \in Recovered, i \in IncidentIds
  PROVE  /\ inc[i] \in Incident /\ inc[i].status = "open"
         /\ \E k \in Kinds : inc[i].kind = k /\ events[k] = "resolve" /\ i = Latest(OpenOf(k))
<1>1. PICK k \in Kinds : i = Latest(OpenOf(k)) /\ events[k] = "resolve"
  BY DEF Recovered
<1>2. OpenOf(k) \in SUBSET Nat /\ \A x \in OpenOf(k) : x <= MaxIncidents
  BY RunnerAssumption DEF OpenOf, InStatus, Incidents, IncidentIds
<1>3. i \in OpenOf(k)
  <2>1. i # 0 /\ MaxIncidents \in Nat
    BY RunnerAssumption DEF IncidentIds
  <2> QED
    BY <1>1, <1>2, <2>1, LatestIs
<1> QED
  BY <1>1, <1>3, PresentRows DEF OpenOf, InStatus

\* What apply() makes of a row: closed, opened where there was none, or left.
LEMMA ApplyIs ==
  ASSUME TypeOK, Apply, NEW i \in IncidentIds
  PROVE  \/ /\ i \in Recovered /\ inc[i].status = "open"
            /\ inc'[i].status = "resolved" /\ inc'[i].kind = inc[i].kind
         \/ /\ inc[i].status = "absent" /\ inc'[i].status = "open" /\ inc'[i].retry = 0
            /\ inc'[i].kind \in NewlyOpened
            /\ i = Latest(Incidents) + Cardinality({h \in NewlyOpened : h <= inc'[i].kind})
         \/ i \notin Recovered /\ inc'[i] = inc[i]
<1> DEFINE IdOf(k) == Latest(Incidents) + Cardinality({h \in NewlyOpened : h <= k})
<1>1. CASE i \in Recovered
  <2>1. inc'[i] = [inc[i] EXCEPT !.status = "resolved"]
    BY <1>1 DEF Apply
  <2>2. inc[i] \in Incident /\ inc[i].status = "open"
    BY <1>1, RecoveredIs
  <2> QED
    BY <1>1, <2>1, <2>2 DEF Incident
<1>2. CASE i \notin Recovered /\ \E k \in NewlyOpened : i = IdOf(k)
  <2> DEFINE kind == CHOOSE k \in NewlyOpened : i = IdOf(k)
  <2>1. inc'[i] = [kind |-> kind, status |-> "open", retry |-> 0]
    BY <1>2 DEF Apply
  <2>2. kind \in NewlyOpened /\ i = IdOf(kind)
    BY <1>2
  <2> HIDE DEF kind
  <2>3. inc'[i].kind = kind /\ inc'[i].status = "open" /\ inc'[i].retry = 0
    BY <2>1
  <2>4. i \notin Incidents
    BY <2>2, NewIdIs
  <2> QED
    BY <2>2, <2>3, <2>4 DEF Incidents
<1>3. CASE i \notin Recovered /\ ~\E k \in NewlyOpened : i = IdOf(k)
  BY <1>3 DEF Apply
<1> QED
  BY <1>1, <1>2, <1>3

\* Every step of every action preserves the invariant.
LEMMA IInvStep ==
  ASSUME TypeOK, IInv, [Next]_vars
  PROVE  IInv'
<1>1. A!IInv' /\ ResultInv'
  <2>1. A!TypeOK /\ A!IInv /\ ResultInv /\ run \in Process
    BY DEF TypeOK, IInv
  <2> QED
    BY <2>1, DeskStep, DeskIInvStep, ResultStep
<1>2. SUFFICES HandInv' /\ IncidentInv' /\ TablesInv'
  BY <1>1 DEF IInv
<1> DEFINE Goal == HandInv /\ IncidentInv /\ TablesInv
<1>3. Goal
  BY DEF IInv
<1>4. /\ run.loop \in {"none", "open", "await"} /\ run.todo \in SUBSET IncidentIds
      /\ run.cur \in IncidentIds \cup {0} /\ run.job \in JobIds \cup {0}
      /\ run \in Process
  BY DEF TypeOK, Process
<1>5. TypeOK'
  BY TypeStep
<1>6. UNCHANGED <<job, req, asked, ran>> => 
        /\ TablesInv'
        /\ \A i : JobsOf(i)' = JobsOf(i) /\ RequestsOf(i)' = RequestsOf(i)
        /\ \A i : Fresh(i)' = Fresh(i) /\ Linked(i)' = Linked(i)
  BY <1>3, TablesSame
<1>7. UNCHANGED <<job, req, asked, ran, inc, tries>> => IncidentInv' /\ TablesInv'
  BY <1>3, <1>6, IncidentsSame
<1>10. CASE (\E reading \in [Kinds -> {"breached", "normal"}] : Collect(reading)) \/ EndTick
            \/ Fault \/ Boot
  <2>1. UNCHANGED <<job, req, asked, ran, inc, tries>>
    BY <1>10 DEF Collect, EndTick, Fault, ModelRaises, DatabaseRaises, Crash, Boot,
                deskVars, tables
  <2>2. run'.loop = "none" /\ run'.pc \in {"down", "idle", "apply", "sweep"}
    <3>1. CASE \E reading \in [Kinds -> {"breached", "normal"}] : Collect(reading)
      <4>1. run.loop = "none"
        BY <1>3, <3>1 DEF Collect, HandInv, LoopInv
      <4> QED
        BY <1>4, <3>1, <4>1 DEF Collect, Go, Process
    <3>2. CASE EndTick \/ Fault \/ Boot
      BY <3>2 DEF EndTick, Fault, ModelRaises, DatabaseRaises, Crash, Boot, At
    <3> QED
      BY <1>10, <3>1, <3>2
  <2> QED
    BY <1>7, <2>1, <2>2, HandEmpty
<1>11. CASE Sweep \/ ListAwaiting \/ StillPending
  <2>1. PICK l \in {"open", "await"}, S \in SUBSET IncidentIds :
          /\ run' = Loop(l, S)
          /\ \A i \in S : inc[i].status = IF l = "open" THEN "open" ELSE "awaiting_approval"
    <3>1. CASE Sweep
      BY <3>1 DEF Sweep, InStatus, Incidents
    <3>2. CASE ListAwaiting
      BY <3>2 DEF ListAwaiting, InStatus, Incidents
    <3>3. CASE StillPending
      BY <1>3, <1>4, <3>3 DEF StillPending, Visiting, HandInv, LoopInv
    <3> QED
      BY <1>11, <3>1, <3>2, <3>3
  <2>2. inc' = inc /\ tries' = tries /\ job' = job
    BY <1>11 DEF Sweep, ListAwaiting, StillPending, tables
  <2>3. run'.pc = l /\ run'.loop = l /\ run'.todo = S
    BY <2>1, LoopIs
  <2>4. HandInv'
    BY <2>1, <2>2, <2>3 DEF HandInv, LoopInv, OpenInv, AwaitInv, InHand
  <2>5. TablesInv' /\ \A i : Fresh(i)' = Fresh(i) /\ Linked(i)' = Linked(i)
    <3>1. CASE Sweep
      <4>1. Answers /\ ran' = ran
        BY <3>1 DEF Sweep, Answers, A!ExpireStale
      <4>2. RequestsKept
        BY <4>1, AnswersKeepRequests DEF RequestsKept, TypeOK, IInv
      <4> QED
        BY <1>3, <2>2, <4>2, TablesStep DEF SameJob
    <3>2. CASE ListAwaiting \/ StillPending
      BY <1>6, <2>2, <3>2 DEF ListAwaiting, StillPending, deskVars
    <3> QED
      BY <1>11, <3>1, <3>2
  <2> QED
    BY <1>3, <2>2, <2>4, <2>5, IncidentsSame
<1>12. CASE Claim
  <2> DEFINE i == First(run.todo)
  <2>1. i \in run.todo /\ i \in IncidentIds /\ inc[i].status = "open" /\ run.loop = "open"
    BY <1>3, <1>4, <1>12, FirstIs DEF Claim, Visiting, HandInv, LoopInv
  <2>2. /\ inc'[i].status = "investigating" /\ inc'[i].retry = inc[i].retry
        /\ \A x \in IncidentIds : x # i => inc'[x] = inc[x]
    <3>1. UpdateStatus(i, "investigating")
      BY <1>12 DEF Claim
    <3> QED
      BY <2>1, <3>1, StatusWritten DEF Transitions, Incidents, IncidentStatuses
  <2>3. tries'[i] = tries[i] + 1 /\ \A x \in IncidentIds : x # i => tries'[x] = tries[x]
    BY <1>12, <2>1 DEF Claim, TypeOK
  <2>4. UNCHANGED <<job, req, asked, ran>>
    BY <1>12 DEF Claim, deskVars
  <2>5. IncidentInv'
    BY <1>3, <1>6, <2>2, <2>3, <2>4, IncidentsStep
  <2>6. /\ run'.pc = "ask" /\ run'.loop = "open" /\ run'.cur = i
        /\ run'.todo = run.todo \ {i}
    BY <1>12 DEF Claim, Loop, At
  <2>7. Fresh(i) /\ inc[i].retry < MaxRetries /\ inc[i].retry <= tries[i]
    BY <1>3, <2>1 DEF IncidentInv
  <2>8. inc[i].retry \in Nat /\ tries[i] \in Nat
    BY <2>1, PresentRows, RunnerAssumption DEF Incidents, Incident, TypeOK
  <2>9. LoopInv' /\ AwaitInv'
    BY <1>3, <1>4, <2>1, <2>2, <2>6, LoopKept DEF HandInv, AwaitInv, InHand
  <2>10. OpenInv'
    <3>1. Cur' = inc'[i]
      BY <2>6 DEF Cur
    <3>2. Fresh(run.cur)'
      BY <2>4, <2>6, <2>7 DEF Fresh, JobsOf, Jobs
    <3>3. /\ Cur'.status = "investigating" /\ Cur'.retry < MaxRetries
          /\ Cur'.retry < tries'[run'.cur] /\ run'.tell = "never"
      <4>1. run'.tell = "never"
        BY <1>12 DEF Claim, Loop, At
      <4> QED
        BY <2>2, <2>3, <2>6, <2>7, <2>8, <3>1, <4>1
    <3> QED
      BY <2>6, <3>2, <3>3 DEF OpenInv, Acting
  <2> QED
    BY <1>6, <2>4, <2>5, <2>9, <2>10 DEF HandInv
<1>13. ASSUME NEW rb \in Runbooks, ModelRestarts(rb)
       PROVE  HandInv' /\ IncidentInv' /\ TablesInv'
  <2>1. PICK r \in Requests : A!CreatePending(r, rb, 0)
    BY <1>13 DEF ModelRestarts
  <2>2. run' = run /\ inc' = inc /\ tries' = tries /\ job' = job /\ run.pc = "ask"
    BY <1>13 DEF ModelRestarts, tables
  <2>3. TablesInv' /\ \A x : Fresh(x)' = Fresh(x) /\ Linked(x)' = Linked(x)
    BY <1>3, <2>1, <2>2, NewRequestStep
  <2>4. HandInv'
    <3>1. LoopInv' /\ AwaitInv'
      BY <1>3, <2>2, OpenHand DEF HandInv, LoopInv, AwaitInv
    <3>2. OpenInv'
      BY <1>3, <2>2 DEF HandInv, OpenInv, Cur, Acting, Fresh, JobsOf, Jobs
    <3> QED
      BY <3>1, <3>2 DEF HandInv
  <2> QED
    BY <1>3, <2>2, <2>3, <2>4, IncidentsSame
<1>14. CASE NoConclusion \/ NoRunbook
  <2>1. /\ run.pc = "ask" /\ run.loop = "open" /\ run.cur \in IncidentIds /\ run.tell = "never"
        /\ Cur.status = "investigating" /\ Fresh(run.cur)
        /\ Cur.retry < MaxRetries /\ Cur.retry < tries[run.cur]
    BY <1>14, OpenHand DEF NoConclusion, NoRunbook
  <2>2. inc[run.cur] \in Incident /\ inc[run.cur].retry \in Nat /\ tries[run.cur] \in Nat
    BY <2>1, PresentRows, RunnerAssumption DEF Cur, Incidents, Incident, TypeOK
  <2>3. /\ inc'[run.cur].status = "investigating"
        /\ \A x \in IncidentIds \ {run.cur} : inc'[x] = inc[x]
        /\ AfterFailure = "open" => inc'[run.cur].retry = Retry
    <3>1. CASE inc' = [inc EXCEPT ![run.cur].retry = Retry]
      BY <2>1, <2>2, <3>1 DEF TypeOK, Cur, Incident
    <3>2. CASE inc' = inc /\ AfterFailure # "open"
      BY <2>1, <3>2 DEF Cur
    <3> QED
      BY <1>14, <3>1, <3>2 DEF NoConclusion, NoRunbook
  <2>4. UNCHANGED <<job, req, asked, ran>> /\ tries' = tries
    BY <1>14 DEF NoConclusion, NoRunbook, deskVars
  <2>5. IncidentInv'
    BY <1>3, <1>6, <2>3, <2>4, IncidentsStep
  <2>6. /\ run'.pc = "status" /\ run'.goal = AfterFailure /\ run'.tell = "never"
        /\ run'.loop = "open" /\ run'.cur = run.cur /\ run'.todo = run.todo
    BY <1>4, <1>14, <2>1 DEF NoConclusion, NoRunbook, Process
  <2>7. LoopInv' /\ AwaitInv'
    BY <1>3, <1>4, <2>1, <2>3, <2>6, LoopKept DEF HandInv, LoopInv, AwaitInv, InHand
  <2>8. OpenInv'
    <3>1. Fresh(run.cur)'
      BY <2>1, <2>4, <2>6 DEF Fresh, JobsOf, Jobs
    <3>2. Cur' = inc'[run.cur]
      BY <2>6 DEF Cur
    <3>3. \/ AfterFailure = "open" /\ Retry < MaxRetries
          \/ AfterFailure = "failed" /\ Retry >= MaxRetries
      BY <2>2, RunnerAssumption DEF AfterFailure, Retry
    <3>4. Retry <= tries[run.cur] /\ Retry \in Nat
      BY <2>1, <2>2 DEF Retry, Cur
    <3>5. tries[run.cur] >= MaxRetries \/ AfterFailure = "open"
      BY <2>2, <3>3, <3>4, RunnerAssumption
    <3> QED
      BY <2>3, <2>4, <2>6, <3>1, <3>2, <3>3, <3>4, <3>5 DEF OpenInv, Acting
  <2> QED
    BY <1>6, <2>4, <2>5, <2>7, <2>8 DEF HandInv
<1>15. ASSUME NEW rb \in Runbooks, ChooseRunbook(rb)
       PROVE  HandInv' /\ IncidentInv' /\ TablesInv'
  <2>1. /\ run.pc = "ask" /\ run.loop = "open" /\ run.cur \in IncidentIds /\ run.tell = "never"
        /\ Cur.status = "investigating" /\ Fresh(run.cur)
    BY <1>15, OpenHand DEF ChooseRunbook
  <2>2. inc[run.cur] \in Incident
    BY <2>1, PresentRows DEF Cur, Incidents
  <2>3. /\ inc'[run.cur].status = "investigating"
        /\ \A x \in IncidentIds \ {run.cur} : inc'[x] = inc[x]
    BY <1>15, <2>1, <2>2 DEF ChooseRunbook, TypeOK, Cur, Incident
  <2>4. UNCHANGED <<job, req, asked, ran>> /\ tries' = tries
    BY <1>15 DEF ChooseRunbook, deskVars
  <2>5. IncidentInv'
    BY <1>3, <1>6, <2>3, <2>4, IncidentsStep
  <2>6. /\ run'.pc = "record" /\ run'.rb = rb /\ run'.tell = "never"
        /\ run'.loop = "open" /\ run'.cur = run.cur /\ run'.todo = run.todo
    BY <1>4, <1>15, <2>1 DEF ChooseRunbook, Process
  <2>7. LoopInv' /\ AwaitInv'
    BY <1>3, <1>4, <2>1, <2>3, <2>6, LoopKept DEF HandInv, LoopInv, AwaitInv, InHand
  <2>8. OpenInv'
    <3>1. Fresh(run.cur)'
      BY <2>1, <2>4, <2>6 DEF Fresh, JobsOf, Jobs
    <3>2. Cur' = inc'[run.cur]
      BY <2>6 DEF Cur
    <3> QED
      BY <2>3, <2>6, <3>1, <3>2 DEF OpenInv, Acting
  <2> QED
    BY <1>6, <2>4, <2>5, <2>7, <2>8 DEF HandInv
<1>16. CASE CreateRecord
  <2>1. /\ run.pc = "record" /\ run.loop = "open" /\ run.cur \in IncidentIds /\ run.tell = "never"
        /\ Cur.status = "investigating" /\ Fresh(run.cur) /\ run.rb \in Runbooks
    BY <1>16, OpenHand DEF CreateRecord
  <2> DEFINE new == [incident |-> run.cur, runbook |-> run.rb, status |-> "planned",
               exec |-> "none", verify |-> "none", context |-> "none", approval |-> 0,
               verdicts |-> 0]
  <2>2. PICK j \in JobIds : NewJob(j) /\ job' = [job EXCEPT ![j] = new]
                            /\ run' = [run EXCEPT !.pc = "context", !.job = j]
    BY <1>16 DEF CreateRecord
  <2>3. UNCHANGED <<req, asked, ran>> /\ tries' = tries /\ inc' = inc
    BY <1>16 DEF CreateRecord, deskVars
  <2>4. new \in Job /\ new.incident = run.cur /\ new.approval = 0 /\ new.runbook = run.rb
    BY <2>1 DEF Job
  <2>5. j \in JobIds \ Jobs
    BY <2>2 DEF NewJob
  <2> HIDE DEF new
  <2>6. /\ TablesInv'
        /\ Jobs' = Jobs \cup {j} /\ job'[j] = new
        /\ \A i : i # run.cur => Fresh(i)' = Fresh(i)
        /\ \A i : Linked(i) => Linked(i)'
    BY <1>3, <2>1, <2>2, <2>3, <2>4, <2>5, NewJobStep
  <2>7. IncidentInv'
    BY <1>3, <2>1, <2>3, <2>6 DEF IncidentInv, Cur
  <2>8. /\ run'.pc = "context" /\ run'.rb = run.rb /\ run'.tell = "never" /\ run'.job = j
        /\ run'.loop = "open" /\ run'.cur = run.cur /\ run'.todo = run.todo
    BY <1>4, <2>1, <2>2 DEF Process
  <2>9. LoopInv' /\ AwaitInv'
    BY <1>3, <1>4, <2>1, <2>3, <2>8, LoopKept DEF HandInv, LoopInv, AwaitInv, InHand
  <2>10. OpenInv'
    <3>1. OwnJob'
      BY <2>4, <2>6, <2>8 DEF OwnJob, JobsOf
    <3>2. RequestsOf(run.cur)' = {}
      <4>1. \A r \in Requests : req[r].incident # run.cur
        <5>1. run.cur # 0
          BY <2>1 DEF IncidentIds
        <5> QED
          BY <1>3, <2>1, <5>1 DEF TablesInv, RequestInv
      <4> QED
        BY <2>3, <2>8, <4>1 DEF RequestsOf
    <3>3. Cur' = Cur
      BY <2>3, <2>8 DEF Cur
    <3> QED
      BY <2>1, <2>4, <2>6, <2>8, <3>1, <3>2, <3>3 DEF OpenInv, Acting
  <2> QED
    BY <2>6, <2>7, <2>9, <2>10 DEF HandInv
<1>17. ASSUME run.pc \in Acting
       PROVE  /\ run.loop = "open" /\ run.cur \in IncidentIds /\ run.tell = "never"
              /\ Cur.status = "investigating" /\ run.rb \in Runbooks
              /\ run.job \in Jobs /\ run.job \in JobIds /\ job[run.job] \in Job
              /\ job[run.job].incident = run.cur
              /\ job[run.job].runbook = run.rb /\ job[run.job].approval = 0
  BY <1>17, OpenHand, PresentRows
<1>18. ASSUME run.pc \in Acting, run'.pc \in InHand, UNCHANGED inc,
              run'.loop = run.loop, run'.todo = run.todo, run'.cur = run.cur
       PROVE  LoopInv' /\ AwaitInv'
  BY <1>3, <1>4, <1>17, <1>18, LoopKept DEF HandInv, LoopInv, AwaitInv, InHand, Acting
<1>19. CASE CreateContext
  <2> DEFINE y == [job[run.job] EXCEPT !.context = "active"]
  <2>1. run.pc = "context" /\ job' = [job EXCEPT ![run.job] = y]
        /\ UNCHANGED <<inc, tries, req, asked, ran>>
    BY <1>19 DEF CreateContext, deskVars
  <2>2. y \in Job
    BY <1>17, <2>1, RowTypes DEF Acting
  <2>8. /\ y.incident = job[run.job].incident /\ y.runbook = job[run.job].runbook
        /\ y.approval = job[run.job].approval
    BY <1>17, <2>1, RowTypes DEF Acting
  <2> HIDE DEF y
  <2>3. (\A x \in JobIds : SameJob(x)) /\ job'[run.job] = y
    BY <1>17, <2>1, <2>2, <2>8, RowWritten DEF Acting
  <2>4. RequestsKept /\ \A x \in JobIds : x # run.job => job'[x] = job[x]
    BY <1>17, <2>1 DEF RequestsKept, SameRequest, Acting, TypeOK
  <2>5. /\ TablesInv'
        /\ \A i : Fresh(i)' = Fresh(i) /\ Linked(i)' = Linked(i)
    BY <1>3, <1>17, <2>1, <2>3, <2>4, TablesStep DEF Acting, Jobs
  <2>6. /\ run'.pc = "execute" /\ run'.rb = run.rb /\ run'.tell = run.tell /\ run'.job = run.job
        /\ run'.loop = run.loop /\ run'.cur = run.cur /\ run'.todo = run.todo
    BY <1>4, <1>19 DEF CreateContext, Go, Process
  <2>7. OpenInv'
    <3>1. OwnJob'
      BY <1>17, <2>1, <2>2, <2>3, <2>6, <2>8 DEF OwnJob, JobsOf, Jobs, Acting, Job
    <3>2. RequestsOf(run.cur)' = {}
      BY <2>1, <2>6, OpenHand DEF RequestsOf
    <3>3. Cur' = Cur
      BY <2>1, <2>6 DEF Cur
    <3> QED
      BY <1>17, <2>1, <2>2, <2>3, <2>6, <2>8, <3>1, <3>2, <3>3 DEF OpenInv, Acting
  <2> QED
    BY <1>3, <1>18, <2>1, <2>5, <2>6, <2>7, IncidentsSame DEF HandInv, Acting, InHand
<1>20. CASE ExecuteNow
  <2>1. run.pc = "execute" /\ UNCHANGED <<job, inc, tries, req, asked, ran>>
    BY <1>20 DEF ExecuteNow, deskVars, tables
  <2>2. /\ run'.pc = "verify" /\ run'.rb = run.rb /\ run'.tell = run.tell /\ run'.job = run.job
        /\ run'.loop = run.loop /\ run'.cur = run.cur /\ run'.todo = run.todo
    BY <1>4, <1>20 DEF ExecuteNow, Go, Process
  <2>3. OpenInv'
    <3>1. OwnJob'
      BY <1>17, <2>1, <2>2 DEF OwnJob, JobsOf, Jobs, Acting
    <3>2. Cur' = Cur
      BY <2>1, <2>2 DEF Cur
    <3> QED
      BY <1>17, <2>1, <2>2, <3>1, <3>2 DEF OpenInv, Acting
  <2> QED
    BY <1>7, <1>18, <2>1, <2>2, <2>3 DEF HandInv, Acting, InHand
<1>21. ASSUME NEW y \in Job, job' = [job EXCEPT ![run.job] = y],
              run.pc \in {"execute", "verify"}, UNCHANGED <<inc, tries, req, asked, ran>>,
              y.incident = run.cur, y.runbook = run.rb, y.approval = 0,
              NEW goal \in {"failed", "resolved"},
              goal = "resolved" => y.status = "verified" /\ y.verify = "passed",
              run' = [run EXCEPT !.pc = "status", !.goal = goal, !.tell = "after"]
       PROVE  HandInv' /\ IncidentInv' /\ TablesInv'
  <2>1. (\A x \in JobIds : SameJob(x)) /\ job'[run.job] = y
        /\ \A x \in JobIds : x # run.job => job'[x] = job[x]
    BY <1>17, <1>21, RowWritten DEF Acting
  <2>2. RequestsKept
    BY <1>21 DEF RequestsKept, SameRequest
  <2>3. /\ TablesInv'
        /\ \A i : Fresh(i)' = Fresh(i) /\ Linked(i)' = Linked(i)
    BY <1>3, <1>17, <1>21, <2>1, <2>2, TablesStep DEF Acting, Jobs
  <2>4. /\ run'.pc = "status" /\ run'.goal = goal /\ run'.tell = "after" /\ run'.job = run.job
        /\ run'.loop = run.loop /\ run'.cur = run.cur /\ run'.todo = run.todo
    BY <1>4, <1>21 DEF Process
  <2>5. OpenInv'
    <3>1. OwnJob'
      BY <1>17, <1>21, <2>1, <2>4 DEF OwnJob, JobsOf, Jobs, Acting, Job
    <3>2. Cur' = Cur
      BY <1>21, <2>4 DEF Cur
    <3>3. goal = "resolved" => Passed(run.job)'
      BY <1>21, <2>1, <2>4 DEF Passed
    <3> QED
      BY <1>17, <1>21, <2>4, <3>1, <3>2, <3>3 DEF OpenInv, Acting
  <2> QED
    BY <1>3, <1>18, <1>21, <2>3, <2>4, <2>5, IncidentsSame DEF HandInv, Acting, InHand
<1>22. CASE ExecuteFails
  <2> DEFINE y == [job[run.job] EXCEPT !.status = "failed", !.exec = "error",
                     !.verdicts = Counted(run.job)]
  <2>1. run.pc = "execute" /\ UNCHANGED <<inc, tries, req, asked, ran>>
        /\ run' = [run EXCEPT !.pc = "status", !.goal = "failed", !.tell = "after"]
    BY <1>22 DEF ExecuteFails, deskVars
  <2>2. job' = [job EXCEPT ![run.job] = y]
    BY <1>17, <1>22, <2>1 DEF ExecuteFails, Acting
  <2>3. y \in Job
    BY <1>17, <2>1, CountedIs DEF Job, Acting
  <2>4. y.incident = run.cur /\ y.runbook = run.rb /\ y.approval = 0
    BY <1>17, <2>1 DEF Job, Acting
  <2> QED
    BY <1>21, <2>1, <2>2, <2>3, <2>4
<1>23. ASSUME NEW passed \in BOOLEAN, VerifyNow(passed)
       PROVE  HandInv' /\ IncidentInv' /\ TablesInv'
  <2> DEFINE y == [job[run.job] EXCEPT !.exec = "success",
                     !.verify = Mark(passed), !.status = Verdict(passed),
                     !.verdicts = Counted(run.job)]
  <2>1. run.pc = "verify" /\ UNCHANGED <<inc, tries, req, asked, ran>>
        /\ run' = [run EXCEPT !.pc = "status", !.goal = Close(passed), !.tell = "after"]
    BY <1>23 DEF VerifyNow, deskVars
  <2>2. job' = [job EXCEPT ![run.job] = y]
    BY <1>17, <1>23, <2>1 DEF VerifyNow, Acting
  <2>3. y \in Job /\ y.verify = Mark(passed) /\ y.status = Verdict(passed)
    BY <1>17, <2>1, CountedIs DEF Job, Acting, Mark, Verdict
  <2>4. y.incident = run.cur /\ y.runbook = run.rb /\ y.approval = 0
    BY <1>17, <2>1 DEF Job, Acting
  <2>5. /\ Close(passed) \in {"failed", "resolved"}
        /\ Close(passed) = "resolved" => y.status = "verified" /\ y.verify = "passed"
    BY <2>3 DEF Close, Mark, Verdict
  <2> HIDE DEF y
  <2> QED
    BY <1>21, <2>1, <2>2, <2>3, <2>4, <2>5
<1>24. CASE Suspend
  <2>1. PICK r \in Requests : A!CreatePending(r, run.rb, run.cur)
                             /\ run' = [run EXCEPT !.pc = "link", !.ticket = r]
    BY <1>24 DEF Suspend
  <2>2. run.pc = "execute" /\ UNCHANGED <<job, inc, tries>>
    BY <1>24 DEF Suspend, tables
  <2>3. run.cur # 0 /\ RequestsOf(run.cur) = {} /\ ~Fresh(run.cur)
    BY <1>17, <2>2, OpenHand DEF Acting, IncidentIds, Fresh, JobsOf
  <2>4. TablesInv' /\ \A x : Fresh(x)' = Fresh(x) /\ Linked(x)' = Linked(x)
    BY <1>3, <2>1, <2>2, <2>3, NewRequestStep
  <2>5. req'[r].status = "pending" /\ req'[r].incident = run.cur /\ asked'[r] = run.rb
    BY <2>1, NewRequestIs DEF TypeOK
  <2>6. /\ run'.pc = "link" /\ run'.ticket = r
        /\ run'.rb = run.rb /\ run'.tell = run.tell /\ run'.job = run.job
        /\ run'.loop = run.loop /\ run'.cur = run.cur /\ run'.todo = run.todo
    BY <1>4, <2>1 DEF Process
  <2>7. OpenInv'
    <3>1. OwnJob'
      BY <1>17, <2>2, <2>6 DEF OwnJob, JobsOf, Jobs, Acting
    <3>2. r \in RequestsOf(run.cur)'
      BY <2>5, <2>6 DEF RequestsOf
    <3>3. Cur' = Cur
      BY <2>2, <2>6 DEF Cur
    <3> QED
      BY <1>17, <2>2, <2>5, <2>6, <3>1, <3>2, <3>3 DEF OpenInv, Acting
  <2> QED
    BY <1>3, <1>18, <2>2, <2>4, <2>6, <2>7, IncidentsSame DEF HandInv, Acting, InHand
<1>25. CASE Link
  <2> DEFINE y == [job[run.job] EXCEPT !.status = "executing",
                     !.exec = "approval_required", !.approval = run.ticket]
  <2>1. run.pc = "link" /\ UNCHANGED <<inc, tries, req, asked, ran>>
        /\ run' = [run EXCEPT !.pc = "status", !.goal = "awaiting_approval"]
    BY <1>25 DEF Link, deskVars
  <2>2. /\ run.ticket \in Requests /\ req[run.ticket].incident = run.cur
        /\ req[run.ticket].status # "absent" /\ asked[run.ticket] = run.rb
    BY <1>3, <1>17, <2>1 DEF HandInv, OpenInv, Acting, InHand, RequestsOf
  <2>3. job' = [job EXCEPT ![run.job] = y]
    BY <1>17, <1>25, <2>1 DEF Link, Acting
  <2>4. /\ y.incident = run.cur /\ y.runbook = run.rb /\ y.approval = run.ticket
        /\ y.status = "executing"
    BY <1>17, <2>1 DEF Job, Acting
  <2> HIDE DEF y
  <2>5. job'[run.job] = y /\ \A x \in JobIds : x # run.job => job'[x] = job[x]
    BY <1>17, <2>1, <2>3 DEF Acting, TypeOK
  <2>6. run.job \in Jobs /\ run.job \in JobIds /\ job[run.job].incident = run.cur
        /\ job[run.job].runbook = run.rb /\ run.ticket # 0
    BY <1>17, <2>1, <2>2, RunnerAssumption DEF Acting
  <2>7. Jobs' = Jobs
    BY <2>4, <2>5, <2>6 DEF Jobs
  <2>8. \A x \in Jobs : job'[x].incident = job[x].incident
    BY <2>4, <2>5, <2>6 DEF Jobs
  <2>9. \A x : JobsOf(x)' = JobsOf(x)
    BY <2>7, <2>8 DEF JobsOf
  <2>10. \A x : Fresh(x)' = Fresh(x)
    BY <2>9 DEF Fresh
  <2>11. \A x : Linked(x) => Linked(x)'
    BY <2>4, <2>5, <2>6, <2>9 DEF Linked, JobsOf, Jobs
  <2>12. TablesInv'
    <3>1. TicketMatchesJob'
      <4>1. \A x \in Jobs : x # run.job => job'[x] = job[x]
        BY <2>5 DEF Jobs
      <4> QED
        BY <1>3, <2>1, <2>2, <2>4, <2>5, <2>6, <2>7, <4>1 DEF TablesInv, TicketMatchesJob
    <3>2. JobInv'
      <4>1. \A x \in Jobs : x # run.job => job'[x] = job[x]
        BY <2>5 DEF Jobs
      <4> QED
        BY <1>3, <2>1, <2>2, <2>4, <2>5, <2>6, <2>7, <4>1 DEF TablesInv, JobInv, Consented
    <3>3. RequestInv'
      BY <1>3, <2>1, <2>10 DEF TablesInv, RequestInv
    <3>4. OneJobPerIncident'
      BY <1>3, <2>7, <2>8 DEF TablesInv, OneJobPerIncident
    <3> QED
      BY <3>1, <3>2, <3>3, <3>4 DEF TablesInv
  <2>13. IncidentInv'
    BY <1>3, <2>1, <2>10, <2>11 DEF IncidentInv
  <2>14. /\ run'.pc = "status" /\ run'.goal = "awaiting_approval" /\ run'.tell = run.tell
         /\ run'.loop = run.loop /\ run'.cur = run.cur /\ run'.todo = run.todo
    BY <1>4, <2>1 DEF Process
  <2>15. OpenInv'
    <3>1. Linked(run.cur)'
      BY <2>4, <2>5, <2>6, <2>14 DEF Linked, JobsOf, Jobs
    <3>2. Cur' = Cur
      BY <2>1, <2>14 DEF Cur
    <3> QED
      BY <1>17, <2>1, <2>14, <3>1, <3>2 DEF OpenInv, Acting
  <2> QED
    BY <1>18, <2>1, <2>12, <2>13, <2>14, <2>15 DEF HandInv, Acting, InHand
<1>26. ASSUME NEW i \in run.todo, run.pc = "await", NEW pc \in {"close", "status"},
              NEW j \in JobIds \cup {0}, NEW goal \in {"failed", "resolved"},
              NEW tell \in {"never", "before", "after"}, Visit(i, pc, j, goal, tell),
              inc' = inc,
              pc = "close" \/ tell # "never" => j \in Jobs' /\ job'[j].incident = i,
              goal = "resolved" => /\ tell = "after"
                                   /\ job'[j].status = "verified" /\ job'[j].verify = "passed"
       PROVE  HandInv'
  <2>1. i \in IncidentIds /\ run.loop = "await" /\ inc[i].status = "awaiting_approval"
    BY <1>3, <1>4, <1>26 DEF HandInv, LoopInv
  <2>2. goal \in IncidentStatuses
    BY DEF IncidentStatuses
  <2>3. /\ run'.pc = pc /\ run'.loop = "await" /\ run'.todo = run.todo \ {i}
        /\ run'.cur = i /\ run'.job = j /\ run'.goal = goal /\ run'.tell = tell
    BY <1>26, <2>1, <2>2, VisitIs
  <2>4. LoopInv' /\ OpenInv'
    BY <1>3, <1>4, <1>26, <2>1, <2>3, LoopKept DEF HandInv, OpenInv, InHand
  <2>5. AwaitInv'
    <3>1. Cur' = inc[i]
      BY <1>26, <2>3 DEF Cur
    <3>2. pc = "close" \/ tell # "never" => OwnJob'
      BY <1>26, <2>3 DEF OwnJob, JobsOf
    <3>3. goal = "resolved" => Passed(run.job)'
      BY <1>26, <2>3 DEF Passed
    <3> QED
      BY <1>26, <2>1, <2>3, <3>1, <3>2, <3>3 DEF AwaitInv
  <2> QED
    BY <2>4, <2>5 DEF HandInv
<1>27. ASSUME Visiting("await")
       PROVE  \E i \in IncidentIds :
                /\ i = First(run.todo) /\ i \in run.todo /\ run.pc = "await"
                /\ inc[i].status = "awaiting_approval"
  <2>1. First(run.todo) \in run.todo /\ run.pc = "await" /\ run.loop = "await"
    BY <1>3, <1>4, <1>27, FirstIs DEF Visiting, HandInv, LoopInv
  <2> QED
    BY <1>3, <1>4, <2>1 DEF HandInv, LoopInv
<1>28. CASE Refused
  <2>1. PICK i \in IncidentIds : /\ i = First(run.todo) /\ i \in run.todo /\ run.pc = "await"
                                 /\ inc[i].status = "awaiting_approval"
    BY <1>27, <1>28 DEF Refused
  <2>2. UNCHANGED <<job, inc, tries, req, asked, ran>>
    BY <1>28 DEF Refused, deskVars, tables
  <2>3. Answer(i) # "missing"
    BY <2>1, AwaitingIs DEF TypeOK, A!TypeOK, A!Row, A!Statuses
  <2>4. PICK j : j = Context(i)
    OBVIOUS
  <2>5. j # 0 => j \in Jobs /\ job[j].incident = i
    BY <2>4, ContextIs DEF JobsOf
  <2>6. \/ Visit(i, "status", 0, "failed", "never")
        \/ j # 0 /\ Visit(i, "close", j, "failed", "never")
    <3>1. IF Answer(i) = "missing" THEN Visit(i, "status", 0, "open", "never")
          ELSE IF Context(i) = 0 THEN Visit(i, "status", 0, "failed", "never")
          ELSE Visit(i, "close", Context(i), "failed", "never")
      BY <1>28, <2>1 DEF Refused
    <3>2. CASE j = 0
      BY <2>3, <2>4, <3>1, <3>2
    <3>3. CASE j # 0
      BY <2>3, <2>4, <3>1, <3>3
    <3> QED
      BY <3>2, <3>3
  <2>7. CASE Visit(i, "status", 0, "failed", "never")
    BY <1>7, <1>26, <2>1, <2>2, <2>7
  <2>8. CASE j # 0 /\ Visit(i, "close", j, "failed", "never")
    <3>1. j \in JobIds /\ Jobs' = Jobs
      BY <2>2, <2>5, <2>8 DEF Jobs
    <3> QED
      BY <1>7, <1>26, <2>1, <2>2, <2>5, <2>8, <3>1
  <2> QED
    BY <2>6, <2>7, <2>8
<1>29. CASE ApprovedInVain
  <2>1. PICK i \in IncidentIds : /\ i = First(run.todo) /\ i \in run.todo /\ run.pc = "await"
                                 /\ inc[i].status = "awaiting_approval"
    BY <1>27, <1>29 DEF ApprovedInVain
  <2>2. UNCHANGED <<inc, tries, req, asked, ran>>
    BY <1>29 DEF ApprovedInVain, deskVars
  <2>3. PICK j : j = Context(i)
    OBVIOUS
  <2>4. CASE j # 0 /\ ~Succeeded(i)
    <3> DEFINE y == [job[j] EXCEPT !.status = "failed", !.exec = req[Ticket(i)].result,
                       !.verdicts = Counted(j)]
    <3>1. j \in Jobs /\ j \in JobIds /\ job[j] \in Job /\ job[j].incident = i
      BY <2>3, <2>4, ContextIs, PresentRows DEF JobsOf
    <3>2. job' = [job EXCEPT ![j].status = "failed", ![j].exec = req[Ticket(i)].result,
                             ![j].verdicts = Counted(j)]
          /\ Visit(i, "close", j, "failed", "before")
      BY <1>29, <2>1, <2>3, <2>4 DEF ApprovedInVain
    <3>3. job' = [job EXCEPT ![j] = y]
      BY <3>1, <3>2
    <3>4. y \in Job
      <4>1. Ticket(i) \in Requests /\ req[Ticket(i)].status = "approved"
        BY <1>29, <2>1, AwaitingIs DEF ApprovedInVain
      <4>2. req[Ticket(i)].result \in {"success", "error"}
        BY <4>1 DEF IInv, ResultInv, A!Results
      <4> QED
        BY <3>1, <4>2, CountedIs DEF Job
    <3>5. /\ y.incident = i /\ y.runbook = job[j].runbook /\ y.approval = job[j].approval
          /\ y.status = "failed"
      BY <3>1 DEF Job
    <3> HIDE DEF y
    <3>6. (\A x \in JobIds : SameJob(x)) /\ job'[j] = y
          /\ \A x \in JobIds : x # j => job'[x] = job[x]
      BY <3>1, <3>3, <3>4, <3>5, RowWritten
    <3>7. /\ TablesInv'
          /\ \A x : Fresh(x)' = Fresh(x) /\ Linked(x)' = Linked(x)
      <4>1. RequestsKept
        BY <2>2 DEF RequestsKept, SameRequest
      <4> QED
        BY <1>3, <3>5, <3>6, <4>1, TablesStep DEF Jobs
    <3>8. j \in Jobs' /\ job'[j].incident = i
      BY <3>1, <3>4, <3>5, <3>6 DEF Jobs, Job
    <3>9. HandInv'
      BY <1>26, <2>1, <2>2, <3>1, <3>2, <3>8
    <3> QED
      BY <1>3, <2>2, <3>7, <3>9, IncidentsSame
  <2>5. CASE ~(j # 0 /\ ~Succeeded(i))
    <3>1. Visit(i, "status", 0, "failed", "never") /\ job' = job
      BY <1>29, <2>1, <2>3, <2>5 DEF ApprovedInVain
    <3> QED
      BY <1>7, <1>26, <2>1, <2>2, <3>1
  <2> QED
    BY <2>4, <2>5
<1>30. CASE Desk
  <2>1. UNCHANGED <<run, inc, job, tries>>
    BY <1>30 DEF Desk, tables
  <2>2. RequestsKept
    <3>1. Answers
      BY <1>30 DEF Desk, Answers
    <3>2. \A r \in Requests : ran[r] \subseteq ran'[r]
      BY <1>4, DeskStep, RunsStay DEF TypeOK
    <3> QED
      BY <3>1, <3>2, AnswersKeepRequests DEF RequestsKept, TypeOK, IInv
  <2>3. \A j \in JobIds : SameJob(j)
    BY <2>1 DEF SameJob
  <2>4. /\ TablesInv'
        /\ \A i : Fresh(i)' = Fresh(i) /\ Linked(i)' = Linked(i)
    BY <1>3, <2>1, <2>2, <2>3, TablesStep
  <2>5. LoopInv' /\ AwaitInv'
    BY <1>3, <2>1 DEF HandInv, LoopInv, AwaitInv, Cur, OwnJob, JobsOf, Jobs, Passed
  <2>6. OpenInv'
    <3>1. run.ticket \in RequestsOf(run.cur) =>
            /\ run'.ticket \in RequestsOf(run.cur)'
            /\ (req'[run.ticket].status = "absent") <=> (req[run.ticket].status = "absent")
            /\ asked'[run.ticket] = asked[run.ticket]
      BY <2>1, <2>2 DEF RequestsOf, RequestsKept, SameRequest
    <3>2. RequestsOf(run.cur) = {} => RequestsOf(run.cur)' = {}
      BY <2>1, <2>2 DEF RequestsOf, RequestsKept, SameRequest
    <3>3. Fresh(run.cur)' = Fresh(run.cur) /\ Linked(run.cur)' = Linked(run.cur)
      BY <2>1 DEF Fresh, Linked, JobsOf, Jobs
    <3>4. OwnJob' = OwnJob /\ Passed(run.job)' = Passed(run.job)
      BY <2>1 DEF OwnJob, JobsOf, Jobs, Passed
    <3> QED
      BY <1>3, <2>1, <3>1, <3>2, <3>3, <3>4 DEF HandInv, OpenInv, Cur
  <2> QED
    BY <1>3, <2>1, <2>4, <2>5, <2>6, IncidentsSame DEF HandInv
<1>31. ASSUME NEW passed \in BOOLEAN, ApprovedAndRun(passed)
       PROVE  HandInv' /\ IncidentInv' /\ TablesInv'
  <2>1. PICK i \in IncidentIds : /\ i = First(run.todo) /\ i \in run.todo /\ run.pc = "await"
                                 /\ inc[i].status = "awaiting_approval"
    BY <1>27, <1>31 DEF ApprovedAndRun
  <2>2. UNCHANGED <<inc, tries, req, asked, ran>>
    BY <1>31 DEF ApprovedAndRun, deskVars
  <2>3. PICK j : j = Record(i)
    OBVIOUS
  <2> DEFINE y == [job[j] EXCEPT !.verify = Mark(passed), !.status = Verdict(passed),
                     !.verdicts = Counted(j)]
  <2>4. /\ Succeeded(i)
        /\ job' = [job EXCEPT ![j].verify = Mark(passed), ![j].status = Verdict(passed),
                              ![j].verdicts = Counted(j)]
        /\ Visit(i, "close", j, Close(passed), "after")
    BY <1>31, <2>1, <2>3 DEF ApprovedAndRun
  <2>5. j \in Jobs /\ j \in JobIds /\ job[j] \in Job /\ job[j].incident = i
        /\ job[j].approval = Ticket(i) /\ Ticket(i) \in Requests
    <3>1. j \in Jobs /\ JobsOf(i) = {j} /\ job[j].approval = Ticket(i) /\ Ticket(i) \in Requests
      BY <2>1, <2>3, AwaitingIs
    <3> QED
      BY <3>1, PresentRows DEF JobsOf
  <2>6. Consented(j)
    <3>1. \E e \in ran[Ticket(i)] : e[2] = "success"
      BY <2>4, <2>5 DEF Succeeded, IInv, A!IInv, A!SuccessIsReal
    <3>2. \A e \in ran[Ticket(i)] : e[1] = asked[Ticket(i)]
      BY <2>5 DEF IInv, A!IInv, A!ConsentBound
    <3>3. asked[Ticket(i)] = job[j].runbook
      <4>1. Ticket(i) # 0
        BY <2>5, RunnerAssumption
      <4> QED
        BY <1>3, <2>5, <4>1 DEF TablesInv, TicketMatchesJob
    <3> QED
      BY <2>5, <3>1, <3>2, <3>3 DEF Consented
  <2>7. job' = [job EXCEPT ![j] = y]
    BY <2>4, <2>5
  <2>8. y \in Job
    BY <2>5, CountedIs DEF Job, Mark, Verdict
  <2>9. /\ y.incident = i /\ y.runbook = job[j].runbook /\ y.approval = job[j].approval
        /\ y.status = Verdict(passed) /\ y.verify = Mark(passed)
    BY <2>5 DEF Job
  <2> HIDE DEF y
  <2>10. (\A x \in JobIds : SameJob(x)) /\ job'[j] = y
         /\ \A x \in JobIds : x # j => job'[x] = job[x]
    BY <2>5, <2>7, <2>8, <2>9, RowWritten
  <2>11. /\ TablesInv'
         /\ \A x : Fresh(x)' = Fresh(x) /\ Linked(x)' = Linked(x)
    <3>1. RequestsKept
      BY <2>2 DEF RequestsKept, SameRequest
    <3> QED
      BY <1>3, <2>6, <2>10, <3>1, TablesStep DEF Jobs
  <2>12. j \in Jobs' /\ job'[j].incident = i
    BY <2>5, <2>8, <2>9, <2>10 DEF Jobs, Job
  <2>13. /\ Close(passed) \in {"failed", "resolved"}
         /\ Close(passed) = "resolved" => job'[j].status = "verified" /\ job'[j].verify = "passed"
    BY <2>9, <2>10 DEF Close, Mark, Verdict
  <2>14. HandInv'
    BY <1>26, <2>1, <2>2, <2>4, <2>5, <2>12, <2>13
  <2> QED
    BY <1>3, <2>2, <2>11, <2>14, IncidentsSame
<1>32. CASE CompleteContext
  <2>1. run.pc = "close" /\ UNCHANGED <<inc, tries, req, asked, ran>>
    BY <1>32 DEF CompleteContext, deskVars
  <2>2. run.loop = "await" /\ run.job \in Jobs /\ run.job \in JobIds /\ job[run.job] \in Job
        /\ job[run.job].incident = run.cur
    BY <2>1, ClosingHand, PresentRows DEF OwnJob, JobsOf
  <2>3. /\ \A x \in JobIds : SameJob(x)
        /\ \A x \in JobIds : job'[x].status = job[x].status /\ job'[x].verify = job[x].verify
    <3>1. CASE job[run.job].context = "active"
      <4> DEFINE y == [job[run.job] EXCEPT !.context = "completed"]
      <4>1. job' = [job EXCEPT ![run.job] = y]
        BY <1>32, <3>1 DEF CompleteContext
      <4>2. y \in Job
        BY <2>2, RowTypes
      <4>3. /\ y.incident = job[run.job].incident /\ y.runbook = job[run.job].runbook
            /\ y.approval = job[run.job].approval
        BY <2>2, RowTypes
      <4>4. y.status = job[run.job].status /\ y.verify = job[run.job].verify
        <5>1. y.status = job[run.job].status
          BY <2>2 DEF Job
        <5>2. y.verify = job[run.job].verify
          BY <2>2 DEF Job
        <5> QED
          BY <5>1, <5>2
      <4> HIDE DEF y
      <4> QED
        <5>1. /\ \A x \in JobIds : SameJob(x)
              /\ job'[run.job] = y /\ \A x \in JobIds : x # run.job => job'[x] = job[x]
          BY <2>2, <4>1, <4>2, <4>3, RowWritten
        <5> QED
          BY <4>4, <5>1
    <3>2. CASE job[run.job].context # "active"
      BY <1>32, <3>2 DEF CompleteContext, SameJob
    <3> QED
      BY <3>1, <3>2
  <2>4. RequestsKept
    BY <2>1 DEF RequestsKept, SameRequest
  <2>5. /\ TablesInv'
        /\ \A x : Fresh(x)' = Fresh(x) /\ Linked(x)' = Linked(x)
    BY <1>3, <2>3, <2>4, TablesStep DEF Jobs
  <2>6. /\ run'.pc = IF run.tell = "before" THEN "case" ELSE "status"
        /\ run'.tell = run.tell /\ run'.job = run.job /\ run'.goal = run.goal
        /\ run'.loop = run.loop /\ run'.cur = run.cur /\ run'.todo = run.todo
    BY <1>4, <1>32 DEF CompleteContext, Go, Process
  <2>7. LoopInv' /\ OpenInv'
    BY <1>3, <1>4, <2>1, <2>2, <2>6, LoopKept DEF HandInv, LoopInv, OpenInv, InHand
  <2>8. AwaitInv'
    <3>1. Cur' = Cur
      BY <2>1, <2>6 DEF Cur
    <3>2. OwnJob'
      BY <2>2, <2>3, <2>6 DEF OwnJob, JobsOf, Jobs, SameJob
    <3>3. Passed(run.job)' = Passed(run.job)
      BY <2>2, <2>3, <2>6 DEF Passed
    <3>4. Cur.status = "awaiting_approval"
      BY <1>3, <2>1, <2>2 DEF HandInv, AwaitInv, InHand
    <3> QED
      BY <1>3, <2>1, <2>2, <2>6, <3>1, <3>2, <3>3, <3>4 DEF HandInv, AwaitInv, InHand
  <2> QED
    BY <1>3, <2>1, <2>5, <2>7, <2>8, IncidentsSame DEF HandInv
<1>33. CASE Settle
  <2>1. /\ run.pc = "status" /\ UpdateStatus(run.cur, run.goal)
        /\ UNCHANGED <<job, tries, req, asked, ran>>
        /\ run' = IF run.tell = "after" THEN [run EXCEPT !.pc = "case"] ELSE NextVisit
    BY <1>33 DEF Settle, deskVars
  <2>2. /\ run.cur \in Incidents /\ run.cur \in IncidentIds /\ run.loop \in {"open", "await"}
        /\ Cur.status = IF run.loop = "open" THEN "investigating" ELSE "awaiting_approval"
        /\ run.goal \in {"open", "failed", "awaiting_approval", "resolved"}
        /\ run.goal \in {"open", "awaiting_approval"} => run.loop = "open"
        /\ run.tell # "never" => OwnJob
    BY <1>3, <1>4, <2>1, ClosingHand DEF HandInv, LoopInv, InHand, Incidents
  <2>3. /\ inc'[run.cur].status = run.goal /\ inc'[run.cur].retry = Cur.retry
        /\ \A x \in IncidentIds : x # run.cur => inc'[x] = inc[x]
    <3>1. run.goal \in IncidentStatuses /\ run.goal \in Transitions[Cur.status]
      BY <2>2 DEF IncidentStatuses, Transitions
    <3> QED
      BY <2>1, <2>2, <3>1, StatusWritten DEF Cur
  <2>4. /\ run.goal = "open" => /\ Fresh(run.cur) /\ Cur.retry < MaxRetries
                                /\ Cur.retry <= tries[run.cur]
        /\ run.goal = "awaiting_approval" => Linked(run.cur)
    BY <1>3, <2>1, <2>2 DEF HandInv, OpenInv, InHand
  <2>5. IncidentInv'
    BY <1>3, <1>6, <2>1, <2>2, <2>3, <2>4, IncidentsStep
  <2>6. run.cur \notin run.todo
    BY <1>3, <2>1 DEF HandInv, LoopInv, InHand
  <2>7. CASE run.tell = "after"
    <3>1. /\ run'.pc = "case" /\ run'.tell = "after" /\ run'.job = run.job /\ run'.goal = run.goal
          /\ run'.loop = run.loop /\ run'.cur = run.cur /\ run'.todo = run.todo
      BY <1>4, <2>1, <2>7 DEF Process
    <3>2. LoopInv'
      BY <1>3, <1>4, <2>2, <2>3, <2>6, <3>1, LoopKept DEF HandInv, InHand
    <3>3. Cur'.status = run.goal /\ OwnJob' /\ Passed(run.job)' = Passed(run.job)
      BY <2>1, <2>2, <2>3, <2>7, <3>1 DEF Cur, OwnJob, JobsOf, Jobs, Passed
    <3>4. run.goal \in {"failed", "resolved"}
          /\ (run.loop = "await" /\ run.goal = "resolved" => Passed(run.job))
      BY <1>3, <2>1, <2>2, <2>7 DEF HandInv, OpenInv, AwaitInv, InHand
    <3>5. OpenInv' /\ AwaitInv'
      BY <2>2, <3>1, <3>3, <3>4 DEF OpenInv, AwaitInv, Acting
    <3> QED
      BY <1>6, <2>1, <2>5, <3>2, <3>5 DEF HandInv
  <2>8. CASE run.tell # "after"
    <3>1. run'.pc = run.loop /\ run'.loop = run.loop /\ run'.todo = run.todo
      BY <1>4, <2>1, <2>2, <2>8, LoopIs DEF NextVisit
    <3>2. LoopInv'
      BY <1>3, <1>4, <2>2, <2>3, <2>6, <3>1, LoopKept DEF HandInv
    <3>3. OpenInv' /\ AwaitInv'
      BY <2>2, <3>1 DEF OpenInv, AwaitInv, InHand
    <3> QED
      BY <1>6, <2>1, <2>5, <3>2, <3>3 DEF HandInv
  <2> QED
    BY <2>7, <2>8
<1>34. CASE RecordCase
  <2>1. run.pc = "case" /\ UNCHANGED <<inc, job, tries, req, asked, ran>>
        /\ IF run.tell = "before" THEN Go("status") ELSE run' = NextVisit
    BY <1>34 DEF RecordCase, deskVars
  <2>2. run.loop \in {"open", "await"} /\ OwnJob /\ run.cur \in IncidentIds
    BY <1>3, <1>4, <2>1, ClosingHand DEF HandInv, LoopInv, InHand
  <2>3. CASE run.tell = "before"
    <3>1. /\ run'.pc = "status" /\ run'.tell = run.tell /\ run'.job = run.job
          /\ run'.goal = run.goal
          /\ run'.loop = run.loop /\ run'.cur = run.cur /\ run'.todo = run.todo
      BY <1>4, <2>1, <2>3 DEF Go, Process
    <3>2. run.loop = "await" /\ Cur.status = "awaiting_approval" /\ run.goal = "failed"
      BY <1>3, <2>1, <2>2, <2>3 DEF HandInv, OpenInv, AwaitInv, InHand
    <3>3. LoopInv' /\ OpenInv'
      BY <1>3, <1>4, <2>1, <2>2, <3>1, <3>2, LoopKept DEF HandInv, LoopInv, OpenInv, InHand
    <3>4. Cur' = Cur /\ OwnJob'
      BY <2>1, <2>2, <3>1 DEF Cur, OwnJob, JobsOf, Jobs
    <3>5. AwaitInv'
      BY <2>3, <3>1, <3>2, <3>4 DEF AwaitInv
    <3> QED
      BY <1>7, <2>1, <3>3, <3>5 DEF HandInv
  <2>4. CASE run.tell # "before"
    <3>1. run'.pc = run.loop /\ run'.loop = run.loop /\ run'.todo = run.todo
      BY <1>4, <2>1, <2>2, <2>4, LoopIs DEF NextVisit
    <3>2. LoopInv'
      BY <1>3, <1>4, <2>1, <2>2, <3>1, LoopKept DEF HandInv
    <3>3. OpenInv' /\ AwaitInv'
      BY <2>2, <3>1 DEF OpenInv, AwaitInv, InHand
    <3> QED
      BY <1>7, <2>1, <3>2, <3>3 DEF HandInv
  <2> QED
    BY <2>3, <2>4
<1>35. CASE Reconcile \/ UNCHANGED vars
  <2>1. UNCHANGED <<run, job, inc, tries, req, asked, ran>>
    BY <1>35 DEF Reconcile, vars, tables, deskVars
  <2>2. HandInv'
    BY <1>3, <2>1 DEF HandInv, LoopInv, OpenInv, AwaitInv, Cur, OwnJob, Passed, Linked, Fresh,
                     JobsOf, Jobs, RequestsOf
  <2> QED
    BY <1>7, <2>1, <2>2
<1>36. CASE Apply
  <2>1. run.pc = "apply" /\ UNCHANGED <<job, req, asked, ran, tries>>
    BY <1>36 DEF Apply, deskVars
  <2>2. run'.loop = "none" /\ run'.pc = "sweep"
    BY <1>3, <1>4, <1>36 DEF Apply, Go, Process, HandInv, LoopInv
  <2>3. IncidentInv'
    <3>1. ASSUME NEW i \in IncidentIds
          PROVE  /\ inc'[i].status \in {"absent", "open"} => Fresh(i)
                 /\ inc'[i].status = "open" => inc'[i].retry < MaxRetries /\ inc'[i].retry <= tries[i]
                 /\ inc'[i].status = "awaiting_approval" => Linked(i)
      <4>1. tries[i] \in Nat /\ 0 < MaxRetries /\ 0 <= tries[i]
        BY RunnerAssumption DEF TypeOK
      <4> QED
        BY <1>3, <1>36, <4>1, ApplyIs DEF IncidentInv
    <3> QED
      BY <1>6, <2>1, <3>1 DEF IncidentInv
  <2> QED
    BY <1>6, <2>1, <2>2, <2>3, HandEmpty
<1> QED
  <2>1. CASE Step
    BY <1>10, <1>11, <1>12, <1>14, <1>15, <1>16, <1>19, <1>20, <1>22, <1>23, <1>24, <1>25,
       <1>28, <1>29, <1>31, <1>32, <1>33, <1>34, <1>36, <2>1 DEF Step
  <2>2. CASE Next
    BY <1>10, <1>13, <1>30, <1>35, <2>1, <2>2 DEF Next
  <2> QED
    BY <1>35, <2>2
\* It holds before anything is on record.
LEMMA InitInv == Init => TypeOK /\ IInv
<1> SUFFICES ASSUME Init PROVE TypeOK /\ IInv
  OBVIOUS
<1>1. At("idle") \in Process /\ At("idle").loop = "none" /\ At("idle").pc = "idle"
  BY ProcessTypes DEF At
<1>2. TypeOK
  <2>1. D!TypeOK
    BY DEF Init, D!Init, D!TypeOK, D!Zero, D!Quiet
  <2>2. A!TypeOK
    BY DeskInitialTypes, RunnerAssumption DEF Init, A!Init, A!TypeOK
  <2> QED
    BY <1>1, <2>1, <2>2 DEF Init, TypeOK
<1>3. A!IInv /\ ResultInv
  BY DEF Init, A!Init, A!IInv, A!RowInv, A!CallInv, A!ConsentBound, A!SuccessIsReal,
         A!ExpiredIsLate, A!Blank, A!Idle, ResultInv
<1>4. \A i \in IncidentIds : inc[i].status = "absent"
  BY DEF Init, NoIncident
<1>5. Jobs = {}
  BY DEF Init, Jobs, NoJob
<1>6. \A i : Fresh(i)
  BY <1>5 DEF Fresh, JobsOf
<1>7. HandInv
  BY <1>1 DEF Init, HandInv, LoopInv, OpenInv, AwaitInv, InHand
<1>8. IncidentInv
  BY <1>4, <1>6 DEF IncidentInv
<1>9. TablesInv
  BY <1>5, <1>6 DEF Init, A!Init, A!Blank, TablesInv, JobInv, TicketMatchesJob, RequestInv,
                   OneJobPerIncident
<1> QED
  BY <1>2, <1>3, <1>7, <1>8, <1>9 DEF IInv

-----------------------------------------------------------------------------
(* What every behaviour keeps *)

\* Every variable of the loop, the tables it writes, the detector and the desk
\* keeps its type, whatever fails and whatever operators do.
THEOREM TypeCorrect == Spec => []TypeOK
<1>1. TypeOK /\ IInv /\ [Next]_vars => TypeOK' /\ IInv'
  BY TypeStep, IInvStep
<1> QED
  BY <1>1, InitInv, PTL DEF Spec

\* The process, wherever it is in tick(), has already committed what its next
\* statements rely on, and so have those that died or raised before it.
THEOREM InvariantHolds == Spec => []IInv
<1>1. TypeOK /\ IInv /\ [Next]_vars => TypeOK' /\ IInv'
  BY TypeStep, IInvStep
<1> QED
  BY <1>1, InitInv, PTL DEF Spec

\* The request a context names was created for its own incident and for the
\* very call of its runbook: _handle_awaiting never reads a stranger's answer.
THEOREM TicketsMatch == Spec => []TicketMatchesJob
<1>1. IInv => TicketMatchesJob
  BY DEF IInv, TablesInv
<1> QED
  BY <1>1, InvariantHolds, PTL

\* execute_runbook is never entered twice for an incident, however often it was
\* put back to open, or the process died between two of its commits.
THEOREM RemediatedOnce == Spec => []OneJobPerIncident
<1>1. IInv => OneJobPerIncident
  BY DEF IInv, TablesInv
<1> QED
  BY <1>1, InvariantHolds, PTL

\* An incident that awaits approval has the request and the record it will be
\* continued from: Suspend, Link and Settle commit in an order no fault undoes.
THEOREM AwaitingProceeds == Spec => []AwaitingCanProceed
<1>1. TypeOK /\ IInv => AwaitingCanProceed
  <2> SUFFICES ASSUME TypeOK, IInv, NEW i \in InStatus("awaiting_approval")
               PROVE  Ticket(i) # 0 /\ Record(i) # 0 /\ job[Record(i)].approval = Ticket(i)
    BY DEF AwaitingCanProceed
  <2>1. i \in IncidentIds /\ inc[i].status = "awaiting_approval"
    BY DEF InStatus, Incidents
  <2>2. Record(i) \in Jobs /\ Ticket(i) \in Requests /\ job[Record(i)].approval = Ticket(i)
    BY <2>1, AwaitingIs
  <2> QED
    BY <2>2, RunnerAssumption DEF Jobs, JobIds
<1> QED
  BY <1>1, TypeCorrect, InvariantHolds, PTL

\* With every tool call, answer, sweep and restart in it, the Runner still is a
\* user of the approval desk as Approvals specifies it: what is proved of the
\* desk alone holds of the desk inside the loop.
THEOREM DeskImplemented == Spec => A!Spec
<1>1. Init => A!Init
  BY DEF Init
<1>2. TypeOK /\ [Next]_vars => [A!Next]_(A!vars)
  BY DeskStep DEF TypeOK, deskVars, A!vars
<1> QED
  BY <1>1, <1>2, TypeCorrect, PTL DEF Spec, A!Spec

-----------------------------------------------------------------------------
(* How an incident may end *)

\* A status is written only to the incident in hand, except by apply().
LEMMA WhoWrites ==
  ASSUME TypeOK, IInv, Next, NEW i \in Incidents,
         inc[i].status \in {"investigating", "awaiting_approval"}, inc'[i].status # inc[i].status
  PROVE  Settle /\ i = run.cur /\ inc'[i].status = run.goal
<1>1. CASE Settle
  <2>1. /\ run.cur \in Incidents /\ run.goal \in IncidentStatuses
    BY <1>1, ClosingHand DEF Settle, IncidentStatuses
  <2> QED
    BY <1>1, <2>1, StatusWritten DEF Settle, Incidents
<1>2. CASE Apply
  BY <1>2, ApplyIs DEF Incidents
<1>3. CASE Claim
  <2> DEFINE c == First(run.todo)
  <2>1. run.todo \in SUBSET IncidentIds /\ run.todo # {} /\ run.loop = "open"
    BY <1>3 DEF Claim, Visiting, TypeOK, Process, IInv, HandInv, LoopInv
  <2>2. c \in run.todo /\ inc[c].status = "open"
    BY <2>1, FirstIs DEF IInv, HandInv, LoopInv
  <2>3. c \in Incidents /\ c # i
    BY <2>1, <2>2 DEF Incidents
  <2> HIDE DEF c
  <2>4. UpdateStatus(c, "investigating")
    BY <1>3 DEF Claim, c
  <2> QED
    BY <2>3, <2>4, StatusWritten DEF Incidents, IncidentStatuses
<1>4. ASSUME NEW n, inc' = [inc EXCEPT ![run.cur].retry = n] \/ inc' = inc
      PROVE  FALSE
  <2>1. i \in IncidentIds /\ inc[i] \in Incident
    BY PresentRows
  <2>2. inc'[i] = inc[i] \/ inc'[i] = [inc[i] EXCEPT !.retry = n]
    BY <1>4, <2>1 DEF TypeOK
  <2> QED
    BY <2>1, <2>2 DEF Incident
<1>5. CASE NoConclusion \/ NoRunbook \/ \E rb \in Runbooks : ChooseRunbook(rb)
  BY <1>4, <1>5 DEF NoConclusion, NoRunbook, ChooseRunbook
<1>6. CASE UNCHANGED inc
  BY <1>4, <1>6
<1>7. \/ Settle \/ Apply \/ Claim
      \/ NoConclusion \/ NoRunbook \/ \E rb \in Runbooks : ChooseRunbook(rb)
      \/ UNCHANGED inc
  BY Zenon DEF Next, Step, Fault, Collect, Sweep, ListAwaiting, EndTick, CreateRecord,
     CreateContext, Suspend, Link, ExecuteNow, ExecuteFails, VerifyNow, ApprovedAndRun,
     StillPending, Refused, ApprovedInVain, CompleteContext, RecordCase, Reconcile, Boot,
     ModelRestarts, ModelRaises, DatabaseRaises, Crash, Desk, tables
<1> QED
  BY <1>1, <1>2, <1>3, <1>5, <1>6, <1>7

\* An incident the loop has taken up is resolved only on a record whose
\* postcondition passed, and if its call was gated, only after a run of exactly
\* that call succeeded under the request.
THEOREM ResolvedProven == Spec => ResolvedIsProven
<1>1. ASSUME TypeOK, IInv, Next, NEW i \in Incidents,
             inc[i].status \in {"investigating", "awaiting_approval"}, inc'[i].status = "resolved"
      PROVE  \E j \in JobsOf(i) :
               /\ job[j].status = "verified" /\ job[j].verify = "passed"
               /\ job[j].approval # 0 => Consented(j)
  <2>1. run.pc = "status" /\ i = run.cur /\ run.goal = "resolved"
    BY <1>1, WhoWrites DEF Settle
  <2>2. OwnJob /\ Passed(run.job)
    <3>1. run.loop \in {"open", "await"}
      BY <1>1, <2>1 DEF TypeOK, Process, IInv, HandInv, LoopInv
    <3> QED
      BY <1>1, <2>1, <3>1 DEF IInv, HandInv, OpenInv, AwaitInv, InHand
  <2>3. run.job \in Jobs
    BY <2>2 DEF OwnJob, JobsOf
  <2>4. job[run.job].approval # 0 => Consented(run.job)
    BY <1>1, <2>2, <2>3 DEF IInv, TablesInv, JobInv, Passed
  <2> QED
    BY <2>1, <2>2, <2>4 DEF OwnJob, Passed
<1>2. TypeOK /\ IInv /\ [Next]_vars =>
        [\A i \in Incidents :
           /\ inc[i].status \in {"investigating", "awaiting_approval"}
           /\ inc'[i].status = "resolved"
           => \E j \in JobsOf(i) :
                /\ job[j].status = "verified" /\ job[j].verify = "passed"
                /\ job[j].approval # 0 => Consented(j)]_vars
  BY <1>1
<1> QED
  BY <1>2, TypeCorrect, InvariantHolds, PTL DEF Spec, ResolvedIsProven

\* _handle_open gives an incident up without a remediation only after it has
\* investigated it as often as INVESTIGATE_MAX_RETRIES says.
THEOREM GivesUpLate == Spec => GivesUpOnlyWhenSpent
<1>1. ASSUME TypeOK, IInv, Next, NEW i \in Incidents,
             inc[i].status = "investigating", inc'[i].status = "failed", JobsOf(i) = {}
      PROVE  tries[i] >= MaxRetries
  <2>1. run.pc = "status" /\ i = run.cur /\ run.goal = "failed"
    BY <1>1, WhoWrites DEF Settle
  <2>2. run.loop \in {"open", "await"}
    BY <1>1, <2>1 DEF TypeOK, Process, IInv, HandInv, LoopInv
  <2>3. ~OwnJob
    BY <1>1, <2>1 DEF OwnJob
  <2> QED
    BY <1>1, <2>1, <2>2, <2>3 DEF IInv, HandInv, OpenInv, AwaitInv, InHand, Cur
<1>2. TypeOK /\ IInv /\ [Next]_vars =>
        [\A i \in Incidents :
           /\ inc[i].status = "investigating" /\ inc'[i].status = "failed"
           /\ JobsOf(i) = {}
           => tries[i] >= MaxRetries]_vars
  BY <1>1
<1> QED
  BY <1>2, TypeCorrect, InvariantHolds, PTL DEF Spec, GivesUpOnlyWhenSpent

-----------------------------------------------------------------------------
(* The detector and the incidents *)

\* A step that leaves the detector alone, and neither enters nor leaves apply().
Beside ==
  /\ UNCHANGED detectorVars
  /\ \/ run' = run
     \/ run.pc \notin {"down", "apply"} /\ run'.pc \notin {"down", "apply"}

\* The steps in which an open incident in hand stays there or is let go.
Keeps ==
  /\ run'.loop = "open" /\ run'.pc \in InHand =>
       run.loop = "open" /\ run.pc \in InHand /\ run'.cur = run.cur

\* What a visit of an awaiting incident makes of the process.
LEMMA VisitPc ==
  ASSUME NEW i, NEW pc, NEW j, NEW goal, NEW tell, Visit(i, pc, j, goal, tell)
  PROVE  run'.pc = pc /\ run'.loop = "await"
  BY DEF Visit, Loop, At

\* Beyond the detector's own steps and apply(), no step changes what it knows;
\* and only Claim takes an open incident in hand.
LEMMA OtherSteps ==
  ASSUME TypeOK, IInv, [Next]_vars
  PROVE  /\ Claim \/ Keeps
         /\ \/ \E reading \in [Kinds -> {"breached", "normal"}] : Collect(reading)
            \/ Apply \/ Boot \/ Crash \/ DatabaseRaises \/ Beside
<1> DEFINE Other == Beside /\ Keeps
<1>1. run \in Process /\ run.todo \in SUBSET IncidentIds /\ run.loop \in {"none", "open", "await"}
  BY DEF TypeOK, Process
<1>2. ASSUME NEW l \in {"open", "await"}, NEW S \in SUBSET IncidentIds, run' = Loop(l, S),
             run.pc \notin {"down", "apply"}, UNCHANGED detectorVars
      PROVE  Other
  <2>1. run'.pc = l
    BY <1>2, LoopIs
  <2> QED
    BY <1>2, <2>1 DEF Beside, Keeps, InHand
<1>3. CASE Sweep \/ ListAwaiting
  <2>1. InStatus("open") \in SUBSET IncidentIds /\ InStatus("awaiting_approval") \in SUBSET IncidentIds
    BY DEF InStatus, Incidents
  <2>2. CASE Sweep
    BY <1>2, <2>1, <2>2 DEF Sweep
  <2>3. CASE ListAwaiting
    BY <1>2, <2>1, <2>3 DEF ListAwaiting
  <2> QED
    BY <1>3, <2>2, <2>3
<1>4. CASE StillPending
  <2>1. run.todo \ {First(run.todo)} \in SUBSET IncidentIds
    BY <1>1
  <2> QED
    BY <1>2, <1>4, <2>1 DEF StillPending, Visiting
<1>5. CASE EndTick \/ ModelRaises
  BY <1>5 DEF EndTick, ModelRaises, At, Beside, Keeps, InHand
<1>6. CASE Claim
  BY <1>6 DEF Claim, Visiting, Loop, At, Beside
<1>7. ASSUME run.pc \in {"ask", "record"} \cup Acting, run'.loop = run.loop, run'.cur = run.cur,
             run'.pc \in InHand, UNCHANGED detectorVars
      PROVE  Other
  BY <1>7 DEF Beside, Keeps, Acting, InHand
<1>8. CASE NoConclusion \/ NoRunbook
  BY <1>1, <1>7, <1>8 DEF NoConclusion, NoRunbook, Process, InHand
<1>9. ASSUME NEW rb \in Runbooks, ChooseRunbook(rb)
      PROVE  Other
  BY <1>1, <1>7, <1>9 DEF ChooseRunbook, Process, InHand
<1>10. CASE CreateRecord \/ CreateContext \/ Suspend
  BY <1>1, <1>7, <1>10 DEF CreateRecord, CreateContext, Suspend, Go, Process, InHand, Acting
<1>11. CASE Link \/ ExecuteNow \/ ExecuteFails
  BY <1>1, <1>7, <1>11 DEF Link, ExecuteNow, ExecuteFails, Go, Process, InHand, Acting
<1>12. ASSUME NEW passed \in BOOLEAN, VerifyNow(passed)
       PROVE  Other
  BY <1>1, <1>7, <1>12 DEF VerifyNow, Process, InHand, Acting
<1>13. CASE CompleteContext
  <2>1. run'.loop = run.loop /\ run'.cur = run.cur /\ run'.pc \in InHand
    BY <1>1, <1>13 DEF CompleteContext, Go, Process, InHand
  <2> QED
    BY <1>13, <2>1 DEF CompleteContext, Beside, Keeps, InHand
<1>14. CASE Settle \/ RecordCase
  <2>1. run.loop \in {"open", "await"} /\ run.pc \in {"status", "case"} /\ UNCHANGED detectorVars
    BY <1>1, <1>14 DEF Settle, RecordCase, IInv, HandInv, LoopInv, InHand
  <2>2. CASE run' = NextVisit
    BY <1>1, <1>2, <2>1, <2>2 DEF NextVisit
  <2>3. CASE run' = [run EXCEPT !.pc = "case"] \/ run' = [run EXCEPT !.pc = "status"]
    <3>1. run'.loop = run.loop /\ run'.cur = run.cur /\ run'.pc \in {"case", "status"}
      BY <1>1, <2>3 DEF Process
    <3> QED
      BY <2>1, <3>1 DEF Beside, Keeps, InHand
  <2> QED
    BY <1>14, <2>2, <2>3 DEF Settle, RecordCase, Go
<1>15. CASE Refused \/ ApprovedInVain \/ \E passed \in BOOLEAN : ApprovedAndRun(passed)
  <2>1. run.pc = "await" /\ UNCHANGED detectorVars
    BY <1>15 DEF Refused, ApprovedInVain, ApprovedAndRun, Visiting
  <2>2. run'.pc \in {"close", "status"} /\ run'.loop = "await"
    <3>1. CASE Refused
      BY <3>1, VisitPc DEF Refused
    <3>2. CASE ApprovedInVain
      BY <3>2, VisitPc DEF ApprovedInVain
    <3>3. ASSUME NEW passed \in BOOLEAN, ApprovedAndRun(passed)
          PROVE  run'.pc \in {"close", "status"} /\ run'.loop = "await"
      BY <3>3, VisitPc DEF ApprovedAndRun
    <3> QED
      BY <1>15, <3>1, <3>2, <3>3
  <2> QED
    BY <2>1, <2>2 DEF Beside, Keeps
<1>16. CASE (\E rb \in Runbooks : ModelRestarts(rb)) \/ Reconcile \/ Desk \/ UNCHANGED vars
  <2>1. run' = run /\ UNCHANGED detectorVars
    BY <1>16 DEF ModelRestarts, Reconcile, Desk, vars
  <2> QED
    BY <2>1 DEF Beside, Keeps
<1>17. ASSUME NEW reading \in [Kinds -> {"breached", "normal"}], Collect(reading)
       PROVE  Keeps
  BY <1>1, <1>17 DEF Collect, Go, Process, Keeps, InHand
<1>18. CASE Apply
  BY <1>1, <1>18 DEF Apply, Go, Process, Keeps, InHand
<1>19. CASE Boot \/ Crash \/ DatabaseRaises
  BY <1>19 DEF Boot, Crash, DatabaseRaises, At, Keeps, InHand
<1> QED
  <2>1. CASE Step
    BY <1>3, <1>4, <1>5, <1>6, <1>8, <1>9, <1>10, <1>11, <1>12, <1>13, <1>14, <1>15,
       <1>17, <1>18, <1>19, <2>1 DEF Step
  <2> QED
    BY <1>5, <1>16, <1>19, <2>1 DEF Next, Fault

\* Only apply() opens an incident: one that is held open was so before.
LEMMA HeldStep ==
  ASSUME TypeOK, IInv, [Next]_vars, ~Apply, NEW i \in IncidentIds, Held(i)'
  PROVE  Held(i) /\ inc'[i].kind = inc[i].kind
<1>1. CASE Claim
  <2>1. PICK c : c = First(run.todo)
    OBVIOUS
  <2>2. run.todo \in SUBSET IncidentIds /\ run.todo # {} /\ run.loop = "open"
    BY <1>1 DEF Claim, Visiting, TypeOK, Process, IInv, HandInv, LoopInv
  <2>3. c \in run.todo
    BY <2>1, <2>2, FirstIs
  <2>4. c \in Incidents /\ inc[c].status = "open"
    BY <2>2, <2>3 DEF IInv, HandInv, LoopInv, Incidents
  <2>5. /\ inc'[c].kind = inc[c].kind /\ \A x \in IncidentIds : x # c => inc'[x] = inc[x]
    <3>1. UpdateStatus(c, "investigating")
      BY <1>1, <2>1 DEF Claim
    <3> QED
      BY <2>4, <3>1, StatusWritten DEF IncidentStatuses
  <2>6. run'.cur = c
    BY <1>1, <2>1 DEF Claim, Loop, At
  <2> QED
    BY <2>4, <2>5, <2>6 DEF Held
<1>2. CASE ~Claim /\ UNCHANGED inc
  BY <1>2, OtherSteps DEF Held, Keeps
<1>3. CASE NoConclusion \/ NoRunbook \/ \E rb \in Runbooks : ChooseRunbook(rb)
  <2>1. PICK n : inc' = [inc EXCEPT ![run.cur].retry = n] \/ inc' = inc
    BY <1>3 DEF NoConclusion, NoRunbook, ChooseRunbook
  <2>2. run.cur \in IncidentIds /\ inc[run.cur] \in Incident /\ ~Claim
    <3>1. run.pc = "ask"
      BY <1>3 DEF NoConclusion, NoRunbook, ChooseRunbook
    <3>2. run.cur \in Incidents
      BY <3>1, OpenHand DEF Cur, Incidents
    <3> QED
      BY <3>1, <3>2, PresentRows DEF Claim, Visiting
  <2>3. inc'[i].status = inc[i].status /\ inc'[i].kind = inc[i].kind
    BY <2>1, <2>2 DEF TypeOK, Incident
  <2> QED
    BY <2>2, <2>3, OtherSteps DEF Held, Keeps
<1>4. CASE Settle
  <2>1. /\ run.cur \in Incidents /\ run.pc = "status" /\ ~Claim /\ run.goal \in IncidentStatuses
        /\ Cur.status = IF run.loop = "open" THEN "investigating" ELSE "awaiting_approval"
        /\ run.goal \in {"open", "failed", "awaiting_approval", "resolved"}
        /\ run.goal \in {"open", "awaiting_approval"} => run.loop = "open"
    BY <1>4, ClosingHand DEF Settle, IncidentStatuses, Claim, Visiting
  <2>2. /\ inc'[run.cur].kind = inc[run.cur].kind /\ inc'[run.cur].status = run.goal
        /\ \A x \in IncidentIds : x # run.cur => inc'[x] = inc[x]
    <3>1. run.goal \in Transitions[Cur.status]
      BY <2>1 DEF Transitions
    <3> QED
      BY <1>4, <2>1, <3>1, StatusWritten DEF Settle, Cur
  <2> QED
    BY <2>1, <2>2, OtherSteps DEF Held, Keeps, InHand, Cur
<1>5. \/ Settle \/ Claim
      \/ NoConclusion \/ NoRunbook \/ \E rb \in Runbooks : ChooseRunbook(rb)
      \/ UNCHANGED inc
  BY Zenon DEF Next, Step, Fault, Collect, Sweep, ListAwaiting, EndTick, CreateRecord,
     CreateContext, Suspend, Link, ExecuteNow, ExecuteFails, VerifyNow, ApprovedAndRun,
     StillPending, Refused, ApprovedInVain, CompleteContext, RecordCase, Reconcile, Boot,
     ModelRestarts, ModelRaises, DatabaseRaises, Crash, Desk, tables, vars
<1> QED
  BY <1>1, <1>2, <1>3, <1>4, <1>5

\* What is held open when apply() runs has the status "open", and so has what
\* is held open after it: an incident left alone, or the new one of its kind.
LEMMA HeldApply ==
  ASSUME TypeOK, IInv, Apply, NEW i \in IncidentIds
  PROVE  /\ Held(i) => inc[i].status = "open"
         /\ Held(i)' => \/ Held(i) /\ inc'[i] = inc[i] /\ i \notin Recovered
                        \/ /\ inc'[i].kind \in NewlyOpened
                           /\ i = Latest(Incidents) + Cardinality({h \in NewlyOpened : h <= inc'[i].kind})
<1>1. run.pc = "apply" /\ run'.pc = "sweep"
  BY DEF Apply, Go, TypeOK, Process
<1>2. (Held(i) => inc[i].status = "open") /\ (Held(i)' => inc'[i].status = "open")
  BY <1>1 DEF Held, InHand
<1> QED
  BY <1>2, ApplyIs DEF Held

\* The detector never loses track of an incident that is held open.
LEMMA KindStep ==
  ASSUME TypeOK, IInv, KindInv, [Next]_vars
  PROVE  KindInv'
<1> USE DEF KindInv
<1>1. \A i \in IncidentIds : Held(i)' /\ ~Apply => Held(i) /\ inc'[i].kind = inc[i].kind
  BY HeldStep
<1>2. ASSUME NEW reading \in [Kinds -> {"breached", "normal"}], Collect(reading)
      PROVE  KindInv'
  <2>1. run.pc = "idle" /\ D!Check(reading) /\ ~Apply
    BY <1>2 DEF Collect, Apply
  <2>2. openKinds \subseteq openKinds'
    BY <2>1 DEF D!Check
  <2>3. \A k \in Kinds : events'[k] = "open" => k \in openKinds' /\ okay'[k] = 0
    BY <2>1 DEF D!Check, D!Opens
  <2> QED
    BY <1>1, <2>1, <2>2, <2>3
<1>3. CASE Apply
  <2>1. run.pc = "apply" /\ run'.pc = "sweep" /\ openKinds' = openKinds
    BY <1>3 DEF Apply, Go, TypeOK, Process
  <2>2. \A k \in NewlyOpened : k \in Kinds /\ k \in openKinds /\ OpenOf(k) = {}
    BY <2>1 DEF NewlyOpened
  <2>3. ASSUME NEW i \in IncidentIds, Held(i)'
        PROVE  inc'[i].kind \in openKinds'
    BY <1>3, <2>1, <2>2, <2>3, HeldApply
  <2>4. ASSUME NEW i \in IncidentIds, NEW h \in IncidentIds, Held(i)', Held(h)',
               inc'[i].kind = inc'[h].kind
        PROVE  i = h
    <3>1. ASSUME NEW x \in IncidentIds, NEW y \in IncidentIds, Held(x), inc'[x] = inc[x],
                 inc'[y].kind \in NewlyOpened, inc'[x].kind = inc'[y].kind
          PROVE  FALSE
      <4>1. inc[x].status = "open"
        BY <1>3, <3>1, HeldApply
      <4>2. x \in OpenOf(inc[x].kind)
        BY <4>1 DEF OpenOf, InStatus, Incidents
      <4> QED
        BY <2>2, <3>1, <4>2
    <3> QED
      BY <1>3, <2>4, <3>1, HeldApply
  <2> QED
    BY <2>1, <2>3, <2>4
<1>4. CASE Boot
  <2>1. ~Apply /\ run'.pc = "idle" /\ run.pc = "down" /\ openKinds' = OnRecord
    BY <1>4 DEF Boot, Apply, At, D!Restart
  <2>2. \A i \in IncidentIds : Held(i)' => inc'[i].kind \in openKinds'
    <3>1. \A i \in IncidentIds : Held(i) => inc[i].status = "open"
      BY <2>1 DEF Held, InHand
    <3> QED
      BY <1>1, <2>1, <3>1 DEF OnRecord, InStatus, Incidents
  <2> QED
    BY <1>1, <2>1, <2>2
<1>5. CASE Crash \/ DatabaseRaises
  <2>1. ~Apply /\ run'.pc \in {"down", "idle"}
    BY <1>5 DEF Crash, DatabaseRaises, Apply, At, D!Restart, D!Quiet, Go, TypeOK, Process
  <2>2. run'.pc = "idle" => openKinds' = openKinds /\ run.pc # "down"
    BY <1>5 DEF Crash, DatabaseRaises, At
  <2> QED
    BY <1>1, <2>1, <2>2
<1>6. CASE Beside /\ ~Apply
  BY <1>1, <1>6 DEF Beside, detectorVars
<1> QED
  BY <1>2, <1>3, <1>4, <1>5, <1>6, OtherSteps

\* It holds in every behaviour.
LEMMA KindHolds == Spec => []KindInv
<1>1. Init => KindInv
  BY DEF Init, KindInv, Held, At, InHand, NoIncident
<1> QED
  BY <1>1, KindStep, TypeCorrect, InvariantHolds, PTL DEF Spec

\* Deduplication: a kind that breaches again while its incident is open opens
\* no second one, and neither does putting one back to open after another was.
THEOREM OpenedOnce == Spec => []OneOpenPerKind
<1>1. KindInv => OneOpenPerKind
  <2> SUFFICES ASSUME KindInv, NEW k \in Kinds
               PROVE  Cardinality(OpenOf(k)) <= 1
    BY DEF OneOpenPerKind
  <2>1. \A x, y \in OpenOf(k) : x = y
    BY DEF KindInv, Held, OpenOf, InStatus, Incidents
  <2>2. CASE OpenOf(k) = {}
    BY <2>2, FS_EmptySet
  <2>3. CASE OpenOf(k) # {}
    <3>1. PICK x : x \in OpenOf(k)
      BY <2>3
    <3>2. OpenOf(k) = {x}
      BY <2>1, <3>1
    <3>3. Cardinality({x}) = 1
      BY FS_Singleton
    <3> QED
      BY <3>2, <3>3
  <2> QED
    BY <2>2, <2>3
<1> QED
  BY <1>1, KindHolds, PTL

\* The rows apply() leaves open are those whose kind has not recovered.
LEMMA ClosingStep ==
  ASSUME TypeOK, IInv, KindInv, ClosingInv, [Next]_vars, "db" \notin Faults
  PROVE  ClosingInv'
<1> USE DEF ClosingInv
<1>1. \A i \in IncidentIds : Held(i)' /\ ~Apply => Held(i) /\ inc'[i].kind = inc[i].kind
  BY HeldStep
<1>2. ASSUME NEW i \in IncidentIds, Held(i)
      PROVE  inc[i].kind \in Kinds
  <2>1. i \in Incidents
    BY <1>2 DEF Held, Incidents
  <2> QED
    BY <2>1, PresentRows DEF Incident
<1>3. \A k \in Kinds : Sustain[k] \in Nat \ {0} /\ okay[k] \in Nat /\ breach[k] \in Nat
  BY RunnerAssumption DEF TypeOK, D!TypeOK
<1>4. ASSUME NEW reading \in [Kinds -> {"breached", "normal"}], Collect(reading)
      PROVE  ClosingInv'
  <2>1. /\ run.pc = "idle" /\ D!Check(reading) /\ ~Apply /\ run'.pc = "apply"
    BY <1>4 DEF Collect, Apply, Go, TypeOK, Process
  <2>2. ASSUME NEW k \in Kinds, k \in openKinds, okay[k] < Sustain[k]
        PROVE  okay'[k] < Sustain[k] \/ events'[k] = "resolve"
    <3>1. CASE reading[k] = "breached"
      <4>1. okay'[k] = 0
        BY <2>1, <3>1 DEF D!Check
      <4> QED
        BY <1>3, <4>1
    <3>2. CASE reading[k] = "normal"
      <4>1. okay'[k] = okay[k] + 1
        BY <1>3, <2>1, <2>2, <3>2 DEF D!Check, D!Longer
      <4>2. okay[k] + 1 = Sustain[k] => events'[k] = "resolve"
        BY <2>1, <2>2, <3>2 DEF D!Check, D!Opens, D!Resolves
      <4> QED
        BY <1>3, <2>2, <4>1, <4>2
    <3> QED
      BY <3>1, <3>2
  <2>3. \A i \in IncidentIds : Held(i) => inc[i].kind \in openKinds
    BY <2>1 DEF KindInv
  <2> QED
    BY <1>1, <1>2, <2>1, <2>2, <2>3
<1>5. CASE Apply
  <2>1. run.pc = "apply" /\ run'.pc = "sweep" /\ okay' = okay
    BY <1>5 DEF Apply, Go, TypeOK, Process
  <2>2. ASSUME NEW i \in IncidentIds, Held(i), inc'[i] = inc[i], i \notin Recovered
        PROVE  okay'[inc'[i].kind] < Sustain[inc'[i].kind]
    <3>1. inc[i].status = "open" /\ inc[i].kind \in Kinds
      BY <1>2, <1>5, <2>2, HeldApply
    <3>2. i \in OpenOf(inc[i].kind)
      BY <3>1 DEF OpenOf, InStatus, Incidents
    <3>3. OpenOf(inc[i].kind) \in SUBSET Nat /\ MaxIncidents \in Nat
          /\ \A x \in OpenOf(inc[i].kind) : x <= MaxIncidents
      BY RunnerAssumption DEF OpenOf, InStatus, Incidents, IncidentIds
    <3>4. Latest(OpenOf(inc[i].kind)) \in OpenOf(inc[i].kind)
      BY <3>2, <3>3, LatestIs
    <3>5. Latest(OpenOf(inc[i].kind)) = i
      BY <2>2, <3>1, <3>4 DEF KindInv, Held, OpenOf, InStatus, Incidents
    <3>6. events[inc[i].kind] # "resolve"
      BY <2>2, <3>1, <3>5 DEF Recovered
    <3> QED
      BY <2>1, <2>2, <3>6
  <2>3. ASSUME NEW k \in NewlyOpened
        PROVE  okay'[k] < Sustain[k]
    <3>1. k \in Kinds /\ okay[k] = 0
      BY <2>1 DEF NewlyOpened, KindInv
    <3> QED
      BY <1>3, <2>1, <3>1
  <2> QED
    BY <1>5, <2>2, <2>3, HeldApply
<1>6. CASE Boot \/ Crash
  <2>1. ~Apply /\ \A k \in Kinds : okay'[k] = 0
    BY <1>6 DEF Boot, Crash, Apply, D!Restart, D!Zero, D!Quiet, Go, TypeOK, Process, At
  <2> QED
    BY <1>1, <1>2, <1>3, <2>1
<1>7. CASE Beside /\ ~Apply
  BY <1>1, <1>7 DEF Beside, detectorVars
<1> QED
  BY <1>4, <1>5, <1>6, <1>7, OtherSteps DEF DatabaseRaises

\* Between ticks no incident is open whose kind has been normal for as long as
\* confirms it, if apply() commits (the event is gone when its commit raises).
THEOREM RecoveryClosed ==
  ASSUME "db" \notin Faults
  PROVE  Spec => []RecoveryCloses
<1>1. Init => ClosingInv
  BY DEF Init, ClosingInv, Held, At, InHand, NoIncident
<1>2. TypeOK /\ IInv /\ KindInv /\ ClosingInv /\ [Next]_vars => ClosingInv'
  BY ClosingStep
<1>3. ClosingInv => RecoveryCloses
  BY DEF ClosingInv, RecoveryCloses, InStatus, Incidents, Held
<1> QED
  BY <1>1, <1>2, <1>3, TypeCorrect, InvariantHolds, KindHolds, PTL DEF Spec

-----------------------------------------------------------------------------
(* Recorded cases *)

\* What a case says, a record with an outcome says, and as long as it has been
\* given only one, the same; "verified" it says only of a call that was run.
CaseOf(j) ==
  /\ job[j].status \in {"verified", "failed"} => job[j].verdicts # 0
  /\ cases[j] # "none" =>
       /\ j \in Jobs /\ job[j].verdicts # 0
       /\ job[j].verdicts = 1 => cases[j] = Outcome(j)
  /\ cases[j] = "verified" /\ job[j].approval # 0 => Consented(j)

\* The record in hand has no outcome before its call is over, and has one when
\* the process is about to tell of it.
TellInv ==
  /\ run.pc \in Acting => job[run.job].verdicts = 0
  /\ run.pc \in InHand /\ run.tell # "never" => run.job \in Jobs /\ job[run.job].verdicts # 0

CaseInv == (\A j \in JobIds : CaseOf(j)) /\ TellInv

\* Columns of a record other than its context and its incident.
SameRow(j) ==
  /\ job'[j].status = job[j].status /\ job'[j].exec = job[j].exec
  /\ job'[j].verify = job[j].verify /\ job'[j].runbook = job[j].runbook
  /\ job'[j].approval = job[j].approval /\ job'[j].verdicts = job[j].verdicts
  /\ j \in Jobs <=> j \in Jobs'

\* What a step does to a record: it adds it, links it, gives it an outcome, or
\* leaves it.
Added(j)  == j \notin Jobs /\ job'[j].status = "planned" /\ job'[j].verdicts = 0
Asked(j)  == run.pc = "link" /\ j = run.job /\ job'[j].status = "executing"
             /\ job'[j].verdicts = job[j].verdicts
Judged(j) == /\ j \in Jobs /\ j \in Jobs' /\ job'[j].verdicts = Counted(j)
             /\ job'[j].runbook = job[j].runbook /\ job'[j].approval = job[j].approval

\* Closing a context changes nothing else in its record.
LEMMA CompleteIs ==
  ASSUME TypeOK, IInv, CompleteContext, NEW j \in JobIds
  PROVE  SameRow(j)
<1>1. run.job \in Jobs /\ run.job \in JobIds /\ job[run.job] \in Job
  BY ClosingHand, PresentRows DEF CompleteContext, OwnJob, JobsOf
<1>2. CASE job[run.job].context = "active" /\ j = run.job
  <2>1. job'[j] = [job[j] EXCEPT !.context = "completed"]
    BY <1>1, <1>2 DEF CompleteContext, TypeOK
  <2> QED
    BY <1>1, <1>2, <2>1 DEF SameRow, Job, Jobs
<1>3. CASE job[run.job].context # "active" \/ j # run.job
  <2>1. job'[j] = job[j]
    BY <1>3 DEF CompleteContext, TypeOK
  <2> QED
    BY <2>1 DEF SameRow, Jobs
<1> QED
  BY <1>2, <1>3

\* The actions that write an outcome into a record.
LEMMA JudgedIs ==
  ASSUME TypeOK, NEW j \in Jobs, NEW y, y.status # "absent", y.verdicts = Counted(j),
         y.runbook = job[j].runbook, y.approval = job[j].approval, job' = [job EXCEPT ![j] = y]
  PROVE  Judged(j) /\ \A x \in JobIds : x # j => SameRow(x)
<1>1. j \in JobIds /\ job'[j] = y /\ \A x \in JobIds : x # j => job'[x] = job[x]
  BY DEF TypeOK, Jobs
<1> QED
  BY <1>1 DEF Judged, SameRow, Jobs

\* A call that is over without an approval.
LEMMA EndOfCall ==
  ASSUME TypeOK, IInv, ExecuteFails \/ \E passed \in BOOLEAN : VerifyNow(passed)
  PROVE  \E j \in Jobs : /\ Judged(j) /\ \A x \in JobIds : x # j => SameRow(x)
                         /\ run'.job = j /\ run'.pc = "status"
<1>1. PICK j : j = run.job
  OBVIOUS
<1>2. j \in Jobs /\ job[j] \in Job
  BY <1>1, OpenHand, PresentRows DEF ExecuteFails, VerifyNow, Acting
<1>3. run'.job = j /\ run'.pc = "status"
  BY <1>1 DEF ExecuteFails, VerifyNow, TypeOK, Process
<1>4. CASE ExecuteFails
  <2> DEFINE y == [job[j] EXCEPT !.status = "failed", !.exec = "error", !.verdicts = Counted(j)]
  <2>1. job' = [job EXCEPT ![j] = y]
    BY <1>1, <1>2, <1>4 DEF ExecuteFails
  <2>2. y.status # "absent" /\ y.verdicts = Counted(j)
        /\ y.runbook = job[j].runbook /\ y.approval = job[j].approval
    BY <1>2 DEF Job
  <2> HIDE DEF y
  <2> QED
    BY <1>2, <1>3, <2>1, <2>2, JudgedIs
<1>5. ASSUME NEW passed \in BOOLEAN, VerifyNow(passed)
      PROVE  Judged(j) /\ \A x \in JobIds : x # j => SameRow(x)
  <2> DEFINE y == [job[j] EXCEPT !.exec = "success", !.verify = Mark(passed),
                     !.status = Verdict(passed), !.verdicts = Counted(j)]
  <2>1. job' = [job EXCEPT ![j] = y]
    BY <1>1, <1>2, <1>5 DEF VerifyNow
  <2>2. y.status # "absent" /\ y.verdicts = Counted(j)
        /\ y.runbook = job[j].runbook /\ y.approval = job[j].approval
    BY <1>2 DEF Job, Verdict
  <2> HIDE DEF y
  <2> QED
    BY <1>2, <2>1, <2>2, JudgedIs
<1> QED
  BY <1>2, <1>3, <1>4, <1>5

\* An answer read: the record it is about is judged, or the visit tells nothing.
LEMMA EndOfWait ==
  ASSUME TypeOK, IInv, ApprovedInVain \/ \E passed \in BOOLEAN : ApprovedAndRun(passed)
  PROVE  \/ job' = job /\ run'.pc = "status" /\ run'.tell = "never"
         \/ \E j \in Jobs : /\ Judged(j) /\ \A x \in JobIds : x # j => SameRow(x)
                            /\ run'.job = j /\ run'.pc = "close"
<1>1. PICK i : i = First(run.todo)
  OBVIOUS
<1>2. CASE ApprovedInVain
  <2>1. PICK j : j = Context(i)
    OBVIOUS
  <2>2. CASE j # 0 /\ ~Succeeded(i)
    <3>1. /\ job' = [job EXCEPT ![j].status = "failed", ![j].exec = req[Ticket(i)].result,
                                ![j].verdicts = Counted(j)]
          /\ Visit(i, "close", j, "failed", "before")
      BY <1>1, <1>2, <2>1, <2>2 DEF ApprovedInVain
    <3>2. j \in Jobs /\ job[j] \in Job
      BY <2>1, <2>2, ContextIs, PresentRows DEF JobsOf
    <3> DEFINE y == [job[j] EXCEPT !.status = "failed", !.exec = req[Ticket(i)].result,
                       !.verdicts = Counted(j)]
    <3>3. job' = [job EXCEPT ![j] = y]
      BY <3>1, <3>2
    <3>4. y.status # "absent" /\ y.verdicts = Counted(j)
          /\ y.runbook = job[j].runbook /\ y.approval = job[j].approval
      BY <3>2 DEF Job
    <3> HIDE DEF y
    <3>5. run'.job = j /\ run'.pc = "close"
      BY <3>1 DEF Visit, Loop, At
    <3> QED
      BY <3>2, <3>3, <3>4, <3>5, JudgedIs
  <2>3. CASE ~(j # 0 /\ ~Succeeded(i))
    <3>1. Visit(i, "status", 0, "failed", "never") /\ job' = job
      BY <1>1, <1>2, <2>1, <2>3 DEF ApprovedInVain
    <3> QED
      BY <3>1 DEF Visit, Loop, At
  <2> QED
    BY <2>2, <2>3
<1>3. ASSUME NEW passed \in BOOLEAN, ApprovedAndRun(passed)
      PROVE  \E j \in Jobs : /\ Judged(j) /\ \A x \in JobIds : x # j => SameRow(x)
                             /\ run'.job = j /\ run'.pc = "close"
  <2>1. PICK j : j = Record(i)
    OBVIOUS
  <2>2. /\ j # 0
        /\ job' = [job EXCEPT ![j].verify = Mark(passed), ![j].status = Verdict(passed),
                              ![j].verdicts = Counted(j)]
        /\ Visit(i, "close", j, Close(passed), "after")
    BY <1>1, <1>3, <2>1 DEF ApprovedAndRun
  <2>3. j \in Jobs /\ job[j] \in Job
    BY <2>1, <2>2, ContextIs, PresentRows DEF JobsOf
  <2> DEFINE y == [job[j] EXCEPT !.verify = Mark(passed), !.status = Verdict(passed),
                     !.verdicts = Counted(j)]
  <2>4. job' = [job EXCEPT ![j] = y]
    BY <2>2, <2>3
  <2>5. y.status # "absent" /\ y.verdicts = Counted(j)
        /\ y.runbook = job[j].runbook /\ y.approval = job[j].approval
    BY <2>3 DEF Job, Verdict
  <2> HIDE DEF y
  <2>6. run'.job = j /\ run'.pc = "close"
    BY <2>2 DEF Visit, Loop, At
  <2> QED
    BY <2>3, <2>4, <2>5, <2>6, JudgedIs
<1> QED
  BY <1>2, <1>3

\* What any step does to a record.
LEMMA RowStep ==
  ASSUME TypeOK, IInv, [Next]_vars, NEW j \in JobIds
  PROVE  Added(j) \/ Asked(j) \/ Judged(j) \/ SameRow(j)
<1>1. CASE CreateRecord
  <2>1. PICK x \in JobIds : /\ NewJob(x)
                            /\ job' = [job EXCEPT ![x] =
                                 [incident |-> run.cur, runbook |-> run.rb, status |-> "planned",
                                  exec |-> "none", verify |-> "none", context |-> "none",
                                  approval |-> 0, verdicts |-> 0]]
    BY <1>1 DEF CreateRecord
  <2>2. CASE j = x
    BY <2>1, <2>2 DEF Added, NewJob, TypeOK
  <2>3. CASE j # x
    BY <2>1, <2>3 DEF SameRow, Jobs, TypeOK
  <2> QED
    BY <2>2, <2>3
<1>2. CASE CreateContext
  <2>1. run.job \in Jobs /\ job[run.job] \in Job
    BY <1>2, OpenHand, PresentRows DEF CreateContext, Acting
  <2>2. CASE j = run.job
    <3>1. job'[j] = [job[j] EXCEPT !.context = "active"]
      BY <1>2, <2>1, <2>2 DEF CreateContext, TypeOK
    <3> QED
      BY <2>1, <2>2, <3>1 DEF SameRow, Jobs, Job
  <2>3. CASE j # run.job
    BY <1>2, <2>3 DEF CreateContext, SameRow, Jobs, TypeOK
  <2> QED
    BY <2>2, <2>3
<1>3. CASE Link
  <2>1. run.job \in Jobs /\ job[run.job] \in Job
    BY <1>3, OpenHand, PresentRows DEF Link, Acting
  <2>2. CASE j = run.job
    <3>1. job'[j] = [job[j] EXCEPT !.status = "executing", !.exec = "approval_required",
                                   !.approval = run.ticket]
      BY <1>3, <2>1, <2>2 DEF Link, TypeOK
    <3>2. job'[j].status = "executing" /\ job'[j].verdicts = job[j].verdicts
      BY <2>1, <2>2, <3>1 DEF Job
    <3> QED
      BY <1>3, <2>2, <3>2 DEF Asked, Link
  <2>3. CASE j # run.job
    BY <1>3, <2>3 DEF Link, SameRow, Jobs, TypeOK
  <2> QED
    BY <2>2, <2>3
<1>4. CASE ExecuteFails \/ \E passed \in BOOLEAN : VerifyNow(passed)
  BY <1>4, EndOfCall
<1>5. CASE ApprovedInVain \/ \E passed \in BOOLEAN : ApprovedAndRun(passed)
  BY <1>5, EndOfWait DEF SameRow, Jobs
<1>6. CASE CompleteContext
  BY <1>6, CompleteIs
<1>7. CASE UNCHANGED job
  BY <1>7 DEF SameRow, Jobs
<1>8. \/ CreateRecord \/ CreateContext \/ Link \/ ExecuteFails
      \/ (\E passed \in BOOLEAN : VerifyNow(passed) \/ ApprovedAndRun(passed))
      \/ ApprovedInVain \/ CompleteContext
      \/ UNCHANGED job
  BY Zenon DEF Next, Step, Fault, Collect, Apply, Sweep, ListAwaiting, EndTick, Claim,
     NoConclusion, NoRunbook, ChooseRunbook, Suspend, ExecuteNow, StillPending, Refused,
     Settle, RecordCase, Reconcile, Boot, ModelRestarts, ModelRaises, DatabaseRaises, Crash,
     Desk, tables, vars
<1> QED
  BY <1>1, <1>2, <1>3, <1>4, <1>5, <1>6, <1>7, <1>8

\* A case is inserted for a record with an outcome, and says what that one says.
LEMMA CaseWritten ==
  ASSUME TypeOK, IInv, CaseInv, [Next]_vars, NEW j \in JobIds
  PROVE  \/ cases'[j] = cases[j]
         \/ /\ UNCHANGED <<job, ran>> /\ j \in Jobs /\ job[j].verdicts # 0
            /\ cases'[j] = Outcome(j)
<1>1. ASSUME NEW x \in JobIds, RecordOutcome(x)
      PROVE  cases'[j] = cases[j] \/ (j = x /\ cases'[j] = Outcome(x))
  BY <1>1 DEF RecordOutcome, TypeOK
<1>2. CASE RecordCase
  <2>1. run.job \in Jobs /\ run.job \in JobIds /\ job[run.job].verdicts # 0
    BY <1>2, ClosingHand DEF RecordCase, CaseInv, TellInv, InHand, Jobs
  <2>2. UNCHANGED <<job, ran>> /\ (RecordOutcome(run.job) \/ cases' = cases)
    BY <1>2 DEF RecordCase, deskVars
  <2> QED
    BY <1>1, <2>1, <2>2
<1>3. CASE Reconcile
  <2>1. PICK x \in Jobs : job[x].status \in {"verified", "failed"} /\ RecordOutcome(x)
    BY <1>3 DEF Reconcile
  <2>2. x \in JobIds /\ job[x].verdicts # 0
    BY <2>1 DEF CaseInv, CaseOf, Jobs
  <2>3. UNCHANGED <<job, ran>>
    BY <1>3 DEF Reconcile, deskVars
  <2> QED
    BY <1>1, <2>1, <2>2, <2>3
<1>4. RecordCase \/ Reconcile \/ UNCHANGED cases
  BY Zenon DEF Next, Step, Fault, Collect, Apply, Sweep, ListAwaiting, EndTick, Claim,
     NoConclusion, NoRunbook, ChooseRunbook, CreateRecord, CreateContext, Suspend, Link,
     ExecuteNow, ExecuteFails, VerifyNow, StillPending, Refused, ApprovedInVain, ApprovedAndRun,
     CompleteContext, Settle, Boot, ModelRestarts, ModelRaises, DatabaseRaises, Crash,
     Desk, tables, vars
<1> QED
  BY <1>2, <1>3, <1>4

\* A record is in hand unlinked, or with an outcome to tell, because it was so
\* before, or by the step that has just added it or given it that outcome.
LEMMA TellStep ==
  ASSUME TypeOK, IInv, [Next]_vars
  PROVE  \/ run'.pc \notin Acting /\ (run'.pc \in InHand => run'.tell = "never")
         \/ /\ run'.job = run.job
            /\ run'.pc \in Acting =>
                 run.pc \in Acting /\ job'[run.job].verdicts = job[run.job].verdicts
            /\ run'.pc \in InHand /\ run'.tell # "never" => run.pc \in InHand /\ run.tell # "never"
         \/ run'.pc = "context" /\ run'.tell = "never" /\ job'[run'.job].verdicts = 0
         \/ /\ run'.pc \in {"close", "status"}
            /\ \E j \in Jobs : run'.job = j /\ Judged(j)
<1> DEFINE Untold == run'.pc \notin Acting /\ (run'.pc \in InHand => run'.tell = "never")
           Kept   == /\ run'.job = run.job
                     /\ run'.pc \in Acting =>
                          run.pc \in Acting /\ job'[run.job].verdicts = job[run.job].verdicts
                     /\ run'.pc \in InHand /\ run'.tell # "never" =>
                          run.pc \in InHand /\ run.tell # "never"
<1>1. run \in Process /\ run.todo \in SUBSET IncidentIds /\ run.loop \in {"none", "open", "await"}
  BY DEF TypeOK, Process
<1>2. CASE \/ \E reading \in [Kinds -> {"breached", "normal"}] : Collect(reading)
           \/ Apply
  BY <1>1, <1>2 DEF Collect, Apply, Go, Process, Acting, InHand
<1>3. CASE Sweep \/ ListAwaiting \/ StillPending
  BY <1>3 DEF Sweep, ListAwaiting, StillPending, Loop, At, Acting, InHand
<1>4. CASE EndTick \/ Boot \/ Fault
  BY <1>4 DEF EndTick, Boot, Fault, ModelRaises, DatabaseRaises, Crash, At, Acting, InHand
<1>5. CASE Claim
  BY <1>5 DEF Claim, Loop, At, Acting
<1>6. CASE NoConclusion \/ NoRunbook
  BY <1>1, <1>6, OpenHand DEF NoConclusion, NoRunbook, Process, Acting
<1>7. ASSUME NEW rb \in Runbooks, ChooseRunbook(rb)
      PROVE  Untold
  BY <1>1, <1>7, OpenHand DEF ChooseRunbook, Process, Acting
<1>8. CASE CreateRecord
  <2>0. PICK j \in JobIds :
          /\ job' = [job EXCEPT ![j] =
               [incident |-> run.cur, runbook |-> run.rb, status |-> "planned",
                exec |-> "none", verify |-> "none", context |-> "none", approval |-> 0,
                verdicts |-> 0]]
          /\ run' = [run EXCEPT !.pc = "context", !.job = j]
    BY <1>8 DEF CreateRecord
  <2>1. job'[j].verdicts = 0 /\ run' = [run EXCEPT !.pc = "context", !.job = j]
    BY <2>0 DEF TypeOK
  <2>2. run'.pc = "context" /\ run'.tell = "never" /\ run'.job = j
    BY <1>1, <1>8, <2>1, OpenHand DEF CreateRecord, Process
  <2> QED
    BY <2>1, <2>2
<1>9. CASE CreateContext
  <2>1. run.job \in Jobs /\ job[run.job] \in Job /\ run.pc = "context" /\ run.tell = "never"
    BY <1>9, OpenHand, PresentRows DEF CreateContext, Acting
  <2>2. job'[run.job] = [job[run.job] EXCEPT !.context = "active"]
    BY <1>9, <2>1 DEF CreateContext, TypeOK, Jobs
  <2>3. job'[run.job].verdicts = job[run.job].verdicts
    BY <2>1, <2>2 DEF Job
  <2>4. run'.job = run.job /\ run'.tell = run.tell
    BY <1>1, <1>9 DEF CreateContext, Go, Process
  <2> QED
    BY <2>1, <2>3, <2>4 DEF Acting
<1>10. CASE Suspend \/ ExecuteNow
  <2>1. run.pc \in Acting /\ run.tell = "never" /\ job' = job
    BY <1>10, OpenHand DEF Suspend, ExecuteNow, Acting, tables
  <2>2. run'.job = run.job /\ run'.tell = run.tell
    BY <1>1, <1>10 DEF Suspend, ExecuteNow, Go, Process
  <2> QED
    BY <2>1, <2>2
<1>11. CASE Link
  <2>1. run'.pc = "status" /\ run'.tell = "never"
    BY <1>1, <1>11, OpenHand DEF Link, Process, Acting
  <2> QED
    BY <2>1 DEF Acting
<1>12. CASE ExecuteFails \/ \E passed \in BOOLEAN : VerifyNow(passed)
  BY <1>12, EndOfCall
<1>13. CASE ApprovedInVain \/ \E passed \in BOOLEAN : ApprovedAndRun(passed)
  BY <1>13, EndOfWait DEF Acting
<1>14. CASE Refused
  BY <1>14 DEF Refused, Visit, Loop, At, Acting
<1>15. CASE CompleteContext
  <2>1. run'.job = run.job /\ run'.tell = run.tell /\ run.pc \in InHand /\ run'.pc \notin Acting
    BY <1>1, <1>15 DEF CompleteContext, Go, Process, InHand, Acting
  <2> QED
    BY <2>1
<1>16. CASE Settle \/ RecordCase
  <2>1. run.pc \in InHand
    BY <1>16 DEF Settle, RecordCase, InHand
  <2>2. CASE run' = NextVisit
    <3>1. run'.pc \notin Acting /\ run'.tell = "never"
      BY <1>1, <2>2 DEF NextVisit, Loop, At, Acting
    <3> QED
      BY <3>1
  <2>3. CASE run' = [run EXCEPT !.pc = "case"] \/ run' = [run EXCEPT !.pc = "status"]
    <3>1. run'.job = run.job /\ run'.tell = run.tell /\ run'.pc \notin Acting
      BY <1>1, <2>3 DEF Process, Acting
    <3> QED
      BY <2>1, <3>1
  <2> QED
    BY <1>16, <2>2, <2>3 DEF Settle, RecordCase, Go
<1>17. CASE (\E rb \in Runbooks : ModelRestarts(rb)) \/ Reconcile \/ Desk \/ UNCHANGED vars
  BY <1>17 DEF ModelRestarts, Reconcile, Desk, vars, tables
<1> QED
  <2>1. CASE Step
    BY <1>2, <1>3, <1>4, <1>5, <1>6, <1>7, <1>8, <1>9, <1>10, <1>11, <1>12, <1>13, <1>14,
       <1>15, <1>16, <2>1 DEF Step
  <2> QED
    BY <1>4, <1>17, <2>1 DEF Next

\* Every step keeps what the cases, their records and the process say.
LEMMA CaseStep ==
  ASSUME TypeOK, IInv, CaseInv, [Next]_vars
  PROVE  CaseInv'
<1>1. TypeOK' /\ IInv'
  BY TypeStep, IInvStep
<1>2. \A j \in Jobs : j \in JobIds /\ job[j] \in Job /\ Counted(j) # 0
                      /\ (job[j].verdicts # 0 => Counted(j) = 2)
  BY PresentRows, CountedIs
<1>3. ASSUME NEW j \in JobIds PROVE CaseOf(j)'
  <2>1. CaseOf(j)
    BY DEF CaseInv
  <2>2. CASE cases'[j] # cases[j]
    <3>1. /\ UNCHANGED <<job, ran>> /\ j \in Jobs /\ job[j].verdicts # 0
          /\ cases'[j] = Outcome(j)
      BY <2>2, CaseWritten
    <3>2. Outcome(j)' = Outcome(j) /\ j \in Jobs'
      BY <3>1 DEF Outcome, Jobs
    <3>3. cases'[j] = "verified" => job[j].status = "verified"
      BY <3>1 DEF Outcome
    <3>4. cases'[j] = "verified" /\ job[j].approval # 0 => Consented(j)'
      BY <3>1, <3>3 DEF IInv, TablesInv, JobInv, Consented
    <3> QED
      BY <2>1, <3>1, <3>2, <3>4 DEF CaseOf
  <2>3. CASE cases'[j] = cases[j]
    <3>1. CASE Added(j)
      BY <2>1, <2>3, <3>1 DEF CaseOf, Added
    <3>2. CASE Asked(j)
      <4>1. job[j].verdicts = 0
        BY <3>2 DEF Asked, CaseInv, TellInv, Acting
      <4> QED
        BY <2>1, <2>3, <3>2, <4>1 DEF CaseOf, Asked
    <3>3. ASSUME j \in Jobs, cases[j] = "verified", job[j].approval # 0,
                 job'[j].approval = job[j].approval, job'[j].runbook = job[j].runbook
          PROVE  Consented(j)'
      <4>1. job[j].approval \in Requests /\ Consented(j)
        BY <1>2, <2>1, <3>3 DEF CaseOf, Job
      <4>2. ran[job[j].approval] \subseteq ran'[job[j].approval]
        BY <4>1, DeskStep, RunsStay DEF TypeOK
      <4> QED
        BY <3>3, <4>1, <4>2 DEF Consented
    <3>4. CASE Judged(j)
      BY <1>2, <2>1, <2>3, <3>3, <3>4 DEF CaseOf, Judged
    <3>5. CASE SameRow(j)
      <4>1. Outcome(j)' = cases'[j] <=> Outcome(j) = cases[j]
        BY <2>3, <3>5 DEF SameRow, Outcome
      <4> QED
        BY <2>1, <2>3, <3>3, <3>5, <4>1 DEF CaseOf, SameRow
    <3> QED
      BY <3>1, <3>2, <3>4, <3>5, RowStep
  <2> QED
    BY <2>2, <2>3
<1>4. TellInv'
  <2>1. ASSUME NEW j \in Jobs, job[j].verdicts # 0 \/ Judged(j)
        PROVE  j \in Jobs' /\ job'[j].verdicts # 0
    <3>1. Asked(j) => job'[j].verdicts = job[j].verdicts /\ job'[j].status # "absent"
      BY DEF Asked
    <3>2. j \in JobIds
      BY DEF Jobs
    <3> QED
      BY <1>2, <2>1, <3>1, <3>2, RowStep DEF Added, Judged, SameRow, Jobs
  <2>2. CASE \E j \in Jobs : run'.job = j /\ Judged(j) /\ run'.pc \in {"close", "status"}
    BY <2>1, <2>2 DEF TellInv, Acting
  <2>3. CASE /\ run'.job = run.job
             /\ run'.pc \in Acting =>
                  run.pc \in Acting /\ job'[run.job].verdicts = job[run.job].verdicts
             /\ run'.pc \in InHand /\ run'.tell # "never" => run.pc \in InHand /\ run.tell # "never"
    <3>1. PICK j : j = run.job
      OBVIOUS
    <3>2. run'.pc \in Acting => job'[j].verdicts = 0
      BY <2>3, <3>1 DEF CaseInv, TellInv
    <3>3. run'.pc \in InHand /\ run'.tell # "never" => j \in Jobs' /\ job'[j].verdicts # 0
      BY <2>1, <2>3, <3>1 DEF CaseInv, TellInv
    <3> QED
      BY <2>3, <3>1, <3>2, <3>3 DEF TellInv
  <2>4. CASE run'.pc = "context" /\ run'.tell = "never" /\ job'[run'.job].verdicts = 0
    BY <2>4 DEF TellInv
  <2>5. CASE run'.pc \notin Acting /\ (run'.pc \in InHand => run'.tell = "never")
    BY <2>5 DEF TellInv
  <2> QED
    BY <2>2, <2>3, <2>4, <2>5, TellStep
<1> QED
  BY <1>3, <1>4 DEF CaseInv

\* It holds in every behaviour.
LEMMA CasesHold == Spec => []CaseInv
<1>1. Init => CaseInv
  BY DEF Init, CaseInv, CaseOf, TellInv, At, InHand, Acting, NoJob
<1> QED
  BY <1>1, CaseStep, TypeCorrect, InvariantHolds, PTL DEF Spec

\* A recorded case says what its record says, whether the Runner filed it or
\* reconcile did, and whatever the process was doing when it died or raised; only
\* a record given a second outcome may differ from the case of its first.
THEOREM CasesStayTrue == Spec => []CasesAgree
<1>1. TypeOK /\ CaseInv => CasesAgree
  <2> SUFFICES ASSUME TypeOK, CaseInv, NEW j \in JobIds, cases[j] # "none"
               PROVE  /\ job[j] # NoJob /\ job[j].verdicts > 0
                      /\ job[j].verdicts = 1 => cases[j] = Outcome(j)
    BY DEF CasesAgree
  <2>1. j \in Jobs /\ job[j].verdicts # 0 /\ (job[j].verdicts = 1 => cases[j] = Outcome(j))
    BY DEF CaseInv, CaseOf
  <2>2. job[j].verdicts \in 0..2 /\ job[j] # NoJob
    BY <2>1, PresentRows DEF Job, Jobs, NoJob
  <2> QED
    BY <2>1, <2>2
<1> QED
  BY <1>1, CasesHold, TypeCorrect, PTL

\* The knowledge base learns a gated remediation as verified only from a call
\* that was run as it was consented to, however many operators answer, whoever
\* files the case, and however often the record is verified again.
THEOREM VerifiedCasesReal == Spec => []VerifiedCasesAreReal
<1>1. CaseInv => VerifiedCasesAreReal
  BY DEF CaseInv, CaseOf, VerifiedCasesAreReal
<1> QED
  BY <1>1, CasesHold, PTL
=============================================================================
