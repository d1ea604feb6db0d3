-------------------------- MODULE ApprovalsProofs --------------------------
(***************************************************************************)
(* What holds of the approval desk for any number of requests, operators   *)
(* and argument objects.                                                   *)
(***************************************************************************)
EXTENDS MCApprovals, TLAPS

-----------------------------------------------------------------------------
(* Rows and calls keep their type under the updates the actions make. *)

\* A row whose status is rewritten is still a row.
LEMMA StatusUpdate ==
  ASSUME NEW x \in Row, NEW s \in Statuses
  PROVE  [x EXCEPT !.status = s] \in Row
  BY DEF Row

\* A row that a decision by p is written into is still a row.
LEMMA DecisionUpdate ==
  ASSUME NEW x \in Row, NEW s \in Statuses, NEW p \in Operators,
         NEW res \in Results \cup {"none"}
  PROVE  /\ [x EXCEPT !.status = s, !.by = p] \in Row
         /\ [x EXCEPT !.status = s, !.result = res, !.by = p] \in Row
  BY DEF Row

\* A new call on request r is a call.
LEMMA CallStart ==
  ASSUME NEW r \in Requests, NEW a \in Args \cup {"none"},
         NEW pc \in {"execute", "expire", "reject"}
  PROVE  /\ [Idle EXCEPT !.pc = pc, !.id = r] \in Call
         /\ [Idle EXCEPT !.pc = pc, !.id = r, !.args = a] \in Call
  BY DEF Call, Idle

\* A call that is not idle names a request ...
LEMMA CallId ==
  ASSUME NEW c \in Call, c.pc # "idle"
  PROVE  c.id \in Requests /\ c.args \in Args \cup {"none"} /\ c.result \in Results \cup {"none"}
  BY DEF Call, Idle

\* ... and the end of its tool run leaves it a call.
LEMMA CallRun ==
  ASSUME NEW c \in Call, c.pc # "idle", NEW res \in Results
  PROVE  [c EXCEPT !.pc = "commit", !.result = res] \in Call
<1>1. c \in [pc     : {"execute", "commit", "expire", "reject"},
            id     : Requests,
            args   : Args \cup {"none"},
            result : Results \cup {"none"}]
  BY DEF Call, Idle
<1> QED
  BY <1>1 DEF Call

\* The end of a tool run is written into the call for the same request.
LEMMA RunKeepsId ==
  ASSUME NEW c \in Call, NEW res \in Results
  PROVE  [c EXCEPT !.pc = "commit", !.result = res].id = c.id
  BY DEF Call, Idle

\* The initial values have the types.
LEMMA InitialTypes == Idle \in Call /\ Blank \in Row
<1>1. Idle \in Call
  BY DEF Call
<1>2. Blank \in Row
  BY DEF Row, Blank, Statuses, Digests
<1> QED
  BY <1>1, <1>2

\* No step of the desk breaks a type.
LEMMA TypeStep == TypeOK /\ [Next]_vars => TypeOK'
<1> SUFFICES ASSUME TypeOK, [Next]_vars PROVE TypeOK'
  OBVIOUS
<1> USE DEF TypeOK
<1>1. ASSUME NEW r \in Requests, NEW a \in Args, NEW i \in Incidents \cup {0},
             CreatePending(r, a, i)
      PROVE  TypeOK'
  <2>1. [Blank EXCEPT !.status = "pending", !.args = a,
                      !.hash = Fingerprint[a], !.incident = i] \in Row
    BY DEF Row, Blank, Statuses, Digests
  <2> QED
    BY <1>1, <2>1, ApprovalsAssumption DEF CreatePending
<1>2. ASSUME NEW p \in Operators, NEW r \in Requests, ApproveStart(p, r)
      PROVE  TypeOK'
  <2>1. req[r].args \in Args \cup {"none"}
    BY DEF Row
  <2> QED
    BY <1>2, <2>1, CallStart DEF ApproveStart
<1>3. ASSUME NEW p \in Operators, NEW r \in Requests, ApproveLate(p, r)
      PROVE  TypeOK'
  BY <1>3, CallStart DEF ApproveLate
<1>4. ASSUME NEW p \in Operators, NEW r \in Requests, RejectStart(p, r)
      PROVE  TypeOK'
  BY <1>4, CallStart DEF RejectStart
<1>5. ASSUME NEW p \in Operators, ExpireWrite(p)
      PROVE  TypeOK'
  <2>1. op[p].id \in Requests
    BY <1>5, CallId DEF ExpireWrite
  <2>2. [req[op[p].id] EXCEPT !.status = "expired"] \in Row
    BY <2>1, StatusUpdate DEF Statuses
  <2> QED
    BY <1>5, <2>1, <2>2, InitialTypes DEF ExpireWrite
<1>6. ASSUME NEW p \in Operators, NEW res \in Results, ApproveRun(p, res)
      PROVE  TypeOK'
  <2>1. op' \in [Operators -> Call]
    BY <1>6, CallRun DEF ApproveRun
  <2>2. op[p].id \in Requests /\ op[p].args \in Args \cup {"none"}
    BY <1>6, CallId DEF ApproveRun
  <2>3. ran' \in [Requests -> SUBSET ((Args \cup {"none"}) \X Results)]
    BY <1>6, <2>2 DEF ApproveRun
  <2>4. runs' \in [Requests -> 0..2]
    BY <1>6, <2>2 DEF ApproveRun
  <2> QED
    BY <1>6, <2>1, <2>3, <2>4 DEF ApproveRun
<1>7. ASSUME NEW p \in Operators, ApproveRefused(p)
      PROVE  TypeOK'
  BY <1>7, CallRun DEF ApproveRefused, Results
<1>8. ASSUME NEW p \in Operators, ApproveCommit(p)
      PROVE  TypeOK'
  <2> DEFINE r == op[p].id
  <2>1. r \in Requests
    BY <1>8, CallId DEF ApproveCommit
  <2>2. [req[r] EXCEPT !.status = "approved", !.result = op[p].result, !.by = p] \in Row
    <3>1. op[p].result \in Results \cup {"none"} /\ req[r] \in Row
      BY <2>1, <1>8, CallId DEF ApproveCommit
    <3> QED
      BY <3>1, DecisionUpdate DEF Statuses
  <2>3. req' = [req EXCEPT ![r] = [@ EXCEPT !.status = "approved",
                                            !.result = op[p].result, !.by = p]]
    BY <1>8, <2>1 DEF ApproveCommit
  <2> QED
    BY <1>8, <2>1, <2>2, <2>3, InitialTypes DEF ApproveCommit
<1>9. ASSUME NEW p \in Operators, RejectWrite(p)
      PROVE  TypeOK'
  <2> DEFINE r == op[p].id
  <2>1. r \in Requests
    BY <1>9, CallId DEF RejectWrite
  <2>2. [req[r] EXCEPT !.status = "rejected", !.by = p] \in Row
    <3>1. req[r] \in Row
      BY <2>1
    <3> QED
      BY <3>1, DecisionUpdate DEF Statuses
  <2>3. req' = [req EXCEPT ![r] = [@ EXCEPT !.status = "rejected", !.by = p]]
    BY <1>9, <2>1 DEF RejectWrite
  <2> QED
    BY <1>9, <2>1, <2>2, <2>3, InitialTypes DEF RejectWrite
<1>10. ASSUME NEW p \in Operators, OperatorFail(p)
       PROVE  TypeOK'
  BY <1>10, InitialTypes DEF OperatorFail
<1>11. CASE ExpireStale
  BY <1>11, StatusUpdate DEF ExpireStale, Statuses
<1>12. CASE Tick
  BY <1>12, ApprovalsAssumption DEF Tick
<1>13. ASSUME NEW r \in Requests, NEW a \in Args, Tamper(r, a)
       PROVE  TypeOK'
  <2>1. [req[r] EXCEPT !.args = a] \in Row
    BY DEF Row
  <2> QED
    BY <1>13, <2>1 DEF Tamper
<1>14. CASE UNCHANGED vars
  BY <1>14 DEF vars
<1> QED
  BY <1>1, <1>2, <1>3, <1>4, <1>5, <1>6, <1>7, <1>8, <1>9, <1>10, <1>11,
     <1>12, <1>13, <1>14 DEF Next, OperatorNext, OperatorStep

\* Type correctness: rows, calls in progress and histories keep their shape.
THEOREM TypeCorrect == Spec => []TypeOK
<1>1. Init => TypeOK
  BY InitialTypes, ApprovalsAssumption DEF Init, TypeOK
<1>2. TypeOK /\ [Next]_vars => TypeOK'
  BY TypeStep
<1> QED
  BY <1>1, <1>2, PTL DEF Spec
-----------------------------------------------------------------------------
\* The invariant is inductive: every step of every action preserves it.
LEMMA IInvStep == TypeOK /\ IInv /\ [Next]_vars => IInv'
<1> SUFFICES ASSUME TypeOK, IInv, [Next]_vars PROVE IInv'
  OBVIOUS
<1> USE DEF IInv, RowInv, CallInv, ConsentBound, SuccessIsReal, ExpiredIsLate, Late, TypeOK
<1>1. ASSUME NEW r \in Requests, NEW a \in Args, NEW i \in Incidents \cup {0},
             CreatePending(r, a, i)
      PROVE  IInv'
  BY <1>1 DEF CreatePending, Pending, Genuine, Late, Idle, Blank
<1>2. ASSUME NEW p \in Operators, NEW r \in Requests,
             ApproveStart(p, r)
      PROVE  IInv'
  <2>1. req[r].args = asked[r]
    BY <1>2, FingerprintAssumption DEF ApproveStart, Pending, Genuine
  <2>2. CallInv(p)'
    BY <1>2, <2>1 DEF ApproveStart, Pending, Idle
  <2> QED
    BY <1>2, <2>2 DEF ApproveStart
<1>3. ASSUME NEW p \in Operators, NEW r \in Requests,
             ApproveLate(p, r)
      PROVE  IInv'
  BY <1>3 DEF ApproveLate, Pending, Genuine, Late, Idle, Blank
<1>4. ASSUME NEW p \in Operators, NEW r \in Requests,
             RejectStart(p, r)
      PROVE  IInv'
  BY <1>4 DEF RejectStart, Pending, Genuine, Late, Idle, Blank
<1>5. ASSUME NEW p \in Operators,
             ExpireWrite(p)
      PROVE  IInv'
  BY <1>5 DEF ExpireWrite, Pending, Genuine, Late, Idle, Blank
<1>6. ASSUME NEW p \in Operators, NEW res \in Results,
             ApproveRun(p, res)
      PROVE  IInv'
  <2> DEFINE r == op[p].id
  <2>1. r \in Requests /\ req[r].status # "absent" /\ op[p].args = asked[r]
    BY <1>6, CallId DEF ApproveRun
  <2>2. /\ ran'[r] = ran[r] \cup {<<op[p].args, res>>}
        /\ \A x \in Requests : x # r => ran'[x] = ran[x]
    BY <1>6, <2>1 DEF ApproveRun
  <2>3. /\ op'[p].pc = "commit" /\ op'[p].id = r /\ op'[p].result = res
        /\ \A q \in Operators : q # p => op'[q] = op[q]
    BY <1>6 DEF ApproveRun, Call
  <2>4. UNCHANGED <<req, left, asked>>
    BY <1>6 DEF ApproveRun
  <2>5. ConsentBound'
    BY <2>1, <2>2, <2>4
  <2>6. SuccessIsReal' /\ ExpiredIsLate'
    BY <2>2, <2>4
  <2>7. \A x \in Requests : RowInv(x)'
    BY <2>1, <2>2, <2>4
  <2>8. CallInv(p)'
    <3>1. <<op[p].args, res>> \in ran'[r]
      BY <2>2
    <3> QED
      BY <2>1, <2>3, <2>4, <3>1
  <2>9. ASSUME NEW q \in Operators, q # p
        PROVE  CallInv(q)'
    <3>1. op[q].pc # "idle" => op[q].id \in Requests /\ ran[op[q].id] \subseteq ran'[op[q].id]
      BY <2>2, CallId
    <3> QED
      BY <2>3, <2>4, <2>9, <3>1
  <2> QED
    BY <2>5, <2>6, <2>7, <2>8, <2>9
<1>7. ASSUME NEW p \in Operators,
             ApproveRefused(p)
      PROVE  IInv'
  BY <1>7 DEF ApproveRefused, Pending, Genuine, Late, Idle, Blank
<1>8. ASSUME NEW p \in Operators,
             ApproveCommit(p)
      PROVE  IInv'
  <2> DEFINE r == op[p].id
  <2>1. r \in Requests /\ req[r].status # "absent"
    BY <1>8, CallId DEF ApproveCommit
  <2>2. /\ req'[r].status = "approved" /\ req'[r].result = op[p].result
        /\ req'[r].args = req[r].args /\ req'[r].hash = req[r].hash
        /\ \A x \in Requests : x # r => req'[x] = req[x]
    BY <1>8, <2>1 DEF ApproveCommit, Row
  <2>3. op'[p] = Idle /\ \A q \in Operators : q # p => op'[q] = op[q]
    BY <1>8 DEF ApproveCommit
  <2>4. UNCHANGED <<left, asked, ran>>
    BY <1>8 DEF ApproveCommit
  <2>5. SuccessIsReal'
    BY <1>8, <2>1, <2>2, <2>4 DEF ApproveCommit
  <2>6. ConsentBound' /\ ExpiredIsLate'
    BY <2>2, <2>4
  <2>7. \A x \in Requests : RowInv(x)'
    BY <2>1, <2>2, <2>4
  <2>8. \A q \in Operators : CallInv(q)'
    BY <2>1, <2>2, <2>3, <2>4, CallId DEF Idle
  <2> QED
    BY <2>5, <2>6, <2>7, <2>8
<1>9. ASSUME NEW p \in Operators,
             RejectWrite(p)
      PROVE  IInv'
  <2> DEFINE r == op[p].id
  <2>1. r \in Requests /\ req[r].status # "absent"
    BY <1>9, CallId DEF RejectWrite
  <2>2. /\ req'[r].status = "rejected" /\ req'[r].result = req[r].result
        /\ req'[r].args = req[r].args /\ req'[r].hash = req[r].hash
        /\ \A x \in Requests : x # r => req'[x] = req[x]
    BY <1>9, <2>1 DEF RejectWrite, Row
  <2>3. op'[p] = Idle /\ \A q \in Operators : q # p => op'[q] = op[q]
    BY <1>9 DEF RejectWrite
  <2>4. UNCHANGED <<left, asked, ran>>
    BY <1>9 DEF RejectWrite
  <2>5. ConsentBound' /\ SuccessIsReal' /\ ExpiredIsLate'
    BY <2>2, <2>4
  <2>6. \A x \in Requests : RowInv(x)'
    BY <2>1, <2>2, <2>4
  <2>7. \A q \in Operators : CallInv(q)'
    BY <2>1, <2>2, <2>3, <2>4, CallId DEF Idle
  <2> QED
    BY <2>5, <2>6, <2>7
<1>10. ASSUME NEW p \in Operators,
             OperatorFail(p)
      PROVE  IInv'
  BY <1>10 DEF OperatorFail, Pending, Genuine, Late, Idle, Blank
<1>11. CASE ExpireStale
  <2>1. \A x \in Requests :
          /\ req'[x].args = req[x].args /\ req'[x].hash = req[x].hash
          /\ req'[x].result = req[x].result
          /\ \/ req'[x].status = req[x].status
             \/ Pending(x) /\ Late(x) /\ req'[x].status = "expired"
    <3> TAKE x \in Requests
    <3>1. req[x] \in Row
      OBVIOUS
    <3>2. CASE Pending(x) /\ Late(x)
      <4>1. req'[x] = [req[x] EXCEPT !.status = "expired"]
        BY <1>11, <3>2 DEF ExpireStale
      <4> QED
        BY <3>1, <3>2, <4>1 DEF Row
    <3>3. CASE ~(Pending(x) /\ Late(x))
      BY <1>11, <3>3 DEF ExpireStale
    <3> QED
      BY <3>2, <3>3
  <2>2. UNCHANGED <<left, op, asked, ran>>
    BY <1>11 DEF ExpireStale
  <2>3. ConsentBound' /\ SuccessIsReal' /\ ExpiredIsLate'
    BY <2>1, <2>2
  <2>4. \A x \in Requests : RowInv(x)'
    BY <2>1, <2>2 DEF Pending
  <2>5. \A q \in Operators : CallInv(q)'
    BY <2>1, <2>2, CallId
  <2> QED
    BY <2>3, <2>4, <2>5
<1>12. CASE Tick
  <2>1. \A x \in Requests : Late(x) => Late(x)'
    BY <1>12 DEF Tick
  <2>2. UNCHANGED <<req, op, asked, ran>>
    BY <1>12 DEF Tick
  <2>3. ConsentBound' /\ SuccessIsReal' /\ ExpiredIsLate'
    BY <2>1, <2>2
  <2>4. \A x \in Requests : RowInv(x)'
    BY <2>2
  <2>5. \A q \in Operators : CallInv(q)'
    BY <2>1, <2>2, CallId
  <2> QED
    BY <2>3, <2>4, <2>5
<1>13. ASSUME NEW r \in Requests, NEW a \in Args,
             Tamper(r, a)
      PROVE  IInv'
  BY <1>13 DEF Tamper, Pending, Genuine, Late, Idle, Blank
<1>14. CASE UNCHANGED vars
  BY <1>14 DEF vars
<1> QED
  BY <1>1, <1>2, <1>3, <1>4, <1>5, <1>6, <1>7, <1>8, <1>9, <1>10, <1>11, <1>12, <1>13, <1>14 DEF Next, OperatorNext, OperatorStep

\* Every reachable state satisfies the type and the inductive invariant.
THEOREM InvariantHolds == Spec => [](TypeOK /\ IInv)
<1>1. Init => TypeOK /\ IInv
  <2>1. Init => TypeOK
    BY InitialTypes, ApprovalsAssumption DEF Init, TypeOK
  <2>2. Init => IInv
    BY DEF Init, IInv, RowInv, CallInv, ConsentBound, SuccessIsReal,
           ExpiredIsLate, Blank, Idle
  <2> QED
    BY <2>1, <2>2
<1>2. (TypeOK /\ IInv) /\ [Next]_vars => (TypeOK /\ IInv)'
  BY TypeStep, IInvStep
<1> QED
  BY <1>1, <1>2, PTL DEF Spec

\* The tool never runs with arguments nobody was asked about.
THEOREM ConsentIsBinding == Spec => []ConsentBound
<1>1. IInv => ConsentBound
  BY DEF IInv
<1> QED
  BY <1>1, InvariantHolds, PTL

\* A recorded success is a run that succeeded.
THEOREM SuccessIsARun == Spec => []SuccessIsReal
<1>1. IInv => SuccessIsReal
  BY DEF IInv
<1> QED
  BY <1>1, InvariantHolds, PTL

\* Only a request whose deadline has passed is marked expired.
THEOREM ExpiryIsLate == Spec => []ExpiredIsLate
<1>1. IInv => ExpiredIsLate
  BY DEF IInv
<1> QED
  BY <1>1, InvariantHolds, PTL

\* No step touches a decided request nobody is working on.
LEMMA SettledStep ==
  ASSUME TypeOK, IInv, Next, NEW r \in Requests, Settled(r)
  PROVE  Frozen(r)
<1> USE DEF TypeOK, Settled, InFlight, Decided, Frozen
<1>1. \A p \in Operators : op[p].pc # "idle" => op[p].id \in Requests /\ op[p].id # r
  BY CallId
<1>2. ASSUME NEW x \in Requests, NEW a \in Args, NEW i \in Incidents \cup {0},
             CreatePending(x, a, i)
      PROVE  Frozen(r)
  BY <1>2 DEF CreatePending
<1>3. ASSUME NEW p \in Operators, NEW x \in Requests,
             ApproveStart(p, x) \/ ApproveLate(p, x) \/ RejectStart(p, x)
      PROVE  Frozen(r)
  <2>1. x # r /\ UNCHANGED <<req, runs, ran>>
    BY <1>3 DEF ApproveStart, ApproveLate, RejectStart, Pending
  <2>2. op'[p].id = x /\ \A q \in Operators : q # p => op'[q] = op[q]
    BY <1>3 DEF ApproveStart, ApproveLate, RejectStart, Idle
  <2> QED
    BY <2>1, <2>2
<1>4. ASSUME NEW p \in Operators, OperatorStep(p) \/ OperatorFail(p)
      PROVE  Frozen(r)
  <2>1. op[p].pc # "idle"
    BY <1>4 DEF OperatorStep, OperatorFail, ExpireWrite, ApproveRun,
                ApproveRefused, ApproveCommit, RejectWrite, Call
  <2>2. req'[r] = req[r] /\ runs'[r] = runs[r] /\ ran'[r] = ran[r]
    BY <1>1, <1>4, <2>1 DEF OperatorStep, OperatorFail, ExpireWrite, ApproveRun,
                ApproveRefused, ApproveCommit, RejectWrite
  <2>3. op'[p].id \in {op[p].id, 0}
    <3>1. CASE op' = [op EXCEPT ![p] = Idle]
      BY <3>1 DEF Idle
    <3>2. ASSUME NEW res \in Results,
                 op' = [op EXCEPT ![p].pc = "commit", ![p].result = res]
          PROVE  op'[p].id = op[p].id
      <4>1. op' = [op EXCEPT ![p] = [@ EXCEPT !.pc = "commit", !.result = res]]
        BY <3>2
      <4> QED
        BY <2>1, <4>1, RunKeepsId
    <3> QED
      BY <1>4, <3>1, <3>2 DEF OperatorStep, OperatorFail, ExpireWrite, ApproveRun,
              ApproveRefused, ApproveCommit, RejectWrite, Results
  <2>4. \A q \in Operators : q # p => op'[q] = op[q]
    BY <1>4 DEF OperatorStep, OperatorFail, ExpireWrite, ApproveRun,
                ApproveRefused, ApproveCommit, RejectWrite
  <2> QED
    BY <1>1, <2>1, <2>2, <2>3, <2>4, ApprovalsAssumption
<1>5. CASE ExpireStale
  BY <1>5 DEF ExpireStale, Pending
<1>6. CASE Tick
  BY <1>6 DEF Tick
<1>7. ASSUME NEW x \in Requests, NEW a \in Args, Tamper(x, a)
      PROVE  Frozen(r)
  BY <1>7 DEF Tamper, Pending
<1> QED
  BY <1>2, <1>3, <1>4, <1>5, <1>6, <1>7 DEF Next, OperatorNext

\* A decided request nobody is working on is frozen: neither its row nor the
\* runs made under it change any more, whatever operators, clock and sweep do.
THEOREM SettledStays == Spec => SettledIsFinal
<1>1. TypeOK /\ IInv /\ [Next]_vars =>
        [\A r \in Requests : Settled(r) => Frozen(r)]_vars
  BY SettledStep
<1>2. Spec => [][\A r \in Requests : Settled(r) => Frozen(r)]_vars
  BY <1>1, InvariantHolds, PTL DEF Spec
<1> QED
  BY <1>2 DEF SettledIsFinal

-----------------------------------------------------------------------------
(* What can come between a caller and its commit, and nothing else can.    *)

\* The histories only watch: every theorem about Spec is one about MCSpec.
LEMMA HistoriesWatch == MCSpec => Spec
<1>1. MCInit => Init
  BY DEF MCInit
<1>2. [MCNext]_mcVars => [Next]_vars
  BY DEF MCNext, mcVars
<1> QED
  BY <1>1, <1>2, PTL DEF MCSpec, Spec

\* Two callers at one request have met, and a request that was not, and for
\* which no caller died after its run, has a run only when somebody is about to
\* write it down, or has.
CallersMet ==
  \A p, q \in Operators :
    p # q /\ op[p].pc # "idle" /\ op[q].id = op[p].id => op[p].id \in met

RunsCounted(r) ==
  /\ req[r].status = "absent" => runs[r] = 0
  /\ r \notin met \cup lost =>
       /\ runs[r] <= 1
       /\ (Pending(r) /\ runs[r] # 0 =>
             \E p \in Operators : op[p].pc = "commit" /\ op[p].id = r)
       /\ \A p \in Operators : op[p].pc = "execute" /\ op[p].id = r => runs[r] = 0

DecidedAlone(r) ==
  r \notin met /\ req[r].status \in {"approved", "rejected"} =>
    \A p \in Operators : op[p].id # r

MetInv ==
  /\ CallersMet
  /\ \A r \in Requests : RunsCounted(r) /\ DecidedAlone(r)

\* What the histories take down of a step.
LEMMA HistoriesGrow ==
  ASSUME [MCNext]_mcVars
  PROVE  /\ met \subseteq met' /\ lost \subseteq lost'
         /\ \A p \in Operators : op[p].pc = "commit" /\ OperatorFail(p) =>
              op[p].id \in lost' \/ UNCHANGED op
  BY DEF MCNext, mcVars, vars

\* Callers that are at one request after a step are taken down by it.
LEMMA MetStep ==
  ASSUME TypeOK, TypeOK', CallersMet, [MCNext]_mcVars
  PROVE  CallersMet'
<1>1. CASE UNCHANGED mcVars
  BY <1>1 DEF mcVars, vars, CallersMet
<1>2. CASE MCNext
  <2> SUFFICES ASSUME NEW p \in Operators, NEW q \in Operators,
                      p # q, op'[p].pc # "idle", op'[q].id = op'[p].id
               PROVE  op'[p].id \in met'
    BY DEF CallersMet
  <2>1. PICK r \in Requests : r = op'[p].id
    <3>1. op'[p] \in Call
      BY DEF TypeOK
    <3> QED
      BY <3>1 DEF Call, Idle
  <2>2. Meeting(r)'
    BY <2>1 DEF Meeting
  <2>3. met' = met \cup {x \in Requests : Meeting(x)'}
    BY <1>2 DEF MCNext
  <2> QED
    BY <2>1, <2>2, <2>3
<1> QED
  BY <1>1, <1>2

\* A caller that writes, dies or is refused leaves the others where they are, and
\* is Idle or at its request itself.
LEMMA MetInvStep == TypeOK /\ TypeOK' /\ IInv /\ MetInv /\ [MCNext]_mcVars => MetInv'
<1> SUFFICES ASSUME TypeOK, TypeOK', IInv, MetInv, [MCNext]_mcVars PROVE MetInv'
  OBVIOUS
<1>0. CallersMet' /\ met \subseteq met' /\ lost \subseteq lost'
  BY MetStep, HistoriesGrow DEF MetInv
<1>a. SUFFICES ASSUME NEW r \in Requests PROVE RunsCounted(r)' /\ DecidedAlone(r)'
  BY <1>0 DEF MetInv
<1>b. RunsCounted(r) /\ DecidedAlone(r) /\ CallersMet
  BY DEF MetInv
<1>c. \A p \in Operators : op[p].pc # "idle" => op[p].id \in Requests /\ req[op[p].id].status # "absent"
  BY CallId DEF TypeOK, IInv, CallInv
<1>d. \A p \in Operators : op[p].pc = "idle" => op[p] = Idle /\ op[p].id # r
  BY ApprovalsAssumption DEF TypeOK, Call, Idle
<1> USE DEF RunsCounted, DecidedAlone, Pending
<1>1. ASSUME UNCHANGED <<op, runs>>,
             \/ req'[r].status = req[r].status
             \/ req[r].status = "absent" /\ req'[r].status = "pending"
             \/ req[r].status = "pending" /\ req'[r].status = "expired"
      PROVE  RunsCounted(r)' /\ DecidedAlone(r)'
  BY <1>0, <1>1, <1>b
<1>2. ASSUME NEW x \in Requests, NEW a \in Args, NEW i \in Incidents \cup {0},
             CreatePending(x, a, i)
      PROVE  RunsCounted(r)' /\ DecidedAlone(r)'
  <2>1. \/ req'[r] = req[r]
        \/ req[r].status = "absent" /\ req'[r].status = "pending"
    BY <1>2 DEF CreatePending, Blank, TypeOK
  <2> QED
    BY <1>1, <1>2, <2>1 DEF CreatePending
<1>3. ASSUME NEW p \in Operators, NEW x \in Requests,
             ApproveStart(p, x) \/ ApproveLate(p, x) \/ RejectStart(p, x)
      PROVE  RunsCounted(r)' /\ DecidedAlone(r)'
  <2>1. /\ op[p] = Idle /\ Pending(x) /\ UNCHANGED <<req, runs>>
        /\ op'[p].id = x /\ op'[p].pc \in {"execute", "expire", "reject"}
        /\ \A q \in Operators : q # p => op'[q] = op[q]
    BY <1>3 DEF ApproveStart, ApproveLate, RejectStart, Idle, TypeOK
  <2>2. ASSUME NEW q \in Operators, op[q].pc = "commit", op[q].id = x PROVE x \in met'
    <3>1. q # p /\ op'[q].id = op'[p].id /\ op'[p].pc # "idle"
      BY <2>1, <2>2 DEF Idle
    <3> QED
      BY <1>0, <2>1, <3>1 DEF CallersMet
  <2>3. ASSUME NEW q \in Operators, op[q].pc = "commit", op[q].id = r
        PROVE  op'[q].pc = "commit" /\ op'[q].id = r
    BY <2>1, <2>3 DEF Idle
  <2>4. x # r => RunsCounted(r)' /\ DecidedAlone(r)'
    BY <1>0, <1>b, <2>1, <2>3
  <2>5. x = r => RunsCounted(r)' /\ DecidedAlone(r)'
    BY <1>0, <1>b, <2>1, <2>2, <2>3
  <2> QED
    BY <2>4, <2>5
<1>4. ASSUME NEW p \in Operators, ExpireWrite(p) \/ ApproveCommit(p) \/ RejectWrite(p)
      PROVE  RunsCounted(r)' /\ DecidedAlone(r)'
  <2> DEFINE i == op[p].id
  <2>1. /\ op[p].pc # "idle" /\ i \in Requests /\ runs' = runs /\ op' = [op EXCEPT ![p] = Idle]
    BY <1>4, <1>c DEF ExpireWrite, ApproveCommit, RejectWrite
  <2>2. req'[i].status \in Decided /\ \A x \in Requests : x # i => req'[x] = req[x]
    BY <1>4, <2>1 DEF ExpireWrite, ApproveCommit, RejectWrite, Decided, TypeOK, Row
  <2>3. /\ op'[p].pc = "idle" /\ op'[p].id # r
        /\ \A q \in Operators : q # p => op'[q] = op[q]
    BY <2>1, ApprovalsAssumption DEF Idle, TypeOK
  <2>4. \A q \in Operators : q # p /\ op[q].id = i => i \in met
    BY <1>b, <2>1 DEF CallersMet
  <2>5. i # r => RunsCounted(r)' /\ DecidedAlone(r)'
    BY <1>0, <1>b, <2>1, <2>2, <2>3
  <2>6. i = r => RunsCounted(r)' /\ DecidedAlone(r)'
    BY <1>0, <1>b, <1>c, <2>1, <2>2, <2>3, <2>4 DEF Decided
  <2> QED
    BY <2>5, <2>6
<1>5. ASSUME NEW p \in Operators, NEW res \in Results, ApproveRun(p, res)
      PROVE  RunsCounted(r)' /\ DecidedAlone(r)'
  <2> DEFINE i == op[p].id
  <2>1. i \in Requests /\ req' = req /\ op[p].pc = "execute" /\ req[i].status # "absent"
    BY <1>5, <1>c DEF ApproveRun
  <2>2. op' = [op EXCEPT ![p] = [@ EXCEPT !.pc = "commit", !.result = res]]
    BY <1>5 DEF ApproveRun
  <2>3. /\ op'[p].pc = "commit" /\ op'[p].id = i
        /\ \A q \in Operators : q # p => op'[q] = op[q]
    BY <2>2 DEF TypeOK, Call, Idle
  <2>4. /\ runs'[i] = IF runs[i] < 2 THEN runs[i] + 1 ELSE 2
        /\ \A x \in Requests : x # i => runs'[x] = runs[x]
    BY <1>5, <2>1 DEF ApproveRun, TypeOK
  <2>5. \A q \in Operators : q # p /\ op[q].id = i => i \in met
    BY <1>b, <2>1 DEF CallersMet
  <2>6. \A q \in Operators : op'[q].id = op[q].id
    BY <2>3
  <2>7. DecidedAlone(r)'
    BY <1>0, <1>b, <2>1, <2>6
  <2>8. i # r => RunsCounted(r)'
    BY <1>0, <1>b, <2>1, <2>3, <2>4
  <2>9. i = r => RunsCounted(r)'
    BY <1>0, <1>b, <2>1, <2>3, <2>4, <2>5
  <2> QED
    BY <2>7, <2>8, <2>9
<1>6. ASSUME NEW p \in Operators, ApproveRefused(p)
      PROVE  RunsCounted(r)' /\ DecidedAlone(r)'
  <2>1. req' = req /\ runs' = runs /\ op[p].pc = "execute"
    BY <1>6 DEF ApproveRefused
  <2>2. op' = [op EXCEPT ![p] = [@ EXCEPT !.pc = "commit", !.result = "error"]]
    BY <1>6 DEF ApproveRefused
  <2>3. /\ op'[p].pc = "commit" /\ op'[p].id = op[p].id
        /\ \A q \in Operators : q # p => op'[q] = op[q]
    BY <2>2 DEF TypeOK, Call, Idle
  <2>4. \A q \in Operators : op'[q].id = op[q].id
    BY <2>3
  <2>5. \A q \in Operators : op[q].pc = "commit" => op'[q].pc = "commit"
    BY <2>3
  <2>6. \A q \in Operators : op'[q].pc = "execute" => op[q].pc = "execute"
    BY <2>3
  <2> QED
    BY <1>0, <1>b, <2>1, <2>4, <2>5, <2>6
<1>7. ASSUME NEW p \in Operators, OperatorFail(p)
      PROVE  RunsCounted(r)' /\ DecidedAlone(r)'
  <2>1. req' = req /\ runs' = runs /\ op' = [op EXCEPT ![p] = Idle] /\ op[p] # Idle
    BY <1>7 DEF OperatorFail
  <2>2. /\ op'[p].pc = "idle" /\ op'[p].id # r
        /\ \A q \in Operators : q # p => op'[q] = op[q]
    BY <2>1, ApprovalsAssumption DEF Idle, TypeOK
  <2>3. op[p].pc = "commit" => op[p].id \in lost'
    BY <1>7, <2>2, HistoriesGrow
  <2> QED
    BY <1>0, <1>b, <2>1, <2>2, <2>3
<1>8. CASE ExpireStale
  <2>1. \/ req'[r] = req[r]
        \/ req[r].status = "pending" /\ req'[r].status = "expired"
    BY <1>8 DEF ExpireStale, TypeOK, Row
  <2> QED
    BY <1>1, <1>8, <2>1 DEF ExpireStale
<1>9. ASSUME NEW x \in Requests, NEW a \in Args, Tamper(x, a)
      PROVE  RunsCounted(r)' /\ DecidedAlone(r)'
  <2>1. req'[r].status = req[r].status
    BY <1>9 DEF Tamper, TypeOK, Row
  <2> QED
    BY <1>1, <1>9, <2>1 DEF Tamper
<1>10. CASE Tick \/ UNCHANGED vars
  BY <1>1, <1>10 DEF Tick, vars
<1> QED
  BY <1>2, <1>3, <1>4, <1>5, <1>6, <1>7, <1>8, <1>9, <1>10
  DEF MCNext, mcVars, Next, OperatorNext, OperatorStep

\* It holds in every reachable state.
LEMMA MetInvHolds == MCSpec => [](TypeOK /\ IInv /\ MetInv)
<1>1. MCInit => MetInv
  BY ApprovalsAssumption DEF MCInit, Init, MetInv, CallersMet, RunsCounted, DecidedAlone, Pending,
     Idle, Blank
<1>2. MCInit => Init
  BY DEF MCInit
<1>3. TypeOK /\ TypeOK' /\ IInv /\ MetInv /\ [MCNext]_mcVars => MetInv'
  BY MetInvStep
<1> QED
  BY <1>1, <1>2, <1>3, HistoriesWatch, InvariantHolds, PTL DEF MCSpec

\* However many callers approve a request, and whoever dies: its tool runs twice
\* only if two callers were inside for it at once, or one died between its run
\* and the UPDATE that ends approve.
THEOREM RunsOnce == MCSpec => []RunsOnceUnlessCutOff
<1>1. TypeOK /\ MetInv => RunsOnceUnlessCutOff
  BY DEF MetInv, RunsCounted, RunsOnceUnlessCutOff, TypeOK
<1> QED
  BY <1>1, MetInvHolds, PTL

\* However many callers answer a request, and whoever dies: what was decided is
\* overwritten only if two callers were inside for it at once.
THEOREM DecisionsStand == MCSpec => DecisionStandsUnlessMet
<1>1. TypeOK /\ IInv /\ MetInv /\ [MCNext]_mcVars =>
        [\A r \in Requests \ met :
           req[r].status \in {"approved", "rejected"} => Frozen(r)]_mcVars
  <2> SUFFICES ASSUME TypeOK, IInv, MetInv, MCNext, NEW r \in Requests \ met,
                      req[r].status \in {"approved", "rejected"}
               PROVE  Frozen(r)
    OBVIOUS
  <2>1. Settled(r)
    BY DEF Settled, InFlight, Decided, MetInv, DecidedAlone
  <2> QED
    BY <2>1, SettledStep DEF MCNext
<1>2. MCSpec => [][\A r \in Requests \ met :
                     req[r].status \in {"approved", "rejected"} => Frozen(r)]_mcVars
  BY <1>1, MetInvHolds, PTL DEF MCSpec
<1> QED
  BY <1>2 DEF DecisionStandsUnlessMet
=============================================================================
