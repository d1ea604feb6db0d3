------------------------------ MODULE Approvals ------------------------------
(***************************************************************************)
(* The approval desk: ApprovalManager (security/approval.py) and the rows  *)
(* of approval_requests it keeps.                                          *)
(*                                                                         *)
(* A gated tool call is suspended as a "pending" row.  Operators, which    *)
(* are web threads and CLI processes without a common lock, approve or     *)
(* reject it; the Runner sweeps rows whose deadline has passed.  approve() *)
(* and reject() are split at each database access and at the tool run,     *)
(* because another operator, the sweep or a crash may come in between.     *)
(*                                                                         *)
(* A definition marked "Mutant" is the one after it with a plausible bug:  *)
(* it takes no part in Spec, and shows that a property notices that bug.   *)
(***************************************************************************)
EXTENDS Integers

CONSTANTS
  Requests,      \* ids of approval_requests rows (positive; 0 means "no row")
  Operators,     \* concurrent callers of approve and reject
  Args,          \* argument objects a gated call can carry
  Fingerprint,   \* args_hash: the canonical JSON digest of an argument object
  Incidents,     \* incident ids a row can refer to (positive; 0 means NULL)
  Ttl,           \* ttl_minutes: the lifetime given to a new row
  OperatorFails  \* may a caller die, or its commit raise, in mid-call?

ASSUME ApprovalsAssumption ==
  /\ Requests \subseteq Nat \ {0}
  /\ Incidents \subseteq Nat \ {0}
  /\ Ttl \in Nat
  /\ OperatorFails \in BOOLEAN
  /\ "none" \notin Args

\* SHA-256 over sorted-key JSON tells different argument objects apart.
ASSUME FingerprintAssumption ==
  \A a, b \in Args : Fingerprint[a] = Fingerprint[b] => a = b

VARIABLES
  req,    \* req[r]: the row, status "absent" until it is inserted
  left,   \* left[r]: expires_at - now, never below -1 (see Tick)
  op,     \* op[p]: where operator p is inside approve or reject
  asked,  \* history: the argument object whose call was suspended as r
  ran,    \* history: <<args, result>> of every tool run made under r
  runs    \* history: how many of those there were, counted up to 2

vars == <<req, left, op, asked, ran, runs>>

Statuses == {"absent", "pending", "approved", "rejected", "expired"}
Decided  == {"approved", "rejected", "expired"}
Results  == {"success", "error"}
Digests  == {Fingerprint[a] : a \in Args} \cup {"none"}

Row == [status   : Statuses,
        args     : Args \cup {"none"},
        hash     : Digests,
        incident : Incidents \cup {0},
        result   : Results \cup {"none"},
        by       : Operators \cup {"nobody"}]

Blank == [status |-> "absent", args |-> "none", hash |-> "none",
          incident |-> 0, result |-> "none", by |-> "nobody"]

Idle == [pc |-> "idle", id |-> 0, args |-> "none", result |-> "none"]

Call == {Idle} \cup
        [pc     : {"execute", "commit", "expire", "reject"},
         id     : Requests,
         args   : Args \cup {"none"},
         result : Results \cup {"none"}]

TypeOK ==
  /\ req   \in [Requests -> Row]
  /\ left  \in [Requests -> -1..Ttl]
  /\ op    \in [Operators -> Call]
  /\ asked \in [Requests -> Args \cup {"none"}]
  /\ ran   \in [Requests -> SUBSET ((Args \cup {"none"}) \X Results)]
  /\ runs  \in [Requests -> 0..2]

Init ==
  /\ req   = [r \in Requests |-> Blank]
  /\ left  = [r \in Requests |-> Ttl]
  /\ op    = [p \in Operators |-> Idle]
  /\ asked = [r \in Requests |-> "none"]
  /\ ran   = [r \in Requests |-> {}]
  /\ runs  = [r \in Requests |-> 0]

-----------------------------------------------------------------------------
\* create_pending: one commit inserts the row with its digest and deadline.
CreatePending(r, a, i) ==
  /\ req[r].status = "absent"
  /\ req'   = [req EXCEPT ![r] =
                 [Blank EXCEPT !.status = "pending", !.args = a,
                               !.hash = Fingerprint[a], !.incident = i]]
  /\ left'  = [left EXCEPT ![r] = Ttl]
  /\ asked' = [asked EXCEPT ![r] = a]
  /\ UNCHANGED <<op, ran, runs>>

Late(r)     == left[r] < 0                               \* now > expires
Genuine(r)  == Fingerprint[req[r].args] = req[r].hash
Pending(r)  == req[r].status = "pending"

\* (Mutant: the status is not checked.)
ApproveStartDecided(p, r) ==
  /\ op[p] = Idle
  /\ req[r].status # "absent" /\ ~Late(r) /\ Genuine(r)
  /\ op' = [op EXCEPT ![p] =
              [Idle EXCEPT !.pc = "execute", !.id = r, !.args = req[r].args]]
  /\ UNCHANGED <<req, left, asked, ran, runs>>

\* (Mutant: the digest is not checked.)
ApproveStartUnsigned(p, r) ==
  /\ op[p] = Idle
  /\ Pending(r) /\ ~Late(r)
  /\ op' = [op EXCEPT ![p] =
              [Idle EXCEPT !.pc = "execute", !.id = r, !.args = req[r].args]]
  /\ UNCHANGED <<req, left, asked, ran, runs>>

\* approve, up to the tool call.  The row is read once: its status, deadline
\* and digest are checked on that copy, and the copy's args go to the tool.
\* A row that is missing, decided or tampered with is answered with a message
\* and nothing changes, so those outcomes are stuttering steps.
ApproveStart(p, r) ==
  /\ op[p] = Idle
  /\ Pending(r) /\ ~Late(r) /\ Genuine(r)
  /\ op' = [op EXCEPT ![p] =
              [Idle EXCEPT !.pc = "execute", !.id = r, !.args = req[r].args]]
  /\ UNCHANGED <<req, left, asked, ran, runs>>

\* approve finds the deadline passed: it will write "expired" itself.
ApproveLate(p, r) ==
  /\ op[p] = Idle
  /\ Pending(r) /\ Late(r)
  /\ op' = [op EXCEPT ![p] = [Idle EXCEPT !.pc = "expire", !.id = r]]
  /\ UNCHANGED <<req, left, asked, ran, runs>>

ExpireWrite(p) ==
  /\ op[p].pc = "expire"
  /\ req' = [req EXCEPT ![op[p].id].status = "expired"]
  /\ op'  = [op EXCEPT ![p] = Idle]
  /\ UNCHANGED <<left, asked, ran, runs>>

\* (Mutant: the tool gets the args of the row as it is now.)
ApproveRunRereads(p, res) ==
  /\ op[p].pc = "execute"
  /\ LET r == op[p].id IN
       /\ ran'  = [ran EXCEPT ![r] = @ \cup {<<req[r].args, res>>}]
       /\ runs' = [runs EXCEPT ![r] = IF @ < 2 THEN @ + 1 ELSE 2]
  /\ op' = [op EXCEPT ![p].pc = "commit", ![p].result = res]
  /\ UNCHANGED <<req, left, asked>>

\* executor.execute(tool, args, approved=True) runs the tool ...
ApproveRun(p, res) ==
  /\ op[p].pc = "execute"
  /\ LET r == op[p].id IN
       /\ ran'  = [ran EXCEPT ![r] = @ \cup {<<op[p].args, res>>}]
       /\ runs' = [runs EXCEPT ![r] = IF @ < 2 THEN @ + 1 ELSE 2]
  /\ op' = [op EXCEPT ![p].pc = "commit", ![p].result = res]
  /\ UNCHANGED <<req, left, asked>>

\* (Mutant: a refusal is taken for a success.)
ApproveRefusedAsSuccess(p) ==
  /\ op[p].pc = "execute"
  /\ op' = [op EXCEPT ![p].pc = "commit", ![p].result = "success"]
  /\ UNCHANGED <<req, left, asked, ran, runs>>

\* ... or answers "error" without running it (denied, unknown tool).
ApproveRefused(p) ==
  /\ op[p].pc = "execute"
  /\ op' = [op EXCEPT ![p].pc = "commit", ![p].result = "error"]
  /\ UNCHANGED <<req, left, asked, ran, runs>>

\* The UPDATE that ends approve is keyed by id only: whatever the status has
\* become since ApproveStart is overwritten.
ApproveCommit(p) ==
  /\ op[p].pc = "commit"
  /\ req' = [req EXCEPT ![op[p].id].status = "approved",
                        ![op[p].id].result = op[p].result,
                        ![op[p].id].by     = p]
  /\ op'  = [op EXCEPT ![p] = Idle]
  /\ UNCHANGED <<left, asked, ran, runs>>

\* (Mutant: the status is not checked.)
RejectStartDecided(p, r) ==
  /\ op[p] = Idle
  /\ req[r].status # "absent"
  /\ op' = [op EXCEPT ![p] = [Idle EXCEPT !.pc = "reject", !.id = r]]
  /\ UNCHANGED <<req, left, asked, ran, runs>>

\* reject checks the status it read, then updates by id.
RejectStart(p, r) ==
  /\ op[p] = Idle
  /\ Pending(r)
  /\ op' = [op EXCEPT ![p] = [Idle EXCEPT !.pc = "reject", !.id = r]]
  /\ UNCHANGED <<req, left, asked, ran, runs>>

RejectWrite(p) ==
  /\ op[p].pc = "reject"
  /\ req' = [req EXCEPT ![op[p].id].status = "rejected",
                        ![op[p].id].by     = p]
  /\ op'  = [op EXCEPT ![p] = Idle]
  /\ UNCHANGED <<left, asked, ran, runs>>

\* The caller dies, or its commit raises: what it had read is gone.
OperatorFail(p) ==
  /\ OperatorFails
  /\ op[p] # Idle
  /\ op' = [op EXCEPT ![p] = Idle]
  /\ UNCHANGED <<req, left, asked, ran, runs>>

\* (Mutant: > for < in the sweep's comparison.)
ExpireStaleInverted ==
  /\ req' = [r \in Requests |->
               IF Pending(r) /\ ~Late(r) THEN [req[r] EXCEPT !.status = "expired"]
                                         ELSE req[r]]
  /\ UNCHANGED <<left, op, asked, ran, runs>>

\* expire_stale: one UPDATE over every pending row whose deadline has passed.
ExpireStale ==
  /\ req' = [r \in Requests |->
               IF Pending(r) /\ Late(r) THEN [req[r] EXCEPT !.status = "expired"]
                                        ELSE req[r]]
  /\ UNCHANGED <<left, op, asked, ran, runs>>

\* A minute passes.  The code only asks whether now > expires_at, so a
\* deadline that has passed may stay at -1.
Tick ==
  /\ left' = [r \in Requests |->
                IF req[r].status # "absent" /\ left[r] >= 0
                THEN left[r] - 1 ELSE left[r]]
  /\ UNCHANGED <<req, op, asked, ran, runs>>

\* Somebody edits the args column of a pending row behind the program's back.
Tamper(r, a) ==
  /\ Pending(r)
  /\ req' = [req EXCEPT ![r].args = a]
  /\ UNCHANGED <<left, op, asked, ran, runs>>

\* What an operator that has entered approve or reject does next.
OperatorStep(p) ==
  \/ ExpireWrite(p)
  \/ \E res \in Results : ApproveRun(p, res)
  \/ ApproveRefused(p)
  \/ ApproveCommit(p)
  \/ RejectWrite(p)

OperatorNext(p) ==
  \/ \E r \in Requests : ApproveStart(p, r) \/ ApproveLate(p, r) \/ RejectStart(p, r)
  \/ OperatorStep(p)
  \/ OperatorFail(p)

Next ==
  \/ \E r \in Requests, a \in Args, i \in Incidents \cup {0} : CreatePending(r, a, i)
  \/ \E p \in Operators : OperatorNext(p)
  \/ ExpireStale
  \/ Tick
  \/ \E r \in Requests, a \in Args : Tamper(r, a)

Spec == Init /\ [][Next]_vars

\* Time passes, and a caller that is not in a tool run goes on.  Nobody has to
\* answer a request, no tool run has to come back (recv_exit_status waits without
\* limit), and no sweep has to come: the Runner's tick gets to it only when
\* collect has returned.
Fairness ==
  /\ WF_vars(Tick)
  /\ \A p \in Operators : WF_vars(ExpireWrite(p) \/ ApproveCommit(p) \/ RejectWrite(p))

FairSpec == Spec /\ Fairness

-----------------------------------------------------------------------------
InFlight(r) == \E p \in Operators : op[p].id = r
Settled(r)  == req[r].status \in Decided /\ ~InFlight(r)

\* A tool never runs with arguments other than those of the call that was
\* suspended, even when the args column is edited in between (approve checks
\* args_hash and then passes on the very copy it checked).
ConsentBound == \A r \in Requests : \A e \in ran[r] : e[1] = asked[r]

\* result_status = "success" is never written without a run of the tool that
\* succeeded; the Runner resolves incidents on the strength of it.
SuccessIsReal ==
  \A r \in Requests :
    req[r].result = "success" => \E e \in ran[r] : e[2] = "success"

\* A row is "expired" only when its deadline has really passed, whichever of
\* approve and expire_stale wrote it.
ExpiredIsLate == \A r \in Requests : req[r].status = "expired" => Late(r)

\* Why these hold: a row keeps the digest of the call that was suspended, and
\* every caller that is inside approve or reject carries what it has checked.
RowInv(r) ==
  /\ req[r].status = "absent" => req[r].result = "none" /\ ran[r] = {}
  /\ req[r].status # "absent" =>
       /\ req[r].args \in Args /\ asked[r] \in Args
       /\ req[r].hash = Fingerprint[asked[r]]

CallInv(p) ==
  op[p].pc # "idle" =>
    /\ req[op[p].id].status # "absent"
    /\ op[p].pc = "execute" => op[p].args = asked[op[p].id]
    /\ op[p].pc = "commit" /\ op[p].result = "success" =>
         \E e \in ran[op[p].id] : e[2] = "success"
    /\ op[p].pc = "expire" => Late(op[p].id)

IInv ==
  /\ \A r \in Requests : RowInv(r)
  /\ \A p \in Operators : CallInv(p)
  /\ ConsentBound
  /\ SuccessIsReal
  /\ ExpiredIsLate

\* Nothing that belongs to row r changes in this step, and nobody takes it up.
Frozen(r) ==
  /\ UNCHANGED <<req[r], runs[r], ran[r]>>
  /\ ~InFlight(r)'

\* Once a row is decided and no caller is still inside approve or reject for
\* it, neither the row nor the outside world changes on its account again.
SettledIsFinal == [][\A r \in Requests : Settled(r) => Frozen(r)]_vars

\* As long as the Runner sweeps, every suspended call is decided, however its
\* callers hang or die: an answer is written down, or the sweep expires it.  After
\* that nobody is left with it but callers whose tool never came back.
EveryRequestSettles ==
  WF_vars(ExpireStale) =>
    \A r \in Requests : <>[](req[r].status # "absent" =>
      /\ req[r].status \in Decided
      /\ \A p \in Operators : op[p].id = r => op[p].pc = "execute")
=============================================================================
