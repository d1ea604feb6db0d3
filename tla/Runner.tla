-------------------------------- MODULE Runner --------------------------------
(***************************************************************************)
(* The autonomous loop (runtime/runner.py) with what it drives: detector,  *)
(* incidents table (detect/incident_service.py), remediation records and   *)
(* contexts (remediation/service.py), and the approval desk.               *)
(*                                                                         *)
(* One process runs tick() over and over; it alone writes incidents,       *)
(* records and contexts.  Between any two of its commits an operator may   *)
(* answer a request, a deadline may pass, a sync of the knowledge base may *)
(* file cases, the database or the model may raise (which abandons the     *)
(* tick), or the process may die.                                          *)
(*                                                                         *)
(* A definition marked "Mutant" is the one after it with a plausible bug:  *)
(* it takes no part in Spec, and shows that a property notices that bug.   *)
(***************************************************************************)
EXTENDS Integers, FiniteSets

CONSTANTS
  Kinds, Sustain,                                    \* see Detector
  Requests, Operators, Fingerprint, Ttl, OperatorFails, \* see Approvals
  MaxIncidents,  \* bound on incidents rows, whose ids are 1, 2, ...
  MaxJobs,       \* bound on remediation_records rows, each with its context
  Runbooks,      \* get_runbooks(); a runbook's plan is one fixed tool call
  Gated,         \* runbooks whose call the permission engine suspends
  MaxRetries,    \* INVESTIGATE_MAX_RETRIES
  MaxOrphans,    \* bound on restart calls the model makes on its own
  Faults         \* which faults happen: "llm", "db", "crash"

ASSUME RunnerAssumption ==
  /\ Kinds \subseteq Nat          \* in the order the detector lists them
  /\ Sustain \in [Kinds -> Nat \ {0}]
  /\ Requests \subseteq Nat \ {0} /\ Ttl \in Nat /\ OperatorFails \in BOOLEAN
  /\ MaxIncidents \in Nat /\ MaxJobs \in Nat
  /\ "none" \notin Runbooks /\ Gated \subseteq Runbooks
  /\ \A a, b \in Runbooks : Fingerprint[a] = Fingerprint[b] => a = b
  /\ MaxRetries \in Nat \ {0} /\ MaxOrphans \in Nat
  /\ Faults \subseteq {"llm", "db", "crash"}

IncidentIds == 1..MaxIncidents
JobIds      == 1..MaxJobs

VARIABLES
  breach, okay, openKinds, events,      \* the detector
  req, left, op, asked, ran, runs,      \* the approval desk
  inc,      \* incidents: kind, status and detail["investigate_retry_count"]
  job,      \* remediation_records[j] and the remediation_contexts row of j;
            \* history, its "verdicts": how often an outcome was committed, up to 2
  cases,    \* recovery_cases: the outcome recorded for j
  run,      \* where the process is in tick(), and its local variables
  tries     \* history: investigations begun for each incident

D == INSTANCE Detector
A == INSTANCE Approvals WITH Args <- Runbooks, Incidents <- IncidentIds

detectorVars == <<breach, okay, openKinds, events>>
deskVars     == <<req, left, op, asked, ran, runs>>
tables       == <<inc, job, cases, tries>>
vars         == <<detectorVars, deskVars, tables, run>>

IncidentStatuses == {"open", "investigating", "awaiting_approval",
                     "remediating", "failed", "resolved"}
Unfinished == {"open", "investigating", "awaiting_approval", "remediating"}

\* ALLOWED_TRANSITIONS
Transitions ==
  [open              |-> {"investigating", "resolved"},
   investigating     |-> {"awaiting_approval", "open", "failed", "resolved"},
   awaiting_approval |-> {"remediating", "failed", "resolved", "open"},
   remediating       |-> {"resolved", "failed"},
   failed            |-> {"investigating"},
   resolved          |-> {}]

Incident == [kind : Kinds, status : IncidentStatuses, retry : 0..MaxRetries]
NoIncident == [status |-> "absent"]

Job == [incident : IncidentIds, runbook : Runbooks,
        status   : {"planned", "executing", "verified", "failed"},
        exec     : {"none", "approval_required", "success", "error"},
        verify   : {"none", "passed", "failed"},
        context  : {"none", "active", "completed"},
        approval : Requests \cup {0},
        verdicts : 0..2]
NoJob == [status |-> "absent"]

Process == [pc   : {"down", "idle", "apply", "sweep", "open", "ask", "record",
                    "context", "execute", "link", "verify", "await",
                    "close", "status", "case"},
            loop   : {"none", "open", "await"},   \* which for-loop of tick()
            todo   : SUBSET IncidentIds,          \* ids it has still to visit
            cur    : IncidentIds \cup {0},        \* inc_id
            rb     : Runbooks \cup {"none"},
            job    : JobIds \cup {0},
            ticket : Requests \cup {0},           \* the approval just created
            goal   : IncidentStatuses \cup {"none"},
            tell   : {"never", "before", "after"}] \* case vs. status order

TypeOK ==
  /\ D!TypeOK
  /\ A!TypeOK
  /\ inc   \in [IncidentIds -> Incident \cup {NoIncident}]
  /\ job   \in [JobIds -> Job \cup {NoJob}]
  /\ cases \in [JobIds -> {"none", "verified", "verification_failed", "execution_failed"}]
  /\ run   \in Process
  /\ tries \in [IncidentIds -> Nat]

-----------------------------------------------------------------------------
Incidents  == {i \in IncidentIds : inc[i].status # "absent"}
Jobs       == {j \in JobIds : job[j].status # "absent"}
InStatus(s)    == {i \in Incidents : inc[i].status = s}
OpenOf(k)      == {i \in InStatus("open") : inc[i].kind = k}
OnRecord       == {inc[i].kind : i \in InStatus("open")}
JobsOf(i)      == {j \in Jobs : job[j].incident = i}
RequestsOf(i)  == {r \in Requests : req[r].incident = i}
Latest(S)      == IF S = {} THEN 0 ELSE CHOOSE m \in S : \A n \in S : n <= m
First(S)       == CHOOSE m \in S : \A n \in S : m <= n
NewRequest(r)  == req[r].status = "absent" /\ \A x \in Requests : x < r => req[x].status # "absent"
NewJob(j)      == j \notin Jobs /\ \A x \in JobIds : x < j => x \in Jobs

\* The process between two statements of tick(), its locals unset.
At(pc) == [pc |-> pc, loop |-> "none", todo |-> {}, cur |-> 0, rb |-> "none",
           job |-> 0, ticket |-> 0, goal |-> "none", tell |-> "never"]
Loop(l, ids) == [At(l) EXCEPT !.loop = l, !.todo = ids]
NextVisit    == Loop(run.loop, run.todo)
Visiting(l)  == run.pc = l /\ run.todo # {}
Go(pc)       == run' = [run EXCEPT !.pc = pc]

\* update_status: a transition the table does not allow changes nothing.
UpdateStatus(i, s) ==
  inc' = IF s \in Transitions[inc[i].status]
         THEN [inc EXCEPT ![i].status = s] ELSE inc

Init ==
  /\ D!Init /\ openKinds = {}
  /\ A!Init
  /\ inc   = [i \in IncidentIds |-> NoIncident]
  /\ job   = [j \in JobIds |-> NoJob]
  /\ cases = [j \in JobIds |-> "none"]
  /\ run   = At("idle")
  /\ tries = [i \in IncidentIds |-> 0]

-----------------------------------------------------------------------------
\* tick(), first half.  collect() gives a reading for every kind or raises
\* (a step that changes nothing); check() then moves the detector.  The guard
\* on Opening bounds the number of incidents.
Opening(reading) == {k \in Kinds : D!Opens(k, reading) /\ OpenOf(k) = {}}

Collect(reading) ==
  /\ run.pc = "idle"
  /\ Cardinality(Opening(reading)) <= Cardinality(IncidentIds \ Incidents)
  /\ D!Check(reading)
  /\ Go("apply")
  /\ UNCHANGED <<deskVars, tables>>

\* (Mutant: no deduplication.)
NewlyOpenedAll == {k \in Kinds : events[k] = "open"}

\* apply(events): one commit.  An "open" event is dropped when the kind has an
\* incident whose status is "open"; a "resolve" event closes the latest such.
\* New rows take the ids after the latest.
NewlyOpened == {k \in Kinds : events[k] = "open" /\ OpenOf(k) = {}}
Recovered   == {Latest(OpenOf(k)) : k \in {h \in Kinds : events[h] = "resolve"}}

Apply ==
  /\ run.pc = "apply"
  /\ LET IdOf(k) == Latest(Incidents) + Cardinality({h \in NewlyOpened : h <= k})
     IN inc' = [i \in IncidentIds |->
          IF i \in Recovered THEN [inc[i] EXCEPT !.status = "resolved"]
          ELSE IF \E k \in NewlyOpened : i = IdOf(k)
          THEN [kind |-> CHOOSE k \in NewlyOpened : i = IdOf(k),
                status |-> "open", retry |-> 0]
          ELSE inc[i]]
  /\ events' = D!Quiet
  /\ Go("sweep")
  /\ UNCHANGED <<breach, okay, openKinds, deskVars, job, cases, tries>>

\* expire_stale, then the query for open incidents.
Sweep ==
  /\ run.pc = "sweep"
  /\ A!ExpireStale
  /\ run' = Loop("open", InStatus("open"))
  /\ UNCHANGED <<detectorVars, tables>>

\* The loop over open ids is done: query the awaiting ones.  That loop done,
\* the tick ends and the process sleeps.
ListAwaiting ==
  /\ run.pc = "open" /\ run.todo = {}
  /\ run' = Loop("await", InStatus("awaiting_approval"))
  /\ UNCHANGED <<detectorVars, deskVars, tables>>

EndTick ==
  /\ run.pc = "await" /\ run.todo = {}
  /\ run' = At("idle")
  /\ UNCHANGED <<detectorVars, deskVars, tables>>

-----------------------------------------------------------------------------
\* _handle_open.  The incident is claimed, then the model investigates.
Claim ==
  /\ Visiting("open")
  /\ LET i == First(run.todo) IN
       /\ UpdateStatus(i, "investigating")
       /\ tries' = [tries EXCEPT ![i] = @ + 1]
       /\ run' = [Loop("open", run.todo \ {i}) EXCEPT !.pc = "ask", !.cur = i]
  /\ UNCHANGED <<detectorVars, deskVars, job, cases>>

\* While it investigates, the model may call restart_service itself.  A gated
\* call is suspended as a request without incident id; a call that is not
\* gated simply runs, which no row here shows.
ModelRestarts(rb) ==
  /\ run.pc = "ask" /\ rb \in Gated
  /\ Cardinality({r \in Requests : asked[r] # "none" /\ req[r].incident = 0}) < MaxOrphans
  /\ \E r \in Requests : NewRequest(r) /\ A!CreatePending(r, rb, 0)
  /\ UNCHANGED <<detectorVars, tables, run>>

Retry == inc[run.cur].retry + 1

AfterFailure == IF Retry >= MaxRetries THEN "failed" ELSE "open"

\* investigate() returned None: no parsable conclusion.  The counter is
\* written only when the incident will be tried again.
NoConclusion ==
  /\ run.pc = "ask"
  /\ inc' = IF AfterFailure = "open" THEN [inc EXCEPT ![run.cur].retry = Retry] ELSE inc
  /\ run' = [run EXCEPT !.pc = "status", !.goal = AfterFailure]
  /\ UNCHANGED <<detectorVars, deskVars, job, cases, tries>>

\* A conclusion that recommends no runbook of the library.
NoRunbook ==
  /\ run.pc = "ask"
  /\ inc' = [inc EXCEPT ![run.cur].retry = Retry]
  /\ run' = [run EXCEPT !.pc = "status", !.goal = AfterFailure]
  /\ UNCHANGED <<detectorVars, deskVars, job, cases, tries>>

\* A conclusion that recommends runbook rb.  (investigate() has replaced any
\* name outside get_runbooks() by None, so the lookup that follows succeeds.)
ChooseRunbook(rb) ==
  /\ run.pc = "ask"
  /\ inc' = [inc EXCEPT ![run.cur].retry = 0]
  /\ run' = [run EXCEPT !.pc = "record", !.rb = rb]
  /\ UNCHANGED <<detectorVars, deskVars, job, cases, tries>>

-----------------------------------------------------------------------------
\* execute_runbook: the record, its context, then the tool call.
CreateRecord ==
  /\ run.pc = "record"
  /\ \E j \in JobIds :
       /\ NewJob(j)
       /\ job' = [job EXCEPT ![j] =
            [incident |-> run.cur, runbook |-> run.rb, status |-> "planned",
             exec |-> "none", verify |-> "none", context |-> "none", approval |-> 0,
             verdicts |-> 0]]
       /\ run' = [run EXCEPT !.pc = "context", !.job = j]
  /\ UNCHANGED <<detectorVars, deskVars, inc, cases, tries>>

CreateContext ==
  /\ run.pc = "context"
  /\ job' = [job EXCEPT ![run.job].context = "active"]
  /\ Go("execute")
  /\ UNCHANGED <<detectorVars, deskVars, inc, cases, tries>>

\* The permission engine gates the call: a request carrying the incident id.
Suspend ==
  /\ run.pc = "execute" /\ run.rb \in Gated
  /\ \E r \in Requests :
       /\ NewRequest(r)
       /\ A!CreatePending(r, run.rb, run.cur)
       /\ run' = [run EXCEPT !.pc = "link", !.ticket = r]
  /\ UNCHANGED <<detectorVars, tables>>

\* (Mutant: the link is forgotten.)
LinkForgotten ==
  /\ run.pc = "link"
  /\ job' = [job EXCEPT ![run.job].status = "executing",
                        ![run.job].exec = "approval_required"]
  /\ run' = [run EXCEPT !.pc = "status", !.goal = "awaiting_approval"]
  /\ UNCHANGED <<detectorVars, deskVars, inc, cases, tries>>

\* (Mutant: the oldest request is taken for the new one.)
LinkOldest ==
  /\ run.pc = "link"
  /\ job' = [job EXCEPT ![run.job].status = "executing",
                        ![run.job].exec = "approval_required",
                        ![run.job].approval = First({r \in Requests : req[r].status # "absent"})]
  /\ run' = [run EXCEPT !.pc = "status", !.goal = "awaiting_approval"]
  /\ UNCHANGED <<detectorVars, deskVars, inc, cases, tries>>

\* (Mutant: the outcome is recorded although it is not known yet.)
LinkAndRecord ==
  /\ run.pc = "link"
  /\ job' = [job EXCEPT ![run.job].status = "executing",
                        ![run.job].exec = "approval_required",
                        ![run.job].approval = run.ticket]
  /\ run' = [run EXCEPT !.pc = "status", !.goal = "awaiting_approval", !.tell = "after"]
  /\ UNCHANGED <<detectorVars, deskVars, inc, cases, tries>>

\* approval_required: record and context are updated in one commit.
Link ==
  /\ run.pc = "link"
  /\ job' = [job EXCEPT ![run.job].status = "executing",
                        ![run.job].exec = "approval_required",
                        ![run.job].approval = run.ticket]
  /\ run' = [run EXCEPT !.pc = "status", !.goal = "awaiting_approval"]
  /\ UNCHANGED <<detectorVars, deskVars, inc, cases, tries>>

\* The engine allows the call and it succeeds: verify after a pause.
ExecuteNow ==
  /\ run.pc = "execute" /\ run.rb \notin Gated
  /\ Go("verify")
  /\ UNCHANGED <<detectorVars, deskVars, tables>>

Counted(j) == IF job[j].verdicts < 2 THEN job[j].verdicts + 1 ELSE 2

\* The call ends in an error.
ExecuteFails ==
  /\ run.pc = "execute" /\ run.rb \notin Gated
  /\ job' = [job EXCEPT ![run.job].status = "failed", ![run.job].exec = "error",
                        ![run.job].verdicts = Counted(run.job)]
  /\ run' = [run EXCEPT !.pc = "status", !.goal = "failed", !.tell = "after"]
  /\ UNCHANGED <<detectorVars, deskVars, inc, cases, tries>>

Verdict(passed) == IF passed THEN "verified" ELSE "failed"
Mark(passed)    == IF passed THEN "passed" ELSE "failed"
Close(passed)   == IF passed THEN "resolved" ELSE "failed"

VerifyNow(passed) ==
  /\ run.pc = "verify"
  /\ job' = [job EXCEPT ![run.job].exec = "success",
                        ![run.job].verify = Mark(passed),
                        ![run.job].status = Verdict(passed),
                        ![run.job].verdicts = Counted(run.job)]
  /\ run' = [run EXCEPT !.pc = "status", !.goal = Close(passed), !.tell = "after"]
  /\ UNCHANGED <<detectorVars, deskVars, inc, cases, tries>>

-----------------------------------------------------------------------------
\* _handle_awaiting.  The context that is still active names the request; a
\* row without one falls back to the incident's latest request.
Context(i) == Latest({j \in JobsOf(i) : job[j].context = "active"})
Ticket(i)  == IF Context(i) # 0 /\ job[Context(i)].approval # 0
              THEN job[Context(i)].approval ELSE Latest(RequestsOf(i))

\* (Mutants: an expired request counts as none, or as one that is pending.)
AnswerForgets(i) ==
  IF Ticket(i) = 0 \/ req[Ticket(i)].status = "expired" THEN "missing" ELSE req[Ticket(i)].status
AnswerWaits(i) ==
  IF Ticket(i) = 0 THEN "missing"
  ELSE IF req[Ticket(i)].status = "expired" THEN "pending" ELSE req[Ticket(i)].status

Answer(i)  == IF Ticket(i) = 0 THEN "missing" ELSE req[Ticket(i)].status
Record(i)  == IF Context(i) # 0 THEN Context(i) ELSE Latest(JobsOf(i))

\* (Mutant: the result of the run is not looked at.)
SucceededIfApproved(i) == Answer(i) = "approved"

Succeeded(i) == Answer(i) = "approved" /\ req[Ticket(i)].result = "success"

StillPending ==
  /\ Visiting("await")
  /\ LET i == First(run.todo) IN
       /\ Answer(i) = "pending"
       /\ run' = Loop("await", run.todo \ {i})
  /\ UNCHANGED <<detectorVars, deskVars, tables>>

Visit(i, pc, j, goal, tell) ==
  run' = [Loop("await", run.todo \ {i}) EXCEPT
            !.pc = pc, !.cur = i, !.job = j, !.goal = goal, !.tell = tell]

\* No request at all: back to open.  Rejected or expired: failed.
Refused ==
  /\ Visiting("await")
  /\ LET i == First(run.todo) IN
       /\ Answer(i) \in {"missing", "rejected", "expired"}
       /\ IF Answer(i) = "missing"  THEN Visit(i, "status", 0, "open", "never")
          ELSE IF Context(i) = 0    THEN Visit(i, "status", 0, "failed", "never")
          ELSE Visit(i, "close", Context(i), "failed", "never")
  /\ UNCHANGED <<detectorVars, deskVars, tables>>

\* Approved, but the tool run failed; or there is no record to verify.  The
\* first commit uses what was read, so reading and writing are one step.
ApprovedInVain ==
  /\ Visiting("await")
  /\ LET i == First(run.todo) j == Context(i) IN
       /\ Answer(i) = "approved"
       /\ ~Succeeded(i) \/ Record(i) = 0
       /\ IF j # 0 /\ ~Succeeded(i)
          THEN /\ job' = [job EXCEPT ![j].status = "failed",
                                     ![j].exec = req[Ticket(i)].result,
                                     ![j].verdicts = Counted(j)]
               /\ Visit(i, "close", j, "failed", "before")
          ELSE Visit(i, "status", 0, "failed", "never") /\ UNCHANGED job
  /\ UNCHANGED <<detectorVars, deskVars, inc, cases, tries>>

\* Approved and run: verify, write the verdict into the record.  exec_status
\* keeps the "approval_required" of Link.
ApprovedAndRun(passed) ==
  /\ Visiting("await")
  /\ LET i == First(run.todo) j == Record(i) IN
       /\ Succeeded(i) /\ j # 0
       /\ job' = [job EXCEPT ![j].verify = Mark(passed), ![j].status = Verdict(passed),
                             ![j].verdicts = Counted(j)]
       /\ Visit(i, "close", j, Close(passed), "after")
  /\ UNCHANGED <<detectorVars, deskVars, inc, cases, tries>>

\* _mark_context_complete
CompleteContext ==
  /\ run.pc = "close"
  /\ job' = IF job[run.job].context = "active"
            THEN [job EXCEPT ![run.job].context = "completed"] ELSE job
  /\ Go(IF run.tell = "before" THEN "case" ELSE "status")
  /\ UNCHANGED <<detectorVars, deskVars, inc, cases, tries>>

-----------------------------------------------------------------------------
\* Both handlers end by moving the incident on ...
Settle ==
  /\ run.pc = "status"
  /\ UpdateStatus(run.cur, run.goal)
  /\ run' = IF run.tell = "after" THEN [run EXCEPT !.pc = "case"] ELSE NextVisit
  /\ UNCHANGED <<detectorVars, deskVars, job, cases, tries>>

\* _outcome
Outcome(j) ==
  IF job[j].status = "verified" /\ job[j].verify = "passed" THEN "verified"
  ELSE IF job[j].status = "failed" /\ job[j].exec = "success" /\ job[j].verify = "failed"
  THEN "verification_failed" ELSE "execution_failed"

\* record_outcome: a record that has a case keeps it.
RecordOutcome(j) ==
  cases' = IF cases[j] = "none" THEN [cases EXCEPT ![j] = Outcome(j)] ELSE cases

\* ... and by recording the outcome for the knowledge base;
\* switched off or raising, it changes nothing.
RecordCase ==
  /\ run.pc = "case"
  /\ RecordOutcome(run.job) \/ UNCHANGED cases
  /\ IF run.tell = "before" THEN Go("status") ELSE run' = NextVisit
  /\ UNCHANGED <<detectorVars, deskVars, inc, job, tries>>

\* reconcile, in the background worker or in `knowledge sync`: at any moment it
\* files the cases of the records with a verdict, whether or not their incident
\* has moved on.  Reading a record and inserting its case are one step here: a
\* verdict written in between would be the record's second one, and a case filed
\* in between makes the insertion fail on its unique column.
Reconcile ==
  /\ \E j \in Jobs : /\ job[j].status \in {"verified", "failed"} /\ cases[j] = "none"
                       /\ RecordOutcome(j)
  /\ UNCHANGED <<detectorVars, deskVars, inc, job, tries, run>>

-----------------------------------------------------------------------------
\* An exception leaves tick(); run() logs it and sleeps until the next one.
\* Whatever was committed stays, and the detector has already moved on.  (The
\* recording of a case swallows what it raises, see RecordCase; and past the
\* last loop there is nothing left to raise.)
ModelRaises ==
  /\ "llm" \in Faults /\ run.pc = "ask"
  /\ run' = At("idle")
  /\ UNCHANGED <<detectorVars, deskVars, tables>>

DatabaseRaises ==
  /\ "db" \in Faults /\ run.pc \notin {"down", "idle", "case"}
  /\ ~(run.pc = "await" /\ run.todo = {})
  /\ run' = At("idle")
  /\ events' = D!Quiet
  /\ UNCHANGED <<breach, okay, openKinds, deskVars, tables>>

Crash ==
  /\ "crash" \in Faults /\ run.pc # "down"
  /\ run' = At("down")
  /\ D!Restart({})
  /\ UNCHANGED <<deskVars, tables>>

\* (Mutant: the detector starts without the kinds on record.)
BootBlank ==
  /\ run.pc = "down"
  /\ run' = At("idle")
  /\ D!Restart({})
  /\ UNCHANGED <<deskVars, tables>>

\* run(): the detector is told the kinds that have an open incident.
Boot ==
  /\ run.pc = "down"
  /\ run' = At("idle")
  /\ D!Restart(OnRecord)
  /\ UNCHANGED <<deskVars, tables>>

\* What the process does unless something fails.
Step ==
  \/ \E reading \in [Kinds -> {"breached", "normal"}] : Collect(reading)
  \/ Apply \/ Sweep \/ ListAwaiting \/ EndTick
  \/ Claim \/ NoConclusion \/ NoRunbook
  \/ \E rb \in Runbooks : ChooseRunbook(rb)
  \/ CreateRecord \/ CreateContext \/ Suspend \/ Link
  \/ ExecuteNow \/ ExecuteFails
  \/ \E passed \in BOOLEAN : VerifyNow(passed) \/ ApprovedAndRun(passed)
  \/ StillPending \/ Refused \/ ApprovedInVain
  \/ CompleteContext \/ Settle \/ RecordCase
  \/ Boot

Fault == ModelRaises \/ DatabaseRaises \/ Crash

\* The approval desk goes on in other processes.
Desk ==
  /\ (\E p \in Operators : A!OperatorNext(p)) \/ A!Tick
  /\ UNCHANGED <<detectorVars, tables, run>>

Next ==
  \/ Step \/ Reconcile
  \/ \E rb \in Runbooks : ModelRestarts(rb)
  \/ Fault
  \/ Desk

Spec == Init /\ [][Next]_vars

\* The process waits for the server, the model, or somebody to start it.  None of
\* them owes it an answer: recv_exit_status has no limit, collect may raise on
\* every tick, and then a tick gets no further.  (In its verification it may still
\* hang when somebody has meanwhile written another answer over the one it read.)
Waiting ==
  \/ run.pc \in {"down", "idle", "ask", "verify"}
  \/ run.pc = "execute" /\ run.rb \notin Gated
  \/ Visiting("await") /\ LET i == First(run.todo) IN
       Ticket(i) # 0 /\ Record(i) # 0 /\ \E e \in ran[Ticket(i)] : e[2] = "success"

\* The process goes on with what it can do by itself, and the clock runs.
\* Operators owe nothing.
FairSpec ==
  Spec /\ WF_vars(Step /\ ~Waiting) /\ WF_vars(A!Tick /\ UNCHANGED <<detectorVars, tables, run>>)
-----------------------------------------------------------------------------
Consented(j) ==
  \E e \in ran[job[j].approval] : e[1] = job[j].runbook /\ e[2] = "success"

\* A context names a request that was created for its own incident and for the
\* very call of its runbook, so the Runner never acts on somebody else's answer.
TicketMatchesJob ==
  \A j \in Jobs : job[j].approval # 0 =>
    /\ req[job[j].approval].incident = job[j].incident
    /\ asked[job[j].approval] = job[j].runbook

\* However often the process died or a commit raised, an incident that awaits
\* approval has the request and the record it will be continued from.
AwaitingCanProceed ==
  \A i \in InStatus("awaiting_approval") :
    /\ Ticket(i) # 0 /\ Record(i) # 0
    /\ job[Record(i)].approval = Ticket(i)

\* An incident is never remediated twice: one record, whatever was retried.
OneJobPerIncident ==
  \A j, k \in Jobs : job[j].incident = job[k].incident => j = k

\* Deduplication of events: never two incidents of one kind with status "open".
OneOpenPerKind == \A k \in Kinds : Cardinality(OpenOf(k)) <= 1

\* Recovery closes: between ticks no incident is left open whose kind has been
\* normal for long enough.  (Needs apply's commit to succeed.)
RecoveryCloses ==
  run.pc = "idle" =>
    \A i \in InStatus("open") : okay[inc[i].kind] < Sustain[inc[i].kind]

\* A recovery case says what its record says, whoever filed it and when.  Only a
\* record that was given a second verdict, because the process was cut off before
\* its incident had moved on, may say something else by now.
CasesAgree ==
  \A j \in JobIds : cases[j] # "none" =>
    /\ job[j] # NoJob /\ job[j].verdicts > 0
    /\ job[j].verdicts = 1 => cases[j] = Outcome(j)

\* The knowledge base learns a recovery as verified only from a call that really
\* ran, and as it was consented to, also when reconcile filed it, or the record
\* was verified again.
VerifiedCasesAreReal ==
  \A j \in JobIds : cases[j] = "verified" /\ job[j].approval # 0 => Consented(j)

\* Past "open", an incident is resolved only with a record whose postcondition
\* passed, and if its call was gated, only after a successful run of exactly
\* that runbook's call under an approved request.
ResolvedIsProven ==
  [][\A i \in Incidents :
       /\ inc[i].status \in {"investigating", "awaiting_approval"}
       /\ inc'[i].status = "resolved"
       => \E j \in JobsOf(i) :
            /\ job[j].status = "verified" /\ job[j].verify = "passed"
            /\ job[j].approval # 0 => Consented(j)]_vars

\* An incident gives up before it has a record only when it was investigated
\* MaxRetries times (and so retried once less).
GivesUpOnlyWhenSpent ==
  [][\A i \in Incidents :
       /\ inc[i].status = "investigating" /\ inc'[i].status = "failed"
       /\ JobsOf(i) = {}
       => tries[i] >= MaxRetries]_vars

Finished(i) == i \in Incidents /\ inc[i].status \notin Unfinished

\* A fault in mid-investigation leaves an incident under investigation, a
\* status no tick looks at.
Abandoned(i) == inc[i].status = "investigating" /\ run.cur # i

\* Faults stop, and nothing keeps the process waiting for ever.
GetsOn == <>[][~Fault]_vars /\ []<>~Waiting

\* Unless the process waits for ever, every incident comes to rest once faults
\* stop: it is finished, even if nobody ever answers its request, or a fault has
\* abandoned it.
EveryIncidentRests ==
  GetsOn => \A i \in IncidentIds : <>[](i \in Incidents => Finished(i) \/ Abandoned(i))

\* Faults that stop leave no incident awaiting approval for ever, unless the
\* process waits for ever itself.
AwaitingSurvivesFaults ==
  GetsOn => \A i \in IncidentIds : (i \in InStatus("awaiting_approval")) ~> Finished(i)

-----------------------------------------------------------------------------
\* What the documentation says and the code does not do.

\* A failed investigation is retried or ends in "failed": between ticks no
\* incident is left under investigation, a status no tick ever looks at.
NoneLeftInvestigating ==
  run.pc = "idle" => InStatus("investigating") = {}

\* "Maximum retries after a failed investigation": an incident that is given up
\* before it has a record was investigated once and retried MaxRetries times.
RetriedAsDocumented ==
  [][\A i \in Incidents :
       /\ inc[i].status = "investigating" /\ inc'[i].status = "failed"
       /\ JobsOf(i) = {}
       => tries[i] > MaxRetries]_vars
=============================================================================
