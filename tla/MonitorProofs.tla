----------------------------- MODULE MonitorProofs -----------------------------
(***************************************************************************)
(* Theorems about Monitor: type correctness and its two safety properties, *)
(* for any metrics, services and streak lengths.                           *)
(***************************************************************************)
EXTENDS Monitor, TLAPS

-----------------------------------------------------------------------------
(* Lemmas about the queries of a snapshot *)

\* Queries are numbered from 1, and each is about a kind.
LEMMA QueryNumbers ==
  /\ Len(Queries) \in Nat \ {0} /\ DOMAIN Queries = 1..Len(Queries)
  /\ \A i \in DOMAIN Queries : Queries[i] \in Kinds
  /\ Watched \subseteq Kinds
<1>1. Len(Metrics) \in Nat \ {0} /\ Len(Services) \in Nat
  BY MonitorAssumption
<1>2. Queries \in Seq(STRING) /\ Len(Queries) = Len(Metrics) + Len(Services)
  BY MonitorAssumption DEF Queries
<1>3. \A j \in DOMAIN Services : Queries[Len(Metrics) + j] = Services[j]
                                 /\ Len(Metrics) + j \in DOMAIN Queries
  BY <1>1, <1>2, MonitorAssumption DEF Queries
<1> QED
  BY <1>1, <1>2, <1>3 DEF Kinds, Watched, Range

\* The first query of a snapshot is a metric's.
LEMMA MetricsFirst == \A i \in DOMAIN Queries : Queries[i] \in Watched => i > 1
<1>1. Len(Metrics) \in Nat \ {0} /\ Len(Services) \in Nat
  BY MonitorAssumption
<1>2. Queries \in Seq(STRING) /\ Len(Queries) = Len(Metrics) + Len(Services)
  BY MonitorAssumption DEF Queries
<1>3. \A j \in DOMAIN Services : Queries[Len(Metrics) + j] = Services[j]
                                 /\ Len(Metrics) + j \in DOMAIN Queries
  BY <1>1, <1>2, MonitorAssumption DEF Queries
<1>4. SUFFICES ASSUME NEW i \in DOMAIN Queries, Queries[i] \in Watched
               PROVE  i > 1
  OBVIOUS
<1>5. PICK j \in DOMAIN Services : Queries[i] = Services[j]
  BY <1>4 DEF Watched, Range
<1>6. i = Len(Metrics) + j
  BY <1>3, <1>5, MonitorAssumption
<1>7. j \in Nat /\ j > 0
  BY <1>1, MonitorAssumption
<1> QED
  BY <1>1, <1>6, <1>7

-----------------------------------------------------------------------------
(* Type correctness *)

LEMMA TypeInit == Init => TypeOK
<1> SUFFICES ASSUME Init PROVE TypeOK
  OBVIOUS
<1>1. 1 \in DOMAIN Queries
  BY QueryNumbers
<1>2. Nothing \in [Kinds -> D!Readings]
  BY DEF Nothing, D!Readings
<1>3. D!TypeOK
  BY DEF Init, D!Init, D!TypeOK, D!Zero, D!Quiet
<1> QED
  BY <1>1, <1>2, <1>3 DEF Init, TypeOK, Asleep

LEMMA AsleepType ==
  Asleep \in [pc : {"asleep", "check", "connect", "send", "reply", "wait", "store"},
              query : DOMAIN Queries, tried : BOOLEAN,
              snap : [Kinds -> D!Readings], through : BOOLEAN, lost : SUBSET Watched]
BY QueryNumbers DEF Asleep, Nothing, D!Readings

\* A reading noted leaves the patrol in shape.
LEMMA ProceedType ==
  ASSUME TypeOK, NEW reading \in D!Readings, NEW through \in BOOLEAN,
         NEW lost \in SUBSET Watched, Proceed(reading, through, lost)
  PROVE  at' \in [pc : {"asleep", "check", "connect", "send", "reply", "wait", "store"},
                  query : DOMAIN Queries, tried : BOOLEAN,
                  snap : [Kinds -> D!Readings], through : BOOLEAN, lost : SUBSET Watched]
         /\ runs' \in Nat
<1>1. [at.snap EXCEPT ![Query] = reading] \in [Kinds -> D!Readings]
  BY DEF TypeOK
<1>2. (IF at.query < Len(Queries) THEN at.query + 1 ELSE at.query) \in DOMAIN Queries
  BY QueryNumbers DEF TypeOK
<1> QED
  BY <1>1, <1>2 DEF Proceed, TypeOK

LEMMA FailedType ==
  ASSUME TypeOK, Failed
  PROVE  at' \in [pc : {"asleep", "check", "connect", "send", "reply", "wait", "store"},
                  query : DOMAIN Queries, tried : BOOLEAN,
                  snap : [Kinds -> D!Readings], through : BOOLEAN, lost : SUBSET Watched]
         /\ runs' \in Nat
<1>1. CASE Query \in Watched
  <2>1. (IF at.through THEN at.lost \cup {Query} ELSE at.lost) \in SUBSET Watched
        /\ at.through \in BOOLEAN /\ "breached" \in D!Readings
    BY <1>1 DEF TypeOK, D!Readings
  <2>2. Proceed("breached", at.through, IF at.through THEN at.lost \cup {Query} ELSE at.lost)
    BY <1>1 DEF Failed, FailedService
  <2> QED
    BY <2>1, <2>2, ProceedType
<1>2. CASE Query \notin Watched
  BY <1>2, AsleepType DEF Failed
<1> QED
  BY <1>1, <1>2

LEMMA DetectorType ==
  ASSUME D!TypeOK, NEW reading, D!Check(reading)
  PROVE  D!TypeOK'
<1>1. \A k \in Kinds, n \in Nat : D!Longer(n, k) \in Nat
  BY DEF D!Longer
<1>2. breach' \in [Kinds -> Nat] /\ okay' \in [Kinds -> Nat]
  BY <1>1 DEF D!Check, D!TypeOK
<1> QED
  BY <1>2 DEF D!Check, D!TypeOK

LEMMA TypeStep == TypeOK /\ [Next]_vars => TypeOK'
<1> SUFFICES ASSUME TypeOK, [Next]_vars PROVE TypeOK'
  OBVIOUS
<1>1. ASSUME UNCHANGED <<truth, link, active, runs, detector, wasDown, torn>>,
             at' \in [pc : {"asleep", "check", "connect", "send", "reply", "wait", "store"},
                      query : DOMAIN Queries, tried : BOOLEAN,
                      snap : [Kinds -> D!Readings], through : BOOLEAN, lost : SUBSET Watched]
      PROVE  TypeOK'
  BY <1>1 DEF TypeOK, detector, D!TypeOK
<1>2. CASE Changes \/ Breaks \/ Noticed
  BY <1>2, QueryNumbers DEF Changes, Breaks, Noticed, sshVars, detector, TypeOK, D!TypeOK
<1>3. CASE Wake
  BY <1>3, AsleepType DEF Wake, detector, TypeOK, D!TypeOK
<1>4. CASE CheckTransport \/ Accepted
  BY <1>1, <1>4 DEF CheckTransport, Accepted, sshVars, TypeOK
<1>5. CASE Connects \/ Send
  <2>1. CASE Connects
    BY <2>1 DEF Connects, detector, TypeOK, D!TypeOK
  <2>2. CASE Send
    <3>1. runs' \in Nat
      BY <2>2 DEF Send, TypeOK
    <3> QED
      BY <2>2, <3>1 DEF Send, detector, TypeOK, D!TypeOK
  <2> QED
    BY <1>5, <2>1, <2>2
<1>6. CASE ConnectFails
  BY <1>6, FailedType DEF ConnectFails, detector, TypeOK, D!TypeOK
<1>7. CASE Refused
  <2>1. CASE Failed
    BY <1>7, <2>1, FailedType DEF Refused, detector, TypeOK, D!TypeOK
  <2>2. CASE ~Failed
    <3>1. at' = [at EXCEPT !.pc = "connect", !.tried = TRUE] /\ UNCHANGED runs
          /\ UNCHANGED <<truth, link, active, detector, wasDown, torn>>
      BY <1>7, <2>2 DEF Refused
    <3> QED
      BY <1>1, <3>1 DEF TypeOK
  <2> QED
    BY <2>1, <2>2
<1>8. CASE Exits
  <2>1. truth[Query] \in D!Readings
    BY QueryNumbers DEF TypeOK, Query, D!Readings
  <2> QED
    BY <1>8, <2>1, ProceedType DEF Exits, Answered, detector, TypeOK, D!TypeOK
<1>9. CASE ExitFails
  BY <1>9, FailedType DEF ExitFails, detector, TypeOK, D!TypeOK
<1>10. CASE Detects
  <2>1. D!TypeOK'
    BY <1>10, DetectorType DEF Detects, TypeOK
  <2>2. torn' \in [Watched -> Nat]
    BY <1>10 DEF Detects, TypeOK
  <2> QED
    BY <1>10, <2>1, <2>2, AsleepType DEF Detects, sshVars, TypeOK
<1>11. CASE StoreFails
  BY <1>1, <1>11, AsleepType DEF StoreFails, sshVars
<1>12. CASE UNCHANGED vars
  BY <1>1, <1>12 DEF vars, sshVars, TypeOK
<1> QED
  BY <1>2, <1>3, <1>4, <1>5, <1>6, <1>7, <1>8, <1>9, <1>10, <1>11, <1>12 DEF Next, Patrol

\* The connection, the patrol and the detector keep their shape.
THEOREM TypeCorrect == Spec => []TypeOK
BY TypeInit, TypeStep, PTL DEF Spec

-----------------------------------------------------------------------------
(* How often a command is started *)

\* How often the command may have been started, of each place in run.
SendInv ==
  LET before == IF at.tried THEN 1 ELSE 0 IN
  /\ at.pc \in {"asleep", "check", "store"} => runs = 0 /\ ~at.tried
  /\ at.pc \in {"connect", "send"} => runs <= before
  /\ at.pc \in {"reply", "wait"} => runs <= before + 1

LEMMA FailedResets ==
  ASSUME TypeOK, Failed
  PROVE  at'.pc \in {"asleep", "check", "store"} /\ runs' = 0 /\ ~at'.tried
<1>1. CASE Query \in Watched
  BY <1>1 DEF TypeOK, Failed, FailedService, Proceed
<1>2. CASE Query \notin Watched
  BY <1>2 DEF Failed, Asleep
<1> QED
  BY <1>1, <1>2

LEMMA SendStep == TypeOK /\ SendInv /\ [Next]_vars => SendInv'
<1> SUFFICES ASSUME TypeOK, SendInv, [Next]_vars PROVE SendInv'
  OBVIOUS
<1>1. ASSUME Failed PROVE SendInv'
  BY <1>1, FailedResets DEF SendInv
<1>2. CASE Changes \/ Breaks \/ Noticed \/ UNCHANGED vars
  BY <1>2 DEF Changes, Breaks, Noticed, sshVars, vars, SendInv
<1>3. CASE Wake \/ Detects \/ StoreFails
  BY <1>3 DEF Wake, Detects, StoreFails, sshVars, Asleep, SendInv
<1>4. CASE CheckTransport
  BY <1>4 DEF CheckTransport, sshVars, SendInv, TypeOK
<1>5. CASE Connects
  BY <1>5 DEF Connects, SendInv, TypeOK
<1>6. CASE Send
  BY <1>6 DEF Send, SendInv, TypeOK
<1>7. CASE Accepted
  BY <1>7 DEF Accepted, sshVars, SendInv, TypeOK
<1>8. CASE Refused
  <2>1. CASE ~at.tried /\ at' = [at EXCEPT !.pc = "connect", !.tried = TRUE] /\ UNCHANGED runs
    BY <1>8, <2>1 DEF Refused, SendInv, TypeOK
  <2> QED
    BY <1>1, <1>8, <2>1 DEF Refused
<1>9. CASE Exits
  BY <1>9 DEF Exits, Answered, Proceed, SendInv, TypeOK
<1>10. CASE ConnectFails \/ ExitFails
  BY <1>1, <1>10 DEF ConnectFails, ExitFails
<1> QED
  BY <1>2, <1>3, <1>4, <1>5, <1>6, <1>7, <1>8, <1>9, <1>10 DEF Next, Patrol

\* However often the connection is lost, SSHClient.run starts its command twice
\* at most, and once unless its first request went unanswered.
THEOREM RepeatedOnce == Spec => []RunsTwiceAtMost
<1>1. Init => SendInv
  BY DEF Init, Asleep, SendInv
<1>2. TypeOK /\ SendInv => RunsTwiceAtMost
  BY DEF TypeOK, SendInv, RunsTwiceAtMost
<1> QED
  BY <1>1, <1>2, SendStep, TypeInit, TypeStep, PTL DEF Spec

-----------------------------------------------------------------------------
(* False alarms *)

\* A query that got through came first; what is noted as down was down, or its
\* query was lost; so every reading in a streak of a service that was never
\* down is accounted for.
AlarmInv ==
  /\ at.query > 1 => at.through
  /\ \A k \in Watched :
       /\ truth[k] = "breached" => k \in wasDown
       /\ at.snap[k] = "breached" => k \in wasDown \cup at.lost
       /\ k \in wasDown \/ breach[k] <= torn[k] \/ torn[k] >= Sustain[k]
  /\ FalseAlarmIsEarned

LEMMA AlarmInit == Init => AlarmInv
BY QueryNumbers, MonitorAssumption
DEF Init, AlarmInv, FalseAlarmIsEarned, Asleep, Nothing, D!Init, D!Zero, D!Quiet

\* A step that leaves the detector and the histories alone.
LEMMA AlarmKeeps ==
  ASSUME AlarmInv, UNCHANGED <<truth, detector, wasDown, torn>>,
         at'.query > 1 => at'.through,
         \A k \in Watched : at'.snap[k] = "breached" => k \in wasDown \cup at'.lost
  PROVE  AlarmInv'
BY DEF AlarmInv, FalseAlarmIsEarned, detector

LEMMA AsleepKeeps ==
  ASSUME AlarmInv, UNCHANGED <<truth, detector, wasDown, torn>>, at' = Asleep \/
         at' = [Asleep EXCEPT !.pc = "check"]
  PROVE  AlarmInv'
<1>1. at'.query = 1 /\ \A k \in Watched : at'.snap[k] = "missing"
  BY QueryNumbers DEF Asleep, Nothing
<1> QED
  BY <1>1, AlarmKeeps

\* A query that failed is noted as lost, if it is a service's: one before it
\* had got through.
LEMMA FailedKeeps ==
  ASSUME TypeOK, AlarmInv, Failed, UNCHANGED <<truth, detector, wasDown, torn>>
  PROVE  AlarmInv'
<1>1. CASE Query \in Watched
  <2>1. at.through
    BY <1>1, MetricsFirst DEF AlarmInv, TypeOK, Query
  <2>2. /\ at'.through = TRUE /\ at'.lost = at.lost \cup {Query}
        /\ at'.snap = [at.snap EXCEPT ![Query] = "breached"]
    BY <1>1, <2>1 DEF Failed, FailedService, Proceed, TypeOK
  <2>3. \A k \in Watched : at'.snap[k] = "breached" => k \in wasDown \cup at'.lost
    BY <2>2, QueryNumbers DEF AlarmInv, TypeOK
  <2> QED
    BY <2>2, <2>3, AlarmKeeps
<1>2. CASE Query \notin Watched
  BY <1>2, AsleepKeeps DEF Failed
<1> QED
  BY <1>1, <1>2

LEMMA DetectsKeeps == TypeOK /\ AlarmInv /\ Detects => AlarmInv'
<1> SUFFICES ASSUME TypeOK, AlarmInv, Detects PROVE AlarmInv'
  OBVIOUS
<1>1. at' = Asleep /\ truth' = truth
  BY DEF Detects, sshVars
<1>2. at'.query = 1 /\ \A k \in Watched : at'.snap[k] = "missing"
  BY <1>1, QueryNumbers DEF Asleep, Nothing
<1>3. ASSUME NEW k \in Watched
      PROVE  /\ truth'[k] = "breached" => k \in wasDown'
             /\ k \in wasDown' \/ breach'[k] <= torn'[k] \/ torn'[k] >= Sustain[k]
             /\ events'[k] = "open" => k \in wasDown' \/ torn'[k] >= Sustain[k]
  <2>1. /\ k \in Kinds /\ Sustain[k] \in Nat \ {0}
        /\ breach[k] \in Nat /\ torn[k] \in Nat
    BY QueryNumbers, MonitorAssumption DEF TypeOK, D!TypeOK
  <2>2. CASE at.snap[k] = "normal"
    <3>1. breach'[k] = 0 /\ torn'[k] = 0
      BY <2>1, <2>2 DEF Detects, D!Check
    <3>2. events'[k] # "open"
      BY <2>1, <2>2 DEF Detects, D!Check, D!Opens
    <3>3. truth'[k] = "breached" => k \in wasDown'
      BY <1>1 DEF Detects, AlarmInv
    <3> QED
      BY <3>1, <3>2, <3>3
  <2>3. CASE at.snap[k] = "breached"
    <3>1. /\ breach'[k] = D!Longer(breach[k], k)
          /\ k \in wasDown => k \in wasDown'
          /\ torn'[k] = IF k \in at.lost /\ torn[k] < Sustain[k] THEN torn[k] + 1 ELSE torn[k]
      BY <2>1, <2>3 DEF Detects, D!Check
    <3>2. events'[k] = "open" => breach[k] + 1 = Sustain[k]
      BY <2>1 DEF Detects, D!Check, D!Opens
    <3>3. /\ k \in wasDown \cup at.lost
          /\ k \in wasDown \/ breach[k] <= torn[k] \/ torn[k] >= Sustain[k]
          /\ truth[k] = "breached" => k \in wasDown
      BY <2>3 DEF AlarmInv
    <3> QED
      BY <1>1, <2>1, <3>1, <3>2, <3>3 DEF D!Longer
  <2>4. CASE at.snap[k] \notin {"normal", "breached"}
    <3>1. /\ breach'[k] = breach[k]
          /\ k \in wasDown => k \in wasDown'
          /\ torn'[k] = IF k \in at.lost /\ torn[k] < Sustain[k] THEN torn[k] + 1 ELSE torn[k]
      BY <2>1, <2>4 DEF Detects, D!Check
    <3>2. events'[k] # "open"
      BY <2>1, <2>4 DEF Detects, D!Check, D!Opens
    <3> QED
      BY <1>1, <2>1, <3>1, <3>2 DEF AlarmInv
  <2> QED
    BY <2>2, <2>3, <2>4
<1> QED
  BY <1>2, <1>3 DEF AlarmInv, FalseAlarmIsEarned

LEMMA AlarmStep == TypeOK /\ AlarmInv /\ [Next]_vars => AlarmInv'
<1> SUFFICES ASSUME TypeOK, AlarmInv, [Next]_vars PROVE AlarmInv'
  OBVIOUS
<1>1. CASE Changes
  <2>1. PICK j \in Kinds, v \in {"breached", "normal"} :
          /\ truth' = [truth EXCEPT ![j] = v]
          /\ wasDown' = IF j \in Watched /\ v = "breached" THEN wasDown \cup {j} ELSE wasDown
    BY <1>1 DEF Changes
  <2>2. \A k \in Watched : truth'[k] = "breached" => k \in wasDown'
    BY <2>1, QueryNumbers DEF AlarmInv, TypeOK
  <2>3. wasDown \subseteq wasDown'
    BY <2>1
  <2> QED
    BY <1>1, <2>2, <2>3 DEF Changes, AlarmInv, FalseAlarmIsEarned, detector
<1>2. CASE Breaks \/ Noticed \/ UNCHANGED vars
  BY <1>2, AlarmKeeps DEF Breaks, Noticed, vars, AlarmInv
<1>3. CASE Wake \/ StoreFails
  BY <1>3, AsleepKeeps DEF Wake, StoreFails
<1>4. CASE CheckTransport \/ Connects \/ Send \/ Accepted
  <2>1. at'.query = at.query /\ at'.through = at.through /\ at'.snap = at.snap /\ at'.lost = at.lost
    BY <1>4 DEF CheckTransport, Connects, Send, Accepted, TypeOK
  <2> QED
    BY <1>4, <2>1, AlarmKeeps DEF CheckTransport, Connects, Send, Accepted, AlarmInv
<1>5. CASE ConnectFails \/ ExitFails
  BY <1>5, FailedKeeps DEF ConnectFails, ExitFails
<1>6. CASE Refused
  <2>1. CASE at' = [at EXCEPT !.pc = "connect", !.tried = TRUE]
    <3>1. at'.query = at.query /\ at'.through = at.through /\ at'.snap = at.snap /\ at'.lost = at.lost
      BY <2>1 DEF TypeOK
    <3> QED
      BY <1>6, <3>1, AlarmKeeps DEF Refused, AlarmInv
  <2> QED
    BY <1>6, <2>1, FailedKeeps DEF Refused
<1>7. CASE Exits
  <2>1. /\ at'.through = TRUE /\ at'.lost = at.lost
        /\ at'.snap = [at.snap EXCEPT ![Query] = truth[Query]]
    BY <1>7 DEF Exits, Answered, Proceed, TypeOK
  <2>2. \A k \in Watched : at'.snap[k] = "breached" => k \in wasDown \cup at'.lost
    BY <2>1, QueryNumbers DEF AlarmInv, TypeOK
  <2> QED
    BY <1>7, <2>1, <2>2, AlarmKeeps DEF Exits
<1>8. CASE Detects
  BY <1>8, DetectsKeeps
<1> QED
  BY <1>1, <1>2, <1>3, <1>4, <1>5, <1>6, <1>7, <1>8 DEF Next, Patrol

\* For any queries and streak lengths: a service that never was down is
\* reported down only after as many torn snapshots as its streak is long.
THEOREM AlarmsAreEarned == Spec => []FalseAlarmIsEarned
<1>1. AlarmInv => FalseAlarmIsEarned
  BY DEF AlarmInv
<1> QED
  BY <1>1, AlarmInit, AlarmStep, TypeInit, TypeStep, PTL DEF Spec
=============================================================================
