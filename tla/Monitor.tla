------------------------------- MODULE Monitor -------------------------------
(***************************************************************************)
(* The patrol of monitor/scheduler.py: collect a snapshot over SSH, store   *)
(* it, show it to the detector, sleep.  The queries of one snapshot go one *)
(* after the other (monitor/collector.py) through SSHClient.run            *)
(* (ssh/ssh_client.py), which reconnects, and repeats a command once.      *)
(*                                                                         *)
(* Every query is about one kind of the Detector: a metric, or a service.  *)
(* Its truth is "breached" or "normal" (for a service: not active, active).*)
(*                                                                         *)
(* A definition marked "Mutant" is the one after it with a plausible bug.  *)
(***************************************************************************)
EXTENDS Integers, Sequences, Functions

CONSTANTS
  Metrics, Services,    \* sequences: the queries of a snapshot, in order
  Sustain               \* see Detector

Queries == Metrics \o Services
Kinds   == Range(Queries)

ASSUME MonitorAssumption ==
  /\ Metrics \in Seq(STRING) /\ Services \in Seq(STRING)
  /\ Metrics # <<>> /\ Sustain \in [Kinds -> Nat \ {0}]
  /\ \A i, j \in DOMAIN Queries : Queries[i] = Queries[j] => i = j

VARIABLES
  truth,     \* of each kind, on the server
  link,      \* the connection: "up"; "cut", with notice; "gone", without
  active,    \* transport.is_active()
  at,        \* where the patrol is, with the locals of collect and run
  runs,      \* history: how often this call of run has started its command
  \* the Detector's
  breach, okay, openKinds, events,
  wasDown,   \* history: services that were down since last seen active
  torn       \* history: of each service, snapshots since then in which its query
             \* failed after another one had got through, up to Sustain

D == INSTANCE Detector

sshVars  == <<link, active, runs>>
detector == <<breach, okay, openKinds, events>>
vars     == <<truth, sshVars, at, detector, wasDown, torn>>

Watched == Range(Services)

Nothing == [k \in Kinds |-> "missing"]

\* query: index of the query under way; tried: its command was sent before.
\* History: through: a query of this snapshot was answered; lost: the services
\* whose query failed after that.
Asleep == [pc |-> "asleep", query |-> 1, tried |-> FALSE, snap |-> Nothing,
           through |-> FALSE, lost |-> {}]

TypeOK ==
  /\ truth \in [Kinds -> {"breached", "normal"}]
  /\ link \in {"up", "cut", "gone"} /\ active \in BOOLEAN
  /\ at \in [pc : {"asleep", "check", "connect", "send", "reply", "wait", "store"},
             query : DOMAIN Queries, tried : BOOLEAN,
             snap : [Kinds -> D!Readings], through : BOOLEAN, lost : SUBSET Watched]
  /\ runs \in Nat
  /\ D!TypeOK
  /\ wasDown \subseteq Watched /\ torn \in [Watched -> Nat]

Init ==
  /\ truth \in [Kinds -> {"breached", "normal"}]
  /\ link = "up" /\ active = TRUE
  /\ at = Asleep /\ runs = 0
  /\ D!Init
  /\ wasDown = {k \in Watched : truth[k] = "breached"}
  /\ torn = [k \in Watched |-> 0]

-----------------------------------------------------------------------------
\* The server and the network.
Changes ==
  /\ \E k \in Kinds, v \in {"breached", "normal"} :
       /\ truth' = [truth EXCEPT ![k] = v]
       /\ wasDown' = IF k \in Watched /\ v = "breached" THEN wasDown \cup {k} ELSE wasDown
  /\ UNCHANGED <<sshVars, at, detector, torn>>

Breaks ==
  /\ link = "up"
  /\ link' \in {"cut", "gone"}
  /\ UNCHANGED <<truth, active, at, runs, detector, wasDown, torn>>

\* A silent peer is missed only by a side that has sent something: no keepalive
\* is set, and recv_exit_status waits without limit.
Noticed ==
  /\ active
  /\ link = "cut" \/ (link = "gone" /\ at.pc = "reply")
  /\ active' = FALSE
  /\ UNCHANGED <<truth, link, at, runs, detector, wasDown, torn>>

-----------------------------------------------------------------------------
\* collect
Query == Queries[at.query]

Wake ==
  /\ at.pc = "asleep"
  /\ at' = [Asleep EXCEPT !.pc = "check"]
  /\ runs' = 0
  /\ UNCHANGED <<truth, link, active, detector, wasDown, torn>>

\* The reading of this query is noted, and the next one is begun.
Proceed(reading, through, lost) ==
  /\ at' = [at EXCEPT !.snap[Query] = reading, !.tried = FALSE,
                      !.through = through, !.lost = lost,
                      !.query = IF @ < Len(Queries) THEN @ + 1 ELSE @,
                      !.pc = IF at.query < Len(Queries) THEN "check" ELSE "store"]
  /\ runs' = 0

Answered(reading) == Proceed(reading, TRUE, at.lost)

FailedService ==
  Proceed("breached", at.through, IF at.through THEN at.lost \cup {Query} ELSE at.lost)

\* (Mutant: a metric that failed is left out of the snapshot.)
FailedOn ==
  IF Query \in Watched THEN FailedService
  ELSE Proceed("missing", at.through, at.lost)

\* A failed query of a service makes it "unknown", which is not "active"; a
\* metric's makes the snapshot void.
Failed == IF Query \in Watched THEN FailedService ELSE at' = Asleep /\ runs' = 0

-----------------------------------------------------------------------------
\* run
CheckTransport ==
  /\ at.pc = "check"
  /\ at' = [at EXCEPT !.pc = IF active THEN "send" ELSE "connect"]
  /\ UNCHANGED <<truth, sshVars, detector, wasDown, torn>>

Connects ==
  /\ at.pc = "connect"
  /\ link' = "up" /\ active' = TRUE
  /\ at' = [at EXCEPT !.pc = "send"]
  /\ UNCHANGED <<truth, runs, detector, wasDown, torn>>

\* (Mutant: reconnecting goes on until it succeeds.)
ConnectFailsAgain ==
  /\ at.pc = "connect"
  /\ at' = [at EXCEPT !.pc = "check"]
  /\ UNCHANGED <<truth, sshVars, detector, wasDown, torn>>

ConnectFails ==
  /\ at.pc = "connect"
  /\ link' = "cut" /\ active' = FALSE
  /\ Failed
  /\ UNCHANGED <<truth, detector, wasDown, torn>>

\* The request leaves; if it arrives the server starts the command.
Send ==
  /\ at.pc = "send" /\ active
  /\ at' = [at EXCEPT !.pc = "reply"]
  /\ runs' = IF link = "up" THEN runs + 1 ELSE runs
  /\ UNCHANGED <<truth, link, active, detector, wasDown, torn>>

Accepted ==
  /\ at.pc = "reply" /\ link = "up"
  /\ at' = [at EXCEPT !.pc = "wait"]
  /\ UNCHANGED <<truth, sshVars, detector, wasDown, torn>>

\* (Mutant: the command is repeated as long as it is refused.)
RefusedAgain ==
  /\ at.pc \in {"send", "reply"}
  /\ at' = [at EXCEPT !.pc = "connect", !.tried = TRUE]
  /\ UNCHANGED <<truth, sshVars, detector, wasDown, torn>>

\* SSHException instead of a reply, because the connection was lost or because
\* the server refuses the channel or the request on one that is alive: once,
\* reconnect and send again.  Any other exception (EOFError) is not caught.
Refused ==
  /\ at.pc \in {"send", "reply"}
  /\ \/ /\ ~at.tried
        /\ at' = [at EXCEPT !.pc = "connect", !.tried = TRUE]
        /\ UNCHANGED runs
     \/ Failed
  /\ UNCHANGED <<truth, link, active, detector, wasDown, torn>>

\* The command has ended, its output is read.  It need not end, on a live
\* connection either, and recv_exit_status waits without limit.
Exits ==
  /\ at.pc = "wait" /\ link = "up"
  /\ Answered(truth[Query])
  /\ UNCHANGED <<truth, link, active, detector, wasDown, torn>>

\* The exit code of a connection that was lost is -1, without output; the
\* output of a command that gives none in time is a TimeoutError.
ExitFails ==
  /\ at.pc = "wait" /\ (~active \/ link = "up")
  /\ Failed
  /\ UNCHANGED <<truth, link, active, detector, wasDown, torn>>

-----------------------------------------------------------------------------
\* The snapshot is committed, then shown to the detector.
Detects ==
  /\ at.pc = "store"
  /\ D!Check(at.snap)
  /\ at' = Asleep
  /\ LET well == {k \in Watched : at.snap[k] = "normal"} IN
     /\ torn' = [k \in Watched |-> IF k \in well THEN 0
                                   ELSE IF k \in at.lost /\ torn[k] < Sustain[k] THEN torn[k] + 1
                                   ELSE torn[k]]
     /\ wasDown' = wasDown \ {k \in well : truth[k] = "normal"}
  /\ UNCHANGED <<truth, sshVars>>

\* The commit raises; the loop goes on.
StoreFails ==
  /\ at.pc = "store"
  /\ at' = Asleep
  /\ UNCHANGED <<truth, sshVars, detector, wasDown, torn>>

Patrol ==
  \/ Wake \/ CheckTransport \/ Connects \/ ConnectFails \/ Send
  \/ Accepted \/ Refused \/ Exits \/ ExitFails \/ Detects \/ StoreFails

Next == Changes \/ Breaks \/ Noticed \/ Patrol

Spec     == Init /\ [][Next]_vars

\* The patrol waits for the server, which owes it nothing: neither the wait for
\* the reply to a request nor recv_exit_status has a limit.
Waiting == at.pc \in {"reply", "wait"}

\* The patrol goes on with what it can do by itself; connecting has a time limit.
FairSpec == Spec /\ WF_vars(Patrol /\ ~Waiting)
-----------------------------------------------------------------------------
\* run starts its command twice at most, and once unless the first request went
\* unanswered.
RunsTwiceAtMost == runs <= (IF at.tried THEN 2 ELSE 1)

\* An outage alone raises no alarm about services, however long it lasts: if a
\* service that never was down is reported down, then its query failed within a
\* snapshot, behind one that got through, as many times as it takes readings to
\* confirm a service as down.
FalseAlarmIsEarned ==
  \A k \in Watched : events[k] = "open" => k \in wasDown \/ torn[k] >= Sustain[k]

\* Whatever connections and queries fail, a snapshot under way comes to an end:
\* only a server that is waited for and never answers holds up the patrol.
EverySnapshotEnds == []<>~Waiting => (at.pc # "asleep" ~> at.pc = "asleep")
=============================================================================
