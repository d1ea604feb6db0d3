------------------------------ MODULE MCDetector ------------------------------
(***************************************************************************)
(* Detector next to a history of what it was shown: the reference that its *)
(* two counters and its set are compared with.                             *)
(***************************************************************************)
EXTENDS Detector

CONSTANT MaxHistory  \* bound on the snapshots between two restarts

VARIABLES
  seen,    \* seen[k]: the readings of k since the last restart, oldest first,
           \* snapshots without the field left out
  latest,  \* the readings of the last snapshot
  known    \* kinds on record at the last restart

mcVars == <<vars, seen, latest, known>>

MCSustain == [k \in Kinds |-> IF k = "cpu" THEN 3 ELSE 2]

MCInit ==
  /\ Init
  /\ seen   = [k \in Kinds |-> << >>]
  /\ latest = [k \in Kinds |-> "missing"]
  /\ known  = openKinds

Watch(reading) ==
  /\ \A k \in Kinds : Len(seen[k]) < MaxHistory
  /\ Check(reading)
  /\ seen' = [k \in Kinds |-> IF reading[k] = "missing" THEN seen[k]
                              ELSE Append(seen[k], reading[k])]
  /\ latest' = reading
  /\ UNCHANGED known

Reboot(kinds) ==
  /\ Restart(kinds)
  /\ seen'   = [k \in Kinds |-> << >>]
  /\ latest' = [k \in Kinds |-> "missing"]
  /\ known'  = kinds

MCNext ==
  \/ \E reading \in [Kinds -> Readings] : Watch(reading)
  \/ \E kinds \in SUBSET Kinds : Reboot(kinds)

MCSpec == MCInit /\ [][MCNext]_mcVars

-----------------------------------------------------------------------------
\* The history of k ends in a run of exactly Sustain[k] readings v.
JustConfirmed(k, v) ==
  LET n == Len(seen[k]) s == Sustain[k] IN
    /\ latest[k] = v
    /\ n >= s
    /\ \A j \in n - s + 1 .. n : seen[k][j] = v
    /\ n = s \/ seen[k][n - s] # v

\* Since the restart, k has been breached Sustain[k] times in a row.
WasConfirmed(k) ==
  \E m \in 0 .. Len(seen[k]) - Sustain[k] :
    \A j \in m + 1 .. m + Sustain[k] : seen[k][j] = "breached"

\* "open" is reported exactly when a run of breaches reaches the length that
\* confirms it: not earlier, not again while it lasts, and a snapshot without
\* the field neither counts nor interrupts the run.
OpensExactlyOnce ==
  \A k \in Kinds : events[k] = "open" <=> JustConfirmed(k, "breached")

\* "resolve" is reported exactly when a run of normal readings reaches its
\* length, and only for a kind this process has opened or found on record.
ResolvesExactlyOnce ==
  \A k \in Kinds :
    events[k] = "resolve" <=>
      JustConfirmed(k, "normal") /\ (k \in known \/ WasConfirmed(k))
=============================================================================
