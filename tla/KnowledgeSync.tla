----------------------------- MODULE KnowledgeSync -----------------------------
(***************************************************************************)
(* KnowledgeSyncCoordinator (knowledge/background.py): notify() wakes one  *)
(* background worker, which waits a moment, syncs with retries, and goes   *)
(* round again if it was notified meanwhile.  An action lies between two   *)
(* acquisitions of the lock, or of the pool's own state.                   *)
(*                                                                         *)
(* A definition marked "Mutant" is the one after it with a plausible bug.  *)
(***************************************************************************)
EXTENDS Integers

CONSTANT MaxAttempts    \* max_attempts, at least 1: Knowledge assumes it

VARIABLES
  dirty,     \* _dirty
  stopped,   \* _stopped
  waiting,   \* _run tasks submitted to the one-thread pool and not begun
  worker,    \* where the pool's thread is in _run, and which attempt it is at
  owed       \* history: a notification was accepted and no sync began since

syncVars == <<dirty, stopped, waiting, worker, owed>>

\* "nap": debouncing; "sync": in sync_fn; "pause": between two attempts;
\* "check": attempts over, before the lock; "leaving": the decision to return
\* is made and the lock released, but the future is not done yet.
WorkerStates == [pc : {"idle", "nap", "sync", "pause", "check", "leaving"},
                 attempt : 0..MaxAttempts]

TypeOK ==
  /\ dirty \in BOOLEAN /\ stopped \in BOOLEAN /\ owed \in BOOLEAN
  /\ waiting \in Nat
  /\ worker \in WorkerStates

Resting == [pc |-> "idle", attempt |-> 0]
Init == dirty = FALSE /\ stopped = FALSE /\ waiting = 0 /\ worker = Resting /\ owed = FALSE

\* self._future is None or self._future.done(): the thread takes one task after
\* the other, so the last one submitted is done when nothing is left.
FutureDone == waiting = 0 /\ worker.pc = "idle"

\* A notification that comes after the last look at _dirty and before the
\* future is done goes unheard.
Unheard == worker.pc = "leaving" /\ waiting = 0

\* (Mutant: a task for every notification.)
NotifyAlways ==
  /\ dirty' = IF stopped THEN dirty ELSE TRUE
  /\ waiting' = IF stopped THEN waiting ELSE waiting + 1
  /\ owed' = (owed \/ ~stopped)
  /\ UNCHANGED <<stopped, worker>>

Notify ==
  /\ dirty' = IF stopped THEN dirty ELSE TRUE
  /\ waiting' = IF ~stopped /\ FutureDone THEN waiting + 1 ELSE waiting
  /\ owed' = (owed \/ (~stopped /\ ~Unheard))
  /\ UNCHANGED <<stopped, worker>>

Begin ==
  /\ waiting > 0 /\ worker.pc = "idle"
  /\ waiting' = waiting - 1
  /\ worker' = [worker EXCEPT !.pc = "nap"]
  /\ UNCHANGED <<dirty, stopped, owed>>

StartSync ==
  /\ worker.pc = "nap"
  /\ dirty' = FALSE
  /\ worker' = [pc |-> "sync", attempt |-> 1]
  /\ owed' = FALSE
  /\ UNCHANGED <<stopped, waiting>>

\* (Mutant: the flag is cleared when the sync is over, not before it.)
SyncReturnsClears ==
  /\ worker.pc = "sync"
  /\ worker' = [worker EXCEPT !.pc = "check"]
  /\ dirty' = FALSE
  /\ UNCHANGED <<stopped, waiting, owed>>

SyncReturns ==
  /\ worker.pc = "sync"
  /\ worker' = [worker EXCEPT !.pc = "check"]
  /\ UNCHANGED <<dirty, stopped, waiting, owed>>

\* The exception is logged.  The last attempt is not followed by a pause.
SyncRaises ==
  /\ worker.pc = "sync"
  /\ worker' = [worker EXCEPT !.pc = IF worker.attempt < MaxAttempts THEN "pause" ELSE "check"]
  /\ UNCHANGED <<dirty, stopped, waiting, owed>>

TryAgain ==
  /\ worker.pc = "pause"
  /\ worker' = [pc |-> "sync", attempt |-> worker.attempt + 1]
  /\ UNCHANGED <<dirty, stopped, waiting, owed>>

Decide ==
  /\ worker.pc = "check"
  /\ worker' = [pc |-> IF dirty /\ ~stopped THEN "nap" ELSE "leaving", attempt |-> 0]
  /\ UNCHANGED <<dirty, stopped, waiting, owed>>

Leave ==
  /\ worker.pc = "leaving"
  /\ worker' = Resting
  /\ UNCHANGED <<dirty, stopped, waiting, owed>>

\* stop() sets the flag; its shutdown(wait=True) then waits for FutureDone.
Stop ==
  /\ ~stopped
  /\ stopped' = TRUE
  /\ UNCHANGED <<dirty, waiting, worker, owed>>

\* A new process has a new coordinator.
NewProcess ==
  dirty' = FALSE /\ stopped' = FALSE /\ waiting' = 0 /\ worker' = Resting /\ owed' = FALSE

\* What the worker does by itself; sync_fn returns or raises.
Work == Begin \/ StartSync \/ TryAgain \/ Decide \/ Leave

Next == Notify \/ Work \/ SyncReturns \/ SyncRaises \/ Stop

Spec == Init /\ [][Next]_syncVars
-----------------------------------------------------------------------------
\* Coalescing: however notifications fall, at most one _run task exists, so
\* two syncs of one process never overlap.
OneWorker == waiting + (IF worker.pc = "idle" THEN 0 ELSE 1) <= 1

\* A notification accepted outside the exit window is never dropped: until a
\* sync begins after it, the worker is on its way to one, or stop() was called.
HeardIsKept ==
  owed => \/ waiting > 0 \/ worker.pc = "nap"
          \/ dirty /\ worker.pc \in {"sync", "pause", "check"}
          \/ stopped

=============================================================================
