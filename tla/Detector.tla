------------------------------- MODULE Detector -------------------------------
(***************************************************************************)
(* The debouncing detector (detect/detector.py): a stream of snapshots in, *)
(* at most one "open" or "resolve" event per kind and snapshot out.        *)
(*                                                                         *)
(* The state is per kind, in memory only: two streaks and the set of kinds *)
(* ever opened, which a restart reloads from the incidents table.          *)
(***************************************************************************)
EXTENDS Integers, Sequences

CONSTANTS
  Kinds,    \* rule keys and "service_down:<name>"
  Sustain   \* Sustain[k]: checks in a row that confirm a change of kind k

ASSUME DetectorAssumption == Sustain \in [Kinds -> Nat \ {0}]

VARIABLES
  breach,     \* _breach_streak
  okay,       \* _ok_streak
  openKinds,  \* open_kinds, which only ever grows
  events      \* events[k]: what the last check() returned for k

vars == <<breach, okay, openKinds, events>>

\* What a snapshot says of a kind; a field may be missing from a snapshot.
Readings == {"breached", "normal", "missing"}

TypeOK ==
  /\ breach    \in [Kinds -> Nat]
  /\ okay      \in [Kinds -> Nat]
  /\ openKinds \in SUBSET Kinds
  /\ events    \in [Kinds -> {"none", "open", "resolve"}]

\* The code counts without limit and asks only whether a streak equals
\* Sustain[k], so a streak that has passed it may stay one above.
Longer(n, k) == IF n <= Sustain[k] THEN n + 1 ELSE n

Zero  == [k \in Kinds |-> 0]
Quiet == [k \in Kinds |-> "none"]

Init ==
  /\ breach = Zero /\ okay = Zero
  /\ openKinds \in SUBSET Kinds
  /\ events = Quiet

\* (Mutant: >= for =.  Like every definition marked so here, it is the next one
\* with a plausible bug, and takes no part in Spec.)
OpensAgain(k, reading) == reading[k] = "breached" /\ breach[k] + 1 >= Sustain[k]

\* _track, breached branch: the event fires when the streak reaches Sustain.
Opens(k, reading) == reading[k] = "breached" /\ breach[k] + 1 = Sustain[k]

\* (Mutant: any kind resolves, opened or not.)
ResolvesAny(k, reading) == reading[k] = "normal" /\ okay[k] + 1 = Sustain[k]

\* _track, other branch.
Resolves(k, reading) ==
  reading[k] = "normal" /\ okay[k] + 1 = Sustain[k] /\ k \in openKinds

\* check(snap), for every rule and every service of the snapshot.
Check(reading) ==
  /\ breach' = [k \in Kinds |->
       CASE reading[k] = "breached" -> Longer(breach[k], k)
         [] reading[k] = "normal"   -> 0
         [] OTHER                   -> breach[k]]
  /\ okay' = [k \in Kinds |->
       CASE reading[k] = "breached" -> 0
         [] reading[k] = "normal"   -> Longer(okay[k], k)
         [] OTHER                   -> okay[k]]
  /\ openKinds' = openKinds \cup {k \in Kinds : Opens(k, reading)}
  /\ events' = [k \in Kinds |->
       IF Opens(k, reading) THEN "open"
       ELSE IF Resolves(k, reading) THEN "resolve" ELSE "none"]

\* The process restarts: the streaks are gone, and the kinds on record come
\* from find_open_kind_set.
Restart(known) ==
  /\ breach' = Zero /\ okay' = Zero
  /\ openKinds' = known
  /\ events' = Quiet

Next ==
  \/ \E reading \in [Kinds -> Readings] : Check(reading)
  \/ \E known \in SUBSET Kinds : Restart(known)

Spec == Init /\ [][Next]_vars
=============================================================================
