---------------------------- MODULE DetectorProofs ----------------------------
(***************************************************************************)
(* The detector's two counters and its set are what a reader of the whole  *)
(* history would compute: every event the detector returns is decided from *)
(* the readings themselves, for every Sustain and every history.           *)
(***************************************************************************)
EXTENDS MCDetector, TLAPS

\* The counter c of the readings v that end the history s: it is exact up to n
\* and stops at n + 1, and the reading before those it counts was another.
Counts(c, s, v, n) ==
  /\ c \in 0 .. n + 1
  /\ c <= Len(s)
  /\ \A j \in Len(s) - c + 1 .. Len(s) : s[j] = v
  /\ c = n + 1 \/ c = Len(s) \/ s[Len(s) - c] # v

\* The last n readings of s are v, and no more than n.
EndsInRun(s, v, n) ==
  /\ Len(s) >= n
  /\ \A j \in Len(s) - n + 1 .. Len(s) : s[j] = v
  /\ Len(s) = n \/ s[Len(s) - n] # v

\* s holds n readings v in a row.
HoldsRun(s, v, n) ==
  \E m \in 0 .. Len(s) - n : \A j \in m + 1 .. m + n : s[j] = v

\* What is remembered of the history: its type, ...
HistoryTypeOK ==
  /\ seen   \in [Kinds -> Seq({"breached", "normal"})]
  /\ latest \in [Kinds -> Readings]
  /\ known  \subseteq Kinds

\* ... the counters as lengths of its last run, ...
CountInv ==
  \A k \in Kinds :
    /\ Counts(breach[k], seen[k], "breached", Sustain[k])
    /\ Counts(okay[k], seen[k], "normal", Sustain[k])

\* ... the set as the kinds once confirmed, and ...
OpenInv ==
  \A k \in Kinds :
    k \in openKinds <=> k \in known \/ HoldsRun(seen[k], "breached", Sustain[k])

\* ... the last events as the counters that the last snapshot brought to Sustain.
EventInv ==
  \A k \in Kinds :
    /\ events[k] = "open" <=> latest[k] = "breached" /\ breach[k] = Sustain[k]
    /\ events[k] = "resolve" <=>
         latest[k] = "normal" /\ okay[k] = Sustain[k] /\ k \in openKinds

IInv == TypeOK /\ HistoryTypeOK /\ CountInv /\ OpenInv /\ EventInv

-----------------------------------------------------------------------------
\* A counter is at n exactly when the history ends in a run of n.
LEMMA ExactAtSustain ==
  ASSUME NEW S, NEW s \in Seq(S), NEW v, NEW c, NEW n \in Nat \ {0},
         Counts(c, s, v, n)
  PROVE  c = n <=> EndsInRun(s, v, n)
<1> c \in 0 .. n + 1 /\ Len(s) \in Nat
  BY DEF Counts
<1>1. CASE c < n
  <2>1. c = Len(s) \/ s[Len(s) - c] # v
    BY <1>1 DEF Counts
  <2>2. Len(s) >= n => Len(s) - c \in Len(s) - n + 1 .. Len(s)
    BY <1>1
  <2> QED BY <1>1, <2>1, <2>2 DEF EndsInRun
<1>2. CASE c = n
  BY <1>2 DEF Counts, EndsInRun
<1>3. CASE c = n + 1
  <2>1. Len(s) - n \in Len(s) - c + 1 .. Len(s) /\ Len(s) # n
    BY <1>3 DEF Counts
  <2>2. s[Len(s) - n] = v
    BY <2>1 DEF Counts
  <2> QED BY <1>3, <2>1, <2>2 DEF EndsInRun
<1> QED BY <1>1, <1>2, <1>3

\* A reading more of v makes the counter Longer, up to n + 1.
LEMMA CountsOn ==
  ASSUME NEW S, NEW s \in Seq(S), NEW v \in S, NEW c, NEW n \in Nat \ {0},
         Counts(c, s, v, n)
  PROVE  Counts(IF c <= n THEN c + 1 ELSE c, Append(s, v), v, n)
<1> DEFINE t == Append(s, v)
           d == IF c <= n THEN c + 1 ELSE c
<1>1. c \in 0 .. n + 1 /\ Len(s) \in Nat /\ c <= Len(s)
  BY DEF Counts
<1>2. /\ t \in Seq(S) /\ Len(t) = Len(s) + 1 /\ t[Len(s) + 1] = v
      /\ \A j \in 1 .. Len(s) : t[j] = s[j]
  OBVIOUS
<1> HIDE DEF t
<1>3. \A j \in Len(t) - d + 1 .. Len(t) : t[j] = v
  <2> TAKE j \in Len(t) - d + 1 .. Len(t)
  <2>1. CASE j = Len(s) + 1
    BY <2>1, <1>2
  <2>2. CASE j # Len(s) + 1
    <3>1. j \in Len(s) - c + 1 .. Len(s) /\ j \in 1 .. Len(s)
      BY <2>2, <1>1, <1>2
    <3> QED BY <3>1, <1>2 DEF Counts
  <2> QED BY <2>1, <2>2
<1>4. d = n + 1 \/ d = Len(t) \/ t[Len(t) - d] # v
  <2>1. CASE c >= n
    BY <2>1, <1>1
  <2>2. CASE c < n /\ c # Len(s)
    <3>1. s[Len(s) - c] # v /\ Len(s) - c \in 1 .. Len(s) /\ Len(t) - d = Len(s) - c
      BY <2>2, <1>1, <1>2 DEF Counts
    <3> QED BY <3>1, <1>2
  <2>3. CASE c < n /\ c = Len(s)
    <3>1. d = c + 1
      BY <2>3, <1>1
    <3>2. d = Len(t)
      BY <2>3, <3>1, <1>2
    <3> QED BY <3>2
  <2> QED BY <2>1, <2>2, <2>3, <1>1
<1> QED BY <1>1, <1>2, <1>3, <1>4 DEF Counts

\* Another reading starts it again at zero.
LEMMA CountsAgain ==
  ASSUME NEW S, NEW s \in Seq(S), NEW v, NEW w \in S, w # v, NEW n \in Nat \ {0}
  PROVE  Counts(0, Append(s, w), v, n)
<1>1. Len(Append(s, w)) = Len(s) + 1 /\ Append(s, w)[Len(s) + 1] = w /\ Len(s) \in Nat
  OBVIOUS
<1> QED BY <1>1 DEF Counts

\* A reading more adds a run of n only when the counter reaches n with it: a
\* counter already past n has seen a run before.
LEMMA RunIsNew ==
  ASSUME NEW S, NEW s \in Seq(S), NEW v \in S, NEW w \in S, NEW c,
         NEW n \in Nat \ {0}, Counts(c, s, v, n)
  PROVE  HoldsRun(Append(s, w), v, n) <=> HoldsRun(s, v, n) \/ (w = v /\ c + 1 = n)
<1> DEFINE t == Append(s, w)
<1>1. c \in 0 .. n + 1 /\ Len(s) \in Nat /\ c <= Len(s)
  BY DEF Counts
<1>2. /\ Len(t) = Len(s) + 1 /\ t[Len(s) + 1] = w
      /\ \A j \in 1 .. Len(s) : t[j] = s[j]
  OBVIOUS
<1> HIDE DEF t
<1>3. ASSUME HoldsRun(s, v, n) PROVE HoldsRun(t, v, n)
  <2>1. PICK m \in 0 .. Len(s) - n : \A j \in m + 1 .. m + n : s[j] = v
    BY <1>3 DEF HoldsRun
  <2>2. \A j \in m + 1 .. m + n : t[j] = v
    BY <2>1, <1>1, <1>2
  <2>3. m \in 0 .. Len(t) - n
    BY <1>1, <1>2
  <2> QED BY <2>2, <2>3 DEF HoldsRun
<1>4. ASSUME w = v, c + 1 = n PROVE HoldsRun(t, v, n)
  <2>1. Len(s) - c \in 0 .. Len(t) - n
    BY <1>1, <1>2, <1>4
  <2>2. ASSUME NEW j \in Len(s) - c + 1 .. Len(s) - c + n PROVE t[j] = v
    <3>1. CASE j = Len(s) + 1
      BY <3>1, <1>2, <1>4
    <3>2. CASE j # Len(s) + 1
      <4>1. j \in Len(s) - c + 1 .. Len(s) /\ j \in 1 .. Len(s)
        BY <3>2, <1>1, <1>4
      <4> QED BY <4>1, <1>2 DEF Counts
    <3> QED BY <3>1, <3>2
  <2> QED BY <2>1, <2>2 DEF HoldsRun
<1>5. ASSUME HoldsRun(t, v, n), ~ HoldsRun(s, v, n) PROVE w = v /\ c + 1 = n
  <2>1. PICK m \in 0 .. Len(t) - n : \A j \in m + 1 .. m + n : t[j] = v
    BY <1>5 DEF HoldsRun
  <2>2. m = Len(s) + 1 - n
    <3>1. SUFFICES ASSUME m # Len(s) + 1 - n PROVE FALSE
      OBVIOUS
    <3>2. m \in 0 .. Len(s) - n
      BY <3>1, <1>1, <1>2
    <3>3. \A j \in m + 1 .. m + n : s[j] = v
      BY <2>1, <3>2, <1>1, <1>2
    <3> QED BY <3>2, <3>3, <1>5 DEF HoldsRun
  <2>3. w = v
    <3>1. Len(s) + 1 \in m + 1 .. m + n
      BY <2>2, <1>1
    <3> QED BY <3>1, <2>1, <1>2
  <2>4. c < n
    <3>1. SUFFICES ASSUME c >= n PROVE FALSE
      BY <1>1
    <3>2. Len(s) - n \in 0 .. Len(s) - n
      BY <3>1, <1>1
    <3>3. \A j \in Len(s) - n + 1 .. Len(s) - n + n : s[j] = v
      BY <3>1, <1>1 DEF Counts
    <3> QED BY <3>2, <3>3, <1>5 DEF HoldsRun
  <2>5. c >= n - 1
    <3>1. SUFFICES ASSUME c < n - 1 PROVE FALSE
      BY <1>1
    <3>2. Len(s) - c \in m + 1 .. m + n /\ Len(s) - c \in 1 .. Len(s)
      BY <3>1, <2>2, <1>1, <1>2
    <3>3. s[Len(s) - c] = v
      BY <3>2, <2>1, <1>2
    <3> QED BY <3>1, <3>2, <3>3, <1>1 DEF Counts
  <2> QED BY <2>3, <2>4, <2>5, <1>1
<1> QED BY <1>3, <1>4, <1>5 DEF t

-----------------------------------------------------------------------------
LEMMA Empties ==
  ASSUME NEW v, NEW n \in Nat \ {0}
  PROVE  Counts(0, << >>, v, n) /\ ~ HoldsRun(<< >>, v, n)
BY DEF Counts, HoldsRun

\* Before the first snapshot, and after every restart, nothing is counted.
LEMMA NothingSeen ==
  ASSUME breach = Zero, okay = Zero, events = Quiet, openKinds \in SUBSET Kinds,
         seen = [k \in Kinds |-> << >>], latest = [k \in Kinds |-> "missing"],
         known = openKinds
  PROVE  IInv
<1>1. TypeOK /\ HistoryTypeOK
  BY DEF TypeOK, HistoryTypeOK, Zero, Quiet, Readings
<1>2. CountInv /\ OpenInv
  BY Empties, DetectorAssumption DEF CountInv, OpenInv, Zero
<1>3. EventInv
  BY DEF EventInv, Quiet
<1> QED BY <1>1, <1>2, <1>3 DEF IInv

LEMMA WatchStep ==
  ASSUME IInv, NEW reading \in [Kinds -> Readings], Watch(reading)
  PROVE  IInv'
<1> USE DetectorAssumption
<1>a. Check(reading)
  BY DEF Watch
<1>b. TypeOK /\ HistoryTypeOK /\ CountInv /\ OpenInv /\ EventInv
  BY DEF IInv
<1>1. TypeOK' /\ HistoryTypeOK'
  <2>1. breach' \in [Kinds -> Nat] /\ okay' \in [Kinds -> Nat]
    BY <1>a, <1>b DEF Check, TypeOK, Longer, Readings
  <2>2. openKinds' \in SUBSET Kinds /\ events' \in [Kinds -> {"none", "open", "resolve"}]
    BY <1>a, <1>b DEF Check, TypeOK
  <2>3. seen' \in [Kinds -> Seq({"breached", "normal"})]
    BY <1>b DEF Watch, HistoryTypeOK, Readings
  <2> QED BY <2>1, <2>2, <2>3, <1>b DEF TypeOK, HistoryTypeOK, Watch
<1>2. ASSUME NEW k \in Kinds
      PROVE  /\ Counts(breach[k], seen[k], "breached", Sustain[k])'
             /\ Counts(okay[k], seen[k], "normal", Sustain[k])'
             /\ (k \in openKinds <=> k \in known \/ HoldsRun(seen[k], "breached", Sustain[k]))'
             /\ (events[k] = "open" <=> latest[k] = "breached" /\ breach[k] = Sustain[k])'
             /\ (events[k] = "resolve" <=>
                   latest[k] = "normal" /\ okay[k] = Sustain[k] /\ k \in openKinds)'
  <2> DEFINE s == seen[k]
             n == Sustain[k]
             b == breach[k]
             c == okay[k]
  <2>1. /\ s \in Seq({"breached", "normal"}) /\ n \in Nat \ {0}
        /\ b \in Nat /\ c \in Nat
        /\ Counts(b, s, "breached", n) /\ Counts(c, s, "normal", n)
        /\ k \in openKinds <=> k \in known \/ HoldsRun(s, "breached", n)
    BY <1>b DEF TypeOK, HistoryTypeOK, CountInv, OpenInv
  <2>2. /\ latest'[k] = reading[k] /\ known' = known
        /\ seen'[k] = IF reading[k] = "missing" THEN s ELSE Append(s, reading[k])
    BY DEF Watch
  <2>3. /\ events'[k] = "open" <=> Opens(k, reading)
        /\ events'[k] = "resolve" <=> Resolves(k, reading)
        /\ k \in openKinds' <=> k \in openKinds \/ Opens(k, reading)
    BY <1>a DEF Check, Opens, Resolves
  <2>4. CASE reading[k] = "breached"
    <3>1. /\ breach'[k] = (IF b <= n THEN b + 1 ELSE b) /\ okay'[k] = 0
          /\ seen'[k] = Append(s, "breached")
      BY <1>a, <2>2, <2>4 DEF Check, Longer
    <3>2. Counts(breach'[k], seen'[k], "breached", n)
      BY <3>1, <2>1, CountsOn
    <3>3. Counts(okay'[k], seen'[k], "normal", n)
      BY <3>1, <2>1, CountsAgain
    <3>4. breach'[k] = n <=> b + 1 = n
      BY <3>1, <2>1
    <3>5. HoldsRun(seen'[k], "breached", n) <=> HoldsRun(s, "breached", n) \/ b + 1 = n
      <4>1. HoldsRun(Append(s, "breached"), "breached", n) <=>
              HoldsRun(s, "breached", n) \/ ("breached" = "breached" /\ b + 1 = n)
        BY <2>1, RunIsNew
      <4> QED BY <4>1, <3>1
    <3> QED BY <3>2, <3>3, <3>4, <3>5, <2>1, <2>2, <2>3, <2>4 DEF Opens, Resolves
  <2>5. CASE reading[k] = "normal"
    <3>1. /\ okay'[k] = (IF c <= n THEN c + 1 ELSE c) /\ breach'[k] = 0
          /\ seen'[k] = Append(s, "normal")
      BY <1>a, <2>2, <2>5 DEF Check, Longer
    <3>2. Counts(okay'[k], seen'[k], "normal", n)
      BY <3>1, <2>1, CountsOn
    <3>3. Counts(breach'[k], seen'[k], "breached", n)
      BY <3>1, <2>1, CountsAgain
    <3>4. okay'[k] = n <=> c + 1 = n
      BY <3>1, <2>1
    <3>5. HoldsRun(seen'[k], "breached", n) <=> HoldsRun(s, "breached", n)
      <4>1. HoldsRun(Append(s, "normal"), "breached", n) <=>
              HoldsRun(s, "breached", n) \/ ("normal" = "breached" /\ b + 1 = n)
        <5>1. /\ "normal" \in {"breached", "normal"}
              /\ "breached" \in {"breached", "normal"}
          OBVIOUS
        <5> HIDE DEF s, n, b, c
        <5> QED BY <5>1, <2>1, RunIsNew, Zenon
      <4> QED BY <4>1, <3>1
    <3> QED BY <3>2, <3>3, <3>4, <3>5, <2>1, <2>2, <2>3, <2>5 DEF Opens, Resolves
  <2>6. CASE reading[k] = "missing"
    <3>1. breach'[k] = b /\ okay'[k] = c /\ seen'[k] = s
      BY <1>a, <2>2, <2>6 DEF Check
    <3> QED BY <3>1, <2>1, <2>2, <2>3, <2>6 DEF Opens, Resolves
  <2>7. reading[k] \in Readings
    OBVIOUS
  <2> QED BY <2>4, <2>5, <2>6, <2>7 DEF Readings
<1> QED BY <1>1, <1>2 DEF IInv, CountInv, OpenInv, EventInv

THEOREM DetectorInvariant == MCSpec => []IInv
<1>1. MCInit => IInv
  BY NothingSeen DEF MCInit, Init
<1>2. IInv /\ [MCNext]_mcVars => IInv'
  <2> SUFFICES ASSUME IInv, [MCNext]_mcVars PROVE IInv'
    OBVIOUS
  <2>1. ASSUME NEW reading \in [Kinds -> Readings], Watch(reading) PROVE IInv'
    BY <2>1, WatchStep
  <2>2. ASSUME NEW kinds \in SUBSET Kinds, Reboot(kinds) PROVE IInv'
    <3>1. /\ (breach = Zero)' /\ (okay = Zero)' /\ (events = Quiet)'
          /\ (openKinds \in SUBSET Kinds)' /\ (seen = [k \in Kinds |-> << >>])'
          /\ (latest = [k \in Kinds |-> "missing"])' /\ (known = openKinds)'
      BY <2>2 DEF Reboot, Restart, Zero, Quiet
    <3> QED BY <3>1, NothingSeen, PTL
  <2>3. CASE UNCHANGED mcVars
    BY <2>3 DEF mcVars, vars, IInv, TypeOK, HistoryTypeOK, CountInv, OpenInv, EventInv
  <2> QED BY <2>1, <2>2, <2>3 DEF MCNext
<1> QED BY <1>1, <1>2, PTL DEF MCSpec

\* The detector's state has its type.
THEOREM DetectorTypeCorrect == MCSpec => []TypeOK
<1>1. IInv => TypeOK
  BY DEF IInv
<1> QED BY <1>1, DetectorInvariant, PTL

\* The properties speak of runs at the end of the history and within it.
LEMMA JustConfirmedIs ==
  ASSUME NEW k, NEW v
  PROVE  JustConfirmed(k, v) <=> latest[k] = v /\ EndsInRun(seen[k], v, Sustain[k])
BY DEF JustConfirmed, EndsInRun

LEMMA WasConfirmedIs ==
  ASSUME NEW k
  PROVE  WasConfirmed(k) <=> HoldsRun(seen[k], "breached", Sustain[k])
BY DEF WasConfirmed, HoldsRun

\* For every Sustain and every history: "open" is reported exactly when a run of
\* breaches reaches its confirming length (_track, breached branch).
THEOREM OpenedExactlyOnce == MCSpec => []OpensExactlyOnce
<1>1. ASSUME IInv PROVE OpensExactlyOnce
  <2>1. ASSUME NEW k \in Kinds
        PROVE  events[k] = "open" <=> JustConfirmed(k, "breached")
    <3>1. /\ Counts(breach[k], seen[k], "breached", Sustain[k])
          /\ seen[k] \in Seq({"breached", "normal"}) /\ Sustain[k] \in Nat \ {0}
          /\ events[k] = "open" <=> latest[k] = "breached" /\ breach[k] = Sustain[k]
      BY <1>1, DetectorAssumption DEF IInv, HistoryTypeOK, CountInv, EventInv
    <3>2. breach[k] = Sustain[k] <=> EndsInRun(seen[k], "breached", Sustain[k])
      BY <3>1, ExactAtSustain
    <3> QED BY <3>1, <3>2, JustConfirmedIs
  <2> QED BY <2>1 DEF OpensExactlyOnce
<1> QED BY <1>1, DetectorInvariant, PTL

\* "resolve" is reported exactly when a run of normal readings reaches its length,
\* for a kind confirmed since the restart or on record then (_track, other branch).
THEOREM ResolvedExactlyOnce == MCSpec => []ResolvesExactlyOnce
<1>1. ASSUME IInv PROVE ResolvesExactlyOnce
  <2>1. ASSUME NEW k \in Kinds
        PROVE  events[k] = "resolve" <=>
                 JustConfirmed(k, "normal") /\ (k \in known \/ WasConfirmed(k))
    <3>1. /\ Counts(okay[k], seen[k], "normal", Sustain[k])
          /\ seen[k] \in Seq({"breached", "normal"}) /\ Sustain[k] \in Nat \ {0}
          /\ events[k] = "resolve" <=>
               latest[k] = "normal" /\ okay[k] = Sustain[k] /\ k \in openKinds
          /\ k \in openKinds <=> k \in known \/ HoldsRun(seen[k], "breached", Sustain[k])
      BY <1>1, DetectorAssumption DEF IInv, HistoryTypeOK, CountInv, OpenInv, EventInv
    <3>2. okay[k] = Sustain[k] <=> EndsInRun(seen[k], "normal", Sustain[k])
      BY <3>1, ExactAtSustain
    <3> QED BY <3>1, <3>2, JustConfirmedIs, WasConfirmedIs
  <2> QED BY <2>1 DEF ResolvesExactlyOnce
<1> QED BY <1>1, DetectorInvariant, PTL
=============================================================================
