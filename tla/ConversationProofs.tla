-------------------------- MODULE ConversationProofs --------------------------
(***************************************************************************)
(* Theorems about Conversation, for any lengths, thresholds and bounds:    *)
(* the breaker of compact_history, what an investigation concludes, and    *)
(* what of a conversation still reaches the model when it was snipped,     *)
(* shortened and summarised: its instructions, the results it waits for,   *)
(* and calls paired with results.                                          *)
(***************************************************************************)
EXTENDS Conversation, TLAPS, WellFoundedInduction

-----------------------------------------------------------------------------
(* The loop's place and locals *)

\* Calls are left exactly while tools run, and then the turn has a round left.
Going ==
  /\ at \in Places
  /\ at.pc = "tools" => at.todo # <<>> /\ at.step < MaxSteps
  /\ at.pc \in {"summary", "ask", "emergency", "again"} => at.step < MaxSteps

LEMMA StartIs ==
  ASSUME NEW turn \in 0..MaxTurns
  PROVE  Start(turn) \in Places /\ Start(turn).pc = "top"
<1>1. 0 \in 0..MaxSteps /\ <<>> \in Seq(Nat)
  BY ConversationAssumption
<1> QED
  BY <1>1 DEF Start, Places

LEMMA OverIs == Over \in Places /\ Over.pc = "idle"
<1>1. MaxTurns \in 0..MaxTurns
  BY ConversationAssumption
<1>2. Start(MaxTurns) \in Places
  BY <1>1, StartIs
<1> QED
  BY <1>2 DEF Over, Places

LEMMA GoingInit == Init => Going
BY OverIs DEF Init, Going

LEMMA GoingStep == Going /\ [Next]_vars => Going'
<1> SUFFICES ASSUME Going, [Next]_vars PROVE Going'
  OBVIOUS
<1>0. /\ MaxSteps \in Nat \ {0} /\ MaxTurns \in Nat \ {0}
      /\ at \in Places
  BY ConversationAssumption DEF Going
<1>1. ASSUME NEW ms, NEW chat, Begin(ms, chat) PROVE Going'
  <2>1. 1 \in 0..MaxTurns
    BY <1>0
  <2>2. at' \in Places /\ at'.pc = "top"
    BY <1>1, <2>1, StartIs DEF Begin
  <2> QED
    BY <2>2 DEF Going
<1>2. CASE Chat \/ Investigate
  BY <1>1, <1>2 DEF Chat, Investigate
<1>3. CASE ChatOn
  <2>1. at.turn + 1 \in 0..MaxTurns
    BY <1>0, <1>3 DEF ChatOn, Places
  <2>2. Start(at.turn + 1) \in Places /\ Start(at.turn + 1).pc = "top"
    BY <2>1, StartIs
  <2>3. at' = [Start(at.turn + 1) EXCEPT !.made = at.made] /\ at.made \in Nat
    BY <1>0, <1>3 DEF ChatOn, Places
  <2>4. at' \in Places /\ at'.pc = "top"
    BY <2>2, <2>3 DEF Places
  <2> QED
    BY <2>4 DEF Going
<1>4. ASSUME NEW pc \in {"idle", "summary", "ask", "emergency", "again"},
             at' = [at EXCEPT !.pc = pc], pc = "idle" \/ at.step < MaxSteps
      PROVE  Going'
  BY <1>0, <1>4 DEF Going, Places
<1>5. CASE Compact
  <2>1. at.step < MaxSteps /\ \E pc \in {"summary", "ask"} : at' = [at EXCEPT !.pc = pc]
    BY <1>0, <1>5 DEF Compact, Places
  <2> QED
    BY <1>4, <2>1
<1>6. CASE SendAll \/ GuardStops
  BY <1>0, <1>4, <1>6 DEF SendAll, GuardStops, Places
<1>7. CASE SummaryArrives \/ SummaryFails
  <2>1. at.step < MaxSteps /\ \E pc \in {"ask", "again"} : at' = [at EXCEPT !.pc = pc]
    BY <1>7 DEF SummaryArrives, SummaryFails, Going
  <2> QED
    BY <1>4, <2>1
<1>8. CASE Answers
  BY <1>4, <1>8 DEF Answers
<1>9. CASE CallsTools
  <2>1. PICK n \in 1..MaxCalls :
          at' = [at EXCEPT !.pc = "tools", !.made = @ + n,
                           !.todo = [i \in 1..n |-> at.made + i]]
    BY <1>9 DEF CallsTools
  <2>2. n \in Nat \ {0} /\ at.made \in Nat
    BY <1>0, ConversationAssumption DEF Places
  <2>3. [i \in 1..n |-> at.made + i] \in Seq(Nat) /\ [i \in 1..n |-> at.made + i] # <<>>
    <3>1. \A i \in 1..n : at.made + i \in Nat
      BY <2>2
    <3> DEFINE ids == [i \in 1..n |-> at.made + i]
    <3>2. ids \in [1..n -> Nat] /\ ids[1] = at.made + 1 /\ 1 \in DOMAIN ids
      BY <2>2, <3>1
    <3>3. ids \in Seq(Nat)
      BY <2>2, <3>2
    <3> QED
      BY <3>2, <3>3
  <2>4. at.step < MaxSteps
    BY <1>9 DEF CallsTools, Sent, Going
  <2>5. /\ at'.pc = "tools" /\ at'.step = at.step /\ at'.todo # <<>>
        /\ at' \in Places
    <3>1. PICK ids \in Seq(Nat) :
            /\ ids # <<>>
            /\ at' = [at EXCEPT !.pc = "tools", !.made = @ + n, !.todo = ids]
      BY <2>1, <2>3
    <3>2. at.made + n \in Nat
      BY <2>2
    <3> QED
      BY <1>0, <3>1, <3>2 DEF Places
  <2> QED
    BY <2>4, <2>5 DEF Going
<1>10. CASE Overflows
  BY <1>0, <1>10 DEF Overflows, Going, Places
<1>11. CASE RequestFails \/ ToolRaises
  BY <1>11, OverIs DEF RequestFails, ToolRaises, Going
<1>12. CASE RunTool
  <2>1. at.pc = "tools" /\ at.todo \in Seq(Nat) /\ at.todo # <<>> /\ at.step < MaxSteps
    BY <1>0, <1>12 DEF RunTool, Going, Places
  <2>2. Tail(at.todo) \in Seq(Nat)
    BY <2>1
  <2>3. at.step + 1 \in 0..MaxSteps
    BY <1>0, <2>1 DEF Places
  <2> QED
    BY <1>0, <1>12, <2>1, <2>2, <2>3 DEF RunTool, NextCall, Going, Places
<1>13. CASE OtherAsks \/ OtherReturns \/ UNCHANGED vars
  BY <1>13 DEF OtherAsks, OtherReturns, vars, Going
<1> QED
  BY <1>2, <1>3, <1>5, <1>6, <1>7, <1>8, <1>9, <1>10, <1>11, <1>12, <1>13 DEF Next, Loop

-----------------------------------------------------------------------------
(* The breaker *)

\* Summaries this process waits for: each may add a failure.
Asked == others + (IF at.pc \in {"summary", "emergency"} THEN 1 ELSE 0)

\* A request is made only while the breaker is closed, so the failures there
\* are and those that may come are bounded together.
BreakerInv ==
  /\ failures \in Nat /\ others \in 0..MaxOthers
  /\ failures + Asked <= BreakerLimit + MaxOthers

LEMMA BreakerStep == Going /\ BreakerInv /\ [Next]_vars => BreakerInv'
<1> SUFFICES ASSUME Going, BreakerInv, [Next]_vars PROVE BreakerInv'
  OBVIOUS
<1>0. /\ BreakerLimit \in Nat \ {0} /\ MaxOthers \in Nat
      /\ failures \in Nat /\ others \in 0..MaxOthers /\ at \in Places
  BY ConversationAssumption DEF Going, BreakerInv
<1>1. ASSUME UNCHANGED <<failures, others>>, at'.pc \notin {"summary", "emergency"}
      PROVE  BreakerInv'
  BY <1>0, <1>1 DEF BreakerInv, Asked
<1>2. ASSUME UNCHANGED <<failures, others>>, ~BreakerOpen PROVE BreakerInv'
  BY <1>0, <1>2 DEF BreakerInv, BreakerOpen, Asked
<1>3. CASE Chat \/ Investigate \/ ChatOn
  BY <1>1, <1>3 DEF Chat, Investigate, ChatOn, Begin, Start
<1>4. CASE Compact
  <2>1. CASE BreakerOpen
    BY <1>0, <1>1, <1>4, <2>1 DEF Compact, Places
  <2> QED
    BY <1>2, <1>4, <2>1 DEF Compact
<1>5. CASE SendAll \/ GuardStops \/ Answers
  BY <1>0, <1>1, <1>5 DEF SendAll, GuardStops, Answers, Places
<1>6. CASE CallsTools
  BY <1>0, <1>1, <1>6 DEF CallsTools, Places
<1>7. CASE RunTool
  <2>1. at'.pc \in {"top", "tools"}
    BY <1>0, <1>7 DEF RunTool, NextCall, Places
  <2> QED
    BY <1>1, <1>7, <2>1 DEF RunTool
<1>8. CASE RequestFails \/ ToolRaises
  BY <1>1, <1>8, OverIs DEF RequestFails, ToolRaises
<1>9. CASE Overflows
  <2>1. CASE BreakerOpen
    BY <1>0, <1>1, <1>9, <2>1 DEF Overflows, Places
  <2> QED
    BY <1>2, <1>9, <2>1 DEF Overflows
<1>10. CASE SummaryArrives
  <2>1. at'.pc \in {"ask", "again"} /\ failures' = 0 /\ others' = others
    BY <1>0, <1>10 DEF SummaryArrives, Places
  <2> QED
    BY <1>0, <2>1 DEF BreakerInv, Asked
<1>11. CASE SummaryFails
  <2>1. /\ at.pc \in {"summary", "emergency"} /\ at'.pc \in {"ask", "again"}
        /\ failures' = failures + 1 /\ others' = others
    BY <1>0, <1>11 DEF SummaryFails, Places
  <2> QED
    BY <1>0, <2>1 DEF BreakerInv, Asked
<1>12. CASE OtherAsks
  BY <1>0, <1>12 DEF OtherAsks, BreakerInv, BreakerOpen, Asked
<1>13. CASE OtherReturns
  <2>1. /\ others > 0 /\ others' = others - 1 /\ at' = at
        /\ failures' = 0 \/ failures' = failures + 1
    BY <1>13 DEF OtherReturns
  <2>2. failures + Asked <= BreakerLimit + MaxOthers
    BY DEF BreakerInv
  <2> QED
    BY <1>0, <2>1, <2>2 DEF BreakerInv, Asked
<1>14. CASE UNCHANGED vars
  BY <1>14 DEF vars, BreakerInv, Asked
<1> QED
  BY <1>3, <1>4, <1>5, <1>6, <1>7, <1>8, <1>9, <1>10, <1>11, <1>12, <1>13, <1>14
  DEF Next, Loop

\* compact_history looks at its count before the request and changes it after
\* it: the chats that share the count overshoot its limit by one each at most.
THEOREM BreakerIsKept == Spec => []BreakerHolds
<1>1. Init => BreakerInv
  BY OverIs, ConversationAssumption DEF Init, BreakerInv, Asked
<1>2. BreakerInv => BreakerHolds
  BY ConversationAssumption DEF BreakerInv, Asked, BreakerHolds
<1> QED
  BY <1>1, <1>2, BreakerStep, GoingInit, GoingStep, PTL DEF Spec

-----------------------------------------------------------------------------
(* What an investigation concludes *)

\* What the model cites is compared with what the conversation still holds, and
\* of that the model has been sent everything.
THEOREM ConclusionsAreGrounded == Spec => []ConclusionIsGrounded
<1>1. Init => ConclusionIsGrounded
  BY DEF Init, Nothing, ConclusionIsGrounded
<1>2. ConclusionIsGrounded /\ [Next]_vars => ConclusionIsGrounded'
  <2> SUFFICES ASSUME ConclusionIsGrounded, [Next]_vars PROVE ConclusionIsGrounded'
    OBVIOUS
  <2>1. ASSUME UNCHANGED conclusion, shown \subseteq shown' PROVE ConclusionIsGrounded'
    BY <2>1 DEF ConclusionIsGrounded
  <2>2. CASE Chat \/ Investigate
    BY <2>2 DEF Chat, Investigate, Begin, Nothing, ConclusionIsGrounded
  <2>3. CASE Answers
    <3>1. CASE UNCHANGED conclusion
      BY <2>1, <2>3, <3>1 DEF Answers
    <3>2. CASE conclusion' = Nothing
      BY <3>2 DEF Nothing, ConclusionIsGrounded
    <3>3. ASSUME NEW name \in Runbooks \cup {None, "invented"}, NEW cited \in SUBSET Cases,
                 conclusion' = Conclude(name, cited)
          PROVE  ConclusionIsGrounded'
      <4>1. shown' = shown \cup Available
        BY <2>3 DEF Answers
      <4> QED
        BY <3>3, <4>1 DEF Conclude, ConclusionIsGrounded
    <3> QED
      BY <2>3, <3>1, <3>2, <3>3 DEF Answers
  <2>4. CASE CallsTools
    BY <2>1, <2>4 DEF CallsTools
  <2>5. CASE \/ ChatOn \/ Compact \/ SendAll \/ GuardStops \/ SummaryArrives \/ SummaryFails
             \/ Overflows \/ RequestFails
    BY <2>1, <2>5 DEF ChatOn, Compact, SendAll, GuardStops, SummaryArrives, SummaryFails,
                      Overflows, RequestFails
  <2>6. CASE RunTool \/ ToolRaises \/ OtherAsks \/ OtherReturns \/ UNCHANGED vars
    BY <2>1, <2>6 DEF RunTool, ToolRaises, OtherAsks, OtherReturns, vars
  <2> QED
    BY <2>2, <2>3, <2>4, <2>5, <2>6 DEF Next, Loop
<1> QED
  BY <1>1, <1>2, PTL DEF Spec

-----------------------------------------------------------------------------
(* The messages *)

\* No more results stand next to each other than one answer may ask for.
RunsShort(ms) ==
  \A i, j \in 1..Len(ms) :
    (\A k \in i..j : IsToolResult(ms[k])) => j - i + 1 <= MaxCalls

Sound(ms)  == ms \in Seq(Message) /\ RunsShort(ms)
Opened(ms) == Len(ms) > 1 /\ ms[1] = Text("system")

\* The conversation goes on, or may: one that failed or was its last turn is over.
Alive == at.pc # "idle" \/ at.turn < MaxTurns

MessagesInv == Sound(messages) /\ (Alive => Opened(messages))

\* The results of ids, in full, after the call c, the last answer of the model.
Newest(ms, c, ids) ==
  /\ c \in 1..Len(ms) /\ HasToolUse(ms[c]) /\ ms[c].role = "assistant"
  /\ \A k \in (c + 1)..Len(ms) : ms[k].role # "assistant"
  /\ \A id \in ids : \E i \in (c + 1)..Len(ms) :
       IsToolResult(ms[i]) /\ ms[i].of = id /\ ms[i].size # "cut"

\* Between two calls only results stand after the last answer, and there is
\* room for those to come; ...
ToolsInv ==
  at.pc = "tools" =>
    \E c \in 1..Len(messages) :
      /\ Newest(messages, c, fresh)
      /\ \A k \in (c + 1)..Len(messages) : IsToolResult(messages[k])
      /\ Len(messages) - c + Len(at.todo) <= MaxCalls

\* ... then these results stay, with at most the next question after them, until
\* they are sent.
AfterAnswer == IF at.pc # "idle" /\ at.step = 0 THEN MaxCalls + 1 ELSE MaxCalls

FreshInv ==
  fresh # {} /\ at.pc \in {"idle", "top", "summary", "ask"} =>
    \E c \in 1..Len(messages) :
      Newest(messages, c, fresh) /\ Len(messages) - c <= AfterAnswer

\* Paired, but for the calls still to run, which the last answer makes.
Left == IF at.pc = "tools" THEN {at.todo[i] : i \in DOMAIN at.todo} ELSE {}

Answered(ms, i, id) ==
  \E k \in DOMAIN ms : /\ k > i /\ IsToolResult(ms[k]) /\ ms[k].of = id
                       /\ \A j \in (i + 1)..k : IsToolResult(ms[j])

AtEnd(ms, i) == \A j \in (i + 1)..Len(ms) : IsToolResult(ms[j])

PairedBut(ms, left) ==
  /\ \A i \in DOMAIN ms : \A id \in ms[i].calls :
       Answered(ms, i, id) \/ (id \in left /\ AtEnd(ms, i))
  /\ \A k \in Results(ms) :
       \E i \in 1..(k - 1) : /\ ms[k].of \in ms[i].calls
                             /\ \A j \in (i + 1)..k : IsToolResult(ms[j])
  /\ \A id \in left : \E i \in DOMAIN ms : id \in ms[i].calls /\ AtEnd(ms, i)

PairInv == ~cut => PairedBut(messages, Left)

-----------------------------------------------------------------------------
(* Lemmas about compaction *)

LEMMA LeastNumber ==
  ASSUME NEW S \in SUBSET Nat, S # {}
  PROVE  Min(S) \in S /\ \A x \in S : Min(S) <= x
<1> DEFINE Less == {s \in Nat \X Nat : s[1] < s[2]}
<1>1. IsWellFoundedOn(Less, Nat)
  BY NatLessThanWellFounded DEF OpToRel
<1> HIDE DEF Less
<1>2. PICK m \in S : \A x \in S : ~ (<<x, m>> \in Less)
  <2>1. S \subseteq Nat
    OBVIOUS
  <2> QED
    BY ONLY <1>1, <2>1, S # {}, WFMin
<1>3. ASSUME NEW x \in S
      PROVE  m <= x
  <2>1. x \in Nat /\ m \in Nat /\ <<x, m>> \notin Less
    BY <1>2
  <2>2. <<x, m>> \in Less <=> x < m
    BY <2>1 DEF Less
  <2> QED
    BY <2>1, <2>2
<1> QED
  BY <1>3 DEF Min

LEMMA GreatestNumber ==
  ASSUME NEW S \in SUBSET Nat, S # {}, NEW n \in Nat, \A x \in S : x <= n
  PROVE  Max(S) \in S /\ \A x \in S : x <= Max(S)
<1> DEFINE T == {n - x : x \in S}
<1>1. T \in SUBSET Nat /\ T # {}
  <2>1. \A x \in S : n - x \in Nat
    OBVIOUS
  <2>2. PICK x \in S : TRUE
    OBVIOUS
  <2>3. n - x \in T
    BY <2>2
  <2> QED
    BY <2>1, <2>3
<1>2. PICK d \in T : \A e \in T : d <= e
  BY <1>1, LeastNumber
<1>3. PICK m \in S : d = n - m
  BY <1>2
<1>4. \A x \in S : n - m <= n - x
  BY <1>2, <1>3
<1>5. \A x \in S : m >= x
  BY <1>4
<1> QED
  BY <1>5 DEF Max

\* What a message is.
LEMMA MessageIs ==
  ASSUME NEW m \in Message
  PROVE  /\ m.role \in {"system", "user", "assistant", "tool"}
         /\ m.calls \in SUBSET Nat /\ m.of \in Nat
         /\ m.size \in {"short", "long", "cut"} /\ m.hits \in SUBSET Cases
BY DEF Message

LEMMA TextIs ==
  ASSUME NEW role \in {"system", "user", "assistant", "tool"}
  PROVE  /\ Text(role) \in Message /\ Text(role).role = role
         /\ Text(role).calls = {} /\ Text(role).size = "short"
BY DEF Text, Message

\* snip_compact keeps at least the first message, and takes of those after its
\* HeadKept only results.
LEMMA HeadIs ==
  ASSUME NEW ms \in Seq(Message), NEW max \in Nat, max > 1, Len(ms) > max
  PROVE  /\ HeadEnd(ms, max) \in 1..Len(ms)
         /\ \A i \in (HeadKept + 1)..HeadEnd(ms, max) : IsToolResult(ms[i])
<1> DEFINE h == IF HeadKept < max - 1 THEN HeadKept ELSE max - 1
           S == {k \in h..Len(ms) : \A i \in (h + 1)..k : IsToolResult(ms[i])}
<1>1. h \in 1..Len(ms) /\ h <= HeadKept /\ HeadKept \in Nat
  BY CompactionAssumption
<1>2. Max(S) \in S
  <2>1. h \in S /\ S \in SUBSET Nat /\ Len(ms) \in Nat /\ \A x \in S : x <= Len(ms)
    BY <1>1
  <2> HIDE DEF S
  <2> QED
    BY <2>1, GreatestNumber
<1>3. CASE h = HeadKept
  <2>1. HeadEnd(ms, max) = IF HasToolUse(ms[h]) THEN Max(S) ELSE h
    BY DEF HeadEnd
  <2> HIDE DEF h
  <2>2. Max(S) \in h..Len(ms) /\ \A i \in (h + 1)..Max(S) : IsToolResult(ms[i])
    BY <1>2
  <2> QED
    BY <1>1, <1>3, <2>1, <2>2
<1>4. CASE h # HeadKept
  BY <1>1, <1>2, <1>4 DEF HeadEnd
<1> QED
  BY <1>3, <1>4

\* What is left of ms when what stands between its head of h messages and its
\* tail from t on is taken out.
IsCut(r, ms, h, t) ==
  /\ h \in 1..Len(ms) /\ t \in (h + 1)..(Len(ms) + 1)
  /\ r \in Seq(Message) /\ Len(r) = Len(ms) + h + 2 - t
  /\ \A i \in 1..h : r[i] = ms[i]
  /\ r[h + 1] = Snipped
  /\ \A i \in t..Len(ms) : r[i - t + h + 2] = ms[i]

LEMMA SnipIs ==
  ASSUME NEW ms \in Seq(Message), NEW max \in Nat, max > 1, Len(ms) > max
  PROVE  LET h == HeadEnd(ms, max)
             t == TailStart(ms, h, max - h - 1)
         IN  /\ IsCut(Snip(ms, max), ms, h, t)
             /\ \A b \in BlockStarts(ms, h) : Len(ms) + 1 - b <= max - h - 1 => t <= b
<1> DEFINE h == HeadEnd(ms, max)
           t == TailStart(ms, h, max - h - 1)
           S == {Len(ms) + 1} \cup {b \in BlockStarts(ms, h) : Len(ms) + 1 - b <= max - h - 1}
           u == SubSeq(ms, 1, h)
           v == SubSeq(ms, t, Len(ms))
           r == Snip(ms, max)
<1>1. h \in 1..Len(ms)
  BY HeadIs
<1>2. BlockStarts(ms, h) \subseteq (h + 1)..Len(ms)
  BY DEF BlockStarts
<1>3. t = Min(S)
  BY DEF TailStart
<1>4. r = u \o <<Snipped>> \o v
  <2>1. r = IF Len(ms) <= max THEN ms ELSE u \o <<Snipped>> \o v
    BY DEF Snip
  <2> HIDE DEF r, u, v
  <2> QED
    BY <2>1
<1> HIDE DEF h, t, r
<1>5. t \in S /\ \A x \in S : t <= x
  <2>1. S \in SUBSET Nat /\ S # {}
    BY <1>1, <1>2
  <2> HIDE DEF S
  <2> QED
    BY <2>1, <1>3, LeastNumber
<1>6. t \in (h + 1)..(Len(ms) + 1)
  BY <1>1, <1>2, <1>5
<1>7. /\ u \in Seq(Message) /\ Len(u) = h /\ \A i \in 1..h : u[i] = ms[i]
  BY <1>1
<1>8. /\ v \in Seq(Message) /\ Len(v) = Len(ms) + 1 - t
      /\ \A i \in 1..(Len(ms) + 1 - t) : v[i] = ms[t + i - 1]
  BY <1>1, <1>6
<1>9. Snipped \in Message
  BY TextIs DEF Snipped
<1> HIDE DEF u, v
<1>10. /\ r \in Seq(Message) /\ Len(r) = h + 1 + Len(v)
       /\ \A i \in 1..h : r[i] = u[i]
       /\ r[h + 1] = Snipped
       /\ \A i \in 1..Len(v) : r[h + 1 + i] = v[i]
  <2> DEFINE w == u \o <<Snipped>>
  <2>1. /\ w \in Seq(Message) /\ Len(w) = h + 1 /\ w[h + 1] = Snipped
        /\ \A i \in 1..h : w[i] = u[i]
    BY <1>1, <1>7, <1>9
  <2>2. r = w \o v
    BY <1>4
  <2> HIDE DEF w
  <2>3. /\ r \in Seq(Message) /\ Len(r) = Len(w) + Len(v)
        /\ \A i \in 1..Len(w) : r[i] = w[i]
        /\ \A i \in 1..Len(v) : r[Len(w) + i] = v[i]
    <3>1. v \in Seq(Message) /\ w \in Seq(Message)
      BY <1>8, <2>1
    <3>2. /\ w \o v \in Seq(Message) /\ Len(w \o v) = Len(w) + Len(v)
          /\ \A i \in 1..Len(w) : (w \o v)[i] = w[i]
      BY <3>1
    <3>3. \A i \in 1..Len(v) : (w \o v)[Len(w) + i] = v[i]
      BY <3>1
    <3> QED
      BY <2>2, <3>2, <3>3
  <2> QED
    BY <1>1, <2>1, <2>3
<1>11. \A i \in t..Len(ms) : r[i - t + h + 2] = ms[i]
  <2> TAKE i \in t..Len(ms)
  <2> DEFINE k == i - t + 1
  <2>1. k \in 1..(Len(ms) + 1 - t) /\ h + 1 + k = i - t + h + 2 /\ t + k - 1 = i
    BY <1>1, <1>6
  <2> HIDE DEF k
  <2> QED
    BY <2>1, <1>8, <1>10
<1>12. IsCut(r, ms, h, t)
  BY <1>1, <1>6, <1>7, <1>8, <1>10, <1>11 DEF IsCut
<1>13. \A b \in BlockStarts(ms, h) : Len(ms) + 1 - b <= max - h - 1 => t <= b
  BY <1>5
<1> QED
  BY <1>12, <1>13 DEF h, t, r

\* A history that is not too long stays as it is.
LEMMA SnipNothing ==
  ASSUME NEW ms \in Seq(Message), NEW max \in Nat, ~ (Len(ms) > max)
  PROVE  Snip(ms, max) = ms
BY DEF Snip

\* micro_compact shortens results the model has read, and changes nothing else.
LEMMA MicroIs ==
  ASSUME NEW ms \in Seq(Message)
  PROVE  /\ Micro(ms) \in Seq(Message) /\ Len(Micro(ms)) = Len(ms)
         /\ \A i \in 1..Len(ms) :
              /\ Micro(ms)[i].role = ms[i].role /\ Micro(ms)[i].calls = ms[i].calls
              /\ Micro(ms)[i].of = ms[i].of
              /\ ~ IsToolResult(ms[i]) => Micro(ms)[i] = ms[i]
              /\ (\A k \in i..Len(ms) : ms[k].role # "assistant") => Micro(ms)[i] = ms[i]
<1> DEFINE n == Len(ms)
           R == Replaced(ms)
           shorter(i) == IF i \in R THEN [ms[i] EXCEPT !.size = "cut"] ELSE ms[i]
<1>1. n \in Nat /\ DOMAIN ms = 1..n /\ \A i \in 1..n : ms[i] \in Message
  OBVIOUS
<1>2. Micro(ms) = [i \in 1..n |-> shorter(i)]
  BY <1>1 DEF Micro
<1>3. R \subseteq Results(ms) \ Unseen(ms)
  BY DEF Replaced
<1> HIDE DEF R, n
<1>4. \A i \in 1..n : shorter(i) \in Message
  BY <1>1 DEF Message
<1>5. \A i \in 1..n : shorter(i).role = ms[i].role /\ shorter(i).calls = ms[i].calls
                      /\ shorter(i).of = ms[i].of
  BY <1>1 DEF Message
<1>6. \A i \in 1..n : i \notin R => shorter(i) = ms[i]
  OBVIOUS
<1>7. \A i \in 1..n : ~ IsToolResult(ms[i]) => i \notin R
  BY <1>1, <1>3 DEF Results
<1>8. \A i \in 1..n : (\A k \in i..n : ms[k].role # "assistant") => i \notin R
  BY <1>1, <1>3 DEF Unseen, n
<1> HIDE DEF shorter
<1>9. Micro(ms) \in [1..n -> Message] /\ \A i \in 1..n : Micro(ms)[i] = shorter(i)
  BY <1>2, <1>4
<1>10. Micro(ms) \in Seq(Message) /\ Len(Micro(ms)) = n
  BY <1>1, <1>9
<1> QED
  BY <1>5, <1>6, <1>7, <1>8, <1>9, <1>10 DEF n

-----------------------------------------------------------------------------
(* What a change of the messages keeps *)

\* A message that is no result ends a run of results.
LEMMA AppendSound ==
  ASSUME NEW ms, Sound(ms), NEW m \in Message,
         \/ ~ IsToolResult(m)
         \/ \E c \in 1..Len(ms) : ~ IsToolResult(ms[c]) /\ Len(ms) + 1 - c <= MaxCalls
  PROVE  Sound(Append(ms, m))
<1> DEFINE r == Append(ms, m)
<1>1. ms \in Seq(Message) /\ Len(ms) \in Nat /\ MaxCalls \in Nat \ {0}
  BY ConversationAssumption DEF Sound
<1>2. /\ r \in Seq(Message) /\ Len(r) = Len(ms) + 1 /\ r[Len(ms) + 1] = m
      /\ \A i \in 1..Len(ms) : r[i] = ms[i]
  BY <1>1
<1> HIDE DEF r
<1>3. ASSUME NEW i \in 1..Len(r), NEW j \in 1..Len(r), \A k \in i..j : IsToolResult(r[k])
      PROVE  j - i + 1 <= MaxCalls
  <2>1. CASE j < i
    BY <1>1, <1>2, <2>1
  <2>2. CASE i <= j /\ j <= Len(ms)
    <3>1. i \in 1..Len(ms) /\ j \in 1..Len(ms)
      BY <1>1, <1>2, <2>2
    <3>2. \A k \in i..j : IsToolResult(ms[k])
      BY <1>2, <1>3, <3>1
    <3> QED
      BY <3>1, <3>2 DEF Sound, RunsShort
  <2>3. CASE i <= j /\ j = Len(ms) + 1
    <3>1. IsToolResult(m)
      BY <1>2, <1>3, <2>3
    <3>2. PICK c \in 1..Len(ms) : ~ IsToolResult(ms[c]) /\ Len(ms) + 1 - c <= MaxCalls
      BY <3>1
    <3>3. c < i
      BY <1>1, <1>2, <1>3, <2>3, <3>2
    <3> QED
      BY <1>1, <1>2, <2>3, <3>2, <3>3
  <2> QED
    BY <1>1, <1>2, <2>1, <2>2, <2>3
<1> QED
  BY <1>2, <1>3 DEF Sound, RunsShort, r

LEMMA AppendOpened ==
  ASSUME NEW ms \in Seq(Message), Opened(ms), NEW m \in Message
  PROVE  Opened(Append(ms, m))
BY DEF Opened

\* Taking a part out joins no runs: the marker is no result.
LEMMA CutSound ==
  ASSUME NEW ms, Sound(ms), NEW r, NEW h, NEW t, IsCut(r, ms, h, t)
  PROVE  Sound(r) /\ Len(r) > 1 /\ r[1] = ms[1]
<1>1. /\ Len(ms) \in Nat /\ h \in 1..Len(ms) /\ t \in (h + 1)..(Len(ms) + 1)
      /\ r \in Seq(Message) /\ Len(r) = Len(ms) + h + 2 - t /\ MaxCalls \in Nat \ {0}
  BY ConversationAssumption DEF Sound, IsCut
<1>2. /\ \A k \in 1..h : r[k] = ms[k]
      /\ ~ IsToolResult(r[h + 1])
      /\ \A k \in (h + 2)..Len(r) : r[k] = ms[k + t - h - 2]
  <2>1. ~ IsToolResult(r[h + 1])
    BY TextIs DEF IsCut, Snipped, IsToolResult
  <2>2. ASSUME NEW k \in (h + 2)..Len(r) PROVE r[k] = ms[k + t - h - 2]
    <3> DEFINE i == k + t - h - 2
    <3>1. i \in t..Len(ms) /\ i - t + h + 2 = k
      BY <1>1
    <3> HIDE DEF i
    <3>2. r[i - t + h + 2] = ms[i]
      BY <3>1 DEF IsCut
    <3> QED
      BY <3>1, <3>2 DEF i
  <2> QED
    BY <2>1, <2>2 DEF IsCut
<1>3. ASSUME NEW i \in 1..Len(r), NEW j \in 1..Len(r), \A k \in i..j : IsToolResult(r[k])
      PROVE  j - i + 1 <= MaxCalls
  <2>1. CASE j < i
    BY <1>1, <2>1
  <2>2. CASE i <= j /\ j <= h
    <3>1. i \in 1..Len(ms) /\ j \in 1..Len(ms) /\ \A k \in i..j : IsToolResult(ms[k])
      BY <1>1, <1>2, <1>3, <2>2
    <3> QED
      BY <3>1 DEF Sound, RunsShort
  <2>3. CASE i <= h + 1 /\ j >= h + 1
    BY <1>1, <1>2, <1>3, <2>3
  <2>4. CASE i <= j /\ i >= h + 2
    <3> DEFINE d == t - h - 2
    <3>1. i + d \in 1..Len(ms) /\ j + d \in 1..Len(ms) /\ d \in Int
      BY <1>1, <2>4
    <3>2. ASSUME NEW k \in (i + d)..(j + d) PROVE IsToolResult(ms[k])
      <4>1. k - d \in i..j /\ k - d \in (h + 2)..Len(r) /\ (k - d) + t - h - 2 = k
        BY <1>1, <2>4, <3>1
      <4> HIDE DEF d
      <4>2. r[k - d] = ms[k]
        BY <1>2, <4>1
      <4> QED
        BY <1>3, <4>1, <4>2
    <3> HIDE DEF d
    <3>3. (j + d) - (i + d) + 1 <= MaxCalls
      BY <3>1, <3>2 DEF Sound, RunsShort
    <3> QED
      BY <1>1, <3>1, <3>3
  <2> QED
    BY <1>1, <2>1, <2>2, <2>3, <2>4
<1> QED
  BY <1>1, <1>2, <1>3 DEF Sound, RunsShort

LEMMA SnipSound ==
  ASSUME NEW ms, Sound(ms), Len(ms) > 0, NEW max \in Nat, max > 1
  PROVE  /\ Sound(Snip(ms, max)) /\ Snip(ms, max)[1] = ms[1]
         /\ Len(Snip(ms, max)) > 0 /\ (Len(ms) > 1 => Len(Snip(ms, max)) > 1)
<1>1. CASE Len(ms) > max
  BY <1>1, SnipIs, CutSound DEF Sound
<1>2. CASE ~ (Len(ms) > max)
  BY <1>2, SnipNothing DEF Sound
<1> QED
  BY <1>1, <1>2

LEMMA MicroSound ==
  ASSUME NEW ms, Sound(ms)
  PROVE  Sound(Micro(ms)) /\ (Opened(ms) => Opened(Micro(ms)))
<1>1. ms \in Seq(Message)
  BY DEF Sound
<1>2. /\ Micro(ms) \in Seq(Message) /\ Len(Micro(ms)) = Len(ms) /\ Len(ms) \in Nat
      /\ \A i \in 1..Len(ms) : IsToolResult(Micro(ms)[i]) <=> IsToolResult(ms[i])
  BY <1>1, MicroIs DEF IsToolResult
<1>3. RunsShort(Micro(ms))
  <2> SUFFICES ASSUME NEW i \in 1..Len(ms), NEW j \in 1..Len(ms),
                      \A k \in i..j : IsToolResult(Micro(ms)[k])
               PROVE  j - i + 1 <= MaxCalls
    BY <1>2 DEF RunsShort
  <2>1. \A k \in i..j : IsToolResult(ms[k])
    BY <1>2
  <2> QED
    BY <2>1 DEF Sound, RunsShort
<1>4. ASSUME Opened(ms) PROVE Opened(Micro(ms))
  <2>1. Len(ms) > 1 /\ ms[1] = Text("system")
    BY <1>4 DEF Opened
  <2>2. 1 \in 1..Len(ms) /\ ~ IsToolResult(ms[1])
    BY <1>2, <2>1, TextIs DEF IsToolResult
  <2>3. Micro(ms)[1] = ms[1]
    BY <1>1, <2>2, MicroIs
  <2> QED
    BY <1>2, <2>1, <2>3 DEF Opened
<1> QED
  BY <1>2, <1>3, <1>4 DEF Sound

\* The emergency puts the system prompt before what it snips.
LEMMA TailSound ==
  ASSUME NEW ms, Sound(ms), Opened(ms)
  PROVE  /\ Sound(Tail(ms)) /\ Len(Tail(ms)) = Len(ms) - 1
         /\ <<ms[1]>> \o Tail(ms) = ms
<1>1. /\ ms \in Seq(Message) /\ Len(ms) \in Nat /\ Len(ms) > 1
  BY DEF Sound, Opened
<1>2. /\ Tail(ms) \in Seq(Message) /\ Len(Tail(ms)) = Len(ms) - 1
      /\ \A i \in 1..(Len(ms) - 1) : Tail(ms)[i] = ms[i + 1]
  BY <1>1
<1>3. RunsShort(Tail(ms))
  <2> SUFFICES ASSUME NEW i \in 1..(Len(ms) - 1), NEW j \in 1..(Len(ms) - 1),
                      \A k \in i..j : IsToolResult(Tail(ms)[k])
               PROVE  j - i + 1 <= MaxCalls
    BY <1>2 DEF RunsShort
  <2>1. ASSUME NEW k \in (i + 1)..(j + 1) PROVE IsToolResult(ms[k])
    <3>1. k - 1 \in i..j /\ k - 1 \in 1..(Len(ms) - 1) /\ (k - 1) + 1 = k
      BY <1>1
    <3> QED
      BY <1>2, <3>1
  <2>2. i + 1 \in 1..Len(ms) /\ j + 1 \in 1..Len(ms)
    BY <1>1
  <2>3. (j + 1) - (i + 1) + 1 <= MaxCalls
    BY <2>1, <2>2 DEF Sound, RunsShort
  <2> QED
    BY <2>3, ConversationAssumption
<1>4. <<ms[1]>> \o Tail(ms) = ms
  BY <1>1
<1> QED
  BY <1>2, <1>3, <1>4 DEF Sound

LEMMA PrefixSound ==
  ASSUME NEW rest, Sound(rest), Len(rest) > 0
  PROVE  Sound(<<Text("system")>> \o rest) /\ Opened(<<Text("system")>> \o rest)
<1> DEFINE s == Text("system")
           r == <<s>> \o rest
<1>1. /\ rest \in Seq(Message) /\ Len(rest) \in Nat /\ s \in Message /\ ~ IsToolResult(s)
      /\ MaxCalls \in Nat \ {0}
  BY ConversationAssumption, TextIs DEF Sound, IsToolResult
<1> HIDE DEF s
<1>2. /\ r \in Seq(Message) /\ Len(r) = Len(rest) + 1 /\ r[1] = s
      /\ \A i \in 1..Len(rest) : r[i + 1] = rest[i]
  BY <1>1
<1> HIDE DEF r
<1>3. RunsShort(r)
  <2> SUFFICES ASSUME NEW i \in 1..Len(r), NEW j \in 1..Len(r),
                      \A k \in i..j : IsToolResult(r[k])
               PROVE  j - i + 1 <= MaxCalls
    BY DEF RunsShort
  <2>1. CASE j < i
    BY <1>1, <1>2, <2>1
  <2>2. CASE i <= j
    <3>1. i # 1
      BY <1>1, <1>2, <2>2
    <3>2. i - 1 \in 1..Len(rest) /\ j - 1 \in 1..Len(rest)
      BY <1>1, <1>2, <2>2, <3>1
    <3>3. ASSUME NEW k \in (i - 1)..(j - 1) PROVE IsToolResult(rest[k])
      <4>1. k + 1 \in i..j /\ k \in 1..Len(rest)
        BY <1>1, <3>2
      <4> QED
        BY <1>2, <4>1
    <3>4. (j - 1) - (i - 1) + 1 <= MaxCalls
      BY <3>2, <3>3 DEF Sound, RunsShort
    <3> QED
      BY <1>1, <3>4
  <2> QED
    BY <1>1, <1>2, <2>1, <2>2
<1> QED
  BY <1>1, <1>2, <1>3 DEF Sound, Opened, r, s

\* No message of a beginning is a result or makes a call.
LEMMA PromptIs ==
  ASSUME NEW n \in Nat
  PROVE  /\ Sound(Prompt(n)) /\ Opened(Prompt(n))
         /\ \A i \in 1..Len(Prompt(n)) : Prompt(n)[i].calls = {} /\ ~ IsToolResult(Prompt(n)[i])
<1> DEFINE Plain == {Text("system"), Text("user"), Text("assistant")}
           turns == [i \in 1..(2 * n) |-> Text(IF i % 2 = 1 THEN "user" ELSE "assistant")]
           p == Prompt(n)
<1>1. Plain \subseteq Message /\ \A m \in Plain : m.calls = {} /\ ~ IsToolResult(m)
  BY TextIs DEF IsToolResult
<1>2. turns \in Seq(Plain) /\ Len(turns) = 2 * n
  <2>1. turns \in [1..(2 * n) -> Plain]
    OBVIOUS
  <2>2. 2 * n \in Nat
    OBVIOUS
  <2> HIDE DEF turns, Plain
  <2> QED
    BY <2>1, <2>2
<1>3. p = <<Text("system")>> \o turns \o <<Text("user")>>
  BY DEF Prompt
<1>4. Text("system") \in Plain /\ Text("user") \in Plain
  OBVIOUS
<1> HIDE DEF turns, Plain, p
<1>5. p \in Seq(Plain) /\ Len(p) = 2 * n + 2 /\ p[1] = Text("system")
  <2> DEFINE q == <<Text("system")>> \o turns
  <2>1. q \in Seq(Plain) /\ Len(q) = 2 * n + 1 /\ q[1] = Text("system")
    BY <1>2, <1>4
  <2>2. p = q \o <<Text("user")>>
    BY <1>3
  <2> HIDE DEF q
  <2> QED
    BY <1>4, <2>1, <2>2
<1>6. p \in Seq(Message) /\ \A i \in 1..Len(p) : p[i].calls = {} /\ ~ IsToolResult(p[i])
  <2>1. \A i \in 1..Len(p) : p[i] \in Plain
    BY <1>5
  <2>2. p \in [1..Len(p) -> Message] /\ Len(p) \in Nat
    BY <1>1, <1>5, <2>1
  <2>3. p \in Seq(Message)
    BY <2>2
  <2> QED
    BY <1>1, <2>1, <2>3
<1>7. RunsShort(p)
  <2> SUFFICES ASSUME NEW i \in 1..Len(p), NEW j \in 1..Len(p),
                      \A k \in i..j : IsToolResult(p[k])
               PROVE  j - i + 1 <= MaxCalls
    BY DEF RunsShort
  <2>1. ~ (i <= j)
    BY <1>5, <1>6
  <2> QED
    BY <1>5, <2>1, ConversationAssumption
<1>8. Opened(p)
  BY <1>5 DEF Opened
<1> QED
  BY <1>6, <1>7, <1>8 DEF Sound, p

-----------------------------------------------------------------------------
(* The messages and their types *)

\* The emergency leaves a conversation that opens with the same prompt; what it
\* did not shorten is as it was.
LEMMA EmergencyIs ==
  ASSUME MessagesInv, Alive, EmergencySnip
  PROVE  /\ Sound(messages') /\ Opened(messages')
         /\ ~ cut' => ~ cut /\ messages' = messages
<1> DEFINE rest == Snip(Tail(messages), EmergencyMax)
<1>1. /\ Sound(messages) /\ Opened(messages) /\ messages[1] = Text("system")
      /\ Sound(Tail(messages)) /\ Len(Tail(messages)) > 0
      /\ <<messages[1]>> \o Tail(messages) = messages
  <2>1. Sound(messages) /\ Opened(messages)
    BY DEF MessagesInv
  <2>2. Len(messages) > 1 /\ Len(messages) \in Nat /\ messages[1] = Text("system")
    BY <2>1 DEF Opened, Sound
  <2> QED
    BY <2>1, <2>2, TailSound
<1>2. messages' = <<messages[1]>> \o rest /\ cut' = (cut \/ rest # Tail(messages))
  BY DEF EmergencySnip
<1>3. Sound(rest) /\ Len(rest) > 0
  BY <1>1, SnipSound, ConversationAssumption
<1> HIDE DEF rest
<1>4. Sound(messages') /\ Opened(messages')
  BY <1>1, <1>2, <1>3, PrefixSound
<1> QED
  BY <1>1, <1>2, <1>4

LEMMA MessagesStep ==
  ASSUME Going, MessagesInv, ToolsInv, [Next]_vars
  PROVE  MessagesInv'
<1>0. /\ Sound(messages) /\ (Alive => Opened(messages))
      /\ messages \in Seq(Message) /\ at \in Places
  BY DEF MessagesInv, Sound, Going
<1>1. ASSUME Sound(messages'), Opened(messages') PROVE MessagesInv'
  BY <1>1 DEF MessagesInv
<1>2. ASSUME UNCHANGED messages, Alive' => Alive PROVE MessagesInv'
  BY <1>2 DEF MessagesInv
<1>3. ASSUME Alive, NEW m \in Message, messages' = Append(messages, m),
             \/ ~ IsToolResult(m)
             \/ \E c \in 1..Len(messages) :
                  ~ IsToolResult(messages[c]) /\ Len(messages) + 1 - c <= MaxCalls
      PROVE  MessagesInv'
  <2>1. Sound(messages')
    BY <1>0, <1>3, AppendSound
  <2>2. Opened(messages')
    BY <1>0, <1>3, AppendOpened
  <2> QED
    BY <1>1, <2>1, <2>2
<1>4. CASE Chat \/ Investigate
  <2>1. PICK n \in Nat : messages' = Prompt(n)
    <3>1. CASE Chat
      BY <3>1, ConversationAssumption DEF Chat, Begin
    <3>2. CASE Investigate
      BY <3>2 DEF Investigate, Begin
    <3> QED
      BY <1>4, <3>1, <3>2
  <2>2. Sound(messages') /\ Opened(messages')
    BY <2>1, PromptIs
  <2> QED
    BY <1>1, <2>2
<1>5. CASE ChatOn
  <2>1. Alive /\ messages' = Append(messages, Text("user"))
    BY <1>5 DEF ChatOn, Alive
  <2> QED
    BY <1>3, <2>1, TextIs DEF IsToolResult
<1>6. CASE Compact
  <2>1. Alive
    BY <1>6 DEF Compact, Alive
  <2> DEFINE s == Snip(messages, MaxMessages)
  <2>2. messages' = IF Tokens(s) > Threshold THEN Micro(s) ELSE s
    BY <1>6 DEF Compact
  <2>3. Sound(s) /\ Opened(s)
    <3>1. Len(messages) > 1 /\ Len(messages) \in Nat /\ messages[1] = Text("system")
      BY <1>0, <2>1 DEF Opened
    <3> QED
      BY <1>0, <3>1, SnipSound, ConversationAssumption DEF Opened
  <2> HIDE DEF s
  <2> QED
    BY <1>1, <2>2, <2>3, MicroSound
<1>7. CASE SummaryArrives
  <2>1. Alive /\ messages' = <<messages[1], Summary>>
    BY <1>7 DEF SummaryArrives, Summarised, Alive
  <2>2. Summary \in Message /\ ~ IsToolResult(Summary)
    BY TextIs DEF Summary, IsToolResult
  <2>3. Text("system") \in Message /\ ~ IsToolResult(Text("system"))
    BY TextIs DEF IsToolResult
  <2>4. messages' = <<Text("system"), Summary>>
    BY <1>0, <2>1 DEF Opened
  <2> DEFINE r == <<Text("system"), Summary>>
  <2>5. r \in Seq(Message) /\ Len(r) = 2 /\ r[1] = Text("system")
        /\ \A i \in 1..2 : ~ IsToolResult(r[i])
    BY <2>2, <2>3
  <2> HIDE DEF r
  <2>6. RunsShort(r)
    <3> SUFFICES ASSUME NEW i \in 1..Len(r), NEW j \in 1..Len(r),
                        \A k \in i..j : IsToolResult(r[k])
                 PROVE  j - i + 1 <= MaxCalls
      BY DEF RunsShort
    <3>1. ~ (i <= j)
      BY <2>5
    <3> QED
      BY <2>5, <3>1, ConversationAssumption
  <2>7. Sound(r) /\ Opened(r)
    BY <2>5, <2>6 DEF Sound, Opened
  <2> QED
    BY <1>1, <2>4, <2>7 DEF r
<1>8. CASE SummaryFails
  <2>1. Alive
    BY <1>8 DEF SummaryFails, Alive
  <2>2. CASE at.pc = "summary"
    BY <1>2, <1>8, <2>1, <2>2 DEF SummaryFails
  <2>3. CASE at.pc # "summary"
    <3>1. EmergencySnip
      BY <1>8, <2>3 DEF SummaryFails
    <3> QED
      BY <1>1, <2>1, <3>1, EmergencyIs
  <2> QED
    BY <2>2, <2>3
<1>9. CASE SendAll \/ GuardStops
  BY <1>2, <1>9 DEF SendAll, GuardStops, Alive
<1>10. CASE Answers \/ CallsTools
  <2>1. Alive
    BY <1>10 DEF Answers, CallsTools, Sent, Alive
  <2>2. CASE Answers
    <3>1. messages' = Append(messages, Text("assistant"))
      BY <2>2 DEF Answers
    <3> QED
      BY <1>3, <2>1, <3>1, TextIs DEF IsToolResult
  <2>3. CASE CallsTools
    <3>1. PICK n \in 1..MaxCalls :
            messages' = Append(messages, CallsOf((at.made + 1)..(at.made + n)))
      BY <2>3 DEF CallsTools
    <3> DEFINE ids == (at.made + 1)..(at.made + n)
    <3>2. ids \in SUBSET Nat
      BY <1>0 DEF Places
    <3> HIDE DEF ids
    <3>3. CallsOf(ids) \in Message /\ ~ IsToolResult(CallsOf(ids))
      BY <3>2 DEF CallsOf, Text, Message, IsToolResult
    <3> QED
      BY <1>3, <2>1, <3>1, <3>3 DEF ids
  <2> QED
    BY <1>10, <2>2, <2>3
<1>11. CASE Overflows
  <2>1. Alive
    BY <1>11 DEF Overflows, Alive
  <2>2. UNCHANGED messages \/ EmergencySnip
    BY <1>11 DEF Overflows
  <2> QED
    BY <1>1, <1>2, <2>1, <2>2, EmergencyIs
<1>12. CASE RequestFails \/ ToolRaises
  <2>1. messages' = <<>> /\ ~ Alive'
    <3>1. messages' = <<>> /\ at' = Over
      BY <1>12 DEF RequestFails, ToolRaises
    <3>2. MaxTurns \in Nat
      BY ConversationAssumption
    <3> QED
      BY <3>1, <3>2 DEF Over, Start, Alive
  <2>2. Sound(<<>>)
    BY DEF Sound, RunsShort
  <2> QED
    BY <2>1, <2>2 DEF MessagesInv
<1>13. CASE RunTool
  <2>1. PICK size \in {"short", "long"}, hits \in SUBSET Cases :
          messages' = Append(messages, Result(Head(at.todo), size, IF context THEN {} ELSE hits))
    BY <1>13 DEF RunTool
  <2>2. at.pc = "tools" /\ at.todo \in Seq(Nat) /\ at.todo # <<>>
    BY <1>0, <1>13 DEF RunTool, Going, Places
  <2>3. PICK c \in 1..Len(messages) :
          /\ Newest(messages, c, fresh)
          /\ Len(messages) - c + Len(at.todo) <= MaxCalls
    BY <2>2 DEF ToolsInv
  <2>4. ~ IsToolResult(messages[c]) /\ Len(messages) + 1 - c <= MaxCalls
    <3>1. Len(at.todo) \in Nat /\ Len(at.todo) >= 1 /\ Len(messages) \in Nat
      BY <1>0, <2>2
    <3> QED
      BY <2>3, <3>1, ConversationAssumption DEF Newest, IsToolResult
  <2> DEFINE found == IF context THEN {} ELSE hits
  <2>5. Head(at.todo) \in Nat /\ found \in SUBSET Cases
    BY <2>2
  <2> HIDE DEF found
  <2>6. Result(Head(at.todo), size, found) \in Message
    BY <2>5 DEF Result, Message
  <2>7. Alive
    BY <2>2 DEF Alive
  <2> QED
    BY <1>3, <2>1, <2>4, <2>6, <2>7 DEF found
<1>14. CASE OtherAsks \/ OtherReturns \/ UNCHANGED vars
  BY <1>2, <1>14 DEF OtherAsks, OtherReturns, vars, Alive
<1> QED
  BY <1>4, <1>5, <1>6, <1>7, <1>8, <1>9, <1>10, <1>11, <1>12, <1>13, <1>14 DEF Next, Loop

-----------------------------------------------------------------------------
(* The results the model waits for *)

\* What is cut off is none of them: the last answer, its results, the results
\* right before it and a question fit in what snip_compact leaves room for.
LEMMA SnipKeepsNewest ==
  ASSUME MaxMessages >= HeadKept + 3 * MaxCalls + 3,
         NEW ms, Sound(ms), NEW ids, NEW c, Newest(ms, c, ids),
         Len(ms) - c <= MaxCalls + 1
  PROVE  LET r == Snip(ms, MaxMessages)
         IN  \E d \in 1..Len(r) : Newest(r, d, ids) /\ Len(r) - d = Len(ms) - c
<1> DEFINE r == Snip(ms, MaxMessages)
           h == HeadEnd(ms, MaxMessages)
           t == TailStart(ms, h, MaxMessages - h - 1)
<1>0. /\ ms \in Seq(Message) /\ Len(ms) \in Nat /\ RunsShort(ms) /\ c \in 1..Len(ms)
      /\ MaxMessages \in Nat /\ MaxMessages > 1 /\ MaxCalls \in Nat \ {0} /\ HeadKept \in Nat \ {0}
  BY ConversationAssumption, CompactionAssumption DEF Sound, Newest
<1>1. CASE ~ (Len(ms) > MaxMessages)
  BY <1>0, <1>1, SnipNothing
<1>2. CASE Len(ms) > MaxMessages
  <2>1. /\ h \in 1..Len(ms)
        /\ \A i \in (HeadKept + 1)..h : IsToolResult(ms[i])
        /\ IsCut(r, ms, h, t)
        /\ \A b \in BlockStarts(ms, h) : Len(ms) + 1 - b <= MaxMessages - h - 1 => t <= b
    BY <1>0, <1>2, HeadIs, SnipIs
  <2> HIDE DEF h, t, r
  <2>2. h <= HeadKept + MaxCalls
    <3>1. CASE h <= HeadKept
      BY <1>0, <2>1, <3>1
    <3>2. CASE h > HeadKept
      <4>1. HeadKept + 1 \in 1..Len(ms)
        BY <1>0, <2>1, <3>2
      <4>2. h - (HeadKept + 1) + 1 <= MaxCalls
        BY <1>0, <2>1, <4>1 DEF RunsShort
      <4> QED
        BY <1>0, <2>1, <4>2
    <3> QED
      BY <1>0, <2>1, <3>1, <3>2
  <2>3. h < c
    BY <1>0, <1>2, <2>1, <2>2
  <2> DEFINE S == {b \in (h + 1)..c : \A k \in b..(c - 1) : IsToolResult(ms[k])}
             b == Min(S)
  <2>4. b \in S /\ \A x \in S : b <= x
    <3>1. c \in S /\ S \in SUBSET Nat
      BY <1>0, <2>1, <2>3
    <3> HIDE DEF S
    <3> QED
      BY <3>1, LeastNumber
  <2>5. b \in (h + 1)..c /\ \A k \in b..(c - 1) : IsToolResult(ms[k])
    BY <2>4
  <2>6. b - 1 \in (h + 1)..c => ~ IsToolResult(ms[b - 1])
    <3> SUFFICES ASSUME b - 1 \in (h + 1)..c, IsToolResult(ms[b - 1]) PROVE FALSE
      OBVIOUS
    <3>1. \A k \in (b - 1)..(c - 1) : k = b - 1 \/ k \in b..(c - 1)
      BY <1>0, <2>1, <2>5
    <3>2. b - 1 \in S
      BY <2>5, <3>1
    <3> HIDE DEF S
    <3>3. b <= b - 1
      BY <2>4, <3>2
    <3> QED
      BY <1>0, <2>1, <2>5, <3>3
  <2> HIDE DEF S, b
  <2>7. b \in BlockStarts(ms, h)
    <3>1. b \in (h + 1)..Len(ms) /\ c \in b..Len(ms) /\ HasToolUse(ms[c])
      BY <1>0, <2>1, <2>5 DEF Newest
    <3>2. b = h + 1 \/ ~ IsToolResult(ms[b - 1])
      BY <1>0, <2>1, <2>5, <2>6
    <3> QED
      BY <2>5, <3>1, <3>2 DEF BlockStarts
  <2>8. c - b <= MaxCalls
    <3>1. CASE b = c
      BY <1>0, <3>1
    <3>2. CASE b # c
      <4>1. b \in 1..Len(ms) /\ c - 1 \in 1..Len(ms)
        BY <1>0, <2>1, <2>5, <3>2
      <4>2. (c - 1) - b + 1 <= MaxCalls
        BY <1>0, <2>5, <4>1 DEF RunsShort
      <4> QED
        BY <1>0, <4>1, <4>2
    <3> QED
      BY <3>1, <3>2
  <2>9. t <= b
    <3>1. Len(ms) + 1 - b <= MaxMessages - h - 1
      BY <1>0, <2>1, <2>2, <2>5, <2>8
    <3> QED
      BY <2>1, <2>7, <3>1
  <2> DEFINE d == c - t + h + 2
  <2>10. /\ t \in (h + 1)..(Len(ms) + 1) /\ t <= c /\ Len(r) = Len(ms) + h + 2 - t
         /\ d \in 1..Len(r) /\ Len(r) - d = Len(ms) - c /\ r[d] = ms[c]
    <3>1. t \in (h + 1)..(Len(ms) + 1) /\ Len(r) = Len(ms) + h + 2 - t /\ t <= c
      BY <1>0, <2>1, <2>5, <2>9 DEF IsCut
    <3>2. c \in t..Len(ms)
      BY <1>0, <2>1, <3>1
    <3>3. r[c - t + h + 2] = ms[c]
      BY <2>1, <3>2 DEF IsCut
    <3> QED
      BY <1>0, <2>1, <3>1, <3>3
  <2>11. ASSUME NEW i \in (c + 1)..Len(ms)
         PROVE  i - t + h + 2 \in (d + 1)..Len(r) /\ r[i - t + h + 2] = ms[i]
    <3>1. i \in t..Len(ms)
      BY <1>0, <2>10
    <3>2. r[i - t + h + 2] = ms[i]
      BY <2>1, <3>1 DEF IsCut
    <3> QED
      BY <1>0, <2>1, <2>10, <3>2
  <2>12. ASSUME NEW k \in (d + 1)..Len(r) PROVE r[k].role # "assistant"
    <3> DEFINE i == k + t - h - 2
    <3>1. i \in (c + 1)..Len(ms) /\ i - t + h + 2 = k
      BY <1>0, <2>1, <2>10
    <3> HIDE DEF i, d
    <3>2. r[i - t + h + 2] = ms[i] /\ ms[i].role # "assistant"
      BY <2>11, <3>1 DEF Newest
    <3> QED
      BY <3>1, <3>2
  <2>13. ASSUME NEW id \in ids
         PROVE  \E k \in (d + 1)..Len(r) :
                  IsToolResult(r[k]) /\ r[k].of = id /\ r[k].size # "cut"
    <3>1. PICK i \in (c + 1)..Len(ms) :
            IsToolResult(ms[i]) /\ ms[i].of = id /\ ms[i].size # "cut"
      BY DEF Newest
    <3> HIDE DEF d
    <3> QED
      BY <2>11, <3>1
  <2> HIDE DEF d
  <2>14. Newest(r, d, ids)
    BY <2>10, <2>12, <2>13 DEF Newest
  <2> QED
    BY <2>10, <2>14 DEF r
<1> QED
  BY <1>1, <1>2

LEMMA MicroKeepsNewest ==
  ASSUME NEW ms, Sound(ms), NEW ids, NEW c, Newest(ms, c, ids)
  PROVE  Newest(Micro(ms), c, ids) /\ Len(Micro(ms)) = Len(ms)
<1> DEFINE r == Micro(ms)
<1>1. /\ Len(r) = Len(ms) /\ Len(ms) \in Nat /\ c \in 1..Len(ms)
      /\ \A i \in 1..Len(ms) :
           /\ r[i].role = ms[i].role /\ r[i].calls = ms[i].calls
           /\ (\A k \in i..Len(ms) : ms[k].role # "assistant") => r[i] = ms[i]
  <2>1. ms \in Seq(Message)
    BY DEF Sound
  <2> QED
    BY <2>1, MicroIs DEF Newest
<1>2. \A i \in (c + 1)..Len(ms) : r[i] = ms[i]
  <2> TAKE i \in (c + 1)..Len(ms)
  <2>1. \A k \in i..Len(ms) : k \in (c + 1)..Len(ms)
    BY <1>1
  <2>2. i \in 1..Len(ms) /\ \A k \in i..Len(ms) : ms[k].role # "assistant"
    BY <1>1, <2>1 DEF Newest
  <2> QED
    BY <1>1, <2>2
<1> HIDE DEF r
<1>3. Newest(r, c, ids)
  BY <1>1, <1>2 DEF Newest, HasToolUse
<1> QED
  BY <1>1, <1>3 DEF r

\* One more message that is no answer leaves it the last one.
LEMMA AppendKeepsNewest ==
  ASSUME NEW ms \in Seq(Message), NEW ids, NEW c, Newest(ms, c, ids),
         NEW m \in Message, m.role # "assistant"
  PROVE  /\ Newest(Append(ms, m), c, ids) /\ Len(Append(ms, m)) = Len(ms) + 1
         /\ IsToolResult(m) /\ m.size # "cut" => Newest(Append(ms, m), c, ids \cup {m.of})
<1> DEFINE r == Append(ms, m)
<1>1. /\ Len(r) = Len(ms) + 1 /\ Len(ms) \in Nat /\ c \in 1..Len(ms) /\ r[Len(ms) + 1] = m
      /\ \A i \in 1..Len(ms) : r[i] = ms[i]
  BY DEF Newest
<1> HIDE DEF r
<1>2. c \in 1..Len(r) /\ HasToolUse(r[c]) /\ r[c].role = "assistant"
  BY <1>1 DEF Newest
<1>3. \A k \in (c + 1)..Len(r) : r[k].role # "assistant"
  <2> TAKE k \in (c + 1)..Len(r)
  <2>1. CASE k = Len(ms) + 1
    BY <1>1, <2>1
  <2>2. CASE k # Len(ms) + 1
    <3>1. k \in (c + 1)..Len(ms) /\ k \in 1..Len(ms)
      BY <1>1, <2>2
    <3> QED
      BY <1>1, <3>1 DEF Newest
  <2> QED
    BY <2>1, <2>2
<1>4. ASSUME NEW id \in ids
      PROVE  \E i \in (c + 1)..Len(r) :
               IsToolResult(r[i]) /\ r[i].of = id /\ r[i].size # "cut"
  <2>1. PICK i \in (c + 1)..Len(ms) :
          IsToolResult(ms[i]) /\ ms[i].of = id /\ ms[i].size # "cut"
    BY DEF Newest
  <2>2. i \in 1..Len(ms) /\ i \in (c + 1)..Len(r)
    BY <1>1
  <2> QED
    BY <1>1, <2>1, <2>2
<1>5. Len(ms) + 1 \in (c + 1)..Len(r)
  BY <1>1
<1>6. Newest(r, c, ids)
  BY <1>2, <1>3, <1>4 DEF Newest
<1>7. ASSUME IsToolResult(m) /\ m.size # "cut" PROVE Newest(r, c, ids \cup {m.of})
  BY <1>1, <1>2, <1>3, <1>4, <1>5, <1>7 DEF Newest
<1> QED
  BY <1>1, <1>6, <1>7 DEF r

\* What one tool's result does.
LEMMA RunToolIs ==
  ASSUME Going, MessagesInv, ToolsInv, RunTool
  PROVE  /\ Len(messages') = Len(messages) + 1
         /\ Len(Tail(at.todo)) = Len(at.todo) - 1
         /\ \E c \in 1..Len(messages) :
              /\ Newest(messages', c, fresh')
              /\ \A k \in (c + 1)..Len(messages') : IsToolResult(messages'[k])
              /\ Len(messages') - c + Len(Tail(at.todo)) <= MaxCalls
<1>1. PICK size \in {"short", "long"}, hits \in SUBSET Cases :
        messages' = Append(messages, Result(Head(at.todo), size, IF context THEN {} ELSE hits))
  BY DEF RunTool
<1>2. /\ at.pc = "tools" /\ at.todo \in Seq(Nat) /\ at.todo # <<>>
      /\ messages \in Seq(Message) /\ Len(messages) \in Nat
      /\ fresh' = fresh \cup {Head(at.todo)}
  BY DEF RunTool, Going, Places, MessagesInv, Sound
<1>3. PICK c \in 1..Len(messages) :
        /\ Newest(messages, c, fresh)
        /\ \A k \in (c + 1)..Len(messages) : IsToolResult(messages[k])
        /\ Len(messages) - c + Len(at.todo) <= MaxCalls
  BY <1>2 DEF ToolsInv
<1> DEFINE found == IF context THEN {} ELSE hits
           m == Result(Head(at.todo), size, found)
<1>4. Head(at.todo) \in Nat /\ found \in SUBSET Cases
  BY <1>2
<1> HIDE DEF found
<1>5. m \in Message /\ m.role = "tool" /\ m.of = Head(at.todo) /\ m.size # "cut"
  BY <1>4 DEF Result, Message
<1> HIDE DEF m
<1>6. messages' = Append(messages, m)
  BY <1>1 DEF found, m
<1>7. Newest(messages', c, fresh') /\ Len(messages') = Len(messages) + 1
  BY <1>2, <1>3, <1>5, <1>6, AppendKeepsNewest DEF IsToolResult
<1>8. \A k \in (c + 1)..Len(messages') : IsToolResult(messages'[k])
  <2> TAKE k \in (c + 1)..Len(messages')
  <2>1. CASE k = Len(messages) + 1
    BY <1>2, <1>5, <1>6, <2>1 DEF IsToolResult
  <2>2. CASE k # Len(messages) + 1
    <3>1. k \in (c + 1)..Len(messages) /\ k \in 1..Len(messages)
      BY <1>2, <1>7, <2>2
    <3>2. messages'[k] = messages[k]
      BY <1>2, <1>5, <1>6, <3>1
    <3> QED
      BY <1>3, <3>1, <3>2
  <2> QED
    BY <2>1, <2>2
<1>9. Len(Tail(at.todo)) = Len(at.todo) - 1 /\ Len(at.todo) \in Nat
  <2>1. PICK todo \in Seq(Nat) : todo = at.todo /\ todo # <<>>
    BY <1>2
  <2>2. Len(Tail(todo)) = Len(todo) - 1 /\ Len(todo) \in Nat
    BY <2>1
  <2> QED
    BY <2>1, <2>2
<1>10. Len(messages') - c + Len(Tail(at.todo)) <= MaxCalls
  <2> DEFINE p == Len(Tail(at.todo))
             q == Len(at.todo)
  <2>1. p = q - 1 /\ q \in Nat
    BY <1>9
  <2>2. Len(messages) - c + q <= MaxCalls
    BY <1>3
  <2> HIDE DEF p, q
  <2>3. Len(messages') - c + p <= MaxCalls
    BY <1>2, <1>7, <2>1, <2>2, ConversationAssumption
  <2> QED
    BY <2>3 DEF p
<1> QED
  BY <1>7, <1>8, <1>9, <1>10

\* An answer that calls tools is the last message, and makes all its calls.
LEMMA CallsToolsIs ==
  ASSUME Going, MessagesInv, CallsTools
  PROVE  \E n \in 1..MaxCalls :
           /\ messages' = Append(messages, CallsOf((at.made + 1)..(at.made + n)))
           /\ CallsOf((at.made + 1)..(at.made + n)) \in Message
           /\ messages'[Len(messages) + 1] = CallsOf((at.made + 1)..(at.made + n))
           /\ Len(messages') = Len(messages) + 1
           /\ Newest(messages', Len(messages) + 1, {})
           /\ at'.pc = "tools" /\ at'.todo = [i \in 1..n |-> at.made + i]
           /\ Len(at'.todo) = n /\ fresh' = {}
<1>1. PICK n \in 1..MaxCalls :
        /\ messages' = Append(messages, CallsOf((at.made + 1)..(at.made + n)))
        /\ at' = [at EXCEPT !.pc = "tools", !.made = @ + n,
                            !.todo = [i \in 1..n |-> at.made + i]]
  BY DEF CallsTools
<1>2. /\ messages \in Seq(Message) /\ Len(messages) \in Nat /\ at \in Places
      /\ at.made \in Nat /\ n \in Nat \ {0}
  BY ConversationAssumption DEF MessagesInv, Sound, Going, Places
<1> DEFINE ids == (at.made + 1)..(at.made + n)
           todo == [i \in 1..n |-> at.made + i]
           m == CallsOf(ids)
<1>3. ids \in SUBSET Nat /\ ids # {}
  <2>1. at.made + 1 \in ids
    BY <1>2
  <2> QED
    BY <1>2, <2>1
<1>4. Len(todo) = n
  <2>1. DOMAIN todo = 1..n
    OBVIOUS
  <2>2. todo \in [1..n -> Nat]
    BY <1>2
  <2> HIDE DEF todo
  <2> QED
    BY <1>2, <2>1, <2>2
<1>5. at'.pc = "tools" /\ at'.todo = todo
  <2> HIDE DEF todo
  <2>1. at' = [at EXCEPT !.pc = "tools", !.made = @ + n, !.todo = todo]
    BY <1>1 DEF todo
  <2> QED
    BY <1>2, <2>1 DEF Places
<1> HIDE DEF ids, todo
<1>6. m \in Message /\ m.role = "assistant" /\ HasToolUse(m)
  BY <1>3 DEF CallsOf, Text, Message, HasToolUse
<1> HIDE DEF m
<1>7. messages' = Append(messages, m)
  BY <1>1 DEF m, ids
<1>8. Len(messages') = Len(messages) + 1 /\ messages'[Len(messages) + 1] = m
  BY <1>2, <1>6, <1>7
<1>9. Newest(messages', Len(messages) + 1, {})
  BY <1>2, <1>6, <1>8 DEF Newest
<1>10. fresh' = {}
  BY DEF CallsTools
<1> QED
  BY <1>4, <1>5, <1>6, <1>7, <1>8, <1>9, <1>10 DEF m, ids, todo

\* Only an answer and a result lead to where tools run.
LEMMA WhenTools ==
  ASSUME Going, [Next]_vars, at'.pc = "tools"
  PROVE  CallsTools \/ RunTool \/ (UNCHANGED <<messages, at, fresh>>)
<1>0. at \in Places
  BY DEF Going
<1>1. CASE Chat \/ Investigate \/ ChatOn
  BY <1>1 DEF Chat, Investigate, ChatOn, Begin, Start
<1>2. CASE Compact \/ SendAll \/ GuardStops \/ Answers
  BY <1>0, <1>2 DEF Compact, SendAll, GuardStops, Answers, Places
<1>3. CASE SummaryArrives \/ SummaryFails \/ Overflows
  BY <1>0, <1>3 DEF SummaryArrives, SummaryFails, Overflows, Places
<1>4. CASE RequestFails \/ ToolRaises
  BY <1>4, OverIs DEF RequestFails, ToolRaises
<1>5. CASE OtherAsks \/ OtherReturns \/ UNCHANGED vars
  BY <1>5 DEF OtherAsks, OtherReturns, vars
<1> QED
  BY <1>1, <1>2, <1>3, <1>4, <1>5 DEF Next, Loop

LEMMA ToolsStep ==
  ASSUME Going, MessagesInv, ToolsInv, [Next]_vars
  PROVE  ToolsInv'
<1> SUFFICES ASSUME at'.pc = "tools"
             PROVE  \E c \in 1..Len(messages') :
                      /\ Newest(messages', c, fresh')
                      /\ \A k \in (c + 1)..Len(messages') : IsToolResult(messages'[k])
                      /\ Len(messages') - c + Len(at'.todo) <= MaxCalls
  BY DEF ToolsInv
<1>0. at \in Places /\ Len(messages) \in Nat
  BY DEF Going, MessagesInv, Sound
<1>1. CASE CallsTools
  <2>1. PICK n \in 1..MaxCalls :
          /\ Len(messages') = Len(messages) + 1
          /\ Newest(messages', Len(messages) + 1, {})
          /\ Len(at'.todo) = n /\ fresh' = {}
    BY <1>1, CallsToolsIs
  <2>2. /\ Len(messages) + 1 \in 1..Len(messages')
        /\ Len(messages') - (Len(messages) + 1) + Len(at'.todo) <= MaxCalls
        /\ \A k \in (Len(messages) + 1 + 1)..Len(messages') : IsToolResult(messages'[k])
    BY <1>0, <2>1, ConversationAssumption
  <2>3. Newest(messages', Len(messages) + 1, fresh')
    BY <2>1
  <2> QED
    BY <2>2, <2>3
<1>2. CASE RunTool
  <2>1. at'.todo = Tail(at.todo)
    BY <1>0, <1>2 DEF RunTool, NextCall, Places
  <2>2. PICK c \in 1..Len(messages) :
          /\ Newest(messages', c, fresh')
          /\ \A k \in (c + 1)..Len(messages') : IsToolResult(messages'[k])
          /\ Len(messages') - c + Len(Tail(at.todo)) <= MaxCalls
    BY <1>2, RunToolIs
  <2>3. c \in 1..Len(messages')
    BY <2>2 DEF Newest
  <2> QED
    BY <2>1, <2>2, <2>3
<1>3. CASE UNCHANGED <<messages, at, fresh>>
  BY <1>3 DEF ToolsInv
<1> QED
  BY <1>1, <1>2, <1>3, WhenTools

\* While there is room in what a snipped history keeps for the head with its
\* results, two answers with their results, a question and the marker, the results
\* stay until they are sent.
LEMMA FreshStep ==
  ASSUME MaxMessages >= HeadKept + 3 * MaxCalls + 3,
         Going, MessagesInv, ToolsInv, FreshInv, [Next]_vars
  PROVE  FreshInv'
<1>0. /\ at \in Places /\ at.step \in Nat /\ MaxSteps \in Nat \ {0} /\ MaxCalls \in Nat \ {0}
      /\ Sound(messages) /\ messages \in Seq(Message) /\ Len(messages) \in Nat
  BY ConversationAssumption DEF Going, Places, MessagesInv, Sound
<1>1. ASSUME fresh' = {} PROVE FreshInv'
  BY <1>1 DEF FreshInv
<1>2. ASSUME at'.pc \notin {"idle", "top", "summary", "ask"} PROVE FreshInv'
  BY <1>2 DEF FreshInv
<1>3. ASSUME UNCHANGED <<messages, fresh>>, at.pc \in {"idle", "top", "summary", "ask"},
             AfterAnswer <= AfterAnswer'
      PROVE  FreshInv'
  <2>1. CASE fresh = {}
    BY <1>1, <1>3, <2>1
  <2>2. CASE fresh # {}
    <3>1. PICK c \in 1..Len(messages) :
            Newest(messages, c, fresh) /\ Len(messages) - c <= AfterAnswer
      BY <1>3, <2>2 DEF FreshInv
    <3>2. AfterAnswer \in Nat /\ AfterAnswer' \in Nat
      BY <1>0 DEF AfterAnswer
    <3>3. Len(messages) - c <= AfterAnswer'
      BY <1>0, <1>3, <3>1, <3>2
    <3> QED
      BY <1>3, <3>1, <3>3 DEF FreshInv
  <2> QED
    BY <2>1, <2>2
<1>4. CASE Chat \/ Investigate
  BY <1>1, <1>4 DEF Chat, Investigate, Begin
<1>5. CASE ChatOn
  <2>1. CASE fresh = {}
    BY <1>1, <1>5, <2>1 DEF ChatOn
  <2>2. CASE fresh # {}
    <3>1. PICK c \in 1..Len(messages) :
            Newest(messages, c, fresh) /\ Len(messages) - c <= MaxCalls
      BY <1>5, <2>2 DEF FreshInv, ChatOn, AfterAnswer
    <3>2. messages' = Append(messages, Text("user")) /\ fresh' = fresh
      BY <1>5 DEF ChatOn
    <3>3. Newest(messages', c, fresh') /\ Len(messages') = Len(messages) + 1
      BY <1>0, <3>1, <3>2, AppendKeepsNewest, TextIs
    <3>4. AfterAnswer' = MaxCalls + 1
      BY <1>5 DEF ChatOn, Start, AfterAnswer
    <3>5. c \in 1..Len(messages') /\ Len(messages') - c <= AfterAnswer'
      BY <1>0, <3>1, <3>3, <3>4
    <3> QED
      BY <3>3, <3>5 DEF FreshInv
  <2> QED
    BY <2>1, <2>2
<1>6. CASE Compact
  <2>1. CASE fresh = {}
    BY <1>1, <1>6, <2>1 DEF Compact
  <2>2. CASE fresh # {}
    <3> DEFINE s == Snip(messages, MaxMessages)
    <3>1. /\ at.pc = "top" /\ fresh' = fresh
          /\ messages' = IF Tokens(s) > Threshold THEN Micro(s) ELSE s
          /\ at'.pc \in {"summary", "ask"} /\ at'.step = at.step
      <4>1. at' = [at EXCEPT !.pc = "summary"] \/ at' = [at EXCEPT !.pc = "ask"]
        BY <1>6 DEF Compact
      <4> QED
        BY <1>0, <1>6, <4>1 DEF Compact, Places
    <3>2. PICK c \in 1..Len(messages) :
            Newest(messages, c, fresh) /\ Len(messages) - c <= AfterAnswer
      BY <2>2, <3>1 DEF FreshInv
    <3>3. AfterAnswer' = AfterAnswer /\ AfterAnswer <= MaxCalls + 1 /\ AfterAnswer \in Nat
      BY <1>0, <3>1 DEF AfterAnswer
    <3>4. Len(messages) - c <= MaxCalls + 1
      BY <1>0, <3>2, <3>3
    <3>5. PICK d \in 1..Len(s) :
            Newest(s, d, fresh) /\ Len(s) - d = Len(messages) - c
      BY <1>0, <3>2, <3>4, SnipKeepsNewest
    <3>6. Sound(s)
      <4>1. Len(messages) > 0
        BY <1>0, <3>2
      <4> QED
        BY <1>0, <4>1, SnipSound, ConversationAssumption
    <3> HIDE DEF s
    <3>7. Newest(messages', d, fresh') /\ Len(messages') = Len(s)
      BY <3>1, <3>5, <3>6, MicroKeepsNewest
    <3>8. d \in 1..Len(messages') /\ Len(messages') - d <= AfterAnswer'
      BY <3>2, <3>3, <3>5, <3>7
    <3> QED
      BY <3>7, <3>8 DEF FreshInv
  <2> QED
    BY <2>1, <2>2
<1>7. CASE SendAll \/ GuardStops
  <2>1. UNCHANGED <<messages, fresh>> /\ at.pc = "top"
    BY <1>7 DEF SendAll, GuardStops
  <2>2. AfterAnswer' = AfterAnswer
    BY <1>0, <1>7 DEF SendAll, GuardStops, AfterAnswer, Places
  <2>3. AfterAnswer \in Nat
    BY <1>0 DEF AfterAnswer
  <2> QED
    BY <1>3, <2>1, <2>2, <2>3
<1>8. CASE SummaryArrives \/ Answers \/ CallsTools \/ RequestFails \/ ToolRaises
  BY <1>1, <1>8 DEF SummaryArrives, Answers, CallsTools, RequestFails, ToolRaises
<1>9. CASE SummaryFails
  <2>1. CASE at.pc = "summary"
    <3>1. UNCHANGED <<messages, fresh>> /\ at' = [at EXCEPT !.pc = "ask"]
      BY <1>9, <2>1 DEF SummaryFails
    <3>2. AfterAnswer' = AfterAnswer /\ AfterAnswer \in Nat
      BY <1>0, <2>1, <3>1 DEF AfterAnswer, Places
    <3> QED
      BY <1>3, <2>1, <3>1, <3>2
  <2>2. CASE at.pc # "summary"
    <3>1. at'.pc = "again"
      BY <1>0, <1>9, <2>2 DEF SummaryFails, Places
    <3> QED
      BY <1>2, <3>1
  <2> QED
    BY <2>1, <2>2
<1>10. CASE Overflows
  <2>1. at'.pc \in {"again", "emergency"}
    BY <1>0, <1>10 DEF Overflows, Places
  <2> QED
    BY <1>2, <2>1
<1>11. CASE RunTool
  <2>1. /\ at.pc = "tools" /\ at.todo \in Seq(Nat) /\ at.todo # <<>>
        /\ IF Tail(at.todo) = <<>> THEN at'.pc = "top" /\ at'.step = at.step + 1
           ELSE at'.pc = "tools"
    BY <1>0, <1>11 DEF RunTool, NextCall, Going, Places
  <2>2. CASE Tail(at.todo) # <<>>
    BY <1>2, <2>1, <2>2
  <2>3. CASE Tail(at.todo) = <<>>
    <3>1. PICK c \in 1..Len(messages) :
            /\ Newest(messages', c, fresh') /\ Len(messages') = Len(messages) + 1
            /\ Len(messages') - c + Len(Tail(at.todo)) <= MaxCalls
      BY <1>11, RunToolIs
    <3>2. Len(Tail(at.todo)) = 0
      <4>1. Len(<<>>) = 0
        OBVIOUS
      <4> QED
        BY <2>3, <4>1, Zenon
    <3>3. AfterAnswer' = MaxCalls
      <4>1. at'.step = at.step + 1
        BY <2>1, <2>3, Zenon
      <4>2. at'.step # 0
        BY <1>0, <4>1
      <4> QED
        BY <4>2 DEF AfterAnswer
    <3>4. c \in 1..Len(messages') /\ Len(messages') - c <= AfterAnswer'
      <4> DEFINE p == Len(Tail(at.todo))
      <4>1. p = 0 /\ Len(messages') - c + p <= MaxCalls
        BY <3>1, <3>2
      <4> HIDE DEF p
      <4>2. Len(messages') - c <= MaxCalls
        BY <1>0, <3>1, <4>1
      <4> QED
        BY <3>1, <3>3, <4>2 DEF Newest
    <3> QED
      BY <3>1, <3>4 DEF FreshInv
  <2> QED
    BY <2>2, <2>3
<1>12. CASE OtherAsks \/ OtherReturns \/ UNCHANGED vars
  BY <1>12 DEF OtherAsks, OtherReturns, vars, FreshInv, AfterAnswer
<1> QED
  BY <1>4, <1>5, <1>6, <1>7, <1>8, <1>9, <1>10, <1>11, <1>12 DEF Next, Loop

-----------------------------------------------------------------------------
(* Every request *)

ConversationInv == Going /\ MessagesInv /\ ToolsInv

LEMMA ConversationHolds == Spec => []ConversationInv
<1>1. Init => ConversationInv
  <2> SUFFICES ASSUME Init PROVE ConversationInv
    OBVIOUS
  <2>1. Sound(<<>>)
    BY DEF Sound, RunsShort
  <2>2. at.pc = "idle" /\ ~ (at.turn < MaxTurns)
    <3>1. MaxTurns \in Nat
      BY ConversationAssumption
    <3> QED
      BY <3>1 DEF Init, Over, Start
  <2> QED
    BY <2>1, <2>2, GoingInit DEF Init, ConversationInv, MessagesInv, ToolsInv, Alive
<1>2. ConversationInv /\ [Next]_vars => ConversationInv'
  BY GoingStep, MessagesStep, ToolsStep DEF ConversationInv
<1> QED
  BY <1>1, <1>2, PTL DEF Spec

\* Whatever was snipped, shortened or summarised, and however often, every request
\* opens with the system prompt (head + compact_history, reactive_compact).
THEOREM InstructionsAreKept == Spec => []InstructionsStay
<1>1. ConversationInv => InstructionsStay
  BY TextIs DEF ConversationInv, MessagesInv, Alive, Opened, InstructionsStay
<1> QED
  BY <1>1, ConversationHolds, PTL

\* The results the model waits for reach it in full, through snip_compact and
\* micro_compact, if a snipped history has room for two batches of results.
THEOREM NewestReachesModel ==
  ASSUME MaxMessages >= HeadKept + 3 * MaxCalls + 3
  PROVE  Spec => []NewestIsSent
<1>1. Init => FreshInv
  BY DEF Init, FreshInv
<1>2. ConversationInv /\ FreshInv /\ [Next]_vars => FreshInv'
  BY FreshStep DEF ConversationInv
<1>3. ConversationInv /\ FreshInv => NewestIsSent
  <2> SUFFICES ASSUME ConversationInv, FreshInv, at.pc = "ask", NEW id \in fresh
               PROVE  \E i \in Results(messages) :
                        messages[i].of = id /\ messages[i].size # "cut"
    BY DEF NewestIsSent
  <2>1. PICK c \in 1..Len(messages) : Newest(messages, c, fresh)
    BY DEF FreshInv
  <2>2. PICK i \in (c + 1)..Len(messages) :
          IsToolResult(messages[i]) /\ messages[i].of = id /\ messages[i].size # "cut"
    BY <2>1 DEF Newest
  <2>3. i \in DOMAIN messages
    BY <2>1 DEF ConversationInv, MessagesInv, Sound
  <2> QED
    BY <2>2, <2>3 DEF Results
<1> QED
  BY <1>1, <1>2, <1>3, ConversationHolds, PTL DEF Spec

-----------------------------------------------------------------------------
(* Calls and results *)

LEMMA NoCallsPaired ==
  ASSUME NEW ms, \A i \in DOMAIN ms : ms[i].calls = {} /\ ~ IsToolResult(ms[i])
  PROVE  PairedBut(ms, {})
BY DEF PairedBut, Results

LEMMA PairedIs ==
  ASSUME NEW ms, PairedBut(ms, {})
  PROVE  Paired(ms)
BY DEF PairedBut, Paired, Answered

\* A message that is no result leaves all calls answered but its own.
LEMMA AppendPaired ==
  ASSUME NEW ms \in Seq(Message), PairedBut(ms, {}),
         NEW m \in Message, ~ IsToolResult(m)
  PROVE  PairedBut(Append(ms, m), m.calls)
<1> DEFINE r == Append(ms, m)
           n == Len(ms)
<1>1. /\ n \in Nat /\ DOMAIN ms = 1..n /\ DOMAIN r = 1..(n + 1) /\ Len(r) = n + 1
      /\ r[n + 1] = m /\ \A i \in 1..n : r[i] = ms[i]
  OBVIOUS
<1> HIDE DEF r, n
<1>2. ASSUME NEW i \in DOMAIN r, NEW id \in r[i].calls
      PROVE  Answered(r, i, id) \/ (id \in m.calls /\ AtEnd(r, i))
  <2>1. CASE i = n + 1
    BY <1>1, <2>1 DEF AtEnd
  <2>2. CASE i # n + 1
    <3>1. i \in 1..n /\ id \in ms[i].calls
      BY <1>1, <2>2
    <3>2. PICK k \in 1..n : /\ k > i /\ IsToolResult(ms[k]) /\ ms[k].of = id
                            /\ \A j \in (i + 1)..k : IsToolResult(ms[j])
      BY <1>1, <3>1 DEF PairedBut, Answered
    <3>3. k \in DOMAIN r /\ \A j \in (i + 1)..k : IsToolResult(r[j])
      BY <1>1, <3>1, <3>2
    <3> QED
      BY <1>1, <3>2, <3>3 DEF Answered
  <2> QED
    BY <2>1, <2>2
<1>3. ASSUME NEW k \in Results(r)
      PROVE  \E i \in 1..(k - 1) : /\ r[k].of \in r[i].calls
                                   /\ \A j \in (i + 1)..k : IsToolResult(r[j])
  <2>1. k \in 1..n /\ k \in Results(ms)
    BY <1>1 DEF Results
  <2>2. PICK i \in 1..(k - 1) : /\ ms[k].of \in ms[i].calls
                                /\ \A j \in (i + 1)..k : IsToolResult(ms[j])
    BY <2>1 DEF PairedBut
  <2>3. i \in 1..n /\ \A j \in (i + 1)..k : j \in 1..n
    BY <1>1, <2>1
  <2> QED
    BY <1>1, <2>1, <2>2, <2>3
<1>4. ASSUME NEW id \in m.calls
      PROVE  \E i \in DOMAIN r : id \in r[i].calls /\ AtEnd(r, i)
  BY <1>1 DEF AtEnd
<1> QED
  BY <1>2, <1>3, <1>4 DEF PairedBut, r

\* A result answers one of the calls that are left.
LEMMA ResultPaired ==
  ASSUME NEW ms \in Seq(Message), NEW left, PairedBut(ms, left),
         NEW m \in Message, IsToolResult(m), m.calls = {}, m.of \in left,
         NEW rest \in SUBSET left, left \subseteq rest \cup {m.of}
  PROVE  PairedBut(Append(ms, m), rest)
<1> DEFINE r == Append(ms, m)
           n == Len(ms)
<1>1. /\ n \in Nat /\ DOMAIN ms = 1..n /\ DOMAIN r = 1..(n + 1) /\ Len(r) = n + 1
      /\ r[n + 1] = m /\ \A i \in 1..n : r[i] = ms[i]
  OBVIOUS
<1> HIDE DEF r
<1>2. ASSUME NEW i \in 1..n, AtEnd(ms, i)
      PROVE  AtEnd(r, i) /\ \A j \in (i + 1)..(n + 1) : IsToolResult(r[j])
  <2>1. ASSUME NEW j \in (i + 1)..(n + 1) PROVE IsToolResult(r[j])
    <3>1. CASE j = n + 1
      BY <1>1, <3>1
    <3>2. CASE j # n + 1
      <4>1. j \in (i + 1)..n /\ j \in 1..n
        BY <1>1, <3>2
      <4> QED
        BY <1>1, <1>2, <4>1 DEF AtEnd
    <3> QED
      BY <3>1, <3>2
  <2> QED
    BY <1>1, <2>1 DEF AtEnd
<1> HIDE DEF n
<1>3. ASSUME NEW i \in DOMAIN r, NEW id \in r[i].calls
      PROVE  Answered(r, i, id) \/ (id \in rest /\ AtEnd(r, i))
  <2>1. i \in 1..n /\ id \in ms[i].calls
    BY <1>1
  <2>2. CASE Answered(ms, i, id)
    <3>1. PICK k \in 1..n : /\ k > i /\ IsToolResult(ms[k]) /\ ms[k].of = id
                            /\ \A j \in (i + 1)..k : IsToolResult(ms[j])
      BY <1>1, <2>2 DEF Answered
    <3>2. k \in DOMAIN r /\ \A j \in (i + 1)..k : IsToolResult(r[j])
      BY <1>1, <2>1, <3>1
    <3> QED
      BY <1>1, <3>1, <3>2 DEF Answered
  <2>3. CASE id \in left /\ AtEnd(ms, i) /\ id = m.of
    <3>1. n + 1 \in DOMAIN r /\ n + 1 > i /\ IsToolResult(r[n + 1]) /\ r[n + 1].of = id
      BY <1>1, <2>1, <2>3
    <3>2. \A j \in (i + 1)..(n + 1) : IsToolResult(r[j])
      BY <1>2, <2>1, <2>3
    <3> QED
      BY <3>1, <3>2 DEF Answered
  <2>4. CASE id \in left /\ AtEnd(ms, i) /\ id # m.of
    BY <1>2, <2>1, <2>4
  <2> QED
    BY <1>1, <2>1, <2>2, <2>3, <2>4 DEF PairedBut
<1>4. ASSUME NEW k \in Results(r)
      PROVE  \E i \in 1..(k - 1) : /\ r[k].of \in r[i].calls
                                   /\ \A j \in (i + 1)..k : IsToolResult(r[j])
  <2>1. CASE k = n + 1
    <3>1. PICK i \in 1..n : m.of \in ms[i].calls /\ AtEnd(ms, i)
      BY <1>1 DEF PairedBut
    <3>2. i \in 1..(k - 1) /\ r[k].of \in r[i].calls
      BY <1>1, <2>1, <3>1
    <3> QED
      BY <1>2, <2>1, <3>1, <3>2
  <2>2. CASE k # n + 1
    <3>1. k \in 1..n /\ k \in Results(ms)
      BY <1>1, <2>2 DEF Results
    <3>2. PICK i \in 1..(k - 1) : /\ ms[k].of \in ms[i].calls
                                  /\ \A j \in (i + 1)..k : IsToolResult(ms[j])
      BY <3>1 DEF PairedBut
    <3>3. i \in 1..n /\ \A j \in (i + 1)..k : j \in 1..n
      BY <1>1, <3>1
    <3> QED
      BY <1>1, <3>1, <3>2, <3>3
  <2> QED
    BY <2>1, <2>2
<1>5. ASSUME NEW id \in rest
      PROVE  \E i \in DOMAIN r : id \in r[i].calls /\ AtEnd(r, i)
  <2>1. PICK i \in 1..n : id \in ms[i].calls /\ AtEnd(ms, i)
    BY <1>1 DEF PairedBut
  <2>2. i \in DOMAIN r /\ id \in r[i].calls
    BY <1>1, <2>1
  <2> QED
    BY <1>2, <2>1, <2>2
<1> QED
  BY <1>3, <1>4, <1>5 DEF PairedBut, r

\* Shortened results are still results of the same calls.
LEMMA MicroPaired ==
  ASSUME NEW ms \in Seq(Message), PairedBut(ms, {})
  PROVE  PairedBut(Micro(ms), {})
<1> DEFINE r == Micro(ms)
           n == Len(ms)
<1>1. /\ n \in Nat /\ DOMAIN ms = 1..n /\ DOMAIN r = 1..n
      /\ \A i \in 1..n : /\ r[i].calls = ms[i].calls /\ r[i].of = ms[i].of
                         /\ IsToolResult(r[i]) <=> IsToolResult(ms[i])
  <2>1. r \in Seq(Message) /\ Len(r) = n
    BY MicroIs
  <2>2. \A i \in 1..n : /\ r[i].calls = ms[i].calls /\ r[i].of = ms[i].of
                        /\ r[i].role = ms[i].role
    BY MicroIs
  <2> HIDE DEF r
  <2> QED
    BY <2>1, <2>2 DEF IsToolResult
<1> HIDE DEF r, n
<1>2. ASSUME NEW i \in 1..n, NEW id \in r[i].calls PROVE Answered(r, i, id)
  <2>1. PICK k \in 1..n : /\ k > i /\ IsToolResult(ms[k]) /\ ms[k].of = id
                          /\ \A j \in (i + 1)..k : IsToolResult(ms[j])
    BY <1>1 DEF PairedBut, Answered
  <2>2. \A j \in (i + 1)..k : IsToolResult(r[j])
    BY <1>1, <2>1
  <2> QED
    BY <1>1, <2>1, <2>2 DEF Answered
<1>3. ASSUME NEW k \in Results(r)
      PROVE  \E i \in 1..(k - 1) : /\ r[k].of \in r[i].calls
                                   /\ \A j \in (i + 1)..k : IsToolResult(r[j])
  <2>1. k \in 1..n /\ k \in Results(ms)
    BY <1>1 DEF Results
  <2>2. PICK i \in 1..(k - 1) : /\ ms[k].of \in ms[i].calls
                                /\ \A j \in (i + 1)..k : IsToolResult(ms[j])
    BY <2>1 DEF PairedBut
  <2>3. i \in 1..n /\ \A j \in (i + 1)..k : j \in 1..n
    BY <1>1, <2>1
  <2> QED
    BY <1>1, <2>1, <2>2, <2>3
<1> QED
  BY <1>1, <1>2, <1>3 DEF PairedBut, r

LEMMA PairStep ==
  ASSUME ConversationInv, PairInv, [Next]_vars
  PROVE  PairInv'
<1> SUFFICES ASSUME ~ cut' PROVE PairedBut(messages', Left')
  BY DEF PairInv
<1>0. /\ at \in Places /\ messages \in Seq(Message) /\ Going /\ MessagesInv /\ ToolsInv
      /\ Alive => messages[1] = Text("system")
  BY DEF ConversationInv, Going, MessagesInv, Sound, Opened
<1>1. ASSUME at'.pc # "tools", PairedBut(messages', {}) PROVE PairedBut(messages', Left')
  BY <1>1 DEF Left
<1>2. ASSUME ~ cut, at.pc # "tools" PROVE PairedBut(messages, {})
  BY <1>2 DEF PairInv, Left
<1>3. ASSUME ~ cut, at.pc # "tools", at'.pc # "tools", NEW m \in Message,
             messages' = Append(messages, m), m.calls = {}, ~ IsToolResult(m)
      PROVE  PairedBut(messages', Left')
  <2>1. PairedBut(messages', m.calls)
    BY <1>0, <1>2, <1>3, AppendPaired
  <2> QED
    BY <1>1, <1>3, <2>1
<1>4. CASE Chat \/ Investigate
  <2>1. at'.pc = "top" /\ \E n \in Nat : messages' = Prompt(n)
    <3>1. CASE Chat
      BY <3>1, ConversationAssumption DEF Chat, Begin, Start
    <3>2. CASE Investigate
      BY <3>2 DEF Investigate, Begin, Start
    <3> QED
      BY <1>4, <3>1, <3>2
  <2>2. PICK n \in Nat : messages' = Prompt(n)
    BY <2>1
  <2>3. \A i \in DOMAIN messages' : messages'[i].calls = {} /\ ~ IsToolResult(messages'[i])
    <3>1. Prompt(n) \in Seq(Message)
      BY PromptIs DEF Sound
    <3>2. DOMAIN Prompt(n) = 1..Len(Prompt(n))
      BY <3>1
    <3> QED
      BY <2>2, <3>2, PromptIs
  <2> QED
    BY <1>1, <2>1, <2>3, NoCallsPaired
<1>5. CASE ChatOn
  <2>1. /\ ~ cut /\ at.pc = "idle" /\ at'.pc = "top"
        /\ messages' = Append(messages, Text("user"))
    BY <1>5 DEF ChatOn, Start
  <2> QED
    BY <1>3, <2>1, TextIs DEF IsToolResult
<1>6. CASE Compact
  <2>1. /\ ~ cut /\ Snip(messages, MaxMessages) = messages /\ at.pc = "top"
        /\ messages' = Micro(messages) \/ messages' = messages
    BY <1>6 DEF Compact
  <2>2. at'.pc # "tools"
    <3>1. at' = [at EXCEPT !.pc = "summary"] \/ at' = [at EXCEPT !.pc = "ask"]
      BY <1>6 DEF Compact
    <3> QED
      BY <1>0, <3>1 DEF Places
  <2>3. PairedBut(messages', {})
    BY <1>0, <1>2, <2>1, MicroPaired
  <2> QED
    BY <1>1, <2>2, <2>3
<1>7. CASE SummaryArrives
  <2>1. at'.pc # "tools" /\ Alive /\ messages' = <<messages[1], Summary>>
    BY <1>0, <1>7 DEF SummaryArrives, Summarised, Alive, Places
  <2>2. messages' = <<Text("system"), Summary>>
    BY <1>0, <2>1
  <2>3. \A i \in DOMAIN messages' : messages'[i].calls = {} /\ ~ IsToolResult(messages'[i])
    <3>1. \A m \in {Text("system"), Summary} : m.calls = {} /\ ~ IsToolResult(m)
      BY TextIs DEF Summary, IsToolResult
    <3>2. \A i \in DOMAIN messages' : messages'[i] \in {Text("system"), Summary}
      BY <2>2
    <3> QED
      BY <3>1, <3>2
  <2> QED
    BY <1>1, <2>1, <2>3, NoCallsPaired
<1>8. CASE SummaryFails
  <2>1. at.pc # "tools" /\ at'.pc # "tools" /\ Alive
    BY <1>0, <1>8 DEF SummaryFails, Alive, Places
  <2>2. ~ cut /\ messages' = messages
    <3>1. CASE at.pc = "summary"
      BY <1>8, <3>1 DEF SummaryFails
    <3>2. CASE at.pc # "summary"
      <4>1. EmergencySnip
        BY <1>8, <3>2 DEF SummaryFails
      <4> QED
        BY <1>0, <2>1, <4>1, EmergencyIs
    <3> QED
      BY <3>1, <3>2
  <2> QED
    BY <1>1, <1>2, <2>1, <2>2
<1>9. CASE Overflows
  <2>1. at.pc # "tools" /\ at'.pc # "tools" /\ Alive
    BY <1>0, <1>9 DEF Overflows, Alive, Places
  <2>2. ~ cut /\ messages' = messages
    <3>1. (cut' = cut /\ messages' = messages) \/ EmergencySnip
      BY <1>9 DEF Overflows
    <3> QED
      BY <1>0, <2>1, <3>1, EmergencyIs
  <2> QED
    BY <1>1, <1>2, <2>1, <2>2
<1>10. CASE SendAll \/ GuardStops
  <2>1. ~ cut /\ messages' = messages /\ at.pc # "tools" /\ at'.pc # "tools"
    BY <1>0, <1>10 DEF SendAll, GuardStops, Places
  <2> QED
    BY <1>1, <1>2, <2>1
<1>11. CASE Answers
  <2>1. /\ ~ cut /\ at.pc # "tools" /\ at'.pc # "tools"
        /\ messages' = Append(messages, Text("assistant"))
    BY <1>0, <1>11 DEF Answers, Sent, Places
  <2> QED
    BY <1>3, <2>1, TextIs DEF IsToolResult
<1>12. CASE CallsTools
  <2>1. ~ cut /\ at.pc # "tools"
    BY <1>12 DEF CallsTools, Sent
  <2>2. PICK n \in 1..MaxCalls :
          /\ messages' = Append(messages, CallsOf((at.made + 1)..(at.made + n)))
          /\ CallsOf((at.made + 1)..(at.made + n)) \in Message
          /\ at'.pc = "tools" /\ at'.todo = [i \in 1..n |-> at.made + i]
    BY <1>0, <1>12, CallsToolsIs
  <2> DEFINE ids == (at.made + 1)..(at.made + n)
             m == CallsOf(ids)
  <2>3. m.calls = ids /\ m.role = "assistant"
    BY DEF CallsOf, Text
  <2>4. PairedBut(messages', m.calls)
    <3> HIDE DEF m
    <3>1. m \in Message /\ messages' = Append(messages, m)
      BY <2>2 DEF m
    <3> QED
      BY <1>0, <1>2, <2>1, <2>3, <3>1, AppendPaired DEF IsToolResult
  <2>5. Left' = ids
    <3>1. Left' = {at.made + i : i \in 1..n}
      BY <2>2 DEF Left
    <3>2. at.made \in Nat /\ n \in Nat
      BY <1>0, ConversationAssumption DEF Places
    <3>3. \A x \in ids : x - at.made \in 1..n /\ at.made + (x - at.made) = x
      BY <3>2
    <3>4. \A i \in 1..n : at.made + i \in ids
      BY <3>2
    <3> HIDE DEF ids
    <3> QED
      BY <3>1, <3>3, <3>4
  <2> QED
    BY <2>3, <2>4, <2>5
<1>13. CASE RunTool
  <2>1. PICK size \in {"short", "long"}, hits \in SUBSET Cases :
          messages' = Append(messages, Result(Head(at.todo), size, IF context THEN {} ELSE hits))
    BY <1>13 DEF RunTool
  <2>2. /\ ~ cut /\ at.pc = "tools"
        /\ IF Tail(at.todo) = <<>> THEN at'.pc = "top" ELSE at'.pc = "tools"
        /\ at'.todo = Tail(at.todo)
    BY <1>0, <1>13 DEF RunTool, NextCall, Places
  <2>3. PICK todo \in Seq(Nat) : todo = at.todo /\ todo # <<>>
    BY <1>0, <2>2 DEF Going, Places
  <2> DEFINE found == IF context THEN {} ELSE hits
             m == Result(Head(todo), size, found)
             rest == {Tail(todo)[i] : i \in DOMAIN Tail(todo)}
             left == {todo[i] : i \in DOMAIN todo}
  <2>4. Head(todo) \in Nat /\ found \in SUBSET Cases
    BY <2>3
  <2>5. Left = left /\ Left' = rest
    <3>1. Left = left
      BY <2>2, <2>3 DEF Left
    <3>2. CASE Tail(todo) = <<>>
      BY <2>2, <2>3, <3>2 DEF Left
    <3>3. CASE Tail(todo) # <<>>
      BY <2>2, <2>3, <3>3 DEF Left
    <3> QED
      BY <3>1, <3>2, <3>3
  <2>6. Head(todo) \in left /\ rest \subseteq left /\ left \subseteq rest \cup {Head(todo)}
    <3>1. /\ Len(todo) \in Nat \ {0} /\ Head(todo) = todo[1] /\ DOMAIN todo = 1..Len(todo)
          /\ DOMAIN Tail(todo) = 1..(Len(todo) - 1)
      BY <2>3
    <3>2. \A i \in 1..(Len(todo) - 1) : Tail(todo)[i] = todo[i + 1] /\ i + 1 \in 1..Len(todo)
      BY <2>3, <3>1
    <3>3. \A i \in 2..Len(todo) : i - 1 \in 1..(Len(todo) - 1) /\ todo[i] = Tail(todo)[i - 1]
      BY <3>1, <3>2
    <3>4. \A i \in 1..Len(todo) : i = 1 \/ i \in 2..Len(todo)
      BY <3>1
    <3>5. Head(todo) \in left
      BY <3>1
    <3>6. ASSUME NEW i \in 1..(Len(todo) - 1) PROVE Tail(todo)[i] \in left
      BY <3>1, <3>2
    <3>7. ASSUME NEW i \in 1..Len(todo) PROVE todo[i] \in rest \cup {Head(todo)}
      BY <3>1, <3>3, <3>4
    <3> QED
      BY <3>1, <3>5, <3>6, <3>7
  <2> HIDE DEF found
  <2>7. /\ m \in Message /\ IsToolResult(m) /\ m.calls = {} /\ m.of = Head(todo)
    BY <2>4 DEF Result, Message, IsToolResult
  <2> HIDE DEF m, rest, left
  <2>8. PairedBut(messages, left)
    BY <2>2, <2>5 DEF PairInv
  <2>9. messages' = Append(messages, m)
    BY <2>1, <2>3 DEF m, found
  <2>10. PairedBut(messages', rest)
    BY <1>0, <2>6, <2>7, <2>8, <2>9, ResultPaired
  <2> QED
    BY <2>5, <2>10
<1>14. CASE RequestFails \/ ToolRaises
  <2>1. messages' = <<>> /\ at'.pc # "tools"
    BY <1>14, OverIs DEF RequestFails, ToolRaises
  <2>2. \A i \in DOMAIN messages' : messages'[i].calls = {} /\ ~ IsToolResult(messages'[i])
    BY <2>1
  <2> QED
    BY <1>1, <2>1, <2>2, NoCallsPaired
<1>15. CASE OtherAsks \/ OtherReturns \/ UNCHANGED vars
  <2>1. UNCHANGED <<cut, messages, at>>
    BY <1>15 DEF OtherAsks, OtherReturns, vars
  <2> QED
    BY <2>1 DEF PairInv, Left
<1> QED
  BY <1>4, <1>5, <1>6, <1>7, <1>8, <1>9, <1>10, <1>11, <1>12, <1>13, <1>14, <1>15
  DEF Next, Loop

\* A conversation that was not snipped reaches the model with every call followed
\* by its results and no other result: after shortening, failed summaries,
\* arguments that are no JSON, and turns the guard stopped (run_agent).
THEOREM UncutIsPaired == Spec => []PairedUnlessCut
<1>1. Init => PairInv
  <2>1. Init => messages = <<>> /\ Left = {}
    BY OverIs DEF Init, Left
  <2>2. \A i \in DOMAIN <<>> : <<>>[i].calls = {} /\ ~ IsToolResult(<<>>[i])
    OBVIOUS
  <2>3. PairedBut(<<>>, {})
    BY <2>2, NoCallsPaired
  <2> QED
    BY <2>1, <2>3 DEF PairInv
<1>2. ConversationInv /\ PairInv /\ [Next]_vars => PairInv'
  BY PairStep
<1>3. PairInv => PairedUnlessCut
  BY PairedIs DEF PairInv, PairedUnlessCut, Left, Sent
<1> QED
  BY <1>1, <1>2, <1>3, ConversationHolds, PTL DEF Spec

-----------------------------------------------------------------------------
(* Types *)

HistoryTypes ==
  /\ context \in BOOLEAN /\ cut \in BOOLEAN
  /\ fresh \subseteq Nat /\ shown \subseteq Cases
  /\ conclusion \in [runbook : Runbooks \cup {None}, refs : SUBSET Cases]

LEMMA AvailableIs ==
  ASSUME messages \in Seq(Message)
  PROVE  Available \subseteq Cases
<1>1. \A i \in Results(messages) : messages[i] \in Message
  BY DEF Results
<1>2. \A i \in Results(messages) : messages[i].hits \subseteq Cases
  BY <1>1, MessageIs
<1> QED
  BY <1>2 DEF Available

LEMMA TypesStep ==
  ASSUME ConversationInv, HistoryTypes, [Next]_vars
  PROVE  HistoryTypes'
<1>0. /\ at \in Places /\ Available \subseteq Cases
      /\ context \in BOOLEAN /\ cut \in BOOLEAN /\ fresh \subseteq Nat /\ shown \subseteq Cases
      /\ conclusion \in [runbook : Runbooks \cup {None}, refs : SUBSET Cases]
  BY AvailableIs DEF ConversationInv, Going, MessagesInv, Sound, HistoryTypes
<1>1. Nothing \in [runbook : Runbooks \cup {None}, refs : SUBSET Cases]
  BY DEF Nothing
<1>2. CASE Chat \/ Investigate
  BY <1>0, <1>1, <1>2 DEF Chat, Investigate, Begin, HistoryTypes
<1>3. CASE Compact \/ SummaryArrives \/ SummaryFails \/ Overflows
  BY <1>0, <1>3
  DEF Compact, SummaryArrives, SummaryFails, Overflows, EmergencySnip, HistoryTypes
<1>4. CASE ChatOn \/ SendAll \/ GuardStops \/ RequestFails \/ ToolRaises
  BY <1>0, <1>4 DEF ChatOn, SendAll, GuardStops, RequestFails, ToolRaises, HistoryTypes
<1>5. CASE Answers
  <2>1. conclusion' \in [runbook : Runbooks \cup {None}, refs : SUBSET Cases]
    <3>1. ASSUME NEW name \in Runbooks \cup {None, "invented"}, NEW cited \in SUBSET Cases
          PROVE  Conclude(name, cited) \in [runbook : Runbooks \cup {None}, refs : SUBSET Cases]
      BY <1>0 DEF Conclude
    <3>2. \/ conclusion' = conclusion \/ conclusion' = Nothing
          \/ \E name \in Runbooks \cup {None, "invented"}, cited \in SUBSET Cases :
               conclusion' = Conclude(name, cited)
      BY <1>5 DEF Answers
    <3>3. CASE \E name \in Runbooks \cup {None, "invented"}, cited \in SUBSET Cases :
                 conclusion' = Conclude(name, cited)
      <4>1. PICK name \in Runbooks \cup {None, "invented"}, cited \in SUBSET Cases :
              conclusion' = Conclude(name, cited)
        BY <3>3
      <4> QED
        BY <3>1, <4>1
    <3> QED
      BY <1>0, <1>1, <3>2, <3>3
  <2> QED
    BY <1>0, <1>5, <2>1 DEF Answers, HistoryTypes
<1>6. CASE CallsTools
  BY <1>0, <1>6 DEF CallsTools, HistoryTypes
<1>7. CASE RunTool
  <2>1. Head(at.todo) \in Nat
    BY <1>0, <1>7 DEF RunTool, ConversationInv, Going, Places
  <2> QED
    BY <1>0, <1>7, <2>1 DEF RunTool, HistoryTypes
<1>8. CASE OtherAsks \/ OtherReturns \/ UNCHANGED vars
  BY <1>0, <1>8 DEF OtherAsks, OtherReturns, vars, HistoryTypes
<1> QED
  BY <1>2, <1>3, <1>4, <1>5, <1>6, <1>7, <1>8 DEF Next, Loop

\* The conversation and its histories have their types.
THEOREM TypeCorrect == Spec => []TypeOK
<1>1. Init => BreakerInv /\ HistoryTypes
  <2> SUFFICES ASSUME Init PROVE BreakerInv /\ HistoryTypes
    OBVIOUS
  <2>1. BreakerInv
    BY OverIs, ConversationAssumption DEF Init, BreakerInv, Asked
  <2>2. HistoryTypes
    BY DEF Init, HistoryTypes, Nothing
  <2> QED
    BY <2>1, <2>2
<1>2. ConversationInv /\ BreakerInv /\ HistoryTypes /\ [Next]_vars
        => (BreakerInv /\ HistoryTypes)'
  BY BreakerStep, TypesStep DEF ConversationInv
<1>3. ConversationInv /\ BreakerInv /\ HistoryTypes => TypeOK
  BY DEF ConversationInv, Going, MessagesInv, Sound, BreakerInv, HistoryTypes, TypeOK
<1> QED
  BY <1>1, <1>2, <1>3, ConversationHolds, PTL DEF Spec
=============================================================================
