------------------------------ MODULE Compaction ------------------------------
(***************************************************************************)
(* agent/compact.py: what happens to a conversation that has grown too     *)
(* long, short of a summary by the model.  A conversation is a sequence of *)
(* messages; of a message only what the code looks at is kept.             *)
(*                                                                         *)
(* A definition marked "Mutant" is the one after it with a plausible bug.  *)
(***************************************************************************)
EXTENDS Integers, Sequences, FiniteSets, FiniteSetsExt

CONSTANTS
  HeadKept,      \* messages snip_compact keeps at the beginning (3)
  KeepRecent,    \* KEEP_RECENT_TOOL_RESULTS
  LongWeight,    \* tokens of a long tool result; any other message has 1
  Target         \* tokens micro_compact stops at

ASSUME CompactionAssumption ==
  /\ HeadKept \in Nat \ {0} /\ KeepRecent \in Nat \ {0}
  /\ LongWeight \in Nat \ {0} /\ Target \in Nat

\* calls: ids of the tool calls an assistant's message makes; of: the id of
\* the call a tool's message answers; size: "cut" is the short text left of a
\* long result; hits: citation ids in a result of search_recovery_cases.
Text(role)            == [role |-> role, calls |-> {}, of |-> 0, size |-> "short", hits |-> {}]
CallsOf(ids)          == [Text("assistant") EXCEPT !.calls = ids]
Result(id, size, hits) == [role |-> "tool", calls |-> {}, of |-> id, size |-> size, hits |-> hits]
Snipped               == Text("user")
Summary               == Text("user")

HasToolUse(m)   == m.calls # {}
IsToolResult(m) == m.role = "tool"

\* estimate_token_count
LongOnes(ms) == {i \in DOMAIN ms : ms[i].size = "long"}
Tokens(ms)   == Len(ms) + (LongWeight - 1) * Cardinality(LongOnes(ms))

-----------------------------------------------------------------------------
\* snip_compact: the head, with the results of a call it ends in.
HeadEnd(ms, max) ==
  LET h == IF HeadKept < max - 1 THEN HeadKept ELSE max - 1 IN
  IF HasToolUse(ms[h])
  THEN Max({k \in h..Len(ms) : \A i \in (h + 1)..k : IsToolResult(ms[i])})
  ELSE h

\* Going back from the end, a block is a plain message with any results right
\* after it, or a call with its results and with those right before it.
BlockStarts(ms, h) ==
  LET call(t) == \E c \in t..Len(ms) : /\ HasToolUse(ms[c])
                                        /\ \A k \in t..(c - 1) : IsToolResult(ms[k])
  IN  {t \in (h + 1)..Len(ms) :
         \/ t = h + 1
         \/ ~IsToolResult(ms[t]) /\ ~HasToolUse(ms[t])
         \/ ~IsToolResult(ms[t - 1]) /\ call(t)}

\* The tail is made of whole blocks, as many as there is room for.
TailStart(ms, h, room) ==
  Min({Len(ms) + 1} \cup {t \in BlockStarts(ms, h) : Len(ms) + 1 - t <= room})

Snip(ms, max) ==
  LET h == HeadEnd(ms, max)
      t == TailStart(ms, h, max - h - 1)
  IN  IF Len(ms) <= max THEN ms
      ELSE SubSeq(ms, 1, h) \o <<Snipped>> \o SubSeq(ms, t, Len(ms))

-----------------------------------------------------------------------------
Results(ms) == {i \in DOMAIN ms : IsToolResult(ms[i])}

\* (Mutant: every result counts as read.)
UnseenNone(ms) == {}

\* _unseen_tool_result_indices: results after the last assistant's message.
Unseen(ms) == {i \in Results(ms) : \A k \in i..Len(ms) : ms[k].role # "assistant"}

\* micro_compact: of the results the model has read all but the last few are
\* replaced, oldest first, until the target is reached.
Replaced(ms) ==
  LET consumed == Results(ms) \ Unseen(ms)
      older    == {i \in consumed : Cardinality({k \in consumed : k > i}) >= KeepRecent}
      before(i) == Cardinality({k \in older \cap LongOnes(ms) : k < i})
  IN  {i \in older \cap LongOnes(ms) : Tokens(ms) - (LongWeight - 1) * before(i) > Target}

Micro(ms) ==
  LET replaced == Replaced(ms)
  IN  [i \in DOMAIN ms |-> IF i \in replaced THEN [ms[i] EXCEPT !.size = "cut"] ELSE ms[i]]

-----------------------------------------------------------------------------
\* What the model's API asks of a conversation: each call is followed by the
\* results of all its ids, and by nothing else, and there are no other results.
Paired(ms) ==
  /\ \A i \in DOMAIN ms : \A id \in ms[i].calls :
       \E k \in DOMAIN ms : /\ k > i /\ IsToolResult(ms[k]) /\ ms[k].of = id
                            /\ \A j \in (i + 1)..k : IsToolResult(ms[j])
  /\ \A k \in Results(ms) :
       \E i \in 1..(k - 1) : /\ ms[k].of \in ms[i].calls
                             /\ \A j \in (i + 1)..k : IsToolResult(ms[j])
=============================================================================
