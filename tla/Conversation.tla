----------------------------- MODULE Conversation -----------------------------
(***************************************************************************)
(* run_agent (agent/loop.py): ask the model, run the tools it calls, ask   *)
(* again; as a chat (with a context: cli.py chat, web/app.py chat_stream), *)
(* whose history is compacted, or as an investigation (without: runtime/   *)
(* investigator.py).                                                       *)
(*                                                                         *)
(* One conversation.  With other chats of its process it shares only the   *)
(* breaker of compact_history; they are the counter "others".              *)
(*                                                                         *)
(* A definition marked "Mutant" is the one after it with a plausible bug.  *)
(***************************************************************************)
EXTENDS Compaction

CONSTANTS
  MaxSteps,       \* max_steps
  MaxMessages,    \* snip_compact's max_messages (50)
  EmergencyMax,   \* the one reactive_compact uses (10)
  Threshold,      \* compact_token_threshold; Target is 80 % of it
  BreakerLimit,   \* COMPACT_BREAKER_LIMIT
  Cases,          \* citation ids of recovery cases
  Runbooks,       \* names of get_runbooks()
  MaxCalls,       \* bound: tool calls in one answer of the model
  MaxIncoming,    \* bound: earlier turns a chat over the web begins with
  MaxTurns,       \* bound: turns of one chat on the command line
  MaxOthers       \* bound: other chats that ask for a summary at once

\* The two lengths of a history can hold its head, the marker and something.
ASSUME ConversationAssumption ==
  /\ {MaxSteps, BreakerLimit, MaxCalls, MaxTurns, Threshold} \subseteq Nat \ {0}
  /\ {MaxIncoming, MaxOthers} \subseteq Nat
  /\ MaxMessages \in Nat /\ EmergencyMax \in Nat /\ MaxMessages > 1 /\ EmergencyMax > 1

None == "none"    \* None, for a recommended runbook

VARIABLES
  messages,     \* the conversation
  context,      \* context is not None: a chat
  at,           \* where run_agent is, and its locals
  failures,     \* _consecutive_failures
  others,       \* other chats of the process that wait for their summary
  conclusion,   \* what investigate returns
  fresh,        \* history: ids of tool results no request has carried yet
  cut,          \* history: snipping took something out of this conversation
  shown         \* history: citation ids the model was sent

vars == <<messages, context, at, failures, others, conclusion, fresh, cut, shown>>

\* "top": head of the loop; "summary", "emergency": in compact_history; "ask",
\* "again": messages are with the model; "tools": between two tool calls.
\* step, used: as in the code; todo: calls still to run, in order; made: ids
\* given so far; turn: turns of this chat.
Start(turn) == [pc |-> "top", step |-> 0, used |-> FALSE, todo |-> <<>>, made |-> 0, turn |-> turn]

Over == [Start(MaxTurns) EXCEPT !.pc = "idle"]    \* this conversation will not go on

Nothing == [runbook |-> None, refs |-> {}]

Message == [role  : {"system", "user", "assistant", "tool"}, calls : SUBSET Nat, of : Nat,
            size  : {"short", "long", "cut"}, hits : SUBSET Cases]

Places == [pc   : {"idle", "top", "summary", "ask", "emergency", "again", "tools"},
           step : 0..MaxSteps, used : BOOLEAN, todo : Seq(Nat), made : Nat, turn : 0..MaxTurns]

TypeOK ==
  /\ messages \in Seq(Message)
  /\ context \in BOOLEAN /\ cut \in BOOLEAN
  /\ at \in Places
  /\ failures \in Nat /\ others \in 0..MaxOthers
  /\ fresh \subseteq Nat /\ shown \subseteq Cases
  /\ conclusion \in [runbook : Runbooks \cup {None}, refs : SUBSET Cases]

Init ==
  /\ messages = <<>> /\ context = FALSE
  /\ at = Over
  /\ failures = 0 /\ others = 0
  /\ conclusion = Nothing
  /\ fresh = {} /\ cut = FALSE /\ shown = {}

-----------------------------------------------------------------------------
\* The system prompt, n earlier turns without their tool calls, the question.
Prompt(n) ==
  <<Text("system")>>
    \o [i \in 1..(2 * n) |-> Text(IF i % 2 = 1 THEN "user" ELSE "assistant")]
    \o <<Text("user")>>

Begin(ms, chat) ==
  /\ at.pc = "idle"
  /\ messages' = ms /\ context' = chat
  /\ at' = Start(1)
  /\ conclusion' = Nothing /\ fresh' = {} /\ cut' = FALSE /\ shown' = {}
  /\ UNCHANGED <<failures, others>>

\* chat_stream, or the first turn on the command line
Chat == \E n \in 0..MaxIncoming : Begin(Prompt(n), TRUE)

\* investigate
Investigate == Begin(Prompt(0), FALSE)

\* The next turn on the command line keeps the whole conversation.
ChatOn ==
  /\ at.pc = "idle" /\ context /\ at.turn < MaxTurns
  /\ messages' = Append(messages, Text("user"))
  /\ at' = [Start(at.turn + 1) EXCEPT !.made = at.made]
  /\ UNCHANGED <<context, failures, others, conclusion, fresh, cut, shown>>

-----------------------------------------------------------------------------
\* One round of the loop begins: snip, and under pressure shorten old results;
\* if that is not enough and the breaker is closed, ask for a summary.
BreakerOpen == failures >= BreakerLimit

Compact ==
  /\ at.pc = "top" /\ at.step < MaxSteps /\ context
  /\ \E snipped \in {Snip(messages, MaxMessages)} :
       /\ messages' = IF Tokens(snipped) > Threshold THEN Micro(snipped) ELSE snipped
       /\ cut' = (cut \/ snipped # messages)
  /\ at' = [at EXCEPT !.pc = IF Tokens(messages') > Threshold /\ ~BreakerOpen
                             THEN "summary" ELSE "ask"]
  /\ UNCHANGED <<context, failures, others, conclusion, fresh, shown>>

\* (Mutant: the system prompt is summarised with the rest.)
SummarisedAll == <<Summary>>

\* head + compact_history(the rest): all but the system prompt is replaced.
Summarised == <<messages[1], Summary>>

SummaryArrives ==
  /\ at.pc \in {"summary", "emergency"}
  /\ messages' = Summarised
  /\ failures' = 0
  /\ at' = [at EXCEPT !.pc = IF at.pc = "summary" THEN "ask" ELSE "again"]
  /\ fresh' = {} /\ cut' = FALSE
  /\ UNCHANGED <<context, others, conclusion, shown>>

\* reactive_compact without a summary
EmergencySnip ==
  \E rest \in {Snip(Tail(messages), EmergencyMax)} :
    /\ messages' = <<messages[1]>> \o rest
    /\ cut' = (cut \/ rest # Tail(messages))

\* The loop goes on with what it has; the emergency falls back to snipping.
SummaryFails ==
  /\ at.pc \in {"summary", "emergency"}
  /\ failures' = failures + 1
  /\ IF at.pc = "summary" THEN UNCHANGED <<messages, cut>> ELSE EmergencySnip
  /\ at' = [at EXCEPT !.pc = IF at.pc = "summary" THEN "ask" ELSE "again"]
  /\ UNCHANGED <<context, others, conclusion, fresh, shown>>

\* An investigation sends its history as it is.
SendAll ==
  /\ at.pc = "top" /\ at.step < MaxSteps /\ ~context
  /\ at' = [at EXCEPT !.pc = "ask"]
  /\ UNCHANGED <<messages, context, failures, others, conclusion, fresh, cut, shown>>

GuardStops ==
  /\ at.pc = "top" /\ at.step = MaxSteps
  /\ at' = [at EXCEPT !.pc = "idle"]
  /\ UNCHANGED <<messages, context, failures, others, conclusion, fresh, cut, shown>>

-----------------------------------------------------------------------------
\* The model has the messages: it answers, calls tools, or the request fails.
Sent == at.pc \in {"ask", "again"}

\* extract_available_recovery_case_refs
Available == UNION {messages[i].hits : i \in Results(messages)}

\* (Mutant: what the model cites is taken over.)
ConcludeAnything(name, cited) == [runbook |-> name, refs |-> cited]

\* investigate: an unknown runbook is dropped, and so is a case that no tool
\* of this conversation returned.
Conclude(name, cited) ==
  [runbook |-> IF name \in Runbooks THEN name ELSE None, refs |-> cited \cap Available]

\* A final answer.  An investigation reads a conclusion from it, or cannot.
Answers ==
  /\ Sent
  /\ messages' = Append(messages, Text("assistant"))
  /\ IF context THEN conclusion' = conclusion
     ELSE \/ conclusion' = Nothing
          \/ \E name \in Runbooks \cup {None, "invented"}, cited \in SUBSET Cases :
               conclusion' = Conclude(name, cited)
  /\ at' = [at EXCEPT !.pc = "idle"]
  /\ fresh' = {} /\ shown' = shown \cup Available
  /\ UNCHANGED <<context, failures, others, cut>>

CallsTools ==
  /\ Sent
  /\ \E n \in 1..MaxCalls :
       LET ids == (at.made + 1)..(at.made + n) IN
       /\ messages' = Append(messages, CallsOf(ids))
       /\ at' = [at EXCEPT !.pc = "tools", !.made = @ + n,
                           !.todo = [i \in 1..n |-> at.made + i]]
  /\ fresh' = {} /\ shown' = shown \cup Available
  /\ UNCHANGED <<context, failures, others, conclusion, cut>>

\* (Mutant: the emergency may be used again and again.)
OverflowsAgain ==
  /\ at.pc \in {"ask", "again"} /\ context
  /\ IF BreakerOpen
     THEN EmergencySnip /\ at' = [at EXCEPT !.pc = "again", !.used = TRUE]
     ELSE at' = [at EXCEPT !.pc = "emergency", !.used = TRUE] /\ UNCHANGED <<messages, cut>>
  /\ UNCHANGED <<context, failures, others, conclusion, fresh, shown>>

\* The API says the context is too long; once in a turn there is an emergency.
Overflows ==
  /\ at.pc = "ask" /\ context /\ ~at.used
  /\ IF BreakerOpen
     THEN EmergencySnip /\ at' = [at EXCEPT !.pc = "again", !.used = TRUE]
     ELSE at' = [at EXCEPT !.pc = "emergency", !.used = TRUE] /\ UNCHANGED <<messages, cut>>
  /\ UNCHANGED <<context, failures, others, conclusion, fresh, shown>>

\* Any other error leaves run_agent: the command line ends, the web request
\* reports it, tick() drops the investigation.
RequestFails ==
  /\ Sent
  /\ at' = Over /\ messages' = <<>> /\ fresh' = {} /\ cut' = FALSE
  /\ UNCHANGED <<context, failures, others, conclusion, shown>>

-----------------------------------------------------------------------------
\* The turn's last call done, the next round begins.
NextCall ==
  LET rest == Tail(at.todo) IN
  at' = IF rest = <<>> THEN [at EXCEPT !.pc = "top", !.step = @ + 1, !.todo = rest]
        ELSE [at EXCEPT !.todo = rest]

\* (Mutant: arguments that are no JSON are passed over without a result.)
RunToolOrSkip ==
  /\ at.pc = "tools"
  /\ \/ messages' = messages
     \/ \E size \in {"short", "long"}, hits \in SUBSET Cases :
          messages' = Append(messages, Result(Head(at.todo), size, IF context THEN {} ELSE hits))
  /\ fresh' = fresh \cup {Head(at.todo)}
  /\ NextCall
  /\ UNCHANGED <<context, failures, others, conclusion, cut, shown>>

\* A call is answered by its result, by the error it ended in, or by the error
\* that its arguments are no JSON.  (What a chat does with hits is left out.)
RunTool ==
  /\ at.pc = "tools"
  /\ \E size \in {"short", "long"}, hits \in SUBSET Cases :
       messages' = Append(messages, Result(Head(at.todo), size, IF context THEN {} ELSE hits))
  /\ fresh' = fresh \cup {Head(at.todo)}
  /\ NextCall
  /\ UNCHANGED <<context, failures, others, conclusion, cut, shown>>

\* execute raises: the audit row or the approval request cannot be written.
ToolRaises ==
  /\ at.pc = "tools"
  /\ at' = Over /\ messages' = <<>> /\ fresh' = {} /\ cut' = FALSE
  /\ UNCHANGED <<context, failures, others, conclusion, shown>>

-----------------------------------------------------------------------------
\* (Mutant: the breaker is not looked at.)
OtherAsksAnyway ==
  /\ others < MaxOthers
  /\ others' = others + 1
  /\ UNCHANGED <<messages, context, at, failures, conclusion, fresh, cut, shown>>

\* compact_history in the other chats of the process
OtherAsks ==
  /\ others < MaxOthers /\ ~BreakerOpen
  /\ others' = others + 1
  /\ UNCHANGED <<messages, context, at, failures, conclusion, fresh, cut, shown>>

OtherReturns ==
  /\ others > 0
  /\ others' = others - 1
  /\ failures' \in {0, failures + 1}
  /\ UNCHANGED <<messages, context, at, conclusion, fresh, cut, shown>>

\* run_agent
Loop ==
  \/ Compact \/ SendAll \/ GuardStops
  \/ SummaryArrives \/ SummaryFails
  \/ Answers \/ CallsTools \/ Overflows \/ RequestFails
  \/ RunTool \/ ToolRaises

Next == Chat \/ Investigate \/ ChatOn \/ Loop \/ OtherAsks \/ OtherReturns

Spec     == Init /\ [][Next]_vars

\* A tool owes nothing: one that runs a command on the server waits for its end
\* without limit (recv_exit_status).  A request to the model returns or times out.
Waiting == at.pc = "tools"

FairSpec == Spec /\ WF_vars(Loop /\ ~Waiting)
-----------------------------------------------------------------------------
\* Every request opens with the system prompt, whatever was snipped or
\* summarised: a summary must not take the place of the instructions.
InstructionsStay == at.pc # "idle" => Len(messages) > 1 /\ messages[1].role = "system"

\* The results the model is waiting for reach it in full: compaction touches
\* only what it has read, unless all was summarised or it was an emergency.
NewestIsSent ==
  at.pc = "ask" =>
    \A id \in fresh : \E i \in Results(messages) :
      messages[i].of = id /\ messages[i].size # "cut"

\* A conversation that was not snipped is one the model's API accepts: calls
\* and results are paired, also after failed summaries and bad arguments.
PairedUnlessCut == Sent /\ ~cut => Paired(messages)

\* Chats that fail together may overshoot the breaker, each by one at most.
BreakerHolds == failures < BreakerLimit + MaxOthers + 1

\* An investigation concludes with a runbook that exists and cites no case
\* that the model was not shown.
ConclusionIsGrounded == conclusion.runbook \in Runbooks \cup {None} /\ conclusion.refs \subseteq shown

\* However requests, summaries and emergencies follow each other, every turn ends,
\* in an answer, at the guard or with an error: only a tool that never comes back
\* holds it up.
EveryTurnEnds == []<>~Waiting => (at.pc # "idle" ~> at.pc = "idle")

-----------------------------------------------------------------------------
\* What a comment says and the code does not do.

\* "不拆开 tool_use/tool_result 对": snipping does not separate a call from its
\* results.
PairsStayTogether == Sent => Paired(messages)
=============================================================================
