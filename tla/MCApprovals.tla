----------------------------- MODULE MCApprovals -----------------------------
(***************************************************************************)
(* Approvals next to a history of what can come between a caller and its   *)
(* commit, and small instances: two argument objects with unlike digests.  *)
(***************************************************************************)
EXTENDS Approvals

VARIABLES
  met,   \* requests that two callers were inside approve or reject for at once
  lost   \* requests whose tool was run by a caller that died before its commit

mcVars == <<vars, met, lost>>

MCArgs == {"nginx", "docker"}

MCFingerprint == [a \in MCArgs |-> IF a = "nginx" THEN "digest1" ELSE "digest2"]

MCInit == Init /\ met = {} /\ lost = {}

\* Two callers are inside for r.
Meeting(r) == \E p, q \in Operators : p # q /\ op[p].id = r /\ op[q].id = r

MCNext ==
  /\ Next
  /\ met'  = met \cup {r \in Requests : Meeting(r)'}
  /\ lost' = lost \cup {op[p].id : p \in {q \in Operators : op[q].pc = "commit" /\ OperatorFail(q)}}

MCSpec     == MCInit /\ [][MCNext]_mcVars
MCFairSpec == MCSpec /\ Fairness

-----------------------------------------------------------------------------
\* One approval is one run of the tool ("一张审批单 = 一次被挂起的工具调用"), but
\* for the two ways in which the code lets it run again: two callers had read it
\* as pending, or one died between the run and the UPDATE that ends approve.
RunsOnceUnlessCutOff == \A r \in Requests : runs[r] > 1 => r \in met \cup lost

\* What a human decided stands, whoever comes later, sweeps or dies; only callers
\* that were inside together overwrite each other, by an UPDATE keyed by id only.
DecisionStandsUnlessMet ==
  [][\A r \in Requests \ met :
       req[r].status \in {"approved", "rejected"} => Frozen(r)]_mcVars
=============================================================================
