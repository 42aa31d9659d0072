---------------------------- MODULE KeyedRequest ----------------------------
(***************************************************************************)
(* What the gateway promises of a creation that carries an idempotency key *)
(* ("without replaying ambiguous provider mutations", docs/mvp-plan.md),   *)
(* without its journal: the request is decided once and for all, every     *)
(* answer is that decision, and the agent is created before the decision,  *)
(* at most once, and as it says.                                           *)
(* CreationJournal implements this specification.                          *)
(***************************************************************************)
EXTENDS Naturals

CONSTANTS
  Requested,     \* idempotency keys
  WithAgent      \* those whose requests create an agent

VARIABLES
  agents,        \* the agents created for each key
  verdict,       \* what was decided
  answers        \* the answers given

keyedVars == <<agents, verdict, answers>>

Verdicts == {"created", "refused", "unknown"}

KeyedInit ==
  /\ agents = [k \in Requested |-> 0]
  /\ verdict = [k \in Requested |-> "none"]
  /\ answers = [k \in Requested |-> {}]

\* The mutation takes place.
Create(k) ==
  /\ verdict[k] = "none" /\ agents[k] = 0 /\ k \in WithAgent
  /\ agents' = [agents EXCEPT ![k] = 1]
  /\ UNCHANGED <<verdict, answers>>

\* What may be said of what happened.
Honest(k, v) ==
  /\ v = "created" /\ k \in WithAgent => agents[k] = 1
  /\ v = "refused" => agents[k] = 0

DecideRequest(k, v) ==
  /\ verdict[k] = "none" /\ Honest(k, v)
  /\ verdict' = [verdict EXCEPT ![k] = v]
  /\ UNCHANGED <<agents, answers>>

Answer(k) ==
  /\ verdict[k] # "none"
  /\ answers' = [answers EXCEPT ![k] = @ \cup {verdict[k]}]
  /\ UNCHANGED <<agents, verdict>>

KeyedNext ==
  \E k \in Requested : \/ Create(k) \/ Answer(k)
                       \/ \E v \in Verdicts : DecideRequest(k, v)

KeyedSpec == KeyedInit /\ [][KeyedNext]_keyedVars
=============================================================================
