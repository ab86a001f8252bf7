------------------------------- MODULE Outbox -------------------------------
(***************************************************************************)
(* What the Host's durable outbox promises, without its retries, sweeps,   *)
(* single flights or restarts (packages/ai-host/src/delivery.ts): a tool   *)
(* operation is requested, the receiver may act on it, its receipt is      *)
(* recorded, it is delivered, and only then is the provider told.  The     *)
(* receiver acts at most once on an operation.  Deliveries implements      *)
(* this specification.                                                     *)
(***************************************************************************)
EXTENDS Naturals

CONSTANT Ops        \* operation identities

VARIABLES phase,    \* [Ops -> Phases]: the durable row
          effects,  \* [Ops -> Nat]: how often the receiver acted
          refused,  \* [Ops -> BOOLEAN]: it answered without acting
          told      \* [Ops -> BOOLEAN]: a reply reached the provider

outboxVars == <<phase, effects, refused, told>>

Phases == {"absent", "open", "recorded", "delivered"}

OutboxInit ==
  /\ phase = [op \in Ops |-> "absent"]
  /\ effects = [op \in Ops |-> 0]
  /\ refused = [op \in Ops |-> FALSE]
  /\ told = [op \in Ops |-> FALSE]

Request(op) ==
  /\ phase[op] = "absent"
  /\ phase' = [phase EXCEPT ![op] = "open"]
  /\ UNCHANGED <<effects, refused, told>>

\* A second effect is what must never happen.
Act(op) ==
  /\ phase[op] # "absent"
  /\ effects[op] = 0
  /\ effects' = [effects EXCEPT ![op] = 1]
  /\ UNCHANGED <<phase, refused, told>>

Refuse(op) ==
  /\ phase[op] # "absent"
  /\ refused' = [refused EXCEPT ![op] = TRUE]
  /\ UNCHANGED <<phase, effects, told>>

\* Nothing is recorded that the receiver has not answered.
Record(op) ==
  /\ phase[op] = "open"
  /\ effects[op] > 0 \/ refused[op]
  /\ phase' = [phase EXCEPT ![op] = "recorded"]
  /\ UNCHANGED <<effects, refused, told>>

Deliver(op) ==
  /\ phase[op] = "recorded"
  /\ phase' = [phase EXCEPT ![op] = "delivered"]
  /\ UNCHANGED <<effects, refused, told>>

Tell(op) ==
  /\ phase[op] = "delivered"
  /\ told' = [told EXCEPT ![op] = TRUE]
  /\ UNCHANGED <<phase, effects, refused>>

OutboxNext ==
  \E op \in Ops : \/ Request(op) \/ Act(op) \/ Refuse(op)
                  \/ Record(op) \/ Deliver(op) \/ Tell(op)

OutboxSpec == OutboxInit /\ [][OutboxNext]_outboxVars
=============================================================================
