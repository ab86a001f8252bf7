----------------------------- MODULE Deliveries -----------------------------
(***************************************************************************)
(* The AI Host's durable outbox (packages/ai-host/src/delivery.ts, class   *)
(* Deliveries), with the delivery rows the session store keeps for it      *)
(* (packages/ai-contract/src/transitions.ts), the sweep that retries them  *)
(* (packages/ai-host/src/index.ts, sweepDeliveries) and the router to the  *)
(* Rust execution service (apps/ai-host/src/execution.ts).                 *)
(*                                                                         *)
(* One single flight per operation carries a proposal or a swept row       *)
(* through: look up, check the command is live, ask the user, store the    *)
(* request, reconcile a row that was tried before, store the intent, send, *)
(* record the receipt, acknowledge, mark delivered, reply.  Each store     *)
(* step runs in the session's mailbox and is one action; between two steps *)
(* the command can settle, the deadline pass, a message arrive late, or    *)
(* the Host stop.                                                          *)
(***************************************************************************)
EXTENDS Naturals, FiniteSets

CONSTANTS Ops,         \* operation identities, ordered as the store orders rows
          Contents,    \* target and proposal of an operation
          Control,     \* operations of execution_task_control
          Repeatable,  \* reads and exact registrations
          PageSize,    \* rows of one sweep page (4 in the code)
          MaxGen,      \* bound on provider generations
          MaxFaults    \* bound on crashes, expiries, lost answers, store errors

\* Every other operation is found again at the receiver by its request id.
ASSUME KindsAssumption ==
  /\ Ops \subseteq Nat \ {0}
  /\ Control \subseteq Ops /\ Repeatable \subseteq Ops
  /\ Control \cap Repeatable = {}
ASSUME BoundsAssumption ==
  /\ PageSize \in Nat \ {0} /\ MaxGen \in Nat \ {0} /\ MaxFaults \in Nat

VARIABLES row,      \* durable: the delivery row of each operation
          live,     \* generation observing a running prompt, 0 when none
          lastGen,  \* the newest generation handed out
          flight,   \* the single flight of each operation
          cursor,   \* where the next sweep page starts, 0 for the beginning
          net,      \* sends on their way: <<operation, attempt>>
          answers,  \* answers on their way back to the sender
          effects,  \* receiver: how often it acted on the operation
          refused,  \* receiver: it answered the operation with an error
          sent,     \* every call of router.send made so far
          allowed,  \* what the user allowed: <<operation, content>>
          told,     \* a reply of the operation reached the provider
          faults

vars == <<row, live, lastGen, flight, cursor, net, answers, effects,
          refused, sent, allowed, told, faults>>
receiver == <<net, answers, effects, refused>>
history == <<sent, allowed, told>>
binding == <<live, lastGen>>

None == "none"
Statuses == {None, "pending", "reconciliation_required", "receipt_recorded", "delivered"}
Recorded == {"receipt_recorded", "delivered"}
Steps == {None, "existing", "live", "authorize", "request", "reconcile", "judge",
          "intend", "send", "wait", "record", "acknowledge", "deliver", "reply"}
Verdicts == {None, "committed", "not_submitted", "unknown"}
MaxAttempts == MaxFaults + 1

NoRow == [status |-> None, attempts |-> 0, content |-> None, due |-> FALSE]
NoFlight == [step |-> None, content |-> None, gen |-> 0, seen |-> None,
             tries |-> 0, verdict |-> None, late |-> FALSE]

Rows == [status: Statuses, attempts: Nat, content: Contents \cup {None}, due: BOOLEAN]
Flights == [step: Steps, content: Contents \cup {None}, gen: Nat, seen: Statuses,
            tries: Nat, verdict: Verdicts, late: BOOLEAN]

TypeOK ==
  /\ row \in [Ops -> Rows] /\ flight \in [Ops -> Flights]
  /\ live \in Nat /\ lastGen \in Nat /\ faults \in Nat
  /\ sent \subseteq Ops \X Nat /\ net \subseteq sent /\ answers \subseteq sent
  /\ effects \in [Ops -> Nat] /\ refused \in [Ops -> BOOLEAN]
  /\ allowed \subseteq Ops \X Contents
  /\ told \in [Ops -> BOOLEAN]

Init ==
  /\ row = [op \in Ops |-> NoRow]
  /\ live = 1 /\ lastGen = 1
  /\ flight = [op \in Ops |-> NoFlight]
  /\ cursor = 0
  /\ net = {} /\ answers = {}
  /\ effects = [op \in Ops |-> 0] /\ refused = [op \in Ops |-> FALSE]
  /\ sent = {} /\ allowed = {} /\ told = [op \in Ops |-> FALSE]
  /\ faults = 0

----------------------------------------------------------------------------
(* Flights *)

At(op, step) == flight[op].step = step
GoTo(op, step) == flight' = [flight EXCEPT ![op].step = step]
Land(op) == flight' = [flight EXCEPT ![op] = NoFlight]
Fault == faults < MaxFaults /\ faults' = faults + 1

\* Faulty variant: only a row with a receipt is reconciled, so an interrupted send repeats.
AttemptUnlessRecorded(op, f) ==
  [f EXCEPT !.seen = row[op].status, !.tries = row[op].attempts,
            !.step = IF row[op].status \in Recorded THEN "reconcile" ELSE "intend"]

\* attempt() starts from the row as this flight read it: a row that was tried
\* before is reconciled first, a fresh one is sent.  From here on the proposing
\* generation no longer matters.
AttemptFrom(op, f) ==
  [f EXCEPT !.gen = 0, !.seen = row[op].status, !.tries = row[op].attempts,
            !.step = IF f.late THEN None
                     ELSE IF row[op].status # "pending" \/ row[op].attempts > 0
                          THEN "reconcile" ELSE "intend"]

\* The provider proposes.  coordinate() joins a flight of the same content and
\* refuses one of another; neither changes anything here.
Propose(op) ==
  /\ At(op, None) /\ live > 0
  /\ \E c \in Contents :
       flight' = [flight EXCEPT ![op] =
                   [NoFlight EXCEPT !.step = "existing", !.content = c, !.gen = live]]
  /\ UNCHANGED <<row, binding, cursor, receiver, history, faults>>

\* existing(): a row of the same content is attempted, another content is a
\* conflict, no row goes on.
LookUp(op) ==
  LET f == flight[op] IN
  /\ At(op, "existing")
  /\ CASE f.late -> Land(op)
       [] ~f.late /\ row[op].status = None -> GoTo(op, "live")
       [] ~f.late /\ row[op].status # None /\ row[op].content # f.content -> Land(op)
       [] ~f.late /\ row[op].status # None /\ row[op].content = f.content ->
            flight' = [flight EXCEPT ![op] = AttemptFrom(op, f)]
  /\ UNCHANGED <<row, binding, cursor, receiver, history, faults>>

\* live(): the flight's generation observes a running prompt of an active
\* session and the owner's deadline has not passed.
Live(op) == live = flight[op].gen /\ ~flight[op].late

CheckLive(op) ==
  /\ At(op, "live")
  /\ IF Live(op) THEN GoTo(op, IF op \in Control THEN "authorize" ELSE "request")
                 ELSE Land(op)
  /\ UNCHANGED <<row, binding, cursor, receiver, history, faults>>

\* The user answers the permission prompt, allowed or rejected.
Authorize(op) ==
  /\ At(op, "authorize")
  /\ \/ /\ GoTo(op, "request")
        /\ allowed' = allowed \cup {<<op, flight[op].content>>}
     \/ Land(op) /\ UNCHANGED allowed
  /\ UNCHANGED <<row, binding, cursor, receiver, sent, told, faults>>

\* Faulty variant: the command is not looked at again after the permission prompt.
StoreRequestUnchecked(op) ==
  /\ At(op, "request")
  /\ row' = [row EXCEPT ![op] = [status |-> "pending", attempts |-> 0,
                                 content |-> flight[op].content, due |-> TRUE]]
  /\ GoTo(op, "intend")
  /\ UNCHANGED <<binding, cursor, receiver, history, faults>>

\* Once more live, once more not yet stored, then the request is durable.
StoreRequest(op) ==
  LET f == flight[op]
      new == [status |-> "pending", attempts |-> 0, content |-> f.content, due |-> TRUE]
  IN
  /\ At(op, "request")
  /\ IF Live(op)
     THEN IF row[op].status = None
          THEN /\ row' = [row EXCEPT ![op] = new]
               /\ flight' = [flight EXCEPT ![op].step = "intend", ![op].seen = "pending",
                                             ![op].gen = 0]
          ELSE /\ UNCHANGED row
               /\ IF row[op].content = f.content
                  THEN flight' = [flight EXCEPT ![op] = AttemptFrom(op, f)]
                  ELSE Land(op)
     ELSE Land(op) /\ UNCHANGED row
  /\ UNCHANGED <<binding, cursor, receiver, history, faults>>

\* router.reconcile asks the receiver.  A control's absence is never proven, a
\* repeatable operation is simply called again, any error is "unknown".
Reconcile(op) ==
  /\ At(op, "reconcile")
  /\ \E v \in Verdicts \ {None} :
       /\ \/ v = "committed" /\ (effects[op] > 0 \/ op \in Repeatable) /\ UNCHANGED faults
          \/ /\ v = "not_submitted" /\ effects[op] = 0
             /\ op \notin Control \cup Repeatable /\ UNCHANGED faults
          \/ v = "unknown" /\ IF op \in Control /\ effects[op] = 0 THEN UNCHANGED faults ELSE Fault
       /\ flight' = [flight EXCEPT ![op].step = "judge", ![op].verdict = v]
       /\ effects' = [effects EXCEPT ![op] =
                        IF v = "committed" /\ op \in Repeatable THEN 1 ELSE @]
  /\ UNCHANGED <<row, binding, cursor, net, answers, refused, history>>

\* Faulty variant: an unknown outcome is taken for an absent one.
JudgeUnknownAsAbsent(op) ==
  /\ At(op, "judge")
  /\ GoTo(op, IF flight[op].verdict = "committed" THEN "record" ELSE "intend")
  /\ UNCHANGED <<row, binding, cursor, receiver, history, faults>>

Judge(op) ==
  LET f == flight[op] IN
  /\ At(op, "judge")
  /\ \/ f.verdict = "committed" /\ GoTo(op, "record")
     \/ f.verdict = "not_submitted" /\ f.seen \notin Recorded /\ GoTo(op, "intend")
     \/ f.verdict = "unknown" /\ Land(op)
     \/ f.verdict = "not_submitted" /\ f.seen \in Recorded /\ Land(op)
  /\ UNCHANGED <<row, binding, cursor, receiver, history, faults>>

\* The intent is durable before the send: the attempt is counted and the row
\* no longer counts as untried.  The store refuses to reopen a recorded row.
Intend(op) ==
  /\ At(op, "intend")
  /\ IF row[op].status \in Recorded \cup {None}
     THEN Land(op) /\ UNCHANGED row
     ELSE /\ row' = [row EXCEPT ![op].status = "reconciliation_required",
                                ![op].attempts = @ + 1, ![op].due = FALSE]
          /\ flight' = [flight EXCEPT ![op].step = "send", ![op].tries = row[op].attempts + 1]
  /\ UNCHANGED <<binding, cursor, receiver, history, faults>>

Send(op) ==
  LET call == <<op, flight[op].tries>> IN
  /\ At(op, "send")
  /\ IF flight[op].late
     THEN Land(op) /\ UNCHANGED <<net, sent>>
     ELSE GoTo(op, "wait") /\ net' = net \cup {call} /\ sent' = sent \cup {call}
  /\ UNCHANGED <<row, binding, cursor, answers, effects, refused, allowed, told, faults>>

\* A call whose flight has ended has nobody to answer.
Awaited(op, n) == At(op, "wait") /\ flight[op].tries = n

\* The receiver (external): a control acts on every copy it gets; any other
\* operation is recognised by its id.  It may also answer with an error.
Receive(op) ==
  /\ \E n \in 1..MaxAttempts :
       /\ <<op, n>> \in net
       /\ net' = net \ {<<op, n>>}
       /\ answers' = IF Awaited(op, n) THEN answers \cup {<<op, n>>} ELSE answers
       /\ \/ /\ effects' = [effects EXCEPT ![op] = IF op \in Control THEN @ + 1 ELSE 1]
             /\ UNCHANGED refused
          \/ refused' = [refused EXCEPT ![op] = TRUE] /\ UNCHANGED effects
  /\ UNCHANGED <<row, binding, flight, cursor, history, faults>>

\* The answer of this call arrives: it is the receipt.
Answered(op) ==
  LET call == <<op, flight[op].tries>> IN
  /\ At(op, "wait") /\ call \in answers
  /\ answers' = answers \ {call}
  /\ GoTo(op, "record")
  /\ UNCHANGED <<row, binding, cursor, net, effects, refused, history, faults>>

RecordReceipt(op) ==
  /\ At(op, "record")
  /\ IF row[op].status = None
     THEN Land(op) /\ UNCHANGED row
     ELSE /\ row' = [row EXCEPT ![op].status = IF @ \in Recorded THEN @ ELSE "receipt_recorded"]
          /\ GoTo(op, "acknowledge")
  /\ UNCHANGED <<binding, cursor, receiver, history, faults>>

\* Faulty variant: the reply is returned before the row is marked delivered.
AcknowledgeThenReply(op) ==
  /\ At(op, "acknowledge")
  /\ GoTo(op, "reply")
  /\ UNCHANGED <<row, binding, cursor, receiver, history, faults>>

\* router.acknowledge succeeds: the MCP router has nothing to consume.
Acknowledge(op) ==
  /\ At(op, "acknowledge")
  /\ GoTo(op, "deliver")
  /\ UNCHANGED <<row, binding, cursor, receiver, history, faults>>

MarkDelivered(op) ==
  /\ At(op, "deliver")
  /\ row' = [row EXCEPT ![op].status = IF @ \in {None, "delivered"} THEN @ ELSE "delivered"]
  /\ GoTo(op, "reply")
  /\ UNCHANGED <<binding, cursor, receiver, history, faults>>

Reply(op) ==
  /\ At(op, "reply")
  /\ Land(op)
  /\ told' = [told EXCEPT ![op] = TRUE]
  /\ UNCHANGED <<row, binding, cursor, receiver, sent, allowed, faults>>

\* A store commit, the router's transport or the acknowledgement fails, or the
\* MCP call times out: the flight ends, a message on its way stays on its way.
Fail(op) ==
  /\ flight[op].step \in {"existing", "live", "authorize", "request", "intend",
                          "wait", "record", "acknowledge", "deliver"}
  /\ Fault /\ Land(op)
  /\ answers' = answers \ {<<op, flight[op].tries>>}
  /\ UNCHANGED <<row, binding, cursor, net, effects, refused, history>>

\* The owner's deadline passes.  Abort is advisory: the flight goes on until it
\* looks at the signal, for the last time before the send.
Expire(op) ==
  /\ flight[op].step \in {"existing", "live", "authorize", "request", "reconcile",
                          "judge", "intend", "send"}
  /\ ~flight[op].late
  /\ Fault
  /\ flight' = [flight EXCEPT ![op].late = TRUE]
  /\ UNCHANGED <<row, binding, cursor, receiver, history>>

----------------------------------------------------------------------------
(* Sweeps *)

Unfinished == {op \in Ops : row[op].status \notin {None, "delivered"} /\ row[op].due}

\* deliveries(4, now, after): the first PageSize due rows past the cursor.
PageAfter(after) ==
  {op \in Unfinished :
     op > after /\ Cardinality({o \in Unfinished : after < o /\ o < op}) < PageSize}

\* Faulty variant: the cursor stays where the page began.
NextStays(after) == after

NextAfter(after) ==
  LET page == PageAfter(after) IN
  IF \E op \in Unfinished : op > after /\ op \notin page
  THEN CHOOSE op \in page : \A o \in page : o <= op
  ELSE 0

\* recover(): the cursor moves before any receiver is waited for; each row of
\* the page joins the operation's flight or starts one from the row it read.
\* The timer's next sweep can follow at once: the wait for a page has a deadline.
SweepPage ==
  /\ cursor' = NextAfter(cursor)
  /\ flight' = [op \in Ops |->
                  IF op \in PageAfter(cursor) /\ At(op, None)
                  THEN AttemptFrom(op, [NoFlight EXCEPT !.content = row[op].content])
                  ELSE flight[op]]
  /\ UNCHANGED <<row, binding, receiver, history, faults>>

\* nextAttemptAtMs passes.
BecomeDue(op) ==
  /\ row[op].status # None /\ ~row[op].due
  /\ row' = [row EXCEPT ![op].due = TRUE]
  /\ UNCHANGED <<binding, flight, cursor, receiver, history, faults>>

----------------------------------------------------------------------------
(* The session around the outbox *)

\* The prompt settles, or its worker is lost.
Settle ==
  /\ live > 0 /\ live' = 0
  /\ UNCHANGED <<row, lastGen, flight, cursor, receiver, history, faults>>

\* A restored provider session observes the prompt under a new generation.
Rebind ==
  /\ live = 0 /\ lastGen < MaxGen
  /\ lastGen' = lastGen + 1 /\ live' = lastGen + 1
  /\ UNCHANGED <<row, flight, cursor, receiver, history, faults>>

\* The Host stops and starts again: flights and cursor are memory, rows are
\* not; a message on its way may still arrive.
Crash ==
  /\ Fault
  /\ flight' = [op \in Ops |-> NoFlight]
  /\ cursor' = 0 /\ live' = 0
  /\ answers' = {}
  /\ net' \in SUBSET net
  /\ UNCHANGED <<row, lastGen, effects, refused, history>>

Step(op) ==
  \/ LookUp(op) \/ CheckLive(op) \/ Authorize(op) \/ StoreRequest(op)
  \/ Reconcile(op) \/ Judge(op) \/ Intend(op) \/ Send(op) \/ Answered(op)
  \/ RecordReceipt(op) \/ Acknowledge(op) \/ MarkDelivered(op) \/ Reply(op)

Next ==
  \/ \E op \in Ops : Propose(op) \/ Step(op) \/ Receive(op) \/ Fail(op) \/ Expire(op)
                     \/ BecomeDue(op)
  \/ SweepPage \/ Settle \/ Rebind \/ Crash

\* The event loop runs every flight, the receiver handles what reaches it, and
\* the timers of the sweep and of nextAttemptAtMs fire; a prompt settles or
\* loses its worker, so a provider does not propose for ever.
Fairness ==
  /\ \A op \in Ops : WF_vars(Step(op)) /\ WF_vars(Receive(op)) /\ WF_vars(BecomeDue(op))
  /\ WF_vars(SweepPage) /\ WF_vars(Settle)

Spec == Init /\ [][Next]_vars
FairSpec == Spec /\ Fairness
----------------------------------------------------------------------------
(* Properties *)

\* A device control (execution_task_control) is handed to the router at most
\* once, whatever crashes, expired flights, sweeps and repeated proposals come
\* between: its absence at the receiver can never be proven, so a second send
\* could control the device twice (delivery.ts attempt, execution.ts reconcile).
ControlSentOnce ==
  \A op \in Control : \A m, n \in 1..MaxAttempts :
    <<op, m>> \in sent /\ <<op, n>> \in sent => m = n

\* A second send of one operation happens only in a flight that was told by the
\* receiver that the earlier one is absent, never from a stale row.
ResendOnlyAfterAbsence ==
  [][\A op \in Ops : \A n \in 1..MaxAttempts :
       /\ <<op, n>> \in sent' \ sent
       /\ \E m \in 1..MaxAttempts : <<op, m>> \in sent
       => flight[op].verdict = "not_submitted"]_vars

\* The permission prompt is an await: a request becomes durable only while the
\* generation that proposed it still observes the running prompt, and a control
\* only with the content the user allowed (delivery.ts propose, second live()).
RequestedWhileCurrent ==
  [][\A op \in Ops :
       row[op].status = None /\ row'[op].status # None =>
         /\ live = flight[op].gen
         /\ op \in Control => <<op, row'[op].content>> \in allowed]_vars

\* The receipt is an error answer: nothing of the operation is at the receiver,
\* so a restarted Host is told "not_submitted" and asks again and again.
RefusalRecorded(op) == row[op].status = "receipt_recorded" /\ refused[op] /\ effects[op] = 0

\* With a bounded number of faults every stored request is delivered in the
\* end, also when an earlier row of the sweep order never can be; a control is
\* delivered if the receiver acted on it, and a refusal is at least recorded.
StoredIsDelivered ==
  \A op \in Ops :
    (row[op].status # None /\ (op \in Control => effects[op] > 0))
      ~> (row[op].status = "delivered" \/ RefusalRecorded(op))

\* The durable outbox as its callers see it; see module Outbox.
Phase(status) ==
  CASE status = None -> "absent"
    [] status \in {"pending", "reconciliation_required"} -> "open"
    [] status = "receipt_recorded" -> "recorded"
    [] status = "delivered" -> "delivered"

Promise == INSTANCE Outbox WITH phase <- [op \in Ops |-> Phase(row[op].status)]

\* Deliveries implements Outbox: receipts are recorded only once the receiver
\* answered, the provider is told only of delivered operations, the receiver
\* acts once on an operation.
ImplementsOutbox == Promise!OutboxSpec

=============================================================================
