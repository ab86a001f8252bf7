-------------------------- MODULE DeliveriesProofs --------------------------
(***************************************************************************)
(* The safety of Deliveries, and that it implements Outbox, for every set  *)
(* of operations, every page size and every number of faults.  One flight  *)
(* per operation is what the argument rests on: between two of its steps   *)
(* nobody else writes the row, so what the flight read before an await is  *)
(* still true of the row after it.                                         *)
(***************************************************************************)
EXTENDS Deliveries, TLAPS

\* Steps of a flight whose request is stored.
Stored == {"reconcile", "judge", "intend", "send", "wait", "record",
           "acknowledge", "deliver", "reply"}

\* An attempt is sent only under a stored intent that counts it.
SentWasIntended(op) ==
  /\ row[op].status \in {None, "pending"} => row[op].attempts = 0
  /\ \A n \in Nat : <<op, n>> \in sent =>
       0 < n /\ n <= row[op].attempts /\ row[op].status \notin {None, "pending"}

\* Without the receiver's word that it is absent, an operation was not sent.
FreshSend(op) ==
  LET f == flight[op] IN
  /\ f.step = "intend" /\ f.verdict # "not_submitted" => row[op].status = "pending"
  /\ f.step = "send" =>
       /\ row[op].status \notin {None, "pending"}
       /\ f.tries = row[op].attempts /\ f.tries > 0
       /\ f.verdict # "not_submitted" => \A n \in Nat : <<op, n>> \notin sent

\* The absence of a control is never proven, so it is tried once.
ControlTriedOnce(op) ==
  op \in Control =>
    /\ row[op].attempts <= 1 /\ flight[op].verdict # "not_submitted"
    /\ flight[op].step = "request" => <<op, flight[op].content>> \in allowed

\* What the receiver did, and what is known of it.
ReceiverTrue(op) ==
  /\ op \notin Control => effects[op] <= 1
  /\ effects[op] > 0 => row[op].status # None
  /\ op \in Control /\ effects[op] > 0 => \E n \in Nat : <<op, n>> \in sent
  /\ \A n \in Nat : op \in Control /\ <<op, n>> \in net => effects[op] = 0
  /\ \A n \in Nat : <<op, n>> \in answers => effects[op] > 0 \/ refused[op]

\* A flight past a step has done it.
FlightTrue(op) ==
  LET f == flight[op] IN
  /\ f.step \in {"existing", "live", "authorize", "request"} => f.content \in Contents
  /\ f.step \in Stored => row[op].status # None
  /\ f.step = "judge" /\ f.verdict = "committed" => effects[op] > 0
  /\ f.step = "record" => row[op].status \in Recorded \/ effects[op] > 0 \/ refused[op]
  /\ f.step \in {"acknowledge", "deliver"} => row[op].status \in Recorded
  /\ f.step = "reply" => row[op].status = "delivered"

OpInv(op) ==
  /\ SentWasIntended(op) /\ FreshSend(op) /\ ControlTriedOnce(op)
  /\ ReceiverTrue(op) /\ FlightTrue(op)

IInv == TypeOK /\ \A op \in Ops : OpInv(op)

(* The initial state is typed.                                               *)
LEMMA InitTyped == Init => TypeOK
  BY KindsAssumption DEF Init, TypeOK, Rows, Flights, NoRow, NoFlight, Statuses, Steps, Verdicts

(* At the start no operation has a row, a flight or a message.               *)
LEMMA InitIInv == Init => IInv
<1> SUFFICES ASSUME Init, NEW op \in Ops PROVE OpInv(op)
  BY InitTyped DEF IInv
<1> QED
  BY DEF Init, OpInv, SentWasIntended, FreshSend, ControlTriedOnce, ReceiverTrue, FlightTrue,
     NoRow, NoFlight, None, Stored

----------------------------------------------------------------------------
(* Frames *)

(* A step of one operation leaves the others as they are.                    *)
LEMMA Untouched ==
  ASSUME IInv, NEW q \in Ops,
         row'[q] = row[q], flight'[q] = flight[q], effects'[q] = effects[q],
         refused'[q] = refused[q], allowed \subseteq allowed',
         \A n \in Nat : <<q, n>> \in sent' <=> <<q, n>> \in sent,
         \A n \in Nat : <<q, n>> \in net' => <<q, n>> \in net,
         \A n \in Nat : <<q, n>> \in answers' => <<q, n>> \in answers
  PROVE  OpInv(q)'
<1>1. SentWasIntended(q)'
  BY DEF IInv, OpInv, SentWasIntended
<1>2. FreshSend(q)'
  BY DEF IInv, OpInv, FreshSend
<1>3. ControlTriedOnce(q)'
  BY DEF IInv, OpInv, ControlTriedOnce
<1>4. ReceiverTrue(q)'
  BY DEF IInv, OpInv, ReceiverTrue
<1>5. FlightTrue(q)'
  BY DEF IInv, OpInv, FlightTrue
<1> QED
  BY <1>1, <1>2, <1>3, <1>4, <1>5 DEF OpInv

(* A step that only moves a flight keeps what concerns the row and the       *)
(* receiver, and the flight's own part is left to show.                      *)
LEMMA FlightMoves ==
  ASSUME IInv, NEW op \in Ops, NEW f \in Flights,
         flight' = [flight EXCEPT ![op] = f],
         UNCHANGED <<row, live, lastGen, sent, told, faults, receiver>>,
         allowed \subseteq allowed', allowed' \subseteq Ops \X Contents,
         FreshSend(op)', FlightTrue(op)',
         op \in Control => /\ f.verdict # "not_submitted"
                           /\ f.step = "request" => <<op, f.content>> \in allowed'
  PROVE  IInv'
<1>1. flight'[op] = f /\ \A q \in Ops \ {op} : flight'[q] = flight[q]
  BY DEF IInv, TypeOK
<1>2. TypeOK'
  BY DEF IInv, TypeOK, receiver
<1>3. OpInv(op)'
  <2>1. SentWasIntended(op)' /\ ReceiverTrue(op)'
    BY DEF IInv, OpInv, SentWasIntended, ReceiverTrue, receiver
  <2>2. ControlTriedOnce(op)'
    BY <1>1 DEF IInv, OpInv, ControlTriedOnce
  <2> QED
    BY <2>1, <2>2 DEF OpInv
<1>4. ASSUME NEW q \in Ops \ {op} PROVE OpInv(q)'
  BY <1>1, <1>4, Untouched DEF receiver
<1> QED
  BY <1>2, <1>3, <1>4 DEF IInv

(* What is left to show of a step that concerns one operation.               *)
LEMMA OneMoves ==
  ASSUME IInv, NEW op \in Ops, TypeOK', OpInv(op)', allowed \subseteq allowed',
         \A q \in Ops \ {op} : /\ row'[q] = row[q] /\ flight'[q] = flight[q]
                              /\ effects'[q] = effects[q] /\ refused'[q] = refused[q],
         \A q \in Ops \ {op} : \A n \in Nat :
           /\ <<q, n>> \in sent' <=> <<q, n>> \in sent
           /\ <<q, n>> \in net' => <<q, n>> \in net
           /\ <<q, n>> \in answers' => <<q, n>> \in answers
  PROVE  IInv'
<1>1. ASSUME NEW q \in Ops \ {op} PROVE OpInv(q)'
  BY <1>1, Untouched
<1> QED
  BY <1>1 DEF IInv

(* A step that writes the row and moves the flight.                          *)
LEMMA RowMoves ==
  ASSUME IInv, NEW op \in Ops, NEW r \in Rows, NEW f \in Flights,
         row' = [row EXCEPT ![op] = r], flight' = [flight EXCEPT ![op] = f],
         UNCHANGED <<live, lastGen, sent, allowed, told, faults, receiver>>,
         OpInv(op)'
  PROVE  IInv'
<1>1. TypeOK'
  BY DEF IInv, TypeOK, receiver
<1>2. \A q \in Ops \ {op} : row'[q] = row[q] /\ flight'[q] = flight[q]
  BY DEF IInv, TypeOK
<1> QED
  BY <1>1, <1>2, OneMoves DEF receiver

(* The empty flight.                                                         *)
LEMMA NoFlightTyped ==
  /\ NoFlight \in Flights
  /\ NoFlight.step = None /\ NoFlight.verdict = None /\ NoFlight.late = FALSE
  BY DEF NoFlight, Flights, Steps, Statuses, Verdicts

(* A flight may end anywhere.                                                *)
LEMMA LandKeeps ==
  ASSUME IInv, NEW op \in Ops, Land(op),
         UNCHANGED <<row, live, lastGen, sent, told, faults, receiver, allowed>>
  PROVE  IInv'
<1>1. flight' = [flight EXCEPT ![op] = NoFlight] /\ flight'[op] = NoFlight
  BY DEF Land, IInv, TypeOK
<1>2. FreshSend(op)' /\ FlightTrue(op)'
  BY <1>1, NoFlightTyped DEF FreshSend, FlightTrue, None, Stored
<1>3. allowed' \subseteq Ops \X Contents
  BY DEF IInv, TypeOK
<1> QED
  BY <1>1, <1>2, <1>3, NoFlightTyped, FlightMoves DEF None

(* What a move to another step leaves of the flight.                         *)
LEMMA GoToFlight ==
  ASSUME TypeOK, NEW op \in Ops, NEW s \in Steps, GoTo(op, s)
  PROVE  LET f == [flight[op] EXCEPT !.step = s] IN
         /\ f \in Flights
         /\ flight' = [flight EXCEPT ![op] = f] /\ flight'[op] = f
         /\ f.step = s /\ f.content = flight[op].content /\ f.verdict = flight[op].verdict
         /\ f.tries = flight[op].tries /\ f.seen = flight[op].seen
  BY DEF GoTo, TypeOK, Flights

(* A step to a place that promises nothing yet.                              *)
LEMMA MoveKeeps ==
  ASSUME IInv, NEW op \in Ops, NEW s \in {"live", "authorize", "wait"}, GoTo(op, s),
         s # "wait" => flight[op].content \in Contents,
         s = "wait" => row[op].status # None,
         UNCHANGED <<row, live, lastGen, sent, told, faults, receiver, allowed>>
  PROVE  IInv'
<1> DEFINE f == [flight[op] EXCEPT !.step = s]
<1>1. f \in Flights /\ f.step = s /\ f.verdict = flight[op].verdict
      /\ f.content = flight[op].content /\ flight' = [flight EXCEPT ![op] = f] /\ flight'[op] = f
  <2>1. s \in Steps /\ TypeOK
    BY DEF Steps, IInv
  <2> QED
    BY <2>1, GoToFlight
<1>2. FreshSend(op)' /\ FlightTrue(op)'
  BY <1>1 DEF FreshSend, FlightTrue, Stored
<1>3. op \in Control => f.verdict # "not_submitted"
  BY <1>1 DEF IInv, OpInv, ControlTriedOnce
<1>4. allowed' \subseteq Ops \X Contents /\ allowed \subseteq allowed'
  BY DEF IInv, TypeOK
<1> HIDE DEF f
<1> QED
  BY <1>1, <1>2, <1>3, <1>4, FlightMoves

(* attempt() sends a fresh row and reconciles one that was tried.            *)
LEMMA AttemptFromFlight ==
  ASSUME IInv, NEW op \in Ops, NEW f \in Flights, row[op].status # None,
         op \in Control => f.verdict # "not_submitted",
         flight' = [flight EXCEPT ![op] = AttemptFrom(op, f)],
         UNCHANGED <<row, live, lastGen, sent, told, faults, receiver, allowed>>
  PROVE  IInv'
<1> DEFINE g == AttemptFrom(op, f)
<1> DEFINE s == IF f.late THEN None
                ELSE IF row[op].status # "pending" \/ row[op].attempts > 0
                     THEN "reconcile" ELSE "intend"
<1>1. g \in Flights /\ g.verdict = f.verdict /\ g.step \in {None, "reconcile", "intend"}
      /\ (g.step = "intend" => row[op].status = "pending")
  <2>1. row[op].status \in Statuses /\ row[op].attempts \in Nat
    BY DEF IInv, TypeOK, Rows
  <2>2. s \in {None, "reconcile", "intend"} /\ (s = "intend" => row[op].status = "pending")
    BY DEF None
  <2>3. s \in Steps
    BY <2>2 DEF Steps
  <2>4. g = [f EXCEPT !.gen = 0, !.seen = row[op].status, !.tries = row[op].attempts, !.step = s]
    BY DEF AttemptFrom
  <2> HIDE DEF s, g
  <2>5. g \in Flights /\ g.verdict = f.verdict /\ g.step = s
    BY <2>1, <2>3, <2>4 DEF Flights
  <2> QED
    BY <2>2, <2>5
<1>2. flight'[op] = g
  BY DEF IInv, TypeOK
<1>3. FreshSend(op)' /\ FlightTrue(op)'
  BY <1>1, <1>2 DEF FreshSend, FlightTrue, None, Stored
<1>4. allowed' \subseteq Ops \X Contents /\ allowed \subseteq allowed'
  BY DEF IInv, TypeOK
<1> HIDE DEF g
<1> QED
  BY <1>1, <1>3, <1>4, FlightMoves DEF None, g

----------------------------------------------------------------------------
(* The steps of a flight *)

(* A proposal starts a fresh flight.                                         *)
LEMMA ProposeKeeps == ASSUME IInv, NEW op \in Ops, Propose(op) PROVE IInv'
<1>1. PICK c \in Contents :
        flight' = [flight EXCEPT ![op] =
                    [NoFlight EXCEPT !.step = "existing", !.content = c, !.gen = live]]
  BY DEF Propose
<1> DEFINE f == [NoFlight EXCEPT !.step = "existing", !.content = c, !.gen = live]
<1>2. f \in Flights /\ f.step = "existing" /\ f.verdict = None
      /\ f.content = c
  BY NoFlightTyped DEF NoFlight, Flights, Steps, IInv, TypeOK
<1>3. flight'[op] = f
  BY <1>1 DEF IInv, TypeOK
<1>4. FreshSend(op)' /\ FlightTrue(op)'
  BY <1>2, <1>3 DEF FreshSend, FlightTrue, Stored
<1>5. UNCHANGED <<row, live, lastGen, sent, told, faults, receiver, allowed>>
  BY DEF Propose, binding, history
<1>6. allowed' \subseteq Ops \X Contents /\ allowed \subseteq allowed'
  BY <1>5 DEF IInv, TypeOK
<1> HIDE DEF f
<1> QED
  BY <1>1, <1>2, <1>4, <1>5, <1>6, FlightMoves DEF None, f

(* A stored row is attempted, a missing one looked at further.               *)
LEMMA LookUpKeeps == ASSUME IInv, NEW op \in Ops, LookUp(op) PROVE IInv'
<1>1. UNCHANGED <<row, live, lastGen, sent, told, faults, receiver, allowed>>
  BY DEF LookUp, binding, history
<1>2. CASE Land(op)
  BY <1>1, <1>2, LandKeeps
<1>3. CASE GoTo(op, "live")
  <2>1. flight[op].content \in Contents
    BY DEF IInv, OpInv, FlightTrue, LookUp, At
  <2> QED
    BY <1>1, <1>3, <2>1, MoveKeeps
<1>4. CASE row[op].status # None /\ flight' = [flight EXCEPT ![op] = AttemptFrom(op, flight[op])]
  BY <1>1, <1>4, AttemptFromFlight DEF IInv, TypeOK, OpInv, ControlTriedOnce
<1> QED
  BY <1>2, <1>3, <1>4 DEF LookUp, IInv, TypeOK, Flights

(* The request can be stored; of a control, with what the user allowed.      *)
LEMMA RequestReached ==
  ASSUME IInv, NEW op \in Ops, GoTo(op, "request"),
         UNCHANGED <<row, live, lastGen, sent, told, faults, receiver>>,
         allowed \subseteq allowed', allowed' \subseteq Ops \X Contents,
         op \in Control => <<op, flight[op].content>> \in allowed',
         flight[op].content \in Contents
  PROVE  IInv'
<1> DEFINE f == [flight[op] EXCEPT !.step = "request"]
<1>1. f \in Flights /\ f.step = "request" /\ f.verdict = flight[op].verdict
      /\ f.content = flight[op].content
      /\ flight' = [flight EXCEPT ![op] = f] /\ flight'[op] = f
  <2>1. "request" \in Steps /\ TypeOK
    BY DEF Steps, IInv
  <2> QED
    BY <2>1, GoToFlight
<1>2. FreshSend(op)' /\ FlightTrue(op)'
  BY <1>1 DEF FreshSend, FlightTrue, Stored
<1>3. op \in Control => f.verdict # "not_submitted"
  BY <1>1 DEF IInv, OpInv, ControlTriedOnce
<1> HIDE DEF f
<1> QED
  BY <1>1, <1>2, <1>3, FlightMoves

(* A control goes to the user before it is requested.                        *)
LEMMA CheckLiveKeeps == ASSUME IInv, NEW op \in Ops, CheckLive(op) PROVE IInv'
<1>1. UNCHANGED <<row, live, lastGen, sent, told, faults, receiver, allowed>>
  BY DEF CheckLive, binding, history
<1>2. CASE Land(op)
  BY <1>1, <1>2, LandKeeps
<1>3. flight[op].content \in Contents
  BY DEF IInv, OpInv, FlightTrue, CheckLive, At
<1>4. CASE GoTo(op, "authorize")
  BY <1>1, <1>3, <1>4, MoveKeeps
<1>5. CASE op \notin Control /\ GoTo(op, "request")
  <2>1. allowed \subseteq allowed' /\ allowed' \subseteq Ops \X Contents
    BY <1>1 DEF IInv, TypeOK
  <2> QED
    BY <1>1, <1>3, <1>5, <2>1, RequestReached
<1> QED
  BY <1>2, <1>4, <1>5 DEF CheckLive

(* The user's answer is kept with the content it was given for.              *)
LEMMA AuthorizeKeeps == ASSUME IInv, NEW op \in Ops, Authorize(op) PROVE IInv'
<1>1. UNCHANGED <<row, live, lastGen, sent, told, faults, receiver>>
  BY DEF Authorize, binding
<1>2. CASE Land(op) /\ UNCHANGED allowed
  BY <1>1, <1>2, LandKeeps
<1>3. CASE GoTo(op, "request") /\ allowed' = allowed \cup {<<op, flight[op].content>>}
  <2>1. flight[op].content \in Contents
    BY DEF IInv, OpInv, FlightTrue, Authorize, At
  <2>2. allowed' \subseteq Ops \X Contents /\ allowed \subseteq allowed'
    BY <1>3, <2>1 DEF IInv, TypeOK
  <2> QED
    BY <1>1, <1>3, <2>2, RequestReached
<1> QED
  BY <1>2, <1>3 DEF Authorize

(* Only what is not stored yet is stored, so nothing of it was sent.         *)
LEMMA StoreRequestKeeps == ASSUME IInv, NEW op \in Ops, StoreRequest(op) PROVE IInv'
<1> DEFINE f == flight[op]
           r == [status |-> "pending", attempts |-> 0, content |-> f.content, due |-> TRUE]
           g == [f EXCEPT !.step = "intend", !.seen = "pending", !.gen = 0]
<1>1. UNCHANGED <<live, lastGen, sent, told, faults, receiver, allowed>>
  BY DEF StoreRequest, binding, history
<1>2. f \in Flights /\ f.content \in Contents
  BY DEF IInv, TypeOK, OpInv, FlightTrue, StoreRequest, At
<1>3. CASE row[op].status = None /\ row' = [row EXCEPT ![op] = r] /\ flight' = [flight EXCEPT ![op] = g]
  <2>1. r \in Rows /\ r.status = "pending" /\ r.attempts = 0
    BY <1>2 DEF Rows, Statuses
  <2>2. g \in Flights /\ g.step = "intend" /\ g.verdict = f.verdict
    BY <1>2 DEF Flights, Steps, Statuses
  <2>3. row'[op] = r /\ flight'[op] = g
    BY <1>3 DEF IInv, TypeOK
  <2> HIDE DEF r, g
  <2>4. \A n \in Nat : <<op, n>> \notin sent
    BY <1>3 DEF IInv, OpInv, SentWasIntended
  <2>5. SentWasIntended(op)'
    BY <1>1, <2>1, <2>3, <2>4 DEF SentWasIntended
  <2>6. FreshSend(op)' /\ ControlTriedOnce(op)'
    <3>1. op \in Control => flight[op].verdict # "not_submitted"
      BY DEF ControlTriedOnce, IInv, OpInv
    <3>2. FreshSend(op)'
      BY <2>1, <2>2, <2>3 DEF FreshSend
    <3>3. ControlTriedOnce(op)'
      BY <2>1, <2>2, <2>3, <3>1 DEF ControlTriedOnce
    <3> QED
      BY <3>2, <3>3
  <2>7. ReceiverTrue(op)'
    BY <1>1, <2>1, <2>3 DEF ReceiverTrue, IInv, OpInv, receiver, None
  <2>8. FlightTrue(op)'
    BY <2>1, <2>2, <2>3 DEF FlightTrue, Stored, None
  <2> QED
    BY <1>1, <1>3, <2>1, <2>2, <2>5, <2>6, <2>7, <2>8, RowMoves DEF OpInv
<1>4. CASE row[op].status # None /\ UNCHANGED row
           /\ flight' = [flight EXCEPT ![op] = AttemptFrom(op, f)]
  BY <1>1, <1>2, <1>4, AttemptFromFlight DEF IInv, OpInv, ControlTriedOnce
<1>5. CASE Land(op) /\ UNCHANGED row
  BY <1>1, <1>5, LandKeeps
<1> QED
  BY <1>3, <1>4, <1>5 DEF StoreRequest

(* The receiver is asked; a repeatable operation acts on the question.       *)
LEMMA ReconcileKeeps == ASSUME IInv, NEW op \in Ops, Reconcile(op) PROVE IInv'
<1>1. PICK v \in Verdicts \ {None} :
        /\ v = "committed" => effects[op] > 0 \/ op \in Repeatable
        /\ v = "not_submitted" => op \notin Control
        /\ faults' \in {faults, faults + 1}
        /\ flight' = [flight EXCEPT ![op].step = "judge", ![op].verdict = v]
        /\ effects' = [effects EXCEPT ![op] = IF v = "committed" /\ op \in Repeatable THEN 1 ELSE @]
  BY DEF Reconcile, Fault
<1> DEFINE f == [flight[op] EXCEPT !.step = "judge", !.verdict = v]
<1>2. f \in Flights /\ f.step = "judge" /\ f.verdict = v
  BY DEF IInv, TypeOK, Flights, Steps
<1>3. flight' = [flight EXCEPT ![op] = f] /\ flight'[op] = f
  BY <1>1 DEF IInv, TypeOK
<1> HIDE DEF f
<1>4. effects'[op] \in Nat /\ (op \in Control \/ effects'[op] # 1 => effects'[op] = effects[op])
      /\ (effects[op] > 0 => effects'[op] > 0) /\ (v = "committed" => effects'[op] > 0)
  BY <1>1, KindsAssumption DEF IInv, TypeOK
<1>5. UNCHANGED <<row, live, lastGen, net, answers, refused, sent, allowed, told>>
  BY DEF Reconcile, binding, history
<1>6. TypeOK'
  BY <1>1, <1>2, <1>3, <1>5 DEF IInv, TypeOK
<1>7. row[op].status # None
  BY DEF Reconcile, At, IInv, OpInv, FlightTrue, Stored
<1>8. SentWasIntended(op)'
  BY <1>5 DEF IInv, OpInv, SentWasIntended
<1>9. FreshSend(op)' /\ ControlTriedOnce(op)'
  BY <1>1, <1>2, <1>3, <1>5 DEF IInv, OpInv, FreshSend, ControlTriedOnce
<1>10. ReceiverTrue(op)'
  BY <1>4, <1>5, <1>7 DEF IInv, OpInv, ReceiverTrue
<1>11. FlightTrue(op)'
  BY <1>2, <1>3, <1>4, <1>5, <1>7 DEF FlightTrue, Stored
<1>12. \A q \in Ops \ {op} : flight'[q] = flight[q] /\ effects'[q] = effects[q]
  BY <1>1, <1>3 DEF IInv, TypeOK
<1> QED
  BY <1>5, <1>6, <1>8, <1>9, <1>10, <1>11, <1>12, OneMoves DEF OpInv

(* A move between two steps that leave row and receiver alone.               *)
LEMMA StepKeeps ==
  ASSUME IInv, NEW op \in Ops, NEW s \in Stored, GoTo(op, s),
         UNCHANGED <<row, live, lastGen, sent, told, faults, receiver, allowed>>,
         row[op].status # None, s \notin {"judge", "send"},
         s = "intend" => flight[op].verdict = "not_submitted",
         s = "record" => row[op].status \in Recorded \/ effects[op] > 0 \/ refused[op],
         s \in {"acknowledge", "deliver"} => row[op].status \in Recorded,
         s = "reply" => row[op].status = "delivered"
  PROVE  IInv'
<1> DEFINE f == [flight[op] EXCEPT !.step = s]
<1>1. f \in Flights /\ f.step = s /\ f.verdict = flight[op].verdict
      /\ flight' = [flight EXCEPT ![op] = f] /\ flight'[op] = f
  <2>1. s \in Steps /\ TypeOK
    BY DEF Steps, Stored, IInv
  <2> QED
    BY <2>1, GoToFlight
<1>2. FreshSend(op)'
  BY <1>1 DEF FreshSend
<1>3. FlightTrue(op)'
  BY <1>1 DEF FlightTrue, Stored, receiver
<1>4. op \in Control => f.verdict # "not_submitted" /\ f.step # "request"
  BY <1>1 DEF IInv, OpInv, ControlTriedOnce, Stored
<1>5. allowed' \subseteq Ops \X Contents /\ allowed \subseteq allowed'
  BY DEF IInv, TypeOK
<1> HIDE DEF f
<1> QED
  BY <1>1, <1>2, <1>3, <1>4, <1>5, FlightMoves

(* The receiver's word decides between record, intent and the end.           *)
LEMMA JudgeKeeps == ASSUME IInv, NEW op \in Ops, Judge(op) PROVE IInv'
<1>1. UNCHANGED <<row, live, lastGen, sent, told, faults, receiver, allowed>>
  BY DEF Judge, binding, history
<1>2. row[op].status # None /\ (flight[op].verdict = "committed" => effects[op] > 0)
  BY DEF Judge, At, IInv, OpInv, FlightTrue, Stored
<1>3. CASE Land(op)
  BY <1>1, <1>3, LandKeeps
<1>4. CASE flight[op].verdict = "committed" /\ GoTo(op, "record")
  BY <1>1, <1>2, <1>4, StepKeeps DEF Stored
<1>5. CASE flight[op].verdict = "not_submitted" /\ GoTo(op, "intend")
  BY <1>1, <1>2, <1>5, StepKeeps DEF Stored
<1> QED
  BY <1>3, <1>4, <1>5 DEF Judge

(* The attempt is counted before it is sent.                                 *)
LEMMA IntendKeeps == ASSUME IInv, NEW op \in Ops, Intend(op) PROVE IInv'
<1> DEFINE k == row[op].attempts + 1
           r == [row[op] EXCEPT !.status = "reconciliation_required", !.attempts = k, !.due = FALSE]
           f == [flight[op] EXCEPT !.step = "send", !.tries = k]
<1>1. UNCHANGED <<live, lastGen, sent, told, faults, receiver, allowed>>
  BY DEF Intend, binding, history
<1>2. CASE Land(op) /\ UNCHANGED row
  BY <1>1, <1>2, LandKeeps
<1>3. CASE /\ row[op].status \notin Recorded \cup {None}
           /\ row' = [row EXCEPT ![op] = r] /\ flight' = [flight EXCEPT ![op] = f]
  <2>1. row[op] \in Rows /\ flight[op] \in Flights /\ k \in Nat /\ k > 0 /\ row[op].attempts \in Nat
    BY DEF IInv, TypeOK, Rows
  <2>2. r \in Rows /\ r.status = "reconciliation_required" /\ r.attempts = k
    BY <2>1 DEF Rows, Statuses
  <2>3. f \in Flights /\ f.step = "send" /\ f.tries = k /\ f.verdict = flight[op].verdict
    BY <2>1 DEF Flights, Steps
  <2>4. row'[op] = r /\ flight'[op] = f
    BY <1>3 DEF IInv, TypeOK
  <2> HIDE DEF r, f
  <2>5. flight[op].verdict # "not_submitted" =>
          row[op].status = "pending" /\ row[op].attempts = 0 /\ \A n \in Nat : <<op, n>> \notin sent
    BY DEF Intend, At, IInv, OpInv, FreshSend, SentWasIntended
  <2>6. SentWasIntended(op)'
    BY <1>1, <2>1, <2>2, <2>4 DEF SentWasIntended, IInv, OpInv, None
  <2>7. FreshSend(op)'
    BY <1>1, <2>1, <2>2, <2>3, <2>4, <2>5 DEF FreshSend, None
  <2>8. ControlTriedOnce(op)'
    <3>1. op \in Control => flight[op].verdict # "not_submitted"
      BY DEF ControlTriedOnce, IInv, OpInv
    <3>2. op \in Control => k = 1
      BY <2>5, <3>1
    <3> HIDE DEF k
    <3> QED
      BY <2>2, <2>3, <2>4, <3>1, <3>2 DEF ControlTriedOnce
  <2>9. ReceiverTrue(op)'
    BY <1>1, <2>2, <2>4 DEF ReceiverTrue, IInv, OpInv, receiver, None
  <2>10. FlightTrue(op)'
    BY <2>2, <2>3, <2>4 DEF FlightTrue, Stored, None
  <2> QED
    BY <1>1, <1>3, <2>2, <2>3, <2>6, <2>7, <2>8, <2>9, <2>10, RowMoves DEF OpInv
<1> QED
  BY <1>2, <1>3 DEF Intend

(* A send that is not the first goes out only on the receiver's word.        *)
LEMMA SendKeeps == ASSUME IInv, NEW op \in Ops, Send(op) PROVE IInv'
<1> DEFINE n == flight[op].tries
<1>1. UNCHANGED <<row, live, lastGen, answers, effects, refused, told, faults, allowed>>
  BY DEF Send, binding
<1>2. CASE Land(op) /\ UNCHANGED <<net, sent>>
  BY <1>1, <1>2, LandKeeps DEF receiver
<1>3. CASE GoTo(op, "wait") /\ net' = net \cup {<<op, n>>} /\ sent' = sent \cup {<<op, n>>}
  <2> DEFINE f == [flight[op] EXCEPT !.step = "wait"]
  <2>1. f \in Flights /\ f.step = "wait" /\ f.verdict = flight[op].verdict
        /\ flight' = [flight EXCEPT ![op] = f] /\ flight'[op] = f
    <3>1. "wait" \in Steps /\ TypeOK
      BY DEF Steps, IInv
    <3> QED
      BY <1>3, <3>1, GoToFlight
  <2> HIDE DEF f
  <2>2. /\ row[op].status \notin {None, "pending"}
        /\ n = row[op].attempts /\ n > 0 /\ n \in Nat
        /\ flight[op].verdict # "not_submitted" => \A m \in Nat : <<op, m>> \notin sent
    BY DEF Send, At, IInv, OpInv, FreshSend, TypeOK, Flights
  <2>3. op \in Control => effects[op] = 0 /\ \A m \in Nat : <<op, m>> \notin sent
    <3>1. effects[op] \in Nat
      BY DEF IInv, TypeOK
    <3>2. op \in Control => \A m \in Nat : <<op, m>> \notin sent
      BY <2>2 DEF IInv, OpInv, ControlTriedOnce
    <3>3. op \in Control => ~(effects[op] > 0)
      BY <3>2 DEF IInv, OpInv, ReceiverTrue
    <3> QED
      BY <3>1, <3>2, <3>3
  <2> HIDE DEF n
  <2>4. TypeOK'
    BY <1>1, <1>3, <2>1, <2>2 DEF IInv, TypeOK
  <2>5. SentWasIntended(op)'
    BY <1>1, <1>3, <2>2 DEF IInv, OpInv, SentWasIntended
  <2>6. FreshSend(op)' /\ ControlTriedOnce(op)'
    BY <1>1, <2>1 DEF IInv, OpInv, FreshSend, ControlTriedOnce
  <2>7. ReceiverTrue(op)'
    BY <1>1, <1>3, <2>2, <2>3 DEF IInv, OpInv, ReceiverTrue
  <2>8. FlightTrue(op)'
    BY <1>1, <2>1, <2>2 DEF FlightTrue, Stored
  <2>9. \A q \in Ops \ {op} : flight'[q] = flight[q]
    BY <2>1 DEF IInv, TypeOK
  <2>10. \A q \in Ops \ {op} : \A m \in Nat :
           /\ <<q, m>> \in sent' <=> <<q, m>> \in sent
           /\ <<q, m>> \in net' => <<q, m>> \in net
    BY <1>3
  <2> QED
    BY <1>1, <2>4, <2>5, <2>6, <2>7, <2>8, <2>9, <2>10, OneMoves DEF OpInv
<1> QED
  BY <1>2, <1>3 DEF Send

(* A control is on its way once at most, so it acts once.                    *)
LEMMA ReceiveKeeps == ASSUME IInv, NEW op \in Ops, Receive(op) PROVE IInv'
<1>1. PICK n \in 1..MaxAttempts :
        /\ <<op, n>> \in net
        /\ net' = net \ {<<op, n>>} /\ answers' \subseteq answers \cup {<<op, n>>}
        /\ \/ /\ effects' = [effects EXCEPT ![op] = IF op \in Control THEN @ + 1 ELSE 1]
              /\ UNCHANGED refused
           \/ refused' = [refused EXCEPT ![op] = TRUE] /\ UNCHANGED effects
  BY DEF Receive
<1>2. UNCHANGED <<row, live, lastGen, flight, sent, allowed, told, faults>>
  BY DEF Receive, binding, history
<1>3. n \in Nat /\ <<op, n>> \in sent
  BY <1>1 DEF IInv, TypeOK
<1>4. row[op].status # None /\ (op \in Control => effects[op] = 0)
  BY <1>1, <1>3 DEF IInv, OpInv, SentWasIntended, ReceiverTrue
<1>5. TypeOK'
  <2>1. effects' \in [Ops -> Nat] /\ refused' \in [Ops -> BOOLEAN]
    <3>1. effects \in [Ops -> Nat] /\ refused \in [Ops -> BOOLEAN]
      BY DEF IInv, TypeOK
    <3>2. effects' \in [Ops -> Nat]
      BY <1>1, <3>1
    <3>3. refused' \in [Ops -> BOOLEAN]
      BY <1>1, <3>1
    <3> QED
      BY <3>2, <3>3
  <2> QED
    BY <1>1, <1>2, <1>3, <2>1 DEF IInv, TypeOK
<1>6. /\ effects'[op] > 0 \/ refused'[op]
      /\ effects'[op] \in Nat /\ (op \notin Control => effects'[op] <= 1)
      /\ effects[op] > 0 => effects'[op] > 0
      /\ refused[op] => refused'[op]
  BY <1>1, <1>4 DEF IInv, TypeOK, OpInv, ReceiverTrue
<1>7. SentWasIntended(op)'
  BY <1>2 DEF IInv, OpInv, SentWasIntended
<1>8. FreshSend(op)' /\ ControlTriedOnce(op)'
  BY <1>2 DEF IInv, OpInv, FreshSend, ControlTriedOnce
<1>9. ReceiverTrue(op)'
  <2>1. \A m \in Nat : op \in Control /\ <<op, m>> \in net' => FALSE
    <3> SUFFICES ASSUME NEW m \in Nat, op \in Control, <<op, m>> \in net' PROVE FALSE
      OBVIOUS
    <3>1. <<op, m>> \in sent /\ m # n
      BY <1>1 DEF IInv, TypeOK
    <3>2. m <= row[op].attempts /\ n <= row[op].attempts /\ 0 < m /\ 0 < n /\ row[op].attempts <= 1
      BY <1>3, <3>1 DEF IInv, OpInv, SentWasIntended, ControlTriedOnce
    <3>3. row[op].attempts \in Nat
      BY DEF IInv, TypeOK, Rows
    <3> QED
      BY <1>3, <3>1, <3>2, <3>3
  <2>2. \A m \in Nat : <<op, m>> \in answers' => effects'[op] > 0 \/ refused'[op]
    BY <1>6
  <2> QED
    BY <1>2, <1>3, <1>4, <1>6, <2>1, <2>2 DEF ReceiverTrue
<1>10. FlightTrue(op)'
  BY <1>2, <1>6 DEF IInv, OpInv, FlightTrue
<1>11. \A q \in Ops \ {op} : effects'[q] = effects[q] /\ refused'[q] = refused[q]
  BY <1>1 DEF IInv, TypeOK
<1> QED
  BY <1>1, <1>2, <1>5, <1>7, <1>8, <1>9, <1>10, <1>11, OneMoves DEF OpInv

(* The answer of a send is the receiver's.                                   *)
LEMMA AnsweredKeeps == ASSUME IInv, NEW op \in Ops, Answered(op) PROVE IInv'
<1> DEFINE f == [flight[op] EXCEPT !.step = "record"]
<1>1. f \in Flights /\ f.step = "record" /\ f.verdict = flight[op].verdict
      /\ flight' = [flight EXCEPT ![op] = f] /\ flight'[op] = f
  <2>1. "record" \in Steps /\ TypeOK /\ GoTo(op, "record")
    BY DEF Steps, IInv, Answered
  <2> QED
    BY <2>1, GoToFlight
<1> HIDE DEF f
<1>2. /\ answers' \subseteq answers
      /\ UNCHANGED <<row, live, lastGen, net, effects, refused, sent, allowed, told, faults>>
  BY DEF Answered, binding, history
<1>3. row[op].status # None /\ (effects[op] > 0 \/ refused[op])
  <2>1. flight[op].tries \in Nat /\ <<op, flight[op].tries>> \in answers
    BY DEF Answered, IInv, TypeOK, Flights
  <2>2. row[op].status # None
    BY DEF Answered, At, IInv, OpInv, FlightTrue, Stored
  <2> QED
    BY <2>1, <2>2 DEF IInv, OpInv, ReceiverTrue
<1>4. TypeOK'
  BY <1>1, <1>2 DEF IInv, TypeOK
<1>5. SentWasIntended(op)' /\ ReceiverTrue(op)'
  BY <1>2 DEF IInv, OpInv, SentWasIntended, ReceiverTrue
<1>6. FreshSend(op)' /\ ControlTriedOnce(op)'
  BY <1>1, <1>2 DEF IInv, OpInv, FreshSend, ControlTriedOnce
<1>7. FlightTrue(op)'
  BY <1>1, <1>2, <1>3 DEF FlightTrue, Stored
<1>8. \A q \in Ops \ {op} : flight'[q] = flight[q]
  BY <1>1 DEF IInv, TypeOK
<1> QED
  BY <1>2, <1>4, <1>5, <1>6, <1>7, <1>8, OneMoves DEF OpInv

(* A row that only moves forward keeps what was sent and what is known.      *)
LEMMA RowAdvances ==
  ASSUME IInv, NEW op \in Ops, NEW t \in Recorded, NEW s \in {"acknowledge", "reply"},
         row[op].status # None,
         row' = [row EXCEPT ![op].status = t], GoTo(op, s),
         s = "reply" => t = "delivered",
         UNCHANGED <<live, lastGen, sent, allowed, told, faults, receiver>>
  PROVE  IInv'
<1> DEFINE f == [flight[op] EXCEPT !.step = s]
           r == [row[op] EXCEPT !.status = t]
<1>1. f \in Flights /\ f.step = s /\ f.verdict = flight[op].verdict
      /\ flight' = [flight EXCEPT ![op] = f] /\ flight'[op] = f
  <2>1. s \in Steps /\ TypeOK
    BY DEF Steps, IInv
  <2> QED
    BY <2>1, GoToFlight
<1>2. r \in Rows /\ r.status = t /\ r.attempts = row[op].attempts
      /\ row' = [row EXCEPT ![op] = r] /\ row'[op] = r
  BY DEF IInv, TypeOK, Rows, Statuses, Recorded
<1> HIDE DEF f, r
<1>3. t \notin {None, "pending"}
  BY DEF Recorded, None
<1>4. SentWasIntended(op)'
  BY <1>2, <1>3 DEF IInv, OpInv, SentWasIntended
<1>5. FreshSend(op)' /\ ControlTriedOnce(op)'
  BY <1>1, <1>2 DEF IInv, OpInv, FreshSend, ControlTriedOnce
<1>6. ReceiverTrue(op)'
  BY <1>2, <1>3 DEF IInv, OpInv, ReceiverTrue, receiver
<1>7. FlightTrue(op)'
  BY <1>1, <1>2, <1>3 DEF FlightTrue, Stored
<1> QED
  BY <1>1, <1>2, <1>4, <1>5, <1>6, <1>7, RowMoves DEF OpInv

(* A receipt is recorded once.                                               *)
LEMMA RecordReceiptKeeps == ASSUME IInv, NEW op \in Ops, RecordReceipt(op) PROVE IInv'
<1>1. UNCHANGED <<live, lastGen, sent, allowed, told, faults, receiver>>
  BY DEF RecordReceipt, binding, history
<1>2. CASE Land(op) /\ UNCHANGED row
  BY <1>1, <1>2, LandKeeps
<1>3. CASE /\ row[op].status # None /\ GoTo(op, "acknowledge")
           /\ row' = [row EXCEPT ![op].status = IF @ \in Recorded THEN @ ELSE "receipt_recorded"]
  <2> DEFINE t == IF row[op].status \in Recorded THEN row[op].status ELSE "receipt_recorded"
  <2>1. t \in Recorded /\ row' = [row EXCEPT ![op].status = t]
    BY <1>3 DEF Recorded
  <2> HIDE DEF t
  <2> QED
    BY <1>1, <1>3, <2>1, RowAdvances
<1> QED
  BY <1>2, <1>3 DEF RecordReceipt

(* Acknowledging changes no row.                                             *)
LEMMA AcknowledgeKeeps == ASSUME IInv, NEW op \in Ops, Acknowledge(op) PROVE IInv'
<1>1. UNCHANGED <<row, live, lastGen, sent, told, faults, receiver, allowed>>
  BY DEF Acknowledge, binding, history
<1>2. row[op].status \in Recorded /\ row[op].status # None
  BY DEF Acknowledge, At, IInv, OpInv, FlightTrue, Recorded, None
<1> QED
  BY <1>1, <1>2, StepKeeps DEF Acknowledge, Stored

(* A recorded row becomes delivered.                                         *)
LEMMA MarkDeliveredKeeps == ASSUME IInv, NEW op \in Ops, MarkDelivered(op) PROVE IInv'
<1>1. UNCHANGED <<live, lastGen, sent, allowed, told, faults, receiver>>
  BY DEF MarkDelivered, binding, history
<1>2. row[op].status \in Recorded /\ row[op].status # None
  BY DEF MarkDelivered, At, IInv, OpInv, FlightTrue, Recorded, None
<1>3. row' = [row EXCEPT ![op].status = "delivered"]
  BY <1>2 DEF MarkDelivered, IInv, TypeOK
<1> QED
  BY <1>1, <1>2, <1>3, RowAdvances DEF MarkDelivered, Recorded

(* The reply ends the flight.                                                *)
LEMMA ReplyKeeps == ASSUME IInv, NEW op \in Ops, Reply(op) PROVE IInv'
<1>1. /\ flight' = [flight EXCEPT ![op] = NoFlight]
      /\ told' = [told EXCEPT ![op] = TRUE]
      /\ UNCHANGED <<row, live, lastGen, sent, faults, receiver, allowed>>
  BY DEF Reply, Land, binding
<1>2. flight'[op] = NoFlight /\ \A q \in Ops \ {op} : flight'[q] = flight[q]
  BY <1>1 DEF IInv, TypeOK
<1>3. TypeOK'
  <2>1. told' \in [Ops -> BOOLEAN]
    BY <1>1 DEF IInv, TypeOK
  <2> QED
    BY <1>1, <2>1, NoFlightTyped DEF IInv, TypeOK, receiver
<1>4. SentWasIntended(op)' /\ ReceiverTrue(op)'
  BY <1>1 DEF IInv, OpInv, SentWasIntended, ReceiverTrue, receiver
<1>5. FreshSend(op)' /\ ControlTriedOnce(op)' /\ FlightTrue(op)'
  BY <1>1, <1>2, NoFlightTyped
  DEF IInv, OpInv, FreshSend, ControlTriedOnce, FlightTrue, None, Stored
<1> QED
  BY <1>1, <1>2, <1>3, <1>4, <1>5, OneMoves DEF OpInv, receiver

(* Faults only count.                                                        *)
LEMMA FailKeeps == ASSUME IInv, NEW op \in Ops, Fail(op) PROVE IInv'
<1>1. PICK k \in Nat : faults' = k
  BY DEF Fail, Fault, IInv, TypeOK
<1>2. /\ flight' = [flight EXCEPT ![op] = NoFlight]
      /\ answers' \subseteq answers
      /\ UNCHANGED <<row, live, lastGen, sent, told, net, effects, refused, allowed>>
  BY DEF Fail, Land, binding, history
<1>3. flight'[op] = NoFlight /\ \A q \in Ops \ {op} : flight'[q] = flight[q]
  BY <1>2 DEF IInv, TypeOK
<1>4. TypeOK'
  BY <1>1, <1>2, NoFlightTyped DEF IInv, TypeOK
<1>5. SentWasIntended(op)' /\ ReceiverTrue(op)'
  BY <1>2 DEF IInv, OpInv, SentWasIntended, ReceiverTrue
<1>6. FreshSend(op)' /\ ControlTriedOnce(op)' /\ FlightTrue(op)'
  BY <1>2, <1>3, NoFlightTyped
  DEF IInv, OpInv, FreshSend, ControlTriedOnce, FlightTrue, None, Stored
<1> QED
  BY <1>2, <1>3, <1>4, <1>5, <1>6, OneMoves DEF OpInv

(* An expired flight is only marked.                                         *)
LEMMA ExpireKeeps == ASSUME IInv, NEW op \in Ops, Expire(op) PROVE IInv'
<1> DEFINE f == [flight[op] EXCEPT !.late = TRUE]
<1>1. faults' \in Nat /\ flight' = [flight EXCEPT ![op] = f]
      /\ UNCHANGED <<row, live, lastGen, sent, told, receiver, allowed>>
  BY DEF Expire, Fault, binding, history, IInv, TypeOK
<1>2. /\ f \in Flights /\ f.step = flight[op].step /\ f.verdict = flight[op].verdict
      /\ f.content = flight[op].content /\ f.tries = flight[op].tries
  BY DEF IInv, TypeOK, Flights
<1>3. flight'[op] = f /\ \A q \in Ops \ {op} : flight'[q] = flight[q]
  BY <1>1 DEF IInv, TypeOK
<1> HIDE DEF f
<1>4. TypeOK'
  BY <1>1, <1>2 DEF IInv, TypeOK, receiver
<1>5. SentWasIntended(op)' /\ ReceiverTrue(op)'
  BY <1>1 DEF IInv, OpInv, SentWasIntended, ReceiverTrue, receiver
<1>6. FreshSend(op)' /\ ControlTriedOnce(op)'
  BY <1>1, <1>2, <1>3 DEF IInv, OpInv, FreshSend, ControlTriedOnce
<1>7. FlightTrue(op)'
  BY <1>1, <1>2, <1>3 DEF IInv, OpInv, FlightTrue, receiver
<1> QED
  BY <1>1, <1>3, <1>4, <1>5, <1>6, <1>7, OneMoves DEF OpInv, receiver

(* A row that is due again is otherwise the same.                            *)
LEMMA BecomeDueKeeps == ASSUME IInv, NEW op \in Ops, BecomeDue(op) PROVE IInv'
<1> DEFINE r == [row[op] EXCEPT !.due = TRUE]
<1>1. row' = [row EXCEPT ![op] = r]
      /\ UNCHANGED <<live, lastGen, flight, sent, allowed, told, faults, receiver>>
  BY DEF BecomeDue, binding, history
<1>2. r \in Rows /\ r.status = row[op].status /\ r.attempts = row[op].attempts
  BY DEF IInv, TypeOK, Rows
<1>3. row'[op] = r /\ \A q \in Ops \ {op} : row'[q] = row[q]
  BY <1>1 DEF IInv, TypeOK
<1> HIDE DEF r
<1>4. TypeOK'
  BY <1>1, <1>2 DEF IInv, TypeOK, receiver
<1>5. SentWasIntended(op)' /\ ReceiverTrue(op)'
  BY <1>1, <1>2, <1>3 DEF IInv, OpInv, SentWasIntended, ReceiverTrue, receiver
<1>6. FreshSend(op)' /\ ControlTriedOnce(op)'
  BY <1>1, <1>2, <1>3 DEF IInv, OpInv, FreshSend, ControlTriedOnce
<1>7. FlightTrue(op)'
  BY <1>1, <1>2, <1>3 DEF IInv, OpInv, FlightTrue, receiver
<1> QED
  BY <1>1, <1>3, <1>4, <1>5, <1>6, <1>7, OneMoves DEF OpInv, receiver

(* A page starts a flight from each of its rows that has none.               *)
LEMMA SweepPageKeeps == ASSUME IInv, SweepPage PROVE IInv'
<1>1. UNCHANGED <<row, live, lastGen, sent, told, faults, receiver, allowed>>
  BY DEF SweepPage, binding, history
<1>2. ASSUME NEW op \in Ops
      PROVE  flight'[op] \in Flights /\ OpInv(op)'
  <2>1. CASE flight'[op] = flight[op]
    <3>1. OpInv(op)'
      BY <1>1, <2>1, Untouched DEF receiver
    <3> QED
      BY <2>1, <3>1 DEF IInv, TypeOK
  <2>2. CASE /\ op \in PageAfter(cursor)
             /\ flight'[op] = AttemptFrom(op, [NoFlight EXCEPT !.content = row[op].content])
    <3> DEFINE f == [NoFlight EXCEPT !.content = row[op].content]
               s == IF f.late THEN None
                    ELSE IF row[op].status # "pending" \/ row[op].attempts > 0
                         THEN "reconcile" ELSE "intend"
    <3>1. row[op].status # None /\ row[op].status \in Statuses /\ row[op].attempts \in Nat
          /\ row[op].content \in Contents \cup {None}
      BY <2>2 DEF PageAfter, Unfinished, IInv, TypeOK, Rows
    <3>2. f \in Flights /\ f.verdict = None
      BY <3>1, NoFlightTyped DEF Flights
    <3>3. s \in {None, "reconcile", "intend"} /\ (s = "intend" => row[op].status = "pending")
      BY DEF None
    <3>4. s \in Steps
      BY <3>3 DEF Steps
    <3>5. flight'[op]
            = [f EXCEPT !.gen = 0, !.seen = row[op].status, !.tries = row[op].attempts, !.step = s]
      BY <2>2 DEF AttemptFrom
    <3> HIDE DEF f, s
    <3>6. flight'[op] \in Flights /\ flight'[op].verdict = None /\ flight'[op].step = s
      <4> DEFINE g == flight'[op]
      <4>1. g = [f EXCEPT !.gen = 0, !.seen = row[op].status, !.tries = row[op].attempts, !.step = s]
        BY <3>5
      <4> HIDE DEF g
      <4>2. g \in Flights /\ g.verdict = f.verdict /\ g.step = s
        BY <3>1, <3>2, <3>4, <4>1 DEF Flights
      <4> QED
        BY <3>2, <4>2 DEF g
    <3>7. SentWasIntended(op)' /\ ReceiverTrue(op)'
      BY <1>1 DEF IInv, OpInv, SentWasIntended, ReceiverTrue, receiver
    <3>8. FreshSend(op)' /\ FlightTrue(op)'
      BY <1>1, <3>1, <3>3, <3>6 DEF FreshSend, FlightTrue, Stored, None
    <3>9. ControlTriedOnce(op)'
      BY <1>1, <3>3, <3>6 DEF IInv, OpInv, ControlTriedOnce, None
    <3> QED
      BY <3>6, <3>7, <3>8, <3>9 DEF OpInv
  <2> QED
    BY <2>1, <2>2 DEF SweepPage
<1>3. flight' \in [Ops -> Flights]
  <2>1. flight' = [op \in Ops |-> flight'[op]]
    BY DEF SweepPage
  <2> QED
    BY <1>2, <2>1
<1>4. TypeOK'
  BY <1>1, <1>3 DEF IInv, TypeOK, receiver
<1> QED
  BY <1>2, <1>4 DEF IInv

(* A restart takes the flights, never a row, and messages only get lost.     *)
LEMMA CrashKeeps == ASSUME IInv, Crash PROVE IInv'
<1>1. /\ flight' = [op \in Ops |-> NoFlight] /\ live' = 0 /\ answers' = {} /\ net' \subseteq net
      /\ UNCHANGED <<row, lastGen, effects, refused, sent, allowed, told>>
  BY DEF Crash, history
<1>2. faults' \in Nat
  BY DEF Crash, Fault, IInv, TypeOK
<1>3. TypeOK'
  BY <1>1, <1>2, NoFlightTyped DEF IInv, TypeOK
<1>4. ASSUME NEW op \in Ops PROVE OpInv(op)'
  <2>1. flight'[op] = NoFlight
    BY <1>1
  <2>2. SentWasIntended(op)' /\ ReceiverTrue(op)'
    BY <1>1 DEF IInv, OpInv, SentWasIntended, ReceiverTrue
  <2>3. FreshSend(op)' /\ ControlTriedOnce(op)' /\ FlightTrue(op)'
    BY <1>1, <2>1, NoFlightTyped
    DEF IInv, OpInv, FreshSend, ControlTriedOnce, FlightTrue, None, Stored
  <2> QED
    BY <2>2, <2>3 DEF OpInv
<1> QED
  BY <1>3, <1>4 DEF IInv

(* The session around the outbox, and steps that change nothing.             *)
LEMMA SessionKeeps ==
  ASSUME IInv, live' \in Nat, lastGen' \in Nat,
         UNCHANGED <<row, flight, sent, told, faults, receiver, allowed>>
  PROVE  IInv'
<1>1. TypeOK'
  BY DEF IInv, TypeOK, receiver
<1>2. ASSUME NEW op \in Ops PROVE OpInv(op)'
  BY Untouched DEF receiver
<1> QED
  BY <1>1, <1>2 DEF IInv

(* Every step keeps the invariant.                                           *)
LEMMA NextIInv == ASSUME IInv, [Next]_vars PROVE IInv'
<1>1. ASSUME NEW op \in Ops, Step(op) PROVE IInv'
  BY <1>1, LookUpKeeps, CheckLiveKeeps, AuthorizeKeeps, StoreRequestKeeps, ReconcileKeeps,
     JudgeKeeps, IntendKeeps, SendKeeps, AnsweredKeeps, RecordReceiptKeeps, AcknowledgeKeeps,
     MarkDeliveredKeeps, ReplyKeeps DEF Step
<1>2. ASSUME NEW op \in Ops,
             Propose(op) \/ Receive(op) \/ Fail(op) \/ Expire(op) \/ BecomeDue(op)
      PROVE  IInv'
  BY <1>2, ProposeKeeps, ReceiveKeeps, FailKeeps, ExpireKeeps, BecomeDueKeeps
<1>3. CASE Settle \/ Rebind \/ UNCHANGED vars
  <2>1. live' \in Nat /\ lastGen' \in Nat
    BY <1>3 DEF Settle, Rebind, vars, IInv, TypeOK
  <2>2. UNCHANGED <<row, flight, sent, told, faults, receiver, allowed>>
    BY <1>3 DEF Settle, Rebind, vars, history, receiver
  <2> QED
    BY <2>1, <2>2, SessionKeeps
<1> QED
  BY <1>1, <1>2, <1>3, SweepPageKeeps, CrashKeeps DEF Next

(* The invariant holds in every reachable state.                             *)
LEMMA IInvAlways == Spec => []IInv
  BY InitIInv, NextIInv, PTL DEF Spec

(* Rows, flights and messages are what the store and the router exchange.    *)
THEOREM DeliveriesTyped == Spec => []TypeOK
  BY IInvAlways, PTL DEF IInv

----------------------------------------------------------------------------
(* What follows *)

(* A device control is handed to the router at most once (attempt,           *)
(* reconcile of execution.ts).                                               *)
THEOREM ControlsAreSentOnce == Spec => []ControlSentOnce
<1>1. ASSUME IInv PROVE ControlSentOnce
  <2> SUFFICES ASSUME NEW op \in Control, NEW m \in 1..MaxAttempts, NEW n \in 1..MaxAttempts,
                      <<op, m>> \in sent, <<op, n>> \in sent
               PROVE  m = n
    BY DEF ControlSentOnce
  <2>1. op \in Ops /\ m \in Nat /\ n \in Nat /\ row[op].attempts \in Nat
    BY <1>1, KindsAssumption DEF IInv, TypeOK, Rows
  <2>2. 0 < m /\ m <= row[op].attempts /\ 0 < n /\ n <= row[op].attempts /\ row[op].attempts <= 1
    BY <1>1, <2>1 DEF IInv, OpInv, SentWasIntended, ControlTriedOnce
  <2> QED
    BY <2>1, <2>2
<1> QED
  BY <1>1, IInvAlways, PTL

(* Only Send sends.                                                          *)
LEMMA SentOnlyBySend ==
  ASSUME [Next]_vars, NEW op \in Ops, NEW n \in Nat, <<op, n>> \in sent' \ sent
  PROVE  Send(op) /\ sent' = sent \cup {<<op, flight[op].tries>>} /\ ~flight[op].late
<1>1. CASE UNCHANGED sent
  BY <1>1
<1>2. ASSUME NEW q \in Ops, Send(q), sent' # sent PROVE Send(op) /\ q = op
  <2>1. sent' = sent \cup {<<q, flight[q].tries>>}
    BY <1>2 DEF Send
  <2>2. q = op
    BY <2>1
  <2> QED
    BY <1>2, <2>2
<1>3. sent' = sent \/ \E q \in Ops : Send(q)
  <2>1. ASSUME NEW q \in Ops, Step(q) PROVE sent' = sent \/ Send(q)
    BY <2>1 DEF Step, LookUp, CheckLive, Authorize, StoreRequest, Reconcile, Judge, Intend,
       Answered, RecordReceipt, Acknowledge, MarkDelivered, Reply, history
  <2>2. ASSUME NEW q \in Ops,
               Propose(q) \/ Receive(q) \/ Fail(q) \/ Expire(q) \/ BecomeDue(q)
        PROVE  sent' = sent
    BY <2>2 DEF Propose, Receive, Fail, Expire, BecomeDue, history
  <2>3. CASE SweepPage \/ Settle \/ Rebind \/ Crash \/ UNCHANGED vars
    BY <2>3 DEF SweepPage, Settle, Rebind, Crash, history, vars
  <2> QED
    BY <2>1, <2>2, <2>3 DEF Next
<1>4. Send(op)
  BY <1>1, <1>2, <1>3
<1> QED
  BY <1>1, <1>4 DEF Send

(* An operation is sent again only on the receiver's word that it is absent  *)
(* (delivery.ts attempt).                                                    *)
THEOREM ResendsFollowAbsence == Spec => ResendOnlyAfterAbsence
<1> DEFINE A == \A op \in Ops : \A n \in 1..MaxAttempts :
                  /\ <<op, n>> \in sent' \ sent
                  /\ \E m \in 1..MaxAttempts : <<op, m>> \in sent
                  => flight[op].verdict = "not_submitted"
<1>1. ASSUME IInv, [Next]_vars PROVE A
  <2> SUFFICES ASSUME NEW op \in Ops, NEW n \in 1..MaxAttempts, <<op, n>> \in sent' \ sent,
                      NEW m \in 1..MaxAttempts, <<op, m>> \in sent
               PROVE  flight[op].verdict = "not_submitted"
    OBVIOUS
  <2>1. Send(op)
    BY <1>1, SentOnlyBySend
  <2> QED
    BY <1>1, <2>1 DEF IInv, OpInv, FreshSend, Send, At
<1>2. ASSUME IInv, [Next]_vars PROVE [A]_vars
  BY <1>1, <1>2
<1> QED
  BY <1>2, IInvAlways, PTL DEF Spec, ResendOnlyAfterAbsence

(* Only StoreRequest makes a row.                                            *)
LEMMA StoredOnlyByRequest ==
  ASSUME IInv, [Next]_vars, NEW op \in Ops, row[op].status = None, row'[op].status # None
  PROVE  /\ StoreRequest(op) /\ live = flight[op].gen /\ flight[op].step = "request"
         /\ row'[op].content = flight[op].content
<1>1. CASE UNCHANGED row
  BY <1>1
<1>2. ASSUME NEW q \in Ops, StoreRequest(q), row' # row
      PROVE  q = op /\ live = flight[op].gen /\ flight[op].step = "request"
             /\ row'[op].content = flight[op].content
  <2>1. /\ live = flight[q].gen /\ flight[q].step = "request"
        /\ row' = [row EXCEPT ![q] = [status |-> "pending", attempts |-> 0,
                                      content |-> flight[q].content, due |-> TRUE]]
    BY <1>2 DEF StoreRequest, Live, At
  <2>2. q = op
    BY <2>1 DEF IInv, TypeOK
  <2> QED
    BY <2>1, <2>2 DEF IInv, TypeOK
<1>3. row'[op] = row[op] \/ row' = row \/ (\E q \in Ops : StoreRequest(q)) \/ row[op].status # None
  <2>1. ASSUME NEW q \in Ops, Intend(q) \/ RecordReceipt(q) \/ MarkDelivered(q) \/ BecomeDue(q)
        PROVE  row'[op] = row[op] \/ row[op].status # None \/ row' = row
    <3>1. q = op => row[op].status # None \/ row' = row \/ row'[op] = row[op]
      BY <2>1 DEF Intend, RecordReceipt, MarkDelivered, BecomeDue, At, IInv, TypeOK, OpInv, FlightTrue,
                  Stored
    <3>2. q # op => row'[op] = row[op]
      BY <2>1 DEF Intend, RecordReceipt, MarkDelivered, BecomeDue, IInv, TypeOK
    <3> QED
      BY <3>1, <3>2
  <2>2. ASSUME NEW q \in Ops, Step(q)
        PROVE  row' = row \/ StoreRequest(q) \/ Intend(q) \/ RecordReceipt(q) \/ MarkDelivered(q)
    BY <2>2 DEF Step, LookUp, CheckLive, Authorize, Reconcile, Judge, Send, Answered, Acknowledge,
       Reply
  <2>3. ASSUME NEW q \in Ops, Propose(q) \/ Receive(q) \/ Fail(q) \/ Expire(q)
        PROVE  row' = row
    BY <2>3 DEF Propose, Receive, Fail, Expire
  <2>4. CASE SweepPage \/ Settle \/ Rebind \/ Crash \/ UNCHANGED vars
    BY <2>4 DEF SweepPage, Settle, Rebind, Crash, vars
  <2> QED
    BY <2>1, <2>2, <2>3, <2>4 DEF Next
<1> QED
  BY <1>1, <1>2, <1>3

(* A request becomes durable only for the prompt that proposed it, and a     *)
(* control only as the user allowed it (delivery.ts propose).                *)
THEOREM RequestsAreCurrent == Spec => RequestedWhileCurrent
<1> DEFINE A == \A op \in Ops :
                  row[op].status = None /\ row'[op].status # None =>
                    /\ live = flight[op].gen
                    /\ op \in Control => <<op, row'[op].content>> \in allowed
<1>1. ASSUME IInv, [Next]_vars PROVE A
  <2> SUFFICES ASSUME NEW op \in Ops, row[op].status = None, row'[op].status # None
               PROVE  /\ live = flight[op].gen
                      /\ op \in Control => <<op, row'[op].content>> \in allowed
    OBVIOUS
  <2> QED
    BY <1>1, StoredOnlyByRequest DEF IInv, OpInv, ControlTriedOnce
<1>2. ASSUME IInv, [Next]_vars PROVE [A]_vars
  BY <1>1, <1>2
<1> QED
  BY <1>2, IInvAlways, PTL DEF Spec, RequestedWhileCurrent

----------------------------------------------------------------------------
(* Deliveries implements Outbox *)

RowPhases == [op \in Ops |-> Phase(row[op].status)]

(* The phase of every status.                                                *)
LEMMA PhaseValues ==
  /\ Phase(None) = "absent" /\ Phase("pending") = "open"
  /\ Phase("reconciliation_required") = "open"
  /\ Phase("receipt_recorded") = "recorded" /\ Phase("delivered") = "delivered"
  BY DEF Phase, None

(* Where a row stays in its phase, the outbox sees nothing of it.            *)
LEMMA PhasesKept ==
  ASSUME \A op \in Ops : Phase(row'[op].status) = Phase(row[op].status),
         UNCHANGED <<effects, refused, told>>
  PROVE  UNCHANGED Promise!outboxVars
  BY DEF Promise!outboxVars

(* A step that keeps the rows and the receiver is a stutter of the outbox.   *)
LEMMA RowKept ==
  ASSUME UNCHANGED <<row, effects, refused, told>> PROVE UNCHANGED Promise!outboxVars
  BY DEF Promise!outboxVars

(* One row changes its phase.                                                *)
LEMMA PhaseMoves ==
  ASSUME NEW op \in Ops, \A q \in Ops \ {op} : row'[q] = row[q]
  PROVE  RowPhases' = [RowPhases EXCEPT ![op] = Phase(row'[op].status)]
  BY DEF RowPhases

(* Initial states are initial states of the outbox.                          *)
LEMMA InitImplements == Init => Promise!OutboxInit
  BY PhaseValues DEF Init, Promise!OutboxInit, NoRow

(* Storing a request is the request of the outbox.                           *)
LEMMA StoreRequestImplements ==
  ASSUME IInv, NEW op \in Ops, StoreRequest(op)
  PROVE  Promise!Request(op) \/ UNCHANGED Promise!outboxVars
<1>1. UNCHANGED <<effects, refused, told>>
  BY DEF StoreRequest, receiver, history
<1>2. CASE UNCHANGED row
  BY <1>1, <1>2, RowKept
<1>3. CASE row[op].status = None /\ row' = [row EXCEPT ![op] =
             [status |-> "pending", attempts |-> 0, content |-> flight[op].content, due |-> TRUE]]
  <2>1. row'[op].status = "pending" /\ \A q \in Ops \ {op} : row'[q] = row[q]
    BY <1>3 DEF IInv, TypeOK
  <2>2. RowPhases' = [RowPhases EXCEPT ![op] = "open"] /\ RowPhases[op] = "absent"
    BY <1>3, <2>1, PhaseMoves, PhaseValues DEF RowPhases
  <2> QED
    BY <1>1, <2>2 DEF Promise!Request, RowPhases
<1> QED
  BY <1>2, <1>3 DEF StoreRequest

(* A question that a repeatable operation answers by acting.                 *)
LEMMA ReconcileImplements ==
  ASSUME IInv, NEW op \in Ops, Reconcile(op)
  PROVE  Promise!Act(op) \/ UNCHANGED Promise!outboxVars
<1>1. UNCHANGED <<row, refused, told>> /\ row[op].status # None
  BY DEF Reconcile, At, history, IInv, OpInv, FlightTrue, Stored
<1>2. effects' = [effects EXCEPT ![op] = 1] \/ effects' = effects
  BY DEF Reconcile, IInv, TypeOK
<1>3. RowPhases' = RowPhases /\ RowPhases[op] # "absent"
  BY <1>1, PhaseValues DEF RowPhases, IInv, TypeOK, Rows, Statuses
<1>4. CASE effects' = effects
  BY <1>1, <1>4, RowKept
<1>5. CASE op \in Repeatable /\ effects' = [effects EXCEPT ![op] = 1]
  <2>1. effects[op] = 0 \/ effects[op] = 1
    BY <1>5, KindsAssumption DEF IInv, TypeOK, OpInv, ReceiverTrue
  <2>2. CASE effects[op] = 0
    BY <1>1, <1>3, <1>5, <2>2 DEF Promise!Act, RowPhases
  <2>3. CASE effects[op] = 1
    <3>1. effects' = effects
      BY <1>5, <2>3 DEF IInv, TypeOK
    <3> QED
      BY <1>1, <3>1, RowKept
  <2> QED
    BY <2>1, <2>2, <2>3
<1>6. effects' = effects \/ op \in Repeatable
  BY DEF Reconcile, IInv, TypeOK
<1> QED
  BY <1>2, <1>4, <1>5, <1>6

(* A second copy of a send acts only where the receiver knows the operation. *)
LEMMA ReceiveImplements ==
  ASSUME IInv, NEW op \in Ops, Receive(op)
  PROVE  Promise!Act(op) \/ Promise!Refuse(op) \/ UNCHANGED Promise!outboxVars
<1>1. PICK n \in Nat : <<op, n>> \in net
  BY DEF Receive
<1>2. UNCHANGED <<row, told>> /\ row[op].status # None /\ (op \in Control => effects[op] = 0)
  <2>1. <<op, n>> \in sent
    BY <1>1 DEF IInv, TypeOK
  <2> QED
    BY <1>1, <2>1 DEF Receive, history, IInv, OpInv, SentWasIntended, ReceiverTrue
<1>3. RowPhases' = RowPhases /\ RowPhases[op] # "absent"
  BY <1>2, PhaseValues DEF RowPhases, IInv, TypeOK, Rows, Statuses
<1>4. CASE refused' = [refused EXCEPT ![op] = TRUE] /\ UNCHANGED effects
  BY <1>2, <1>3, <1>4 DEF Promise!Refuse, RowPhases
<1>5. CASE /\ effects' = [effects EXCEPT ![op] = IF op \in Control THEN @ + 1 ELSE 1]
           /\ UNCHANGED refused
  <2>1. effects' = [effects EXCEPT ![op] = 1] /\ (effects[op] = 0 \/ effects[op] = 1)
    <3>1. effects \in [Ops -> Nat] /\ effects[op] \in Nat
      BY DEF IInv, TypeOK
    <3>2. effects' = [effects EXCEPT ![op] = 1]
      <4>1. CASE op \in Control
        BY <1>2, <1>5, <3>1, <4>1
      <4>2. CASE op \notin Control
        BY <1>5, <4>2
      <4> QED
        BY <4>1, <4>2
    <3>3. op \notin Control => effects[op] <= 1
      BY DEF IInv, OpInv, ReceiverTrue
    <3> QED
      BY <1>2, <3>1, <3>2, <3>3
  <2>2. CASE effects[op] = 0
    BY <1>2, <1>3, <1>5, <2>1, <2>2 DEF Promise!Act, RowPhases
  <2>3. CASE effects[op] = 1
    <3>1. effects' = effects
      BY <2>1, <2>3 DEF IInv, TypeOK
    <3> QED
      BY <1>2, <1>5, <3>1, RowKept
  <2> QED
    BY <2>1, <2>2, <2>3
<1> QED
  BY <1>4, <1>5 DEF Receive

(* An intent reopens the row, it does not record it.                         *)
LEMMA IntendImplements ==
  ASSUME IInv, NEW op \in Ops, Intend(op) PROVE UNCHANGED Promise!outboxVars
<1>1. UNCHANGED <<effects, refused, told>>
  BY DEF Intend, receiver, history
<1>2. CASE UNCHANGED row
  BY <1>1, <1>2, RowKept
<1>3. CASE /\ row[op].status \notin Recorded \cup {None}
           /\ row' = [row EXCEPT ![op].status = "reconciliation_required",
                                 ![op].attempts = @ + 1, ![op].due = FALSE]
  <2>1. row[op].status \in {"pending", "reconciliation_required"}
    BY <1>3 DEF IInv, TypeOK, Rows, Statuses, Recorded
  <2>2. row'[op].status = "reconciliation_required" /\ \A q \in Ops \ {op} : row'[q] = row[q]
    BY <1>3 DEF IInv, TypeOK, Rows
  <2>3. \A q \in Ops : Phase(row'[q].status) = Phase(row[q].status)
    BY <2>1, <2>2, PhaseValues
  <2> QED
    BY <1>1, <2>3, PhasesKept
<1> QED
  BY <1>2, <1>3 DEF Intend

(* A receipt is recorded only of what the receiver answered.                 *)
LEMMA RecordReceiptImplements ==
  ASSUME IInv, NEW op \in Ops, RecordReceipt(op)
  PROVE  Promise!Record(op) \/ UNCHANGED Promise!outboxVars
<1>1. UNCHANGED <<effects, refused, told>>
  BY DEF RecordReceipt, receiver, history
<1>2. CASE UNCHANGED row
  BY <1>1, <1>2, RowKept
<1>3. CASE row[op].status \in Recorded /\ row' = [row EXCEPT ![op].status = row[op].status]
  <2>1. row' = row
    BY <1>3 DEF IInv, TypeOK, Rows
  <2> QED
    BY <1>1, <2>1, RowKept
<1>4. CASE /\ row[op].status \notin Recorded \cup {None}
           /\ row' = [row EXCEPT ![op].status = "receipt_recorded"]
  <2>1. row[op].status \in {"pending", "reconciliation_required"}
    BY <1>4 DEF IInv, TypeOK, Rows, Statuses, Recorded
  <2>2. row'[op].status = "receipt_recorded" /\ \A q \in Ops \ {op} : row'[q] = row[q]
    BY <1>4 DEF IInv, TypeOK, Rows
  <2>3. RowPhases' = [RowPhases EXCEPT ![op] = "recorded"] /\ RowPhases[op] = "open"
    BY <2>1, <2>2, PhaseMoves, PhaseValues DEF RowPhases
  <2>4. effects[op] > 0 \/ refused[op]
    BY <1>4 DEF RecordReceipt, At, IInv, OpInv, FlightTrue
  <2> QED
    BY <1>1, <2>3, <2>4 DEF Promise!Record, RowPhases
<1> QED
  BY <1>2, <1>3, <1>4 DEF RecordReceipt

(* Only a recorded row is delivered.                                         *)
LEMMA MarkDeliveredImplements ==
  ASSUME IInv, NEW op \in Ops, MarkDelivered(op)
  PROVE  Promise!Deliver(op) \/ UNCHANGED Promise!outboxVars
<1>1. UNCHANGED <<effects, refused, told>> /\ row[op].status \in Recorded
  BY DEF MarkDelivered, receiver, history, At, IInv, OpInv, FlightTrue
<1>2. row' = [row EXCEPT ![op].status = "delivered"]
  BY <1>1 DEF MarkDelivered, Recorded, None, IInv, TypeOK
<1>3. row'[op].status = "delivered" /\ \A q \in Ops \ {op} : row'[q] = row[q]
  BY <1>2 DEF IInv, TypeOK, Rows
<1>4. CASE row[op].status = "delivered"
  <2>1. \A q \in Ops : Phase(row'[q].status) = Phase(row[q].status)
    BY <1>3, <1>4
  <2> QED
    BY <1>1, <2>1, PhasesKept
<1>5. CASE row[op].status = "receipt_recorded"
  <2>1. RowPhases' = [RowPhases EXCEPT ![op] = "delivered"] /\ RowPhases[op] = "recorded"
    BY <1>3, <1>5, PhaseMoves, PhaseValues DEF RowPhases
  <2> QED
    BY <1>1, <2>1 DEF Promise!Deliver, RowPhases
<1> QED
  BY <1>1, <1>4, <1>5 DEF Recorded

(* The provider is told of what is delivered.                                *)
LEMMA ReplyImplements ==
  ASSUME IInv, NEW op \in Ops, Reply(op) PROVE Promise!Tell(op)
<1>1. /\ told' = [told EXCEPT ![op] = TRUE] /\ UNCHANGED <<row, effects, refused>>
      /\ row[op].status = "delivered"
  BY DEF Reply, receiver, At, IInv, OpInv, FlightTrue
<1>2. RowPhases[op] = "delivered" /\ RowPhases' = RowPhases
  BY <1>1, PhaseValues DEF RowPhases
<1> QED
  BY <1>1, <1>2 DEF Promise!Tell, RowPhases

(* The outbox knows no timers.                                               *)
LEMMA BecomeDueImplements ==
  ASSUME IInv, NEW op \in Ops, BecomeDue(op) PROVE UNCHANGED Promise!outboxVars
<1>1. \A q \in Ops : row'[q].status = row[q].status
  BY DEF BecomeDue, IInv, TypeOK, Rows
<1> QED
  BY <1>1, PhasesKept DEF BecomeDue, receiver, history

(* Every step is a step of the outbox or a stutter.                          *)
LEMMA NextImplements ==
  ASSUME IInv, [Next]_vars PROVE [Promise!OutboxNext]_(Promise!outboxVars)
<1>1. ASSUME NEW op \in Ops, Step(op) PROVE Promise!OutboxNext \/ UNCHANGED Promise!outboxVars
  <2>1. CASE \/ LookUp(op) \/ CheckLive(op) \/ Authorize(op) \/ Judge(op) \/ Send(op)
             \/ Answered(op) \/ Acknowledge(op)
    BY <2>1, RowKept
    DEF LookUp, CheckLive, Authorize, Judge, Send, Answered, Acknowledge, receiver, history
  <2> QED
    BY <1>1, <2>1, StoreRequestImplements, ReconcileImplements, IntendImplements,
       RecordReceiptImplements, MarkDeliveredImplements, ReplyImplements
    DEF Step, Promise!OutboxNext
<1>2. ASSUME NEW op \in Ops,
             Propose(op) \/ Receive(op) \/ Fail(op) \/ Expire(op) \/ BecomeDue(op)
      PROVE  Promise!OutboxNext \/ UNCHANGED Promise!outboxVars
  <2>1. CASE Propose(op) \/ Fail(op) \/ Expire(op)
    BY <2>1, RowKept DEF Propose, Fail, Expire, receiver, history
  <2> QED
    BY <1>2, <2>1, ReceiveImplements, BecomeDueImplements DEF Promise!OutboxNext
<1>3. CASE SweepPage \/ Settle \/ Rebind \/ Crash \/ UNCHANGED vars
  BY <1>3, RowKept DEF SweepPage, Settle, Rebind, Crash, vars, receiver, history
<1> QED
  BY <1>1, <1>2, <1>3 DEF Next

(* The durable outbox keeps what it promises: no second effect at the        *)
(* receiver, no receipt the receiver did not give, no reply before delivery. *)
THEOREM DeliveriesImplementOutbox == Spec => ImplementsOutbox
  BY InitImplements, NextImplements, IInvAlways, PTL
  DEF Spec, ImplementsOutbox, Promise!OutboxSpec

=============================================================================
