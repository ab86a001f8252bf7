------------------------- MODULE ExecutionAppProofs -------------------------
(***************************************************************************)
(* Theorems about Journal and about ExecutionApp, for every number of      *)
(* requests, commands, instances and faults, every plan and every receipt  *)
(* limit.  First the journal by itself; its invariant holds of the         *)
(* application too, which writes through the same actions.                 *)
(***************************************************************************)
EXTENDS ExecutionApp, LifecycleCoreProofs, FiniteSetTheorems

-----------------------------------------------------------------------------
(* Inputs *)

(* What is known of an input that the journal applied: it is well formed and *)
(* the lifecycle accepted it in the stored snapshot.                         *)
LEMMA AppliedPremise ==
  ASSUME NEW s \in Snapshot, Validate(s), NEW e, WellFormed(e),
         NEW f \in RecordedObservation, NEW now \in Nat,
         Outcome(s, e, f, now) = "applied"
  PROVE  Premise(s, e, f, now)
<1>1. ~(now < s.updated) /\ ~(e.expected < s.revision) /\ e.expected = s.revision
      /\ s.revision # RevisionMax /\ Accepts(s, e, f, now)
  BY DEF Outcome
<1>2. now >= s.updated
  BY <1>1 DEF Snapshot
<1> QED
  BY <1>1, <1>2 DEF Premise

(* The identity offered for an event is one the code could have used.        *)
LEMMA FreshIdTyped ==
  ASSUME NEW s
  PROVE  FreshId(s) \in EventIds
<1>1. \E id \in EventIds : id # s.last.id
  BY JournalAssumption
<1> QED
  BY <1>1 DEF FreshId

(* The event without content is typed, and so is the fact that is not there. *)
LEMMA NothingTyped ==
  /\ NoEvent \in Events /\ NoObservation \in RecordedObservation
  /\ 0 \in Bytes /\ 1 \in Bytes
BY BudgetAssumption DEF NoEvent, Events, NoObservation, RecordedObservation, Bytes

(* Every input that SubmitInput offers is well formed and no BeginAttempt.   *)
LEMMA OfferedWellFormed ==
  ASSUME NEW s \in Snapshot, NEW now \in Nat, NEW i \in Offered(s, now)
  PROVE  WellFormed(i[1]) /\ i[2] \in RecordedObservation /\ i[1].kind # "begin"
<1>1. /\ s.revision \in Nat /\ s.attempt.id \in AttemptIds \cup {NoId}
      /\ s.attempt.runner \in Runners \cup {NoId} /\ s.attempt.output \in Bytes
      /\ FreshId(s) \in EventIds
  BY FreshIdTyped DEF Snapshot, AttemptSnapshot
<1>2. ASSUME NEW k \in Inputs \cap CommandKinds, NEW n \in Notes(k), NEW x \in Expected(s)
      PROVE  WellFormed(CommandEvent(s, k, n, x)) /\ CommandEvent(s, k, n, x).kind # "begin"
  <2>1. k \in CommandKinds /\ k # "begin" /\ x \in Nat
    BY <1>1, JournalAssumption DEF Expected, CommandKinds, Terminations, Assessments
  <2>2. /\ n \in Causes \cup StopOutcomes \cup {"none"}
        /\ k = "unconfirmed" => n \in Causes
        /\ k = "stopReported" => n \in StopOutcomes
    BY DEF Notes
  <2>3. (IF k = "output" THEN 1 ELSE 0) \in Bytes
    BY NothingTyped
  <2>4. CommandEvent(s, k, n, x) \in Events
    <3> DEFINE b == IF k = "output" THEN 1 ELSE 0
    <3>1. CommandEvent(s, k, n, x) =
            [NoEvent EXCEPT !.id = FreshId(s), !.expected = x, !.kind = k,
                            !.attempt = s.attempt.id, !.note = n, !.bytes = b]
      BY DEF CommandEvent
    <3> HIDE DEF b
    <3>2. b \in Bytes
      BY <2>3 DEF b
    <3> QED
      BY <1>1, <2>1, <2>2, <3>1, <3>2, NothingTyped DEF Events
  <2>5. CommandEvent(s, k, n, x).kind = k /\ CommandEvent(s, k, n, x).note = n
    BY DEF CommandEvent, NoEvent
  <2> QED
    BY <2>1, <2>2, <2>4, <2>5 DEF WellFormed, CommandKinds
<1>3. ASSUME NEW j \in Inputs \cap (Terminations \cup Assessments \cup {"uncertain"}),
             NEW x \in Expected(s)
      PROVE  /\ WellFormed(ObservationEvent(s, Fact(s, j, now), x))
             /\ ObservationEvent(s, Fact(s, j, now), x).kind # "begin"
             /\ Fact(s, j, now) \in RecordedObservation
  <2>1. Fact(s, j, now) \in RecordedObservation
    BY <1>1 DEF Fact, RecordedObservation, EvidenceKinds
  <2>2. /\ Fact(s, j, now).evidence \in EvidenceKinds
        /\ Fact(s, j, now).runner \in Runners \cup {NoId} /\ x \in Nat
    BY <1>1 DEF Fact, EvidenceKinds, Expected
  <2>3. /\ ObservationEvent(s, Fact(s, j, now), x) \in Events
        /\ ObservationEvent(s, Fact(s, j, now), x).kind = "observe"
    BY <1>1, <2>2, NothingTyped DEF ObservationEvent, NoEvent, Events
  <2> QED
    BY <2>1, <2>3 DEF WellFormed
<1>4. CASE \E k \in Inputs \cap CommandKinds : \E n \in Notes(k), x \in Expected(s) :
             i = <<CommandEvent(s, k, n, x), NoObservation>>
  BY <1>2, <1>4, NothingTyped
<1>5. CASE \E j \in Inputs \cap (Terminations \cup Assessments \cup {"uncertain"}),
              x \in Expected(s) :
             i = <<ObservationEvent(s, Fact(s, j, now), x), Fact(s, j, now)>>
  BY <1>3, <1>5
<1> QED
  BY <1>4, <1>5 DEF Offered

(* The BeginAttempt that the journal offers is well formed.                  *)
LEMMA BeginWellFormed ==
  ASSUME NEW s \in Snapshot, NEW r \in Requests, NEW c \in Commands, NEW n \in Runners,
         NEW x \in Expected(s)
  PROVE  /\ WellFormed(BeginEvent(s, <<r, c>>, n, x))
         /\ BeginEvent(s, <<r, c>>, n, x).kind = "begin"
         /\ BeginEvent(s, <<r, c>>, n, x).attempt = <<r, c>>
<1>1. x \in Nat /\ FreshId(s) \in EventIds /\ <<r, c>> \in AttemptIds
  BY FreshIdTyped, JournalAssumption DEF Expected, Snapshot
<1>2. BeginEvent(s, <<r, c>>, n, x) \in Events
  BY <1>1, NothingTyped DEF BeginEvent, Events, CommandKinds
<1>3. /\ BeginEvent(s, <<r, c>>, n, x).kind = "begin"
      /\ BeginEvent(s, <<r, c>>, n, x).attempt = <<r, c>>
  BY DEF BeginEvent, NoEvent
<1> QED
  BY <1>2, <1>3 DEF WellFormed

-----------------------------------------------------------------------------
(* Slots *)

(* The slots an execution must still hold: one for each settlement that has  *)
(* not been recorded, as long as nothing conclusive was assessed.            *)
Owes(s, o) ==
  /\ ~Conclusive(s)
  /\ \/ o = "cancel" /\ ~s.cancel
     \/ o = "uncertainty" /\ HasAttempt(s) /\ ~IsUncertain(s)
     \/ o = "termination" /\ HasAttempt(s) /\ ~Terminated(s)
     \/ o = "assessment" /\ HasAttempt(s) /\ ~Assessed(s)
     \/ o = "conclusion" /\ HasAttempt(s)

(* A conclusive assessment stays conclusive while its attempt continues.     *)
LEMMA ConclusiveStays ==
  ASSUME NEW s \in Snapshot, Validate(s), NEW c \in Snapshot, Continues(s, c), Conclusive(s)
  PROVE  Conclusive(c)
<1>1. HasAttempt(s) /\ Terminated(s)
  BY DEF Conclusive, AssessmentOf, Assessed, Validate, ValidAssessment
<1> QED
  BY <1>1 DEF Continues, Conclusive, HasAttempt, AssessmentOf, Assessed

(* What a continued execution owes, it owed before and has not discharged.   *)
LEMMA OwedBefore ==
  ASSUME NEW s \in Snapshot, Validate(s), NEW c \in Snapshot, Continues(s, c),
         NEW o, Owes(c, o)
  PROVE  Owes(s, o) /\ o \notin Discharged(s, c)
<1>1. ~Conclusive(s)
  BY ConclusiveStays DEF Owes
<1>2. HasAttempt(c) <=> HasAttempt(s)
  BY DEF Continues, HasAttempt
<1>3. /\ ~c.cancel => ~s.cancel
      /\ ~Terminated(c) /\ HasAttempt(s) => ~Terminated(s)
      /\ ~Assessed(c) => ~Assessed(s)
  BY DEF Continues, Terminated
<1>4. HasAttempt(s) /\ ~IsUncertain(c) => ~IsUncertain(s)
  <2>1. s.attempt.dispatch \in DispatchStates /\ c.attempt.dispatch \in DispatchStates
    BY DEF Snapshot, AttemptSnapshot
  <2> QED
    BY <1>2, <2>1 DEF Continues, IsUncertain, DispatchStates
<1>5. CASE o = "cancel" /\ ~c.cancel
  BY <1>1, <1>3, <1>5 DEF Owes, Discharged
<1>6. CASE o = "uncertainty" /\ HasAttempt(c) /\ ~IsUncertain(c)
  BY <1>1, <1>2, <1>4, <1>6 DEF Owes, Discharged
<1>7. CASE o = "termination" /\ HasAttempt(c) /\ ~Terminated(c)
  BY <1>1, <1>2, <1>3, <1>7 DEF Owes, Discharged
<1>8. CASE o = "assessment" /\ HasAttempt(c) /\ ~Assessed(c)
  BY <1>1, <1>2, <1>3, <1>8 DEF Owes, Discharged
<1>9. CASE o = "conclusion" /\ HasAttempt(c)
  BY <1>1, <1>2, <1>9 DEF Owes, Discharged
<1> QED
  BY <1>5, <1>6, <1>7, <1>8, <1>9 DEF Owes

(* A step discharges only what was owed.                                     *)
LEMMA DischargedWasOwed ==
  ASSUME NEW s, NEW c, ~Conclusive(s), NEW o \in Discharged(s, c)
  PROVE  Owes(s, o) /\ o \in Obligations
BY DEF Discharged, Owes, Obligations

(* There are finitely many slots.                                            *)
LEMMA SlotsFinite == IsFiniteSet(Requests \X (Obligations \cup {"answer"}))
<1>1. IsFiniteSet({"cancel"})
  BY FS_Singleton
<1>2. IsFiniteSet({"cancel"} \cup {"uncertainty"})
  BY <1>1, FS_AddElement
<1>3. IsFiniteSet(({"cancel"} \cup {"uncertainty"}) \cup {"termination"})
  BY <1>2, FS_AddElement
<1>4. IsFiniteSet((({"cancel"} \cup {"uncertainty"}) \cup {"termination"}) \cup {"assessment"})
  BY <1>3, FS_AddElement
<1>5. IsFiniteSet(((({"cancel"} \cup {"uncertainty"}) \cup {"termination"}) \cup {"assessment"})
                    \cup {"conclusion"})
  BY <1>4, FS_AddElement
<1>6. Obligations = ((({"cancel"} \cup {"uncertainty"}) \cup {"termination"}) \cup {"assessment"})
                       \cup {"conclusion"}
  BY DEF Obligations
<1>7. IsFiniteSet(Obligations)
  BY <1>5, <1>6
<1>8. IsFiniteSet(Obligations \cup {"answer"})
  BY <1>7, FS_AddElement
<1> QED
  BY <1>8, JournalAssumption, FS_Product

(* Removing at least one slot makes room for one receipt.                    *)
LEMMA RoomFromSlot ==
  ASSUME TypeOK, NEW held, held \subseteq reserved, NEW x \in reserved, x \notin held
  PROVE  Fits(held)
<1>1. IsFiniteSet(reserved)
  BY SlotsFinite, FS_Subset DEF TypeOK
<1>2. IsFiniteSet(reserved \ {x}) /\ Cardinality(reserved \ {x}) = Cardinality(reserved) - 1
  BY <1>1, FS_RemoveElement
<1>3. held \in SUBSET (reserved \ {x})
  OBVIOUS
<1>4. IsFiniteSet(held) /\ Cardinality(held) <= Cardinality(reserved \ {x})
  BY <1>2, <1>3, FS_Subset
<1>5. Cardinality(held) \in Nat /\ Cardinality(reserved) \in Nat
  BY <1>1, <1>4, FS_CardinalityType
<1> QED
  BY <1>2, <1>4, <1>5, JournalAssumption DEF Fits, TypeOK

-----------------------------------------------------------------------------
(* The inductive invariant. *)

(* Every stored snapshot could be restored.                                  *)
ValidExecutions == \A r \in Requests : Validate(executions[r])

(* Every execution holds the slots it still owes.                            *)
SlotsHeld ==
  \A r \in opened, o \in Obligations : Owes(executions[r], o) => <<r, o>> \in reserved

(* A pending confirmation holds the slot of its answer; an accepting answer  *)
(* was given in time.                                                        *)
AnswersHeld ==
  \A r \in Requests :
    /\ confirmation[r].status = "pending" => r \in opened /\ <<r, "answer">> \in reserved
    /\ confirmation[r].status = "accepted" => confirmation[r].at < ConfirmBy

(* An attempt belongs to an open request, bears its name, and its identity   *)
(* is taken.                                                                 *)
AttemptsKnown ==
  \A r \in Requests : HasAttempt(executions[r]) =>
    /\ r \in opened
    /\ executions[r].attempt.id \in attemptKeys
    /\ executions[r].attempt.id \in {r} \X Commands

JInv == TypeOK /\ ValidExecutions /\ SlotsHeld /\ AnswersHeld /\ AttemptsKnown /\ ClaimsMatchWork

(* A receipt keeps the journal within its limit.                             *)
LEMMA ReceiptTyped ==
  ASSUME TypeOK, NEW held, held \subseteq Requests \X (Obligations \cup {"answer"}),
         NEW now \in Instants, Receipt(held, now)
  PROVE  /\ reserved' = held
         /\ reserved' \subseteq Requests \X (Obligations \cup {"answer"})
         /\ used' \in Nat /\ used' + Cardinality(reserved') <= MaxReceipts
         /\ watermark' \in Nat /\ watermark' = now
<1>1. now \in Nat
  BY JournalAssumption DEF Instants
<1>2. used \in Nat /\ used' = used + 1 /\ reserved' = held /\ watermark' = now
      /\ used + Cardinality(held) + 1 <= MaxReceipts
  BY DEF TypeOK, Receipt, Fits
<1>3. Cardinality(held) \in Nat
  <2>1. IsFiniteSet(Requests \X (Obligations \cup {"answer"}))
    BY SlotsFinite
  <2> QED
    BY <2>1, FS_Subset, FS_CardinalityType
<1> QED
  BY <1>1, <1>2, <1>3, JournalAssumption

(* What Reserve changes and what it leaves alone.                            *)
LEMMA ReserveFacts ==
  ASSUME TypeOK, NEW r \in Requests, NEW obs, obs \subseteq Obligations
  PROVE  /\ Reserve(r, obs) \subseteq Requests \X (Obligations \cup {"answer"})
         /\ \A o \in obs : <<r, o>> \in Reserve(r, obs)
         /\ \A q, o : q # r /\ <<q, o>> \in reserved => <<q, o>> \in Reserve(r, obs)
         /\ \A q : <<q, "answer">> \in reserved => <<q, "answer">> \in Reserve(r, obs)
         /\ \A o \in Obligations : <<r, o>> \in Reserve(r, obs) => o \in obs
         /\ obs \subseteq Held(r) => Reserve(r, obs) \subseteq reserved
<1>1. "answer" \notin Obligations
  BY DEF Obligations
<1>2. Reserve(r, obs) \subseteq Requests \X (Obligations \cup {"answer"})
  BY DEF TypeOK, Reserve
<1>3. obs \subseteq Held(r) => Reserve(r, obs) \subseteq reserved
  BY DEF Reserve, Held
<1> QED
  BY <1>1, <1>2, <1>3 DEF Reserve

(* Whether an attempt may be working depends on its execution, on the open   *)
(* requests and on the closed attempts only.                                 *)
LEMMA WorkFrame ==
  ASSUME NEW r, executions'[r] = executions[r], r \in opened' <=> r \in opened,
         executions[r].attempt.id \in closed' <=> executions[r].attempt.id \in closed
  PROVE  MayBeWorking(r)' <=> MayBeWorking(r)
BY DEF MayBeWorking

(* A settling step releases the resources of r exactly when its attempt is   *)
(* over, and touches no other claim.                                         *)
LEMMA SettleKeepsClaims ==
  ASSUME JInv, NEW r \in Requests, r \in opened, NEW c \in Snapshot, Validate(c), HasAttempt(c),
         HasAttempt(executions[r]),
         c.attempt.id = executions[r].attempt.id,
         executions'[r] = c, opened' = opened,
         \A q \in Requests : q # r => (MayBeWorking(q)' <=> MayBeWorking(q))
                                      /\ executions'[q] = executions[q],
         MayBeWorking(r)' => MayBeWorking(r),
         claims' = Settle(r, c, closed', claims)
  PROVE  ClaimsMatchWork' /\ claims' \in [Resources -> AttemptIds \cup {NoId}]
<1> DEFINE a == executions[r].attempt.id
<1>1. /\ claims \in [Resources -> AttemptIds \cup {NoId}] /\ Needs[r] \subseteq Resources
      /\ a \in AttemptIds /\ a # NoId /\ a \in {r} \X Commands
  BY JournalAssumption, IdAssumption DEF JInv, TypeOK, AttemptsKnown
<1>2. claims' \in [Resources -> AttemptIds \cup {NoId}]
  BY <1>1 DEF Settle
<1>3. Settles(r, c, closed') <=> ~MayBeWorking(r)'
  <2>1. Terminated(c) => c.attempt.termination.kind \in Terminations
    BY DEF Validate, ValidTermination, Terminated
  <2> QED
    BY <2>1 DEF Settles, MayBeWorking, Terminations
<1>4. \A q \in Requests : q # r /\ HasAttempt(executions[q]) => executions[q].attempt.id # a
  BY DEF JInv, AttemptsKnown
<1>5. \A q \in Requests : MayBeWorking(q) => HasAttempt(executions[q])
  BY DEF MayBeWorking
<1>6. ASSUME NEW q \in Requests, MayBeWorking(q)', NEW k \in Needs[q]
      PROVE  claims'[k] = executions'[q].attempt.id
  <2>1. MayBeWorking(q) /\ executions'[q].attempt.id = executions[q].attempt.id
    BY <1>6
  <2>2. claims[k] = executions[q].attempt.id /\ k \in Resources
    BY <2>1, JournalAssumption DEF JInv, ClaimsMatchWork
  <2>3. CASE q = r
    <3>1. claims' = claims
      BY <1>3, <1>6, <2>3 DEF Settle
    <3> QED
      BY <2>1, <2>2, <3>1
  <2>4. CASE q # r
    <3>1. claims[k] # a
      BY <1>4, <1>5, <2>1, <2>2, <2>4
    <3> QED
      BY <2>1, <2>2, <3>1 DEF Settle
  <2> QED
    BY <2>3, <2>4
<1>7. ASSUME NEW k \in Resources, claims'[k] # NoId
      PROVE  \E q \in Requests : MayBeWorking(q)' /\ k \in Needs[q] /\ claims'[k] = executions'[q].attempt.id
  <2>1. claims'[k] = claims[k]
    BY <1>7 DEF Settle
  <2>2. PICK q \in Requests : MayBeWorking(q) /\ k \in Needs[q] /\ claims[k] = executions[q].attempt.id
    BY <1>7, <2>1 DEF JInv, ClaimsMatchWork
  <2>3. CASE q # r
    BY <2>1, <2>2, <2>3
  <2>4. CASE q = r
    <3>1. ~Settles(r, c, closed')
      BY <1>7, <2>1, <2>2, <2>4 DEF Settle
    <3> QED
      BY <1>3, <2>1, <2>2, <2>4, <3>1
  <2> QED
    BY <2>3, <2>4
<1> HIDE DEF a
<1> QED
  BY <1>2, <1>6, <1>7 DEF ClaimsMatchWork

-----------------------------------------------------------------------------
(* One lemma per kind of step. *)

(* An operation that leaves executions alone and writes a receipt: reopening *)
(* and the recorded refusals of inputs.                                      *)
LEMMA RecordedStep ==
  ASSUME JInv, NEW now \in Instants, Receipt(reserved, now),
         UNCHANGED <<opened, executions, confirmation, attemptKeys, claims, closed>>
  PROVE  JInv'
<1>1. TypeOK' /\ reserved' = reserved
  BY ReceiptTyped DEF JInv, TypeOK
<1>2. \A r : MayBeWorking(r)' <=> MayBeWorking(r)
  BY WorkFrame
<1> QED
  BY <1>1, <1>2 DEF JInv, ValidExecutions, SlotsHeld, AnswersHeld, AttemptsKnown, ClaimsMatchWork

(* open_execution reserves every obligation of the new execution.            *)
LEMMA OpenStep ==
  ASSUME JInv, NEW r \in Requests, NEW now \in Instants, OpenExecution(r, now)
  PROVE  JInv'
<1>1. TypeOK /\ r \notin opened /\ now \in Nat
  BY JournalAssumption DEF JInv, OpenExecution, Instants
<1>2. /\ Reserve(r, Obligations) \subseteq Requests \X (Obligations \cup {"answer"})
      /\ \A o \in Obligations : <<r, o>> \in Reserve(r, Obligations)
      /\ \A q, o : q # r /\ <<q, o>> \in reserved => <<q, o>> \in Reserve(r, Obligations)
      /\ \A q : <<q, "answer">> \in reserved => <<q, "answer">> \in Reserve(r, Obligations)
  BY <1>1, ReserveFacts
<1>3. /\ reserved' = Reserve(r, Obligations)
      /\ reserved' \subseteq Requests \X (Obligations \cup {"answer"})
      /\ used' \in Nat /\ used' + Cardinality(reserved') <= MaxReceipts /\ watermark' \in Nat
  BY <1>1, <1>2, ReceiptTyped DEF OpenExecution
<1>4. Open(now) \in Snapshot /\ Validate(Open(now)) /\ ~HasAttempt(Open(now))
  <2>1. NoAttempt \in AttemptSnapshot
    BY NothingTyped DEF NoAttempt, AttemptSnapshot, DispatchStates
  <2> QED
    BY <1>1, <2>1, NothingTyped, BudgetAssumption
       DEF Open, Snapshot, Validate, ValidEnvelope, HasAttempt, NoAttempt, NoEvent
<1>5. /\ executions' = [executions EXCEPT ![r] = Open(now)] /\ opened' = opened \cup {r}
      /\ executions \in [Requests -> Snapshot]
      /\ UNCHANGED <<confirmation, attemptKeys, claims, closed>>
  BY DEF OpenExecution, JInv, TypeOK
<1>6. TypeOK'
  BY <1>1, <1>3, <1>4, <1>5 DEF TypeOK
<1>7. ValidExecutions' /\ AttemptsKnown'
  BY <1>4, <1>5 DEF JInv, ValidExecutions, AttemptsKnown
<1>8. SlotsHeld'
  BY <1>2, <1>3, <1>5 DEF JInv, TypeOK, SlotsHeld
<1>9. AnswersHeld'
  BY <1>2, <1>3, <1>5 DEF JInv, AnswersHeld
<1>10. \A q \in Requests : MayBeWorking(q)' <=> MayBeWorking(q)
  BY <1>1, <1>4, <1>5 DEF MayBeWorking
<1>11. \A q \in Requests : MayBeWorking(q) => executions'[q] = executions[q]
  BY <1>1, <1>5 DEF MayBeWorking
<1>12. ClaimsMatchWork'
  BY <1>5, <1>10, <1>11 DEF JInv, ClaimsMatchWork
<1> QED
  BY <1>6, <1>7, <1>8, <1>9, <1>12 DEF JInv

(* Opening and answering a confirmation.                                     *)
LEMMA InteractionStep ==
  ASSUME JInv, NEW r \in Requests, NEW now \in Instants,
         \/ OpenInteraction(r, now)
         \/ \E command \in Answers : ApplyInteraction(r, command, now)
  PROVE  JInv'
<1>1. TypeOK /\ r \in opened /\ now \in Nat
      /\ UNCHANGED <<opened, executions, attemptKeys, claims, closed>>
  BY JournalAssumption DEF JInv, OpenInteraction, ApplyInteraction, Instants
<1>2. \A q : MayBeWorking(q)' <=> MayBeWorking(q)
  BY <1>1, WorkFrame
<1>3. ValidExecutions' /\ AttemptsKnown' /\ ClaimsMatchWork'
  BY <1>1, <1>2 DEF JInv, ValidExecutions, AttemptsKnown, ClaimsMatchWork
<1>4. confirmation \in [Requests -> Confirmations]
  BY DEF JInv, TypeOK
<1>5. ASSUME NEW held, held \subseteq Requests \X (Obligations \cup {"answer"}),
             Receipt(held, now),
             \A q, o : o \in Obligations /\ <<q, o>> \in reserved => <<q, o>> \in held
      PROVE  SlotsHeld' /\ (confirmation' \in [Requests -> Confirmations] => TypeOK') /\ reserved' = held
  <2>1. /\ reserved' = held
        /\ reserved' \subseteq Requests \X (Obligations \cup {"answer"})
        /\ used' \in Nat /\ used' + Cardinality(reserved') <= MaxReceipts /\ watermark' \in Nat
    BY <1>1, <1>5, ReceiptTyped
  <2> QED
    BY <1>1, <1>5, <2>1 DEF JInv, TypeOK, SlotsHeld
<1>6. "answer" \notin Obligations
  BY DEF Obligations
<1>7. CASE OpenInteraction(r, now)
  <2>1. Receipt(reserved \cup {<<r, "answer">>}, now)
        /\ confirmation' = [confirmation EXCEPT ![r] = [status |-> "pending", at |-> now]]
    BY <1>7 DEF OpenInteraction
  <2>2. confirmation' \in [Requests -> Confirmations]
    BY <1>1, <1>4, <2>1 DEF Confirmations
  <2>3. SlotsHeld' /\ TypeOK' /\ reserved' = reserved \cup {<<r, "answer">>}
    BY <1>1, <1>5, <2>1, <2>2 DEF TypeOK
  <2>4. AnswersHeld'
    BY <1>1, <1>4, <2>1, <2>3 DEF JInv, AnswersHeld
  <2> QED
    BY <1>3, <2>3, <2>4 DEF JInv
<1>8. ASSUME NEW command \in Answers, ApplyInteraction(r, command, now)
      PROVE  JInv'
  <2> DEFINE changes == confirmation[r].status = "pending" /\ (command # "checkExpiry" \/ now >= ConfirmBy)
  <2>1. /\ Receipt(IF changes THEN reserved \ {<<r, "answer">>} ELSE reserved, now)
        /\ confirmation' = IF changes THEN [confirmation EXCEPT ![r] = Answered(command, now)]
                           ELSE confirmation
    BY <1>8 DEF ApplyInteraction
  <2>2. CASE ~changes
    BY <1>1, <2>1, <2>2, RecordedStep
  <2>3. CASE changes
    <3>1. command # "checkExpiry" \/ now >= ConfirmBy
      BY <2>3
    <3>2. /\ Answered(command, now).at = now
          /\ Answered(command, now).status \in {"accepted", "declined", "cancelled", "expired"}
          /\ Answered(command, now).status = "accepted" => now < ConfirmBy
          /\ Answered(command, now) \in Confirmations
      BY <1>1, <3>1, JournalAssumption DEF Answered, Answers, Confirmations
    <3>3. Receipt(reserved \ {<<r, "answer">>}, now)
          /\ confirmation' = [confirmation EXCEPT ![r] = Answered(command, now)]
      BY <2>1, <2>3
    <3>4. confirmation' \in [Requests -> Confirmations]
      BY <1>4, <3>2, <3>3
    <3>5. SlotsHeld' /\ TypeOK' /\ reserved' = reserved \ {<<r, "answer">>}
      BY <1>1, <1>5, <1>6, <3>3, <3>4 DEF TypeOK
    <3>6. AnswersHeld'
      BY <1>1, <1>4, <3>2, <3>3, <3>5 DEF JInv, AnswersHeld
    <3> QED
      BY <1>3, <3>5, <3>6 DEF JInv
  <2> QED
    BY <2>2, <2>3
<1> QED
  BY <1>7, <1>8

(* record_software_progress.                                                 *)
LEMMA ProgressStep ==
  ASSUME JInv, NEW r \in Requests, NEW shut \in BOOLEAN, RecordSoftwareProgress(r, shut)
  PROVE  JInv'
<1> DEFINE s == executions[r]
<1>1. /\ r \in opened /\ HasAttempt(s)
      /\ Terminated(s) /\ s.attempt.id \in closed => shut
      /\ closed' = IF shut THEN closed \cup {s.attempt.id} ELSE closed \ {s.attempt.id}
      /\ claims' = Settle(r, s, closed', claims)
      /\ UNCHANGED <<opened, executions, reserved, confirmation, attemptKeys, used, watermark>>
  BY DEF RecordSoftwareProgress
<1>2. s \in Snapshot /\ Validate(s) /\ s.attempt.id \in AttemptIds
  BY <1>1, JournalAssumption DEF JInv, TypeOK, ValidExecutions, AttemptsKnown
<1>3. \A q \in Requests : q # r => (MayBeWorking(q)' <=> MayBeWorking(q))
  <2> SUFFICES ASSUME NEW q \in Requests, q # r PROVE MayBeWorking(q)' <=> MayBeWorking(q)
    OBVIOUS
  <2>1. CASE ~HasAttempt(executions[q])
    BY <1>1, <2>1 DEF MayBeWorking
  <2>2. CASE HasAttempt(executions[q])
    <3>1. executions[q].attempt.id # s.attempt.id
      BY <1>1, <2>2 DEF JInv, AttemptsKnown
    <3> QED
      BY <1>1, <3>1, WorkFrame
  <2> QED
    BY <2>1, <2>2
<1>4. MayBeWorking(r)' => MayBeWorking(r)
  BY <1>1 DEF MayBeWorking
<1>5. ClaimsMatchWork' /\ claims' \in [Resources -> AttemptIds \cup {NoId}]
  BY <1>1, <1>2, <1>3, <1>4, SettleKeepsClaims
<1>6. TypeOK'
  BY <1>1, <1>2, <1>5 DEF JInv, TypeOK
<1> HIDE DEF s
<1> QED
  BY <1>1, <1>5, <1>6 DEF JInv, ValidExecutions, SlotsHeld, AnswersHeld, AttemptsKnown

(* What InputApplied commits: the candidate of an accepted input, under a    *)
(* fresh identity when it begins an attempt.                                 *)
LEMMA AppliedFacts ==
  ASSUME JInv, NEW r \in Requests, NEW e, WellFormed(e), NEW f \in RecordedObservation,
         NEW gate, NEW now \in Instants, InputApplied(r, e, f, gate, now)
  PROVE  /\ Premise(executions[r], e, f, now)
         /\ r \in opened
         /\ executions'[r] \in Snapshot /\ Validate(executions'[r])
         /\ executions' = [executions EXCEPT ![r] = executions'[r]]
         /\ executions'[r] = Candidate(executions[r], e, f, now)
         /\ e.kind = "begin" => /\ Admits(executions[r], executions'[r])
                                /\ executions'[r].attempt.id = e.attempt
                                /\ e.attempt \notin attemptKeys
                                /\ Claimable(r, e.attempt)
         /\ e.kind # "begin" => Continues(executions[r], executions'[r])
<1> DEFINE s == executions[r]
           c == Candidate(s, e, f, now)
<1>1. s \in Snapshot /\ Validate(s) /\ now \in Nat /\ executions \in [Requests -> Snapshot]
  BY JournalAssumption DEF JInv, TypeOK, ValidExecutions, Instants
<1>2. /\ r \in opened /\ executions' = [executions EXCEPT ![r] = c]
      /\ Outcome(s, e, f, now) = "applied"
      /\ e.kind = "begin" => e.attempt \notin attemptKeys /\ Claimable(r, e.attempt)
  BY DEF InputApplied, Changes
<1>3. Premise(s, e, f, now)
  BY <1>1, <1>2, AppliedPremise
<1>4. c \in Snapshot /\ Validate(c)
  BY <1>3, CandidateValid
<1>5. /\ e.kind = "begin" => Admits(s, c) /\ c.attempt.id = e.attempt
      /\ e.kind # "begin" => Continues(s, c)
  BY <1>3, StepEffect
<1> HIDE DEF c, s
<1>6. executions'[r] = c
  BY <1>1, <1>2 DEF s
<1> QED
  BY <1>2, <1>3, <1>4, <1>5, <1>6 DEF s, c

(* An applied input keeps the slots of its execution and of all others.      *)
LEMMA AppliedSlots ==
  ASSUME JInv, NEW r \in Requests, NEW e, WellFormed(e), NEW f \in RecordedObservation,
         NEW gate, NEW now \in Instants, InputApplied(r, e, f, gate, now)
  PROVE  /\ SlotsHeld' /\ AnswersHeld'
         /\ reserved' \subseteq Requests \X (Obligations \cup {"answer"})
         /\ used' \in Nat /\ used' + Cardinality(reserved') <= MaxReceipts /\ watermark' \in Nat
<1> DEFINE s == executions[r]
           c == executions'[r]
           obs == TerminalReserve(s, c, e, Held(r))
<1>1. /\ r \in opened /\ c \in Snapshot /\ s \in Snapshot /\ Validate(s)
      /\ executions' = [executions EXCEPT ![r] = c] /\ executions \in [Requests -> Snapshot]
      /\ c = Candidate(s, e, f, now)
      /\ e.kind = "begin" => Admits(s, c)
      /\ e.kind # "begin" => Continues(s, c)
  BY AppliedFacts DEF JInv, TypeOK, ValidExecutions
<1>2. Receipt(Reserve(r, obs), now) /\ UNCHANGED <<opened, confirmation, closed>>
  BY <1>1 DEF InputApplied
<1> HIDE DEF s, c
<1>3. obs \subseteq Obligations
  BY DEF TerminalReserve, Held
<1>4. /\ Reserve(r, obs) \subseteq Requests \X (Obligations \cup {"answer"})
      /\ \A o \in obs : <<r, o>> \in Reserve(r, obs)
      /\ \A q, o : q # r /\ <<q, o>> \in reserved => <<q, o>> \in Reserve(r, obs)
      /\ \A q : <<q, "answer">> \in reserved => <<q, "answer">> \in Reserve(r, obs)
  BY <1>3, ReserveFacts DEF JInv
<1>5. ASSUME NEW o \in Obligations, Owes(c, o)
      PROVE  o \in obs
  <2>1. CASE e.kind = "begin"
    BY <2>1 DEF TerminalReserve
  <2>2. CASE e.kind # "begin"
    <3>1. Owes(s, o) /\ o \notin Discharged(s, c)
      BY <1>1, <1>5, <2>2, OwedBefore
    <3>2. o \in Held(r)
      BY <1>1, <3>1 DEF JInv, SlotsHeld, Held, s
    <3>3. ~Conclusive(c) /\ ~(~HasAttempt(c) /\ c.cancel)
      BY <1>5 DEF Owes
    <3> QED
      BY <2>2, <3>1, <3>2, <3>3 DEF TerminalReserve
  <2> QED
    BY <2>1, <2>2
<1> HIDE DEF obs
<1>6. /\ reserved' = Reserve(r, obs)
      /\ reserved' \subseteq Requests \X (Obligations \cup {"answer"})
      /\ used' \in Nat /\ used' + Cardinality(reserved') <= MaxReceipts /\ watermark' \in Nat
  BY <1>2, <1>4, ReceiptTyped DEF JInv
<1>7. \A q \in Requests : q # r => executions'[q] = executions[q]
  BY <1>1
<1>8. SlotsHeld'
  <2> SUFFICES ASSUME NEW q \in opened', NEW o \in Obligations, Owes(executions'[q], o)
               PROVE  <<q, o>> \in reserved'
    BY DEF SlotsHeld
  <2>1. q \in opened /\ q \in Requests
    BY <1>2 DEF JInv, TypeOK
  <2>2. CASE q = r
    BY <1>4, <1>5, <1>6, <2>2 DEF c
  <2>3. CASE q # r
    BY <1>4, <1>6, <1>7, <2>1, <2>3 DEF JInv, SlotsHeld
  <2> QED
    BY <2>2, <2>3
<1>9. AnswersHeld'
  BY <1>2, <1>4, <1>6 DEF JInv, AnswersHeld
<1> QED
  BY <1>6, <1>8, <1>9

(* Beginning an attempt claims its resources, and it is the only claimant.   *)
LEMMA BeginClaims ==
  ASSUME JInv, NEW r \in Requests, NEW e, WellFormed(e), NEW f \in RecordedObservation,
         NEW gate, NEW now \in Instants, InputApplied(r, e, f, gate, now),
         e.kind = "begin", e.attempt \in {r} \X Commands
  PROVE  ClaimsMatchWork' /\ claims' \in [Resources -> AttemptIds \cup {NoId}]
<1> DEFINE c == executions'[r]
           a == e.attempt
<1>1. /\ r \in opened /\ c \in Snapshot /\ Admits(executions[r], c) /\ c.attempt.id = a
      /\ a \notin attemptKeys /\ Claimable(r, a)
      /\ executions' = [executions EXCEPT ![r] = c] /\ executions \in [Requests -> Snapshot]
      /\ c = Candidate(executions[r], e, f, now)
  BY AppliedFacts DEF JInv, TypeOK
<1>2. /\ claims' = Settle(r, c, closed, Claim(r, a))
      /\ opened' = opened /\ closed' = closed
      /\ claims \in [Resources -> AttemptIds \cup {NoId}] /\ a \in AttemptIds /\ a # NoId
      /\ Needs[r] \subseteq Resources
  BY <1>1, JournalAssumption, IdAssumption DEF InputApplied, JInv, TypeOK
<1> HIDE DEF c, a
<1>3. claims' = Claim(r, a)
  BY <1>1, <1>2 DEF Admits, Settle, Settles
<1>4. claims' \in [Resources -> AttemptIds \cup {NoId}]
  BY <1>2, <1>3 DEF Claim
<1>5. MayBeWorking(r)'
  BY <1>1, <1>2 DEF MayBeWorking, Admits, c
<1>6. \A q \in Requests : q # r => executions'[q] = executions[q] /\ (MayBeWorking(q)' <=> MayBeWorking(q))
  BY <1>1, <1>2, WorkFrame
<1>7. \A k \in Resources : claims[k] # a
  BY <1>1, <1>2 DEF JInv, ClaimsMatchWork, AttemptsKnown, MayBeWorking
<1>8. \A k \in Needs[r] : claims[k] = NoId
  BY <1>1, <1>2, <1>7 DEF Claimable
<1>9. ASSUME NEW q \in Requests, MayBeWorking(q)', NEW k \in Needs[q]
      PROVE  claims'[k] = executions'[q].attempt.id
  <2>0. k \in Resources
    BY JournalAssumption
  <2>1. CASE q = r
    BY <1>1, <1>3, <2>0, <2>1 DEF Claim, c
  <2>2. CASE q # r
    <3>1. MayBeWorking(q) /\ executions'[q] = executions[q]
      BY <1>6, <1>9, <2>2
    <3>2. claims[k] = executions[q].attempt.id
      BY <3>1 DEF JInv, ClaimsMatchWork
    <3>3. executions[q].attempt.id # NoId
      BY <3>1, JournalAssumption, IdAssumption DEF JInv, AttemptsKnown, MayBeWorking
    <3>4. k \notin Needs[r]
      BY <1>8, <3>2, <3>3
    <3> QED
      BY <1>3, <2>0, <3>1, <3>2, <3>4 DEF Claim
  <2> QED
    BY <2>1, <2>2
<1>10. ASSUME NEW k \in Resources, claims'[k] # NoId
       PROVE  \E q \in Requests : MayBeWorking(q)' /\ k \in Needs[q] /\ claims'[k] = executions'[q].attempt.id
  <2>1. CASE k \in Needs[r]
    BY <1>5, <1>9, <2>1
  <2>2. CASE k \notin Needs[r]
    <3>1. claims'[k] = claims[k]
      BY <1>3, <2>2 DEF Claim
    <3>2. PICK q \in Requests : MayBeWorking(q) /\ k \in Needs[q] /\ claims[k] = executions[q].attempt.id
      BY <1>10, <3>1 DEF JInv, ClaimsMatchWork
    <3> QED
      BY <1>6, <2>2, <3>1, <3>2
  <2> QED
    BY <2>1, <2>2
<1> QED
  BY <1>4, <1>9, <1>10 DEF ClaimsMatchWork

(* Any other input releases the resources of an attempt that is over.        *)
LEMMA ContinueClaims ==
  ASSUME JInv, NEW r \in Requests, NEW e, WellFormed(e), NEW f \in RecordedObservation,
         NEW gate, NEW now \in Instants, InputApplied(r, e, f, gate, now), e.kind # "begin"
  PROVE  ClaimsMatchWork' /\ claims' \in [Resources -> AttemptIds \cup {NoId}]
<1> DEFINE s == executions[r]
           c == executions'[r]
<1>1. /\ r \in opened /\ c \in Snapshot /\ Validate(c) /\ Continues(s, c)
      /\ executions' = [executions EXCEPT ![r] = c] /\ executions \in [Requests -> Snapshot]
      /\ c = Candidate(s, e, f, now)
  BY AppliedFacts DEF JInv, TypeOK
<1>2. /\ claims' = Settle(r, c, closed', claims)
      /\ opened' = opened /\ closed' = closed
      /\ claims \in [Resources -> AttemptIds \cup {NoId}]
  BY <1>1 DEF InputApplied, JInv, TypeOK
<1>3. \A q \in Requests : q # r => (MayBeWorking(q)' <=> MayBeWorking(q)) /\ executions'[q] = executions[q]
  BY <1>1, <1>2, WorkFrame
<1> HIDE DEF s, c
<1>4. HasAttempt(c) <=> HasAttempt(s)
  BY <1>1 DEF Continues, HasAttempt
<1>5. MayBeWorking(r)' => MayBeWorking(r)
  BY <1>1, <1>2, <1>4 DEF Continues, MayBeWorking, Terminated, s, c
<1>6. CASE HasAttempt(s)
  <2>1. c.attempt.id = s.attempt.id
    BY <1>1 DEF Continues
  <2> QED
    BY <1>1, <1>2, <1>3, <1>4, <1>5, <1>6, <2>1, SettleKeepsClaims DEF s, c
<1>7. CASE ~HasAttempt(s)
  <2>1. claims' = claims /\ ~MayBeWorking(r) /\ ~MayBeWorking(r)'
    BY <1>2, <1>4, <1>5, <1>7 DEF Settle, Settles, MayBeWorking, s
  <2> QED
    BY <1>2, <1>3, <2>1 DEF JInv, ClaimsMatchWork
<1> QED
  BY <1>6, <1>7

(* An applied input keeps the invariant.                                     *)
LEMMA AppliedStep ==
  ASSUME JInv, NEW r \in Requests, NEW e, WellFormed(e), NEW f \in RecordedObservation,
         NEW gate, NEW now \in Instants, InputApplied(r, e, f, gate, now),
         e.kind = "begin" => e.attempt \in {r} \X Commands
  PROVE  JInv'
<1>1. /\ r \in opened /\ executions'[r] \in Snapshot /\ Validate(executions'[r])
      /\ executions' = [executions EXCEPT ![r] = executions'[r]]
      /\ executions \in [Requests -> Snapshot]
      /\ e.kind = "begin" => executions'[r].attempt.id = e.attempt
      /\ e.kind # "begin" => Continues(executions[r], executions'[r])
      /\ opened' = opened /\ confirmation' = confirmation /\ closed' = closed
      /\ attemptKeys' = IF e.kind = "begin" THEN attemptKeys \cup {e.attempt} ELSE attemptKeys
  BY AppliedFacts DEF JInv, TypeOK, InputApplied
<1>2. ClaimsMatchWork' /\ claims' \in [Resources -> AttemptIds \cup {NoId}]
  BY BeginClaims, ContinueClaims
<1>3. /\ SlotsHeld' /\ AnswersHeld'
      /\ reserved' \subseteq Requests \X (Obligations \cup {"answer"})
      /\ used' \in Nat /\ used' + Cardinality(reserved') <= MaxReceipts /\ watermark' \in Nat
  BY AppliedSlots
<1>4. TypeOK'
  <2>1. attemptKeys' \subseteq AttemptIds
    BY <1>1, JournalAssumption DEF JInv, TypeOK
  <2>2. executions' \in [Requests -> Snapshot]
    BY <1>1
  <2> QED
    BY <1>1, <1>2, <1>3, <2>1, <2>2 DEF JInv, TypeOK
<1>5. ValidExecutions'
  BY <1>1 DEF JInv, ValidExecutions
<1>6. AttemptsKnown'
  <2> SUFFICES ASSUME NEW q \in Requests, HasAttempt(executions'[q])
               PROVE  /\ q \in opened' /\ executions'[q].attempt.id \in attemptKeys'
                      /\ executions'[q].attempt.id \in {q} \X Commands
    BY DEF AttemptsKnown, HasAttempt
  <2>1. CASE q # r
    <3>1. executions'[q] = executions[q]
      BY <1>1, <2>1
    <3> QED
      BY <1>1, <3>1 DEF JInv, AttemptsKnown
  <2>2. CASE q = r /\ e.kind = "begin"
    BY <1>1, <2>2
  <2>3. CASE q = r /\ e.kind # "begin"
    <3>1. HasAttempt(executions[r]) /\ executions'[r].attempt.id = executions[r].attempt.id
      BY <1>1, <2>3 DEF Continues, HasAttempt
    <3> QED
      BY <1>1, <2>3, <3>1 DEF JInv, AttemptsKnown
  <2> QED
    BY <2>1, <2>2, <2>3
<1> QED
  BY <1>2, <1>3, <1>4, <1>5, <1>6 DEF JInv

(* A settlement finds room for its receipt in the slot it discharges,        *)
(* whatever input brings it.                                                 *)
LEMMA SettlementFits ==
  ASSUME JInv, NEW r \in opened, NEW e, WellFormed(e), e.kind # "begin",
         NEW f \in RecordedObservation, NEW now \in Instants,
         Outcome(executions[r], e, f, now) = "applied",
         Settlement(executions[r], Candidate(executions[r], e, f, now))
  PROVE  Fits(Reserve(r, TerminalReserve(executions[r],
                Candidate(executions[r], e, f, now), e, Held(r))))
<1> DEFINE s == executions[r]
           c == Candidate(s, e, f, now)
           obs == TerminalReserve(s, c, e, Held(r))
<1>1. now \in Nat
  BY JournalAssumption DEF Instants
<1>2. r \in Requests /\ TypeOK /\ s \in Snapshot /\ Validate(s)
  BY DEF JInv, TypeOK, ValidExecutions
<1>3. Premise(s, e, f, now)
  BY <1>1, <1>2, AppliedPremise
<1>4. Continues(s, c)
  BY <1>3, StepEffect
<1>5. ~Conclusive(s) /\ (Discharged(s, c) # {} \/ Conclusive(c))
  BY DEF Settlement
<1>6. \A o \in Obligations : Owes(s, o) => o \in Held(r)
  BY DEF JInv, SlotsHeld, Held
<1> HIDE DEF s, c
<1>7. obs \subseteq Held(r) /\ obs \subseteq Obligations
  BY DEF TerminalReserve, Held
<1>8. \E o \in Obligations : o \in Held(r) /\ o \notin obs
  <2>1. CASE Conclusive(c)
    <3>1. Owes(s, "conclusion")
      BY <1>4, <1>5, <2>1 DEF Owes, Conclusive, Continues, HasAttempt
    <3>2. obs = {}
      BY <2>1 DEF TerminalReserve
    <3> QED
      BY <1>6, <3>1, <3>2 DEF Obligations
  <2>2. CASE ~Conclusive(c)
    <3>1. PICK o \in Discharged(s, c) : TRUE
      BY <1>5, <2>2
    <3>2. Owes(s, o) /\ o \in Obligations
      BY <1>5, DischargedWasOwed
    <3>3. o \notin obs
      BY DEF TerminalReserve
    <3> QED
      BY <1>6, <3>2, <3>3
  <2> QED
    BY <2>1, <2>2
<1> HIDE DEF obs
<1>9. PICK o \in Obligations : o \in Held(r) /\ o \notin obs
  BY <1>8
<1>10. Reserve(r, obs) \subseteq reserved /\ <<r, o>> \in reserved /\ <<r, o>> \notin Reserve(r, obs)
  BY <1>2, <1>7, <1>9, ReserveFacts DEF Held
<1>11. Fits(Reserve(r, obs))
  BY <1>2, <1>10, RoomFromSlot
<1> QED
  BY <1>11 DEF obs, c, s

-----------------------------------------------------------------------------
(* Theorems *)

(* The empty journal satisfies the invariant.                                *)
LEMMA InitInvariant == Init => JInv
<1> SUFFICES ASSUME Init PROVE JInv
  OBVIOUS
<1>1. Open(0) \in Snapshot /\ Validate(Open(0)) /\ ~HasAttempt(Open(0))
  <2>1. NoAttempt \in AttemptSnapshot
    BY NothingTyped DEF NoAttempt, AttemptSnapshot, DispatchStates
  <2> QED
    BY <2>1, NothingTyped, BudgetAssumption
       DEF Open, Snapshot, Validate, ValidEnvelope, HasAttempt, NoAttempt, NoEvent
<1>2. \A r \in Requests : executions[r] = Open(0) /\ confirmation[r] = NoConfirmation
  BY DEF Init
<1>3. TypeOK
  <2>1. used + Cardinality(reserved) <= MaxReceipts
    BY FS_EmptySet, JournalAssumption DEF Init
  <2>2. confirmation \in [Requests -> Confirmations]
    BY DEF Init, NoConfirmation, Confirmations
  <2> QED
    BY <1>1, <2>1, <2>2 DEF Init, TypeOK
<1>4. ValidExecutions /\ AttemptsKnown
  BY <1>1, <1>2 DEF ValidExecutions, AttemptsKnown
<1>5. SlotsHeld /\ AnswersHeld
  BY <1>2 DEF Init, SlotsHeld, AnswersHeld, NoConfirmation
<1>6. ClaimsMatchWork
  BY DEF Init, ClaimsMatchWork, MayBeWorking
<1> QED
  BY <1>3, <1>4, <1>5, <1>6 DEF JInv

(* Every step keeps the invariant.                                           *)
LEMMA NextInvariant == JInv /\ [Next]_journal => JInv'
<1> SUFFICES ASSUME JInv, [Next]_journal PROVE JInv'
  OBVIOUS
<1>1. ASSUME NEW r \in Requests, NEW now \in Instants, ReopenExecution(r, now) PROVE JInv'
  BY <1>1, RecordedStep DEF ReopenExecution
<1>2. ASSUME NEW r \in Requests, NEW e, WellFormed(e), NEW f \in RecordedObservation, NEW gate,
             NEW now \in Instants, e.kind = "begin" => e.attempt \in {r} \X Commands,
             ApplyInput(r, e, f, gate, now)
      PROVE  JInv'
  <2>1. CASE InputRecorded(r, e, f, gate, now)
    BY <2>1, RecordedStep DEF InputRecorded
  <2>2. CASE InputApplied(r, e, f, gate, now)
    BY <1>2, <2>2, AppliedStep
  <2> QED
    BY <1>2, <2>1, <2>2 DEF ApplyInput
<1>3. CASE SubmitInput
  <2>1. PICK r \in Requests, now \in Instants : \E i \in Offered(executions[r], now) :
          ApplyInput(r, i[1], i[2], "direct", now)
    BY <1>3 DEF SubmitInput
  <2>2. PICK i \in Offered(executions[r], now) : ApplyInput(r, i[1], i[2], "direct", now)
    BY <2>1
  <2>3. executions[r] \in Snapshot /\ now \in Nat
    BY JournalAssumption DEF JInv, TypeOK, Instants
  <2>4. WellFormed(i[1]) /\ i[2] \in RecordedObservation /\ i[1].kind # "begin"
    BY <2>3, OfferedWellFormed
  <2> QED
    BY <1>2, <2>2, <2>4
<1>4. CASE BeginAttempt
  <2>1. PICK r \in Requests, now \in Instants, c \in Commands, n \in Runners, gate \in Gates :
          \E x \in Expected(executions[r]) :
            ApplyInput(r, BeginEvent(executions[r], <<r, c>>, n, x), NoObservation, gate, now)
    BY <1>4 DEF BeginAttempt
  <2>2. PICK x \in Expected(executions[r]) :
          ApplyInput(r, BeginEvent(executions[r], <<r, c>>, n, x), NoObservation, gate, now)
    BY <2>1
  <2>3. executions[r] \in Snapshot
    BY DEF JInv, TypeOK
  <2>4. /\ WellFormed(BeginEvent(executions[r], <<r, c>>, n, x))
        /\ BeginEvent(executions[r], <<r, c>>, n, x).attempt = <<r, c>>
    BY <2>3, BeginWellFormed
  <2> QED
    BY <1>2, <2>2, <2>4, NothingTyped
<1>5. CASE UNCHANGED journal
  BY <1>5 DEF journal, JInv, TypeOK, ValidExecutions, SlotsHeld, AnswersHeld, AttemptsKnown,
     ClaimsMatchWork, MayBeWorking
<1> QED
  BY <1>1, <1>3, <1>4, <1>5, OpenStep, InteractionStep, ProgressStep DEF Next

(* The journal keeps its types and never exceeds limits.max_receipts, and    *)
(* the invariant holds throughout.                                           *)
THEOREM JournalInvariant == Spec => []JInv
BY InitInvariant, NextInvariant, PTL DEF Spec

(* The tables keep their types, and receipts and reserved slots together     *)
(* never exceed limits.max_receipts (ensure_capacity).                       *)
THEOREM JournalTyped == Spec => []TypeOK
<1>1. JInv => TypeOK
  BY DEF JInv
<1> QED
  BY <1>1, JournalInvariant, PTL

(* For every number of requests and every limit: a settlement that the       *)
(* lifecycle accepts, and the answer to a pending confirmation, always find  *)
(* room for their receipt (terminal_reserve).                                *)
THEOREM SettlementsAlwaysFit == Spec => []ReservedSlotsSuffice
<1>1. JInv => ReservedSlotsSuffice
  <2> SUFFICES ASSUME JInv, NEW r \in opened
               PROVE  /\ \A now \in Instants : \A i \in Offered(executions[r], now) :
                           Outcome(executions[r], i[1], i[2], now) = "applied"
                           /\ Settlement(executions[r], Candidate(executions[r], i[1], i[2], now)) =>
                             Fits(Reserve(r, TerminalReserve(executions[r],
                                    Candidate(executions[r], i[1], i[2], now), i[1], Held(r))))
                      /\ confirmation[r].status = "pending" => Fits(reserved \ {<<r, "answer">>})
    BY DEF ReservedSlotsSuffice
  <2>1. r \in Requests /\ TypeOK /\ executions[r] \in Snapshot /\ Validate(executions[r])
    BY DEF JInv, TypeOK, ValidExecutions
  <2>2. confirmation[r].status = "pending" => Fits(reserved \ {<<r, "answer">>})
    <3> SUFFICES ASSUME confirmation[r].status = "pending" PROVE Fits(reserved \ {<<r, "answer">>})
      OBVIOUS
    <3>1. <<r, "answer">> \in reserved
      BY <2>1 DEF JInv, AnswersHeld
    <3> DEFINE held == reserved \ {<<r, "answer">>}
    <3>2. held \subseteq reserved /\ <<r, "answer">> \notin held
      OBVIOUS
    <3> HIDE DEF held
    <3>3. Fits(held)
      BY <2>1, <3>1, <3>2, RoomFromSlot
    <3> QED
      BY <3>3 DEF held
  <2>3. ASSUME NEW now \in Instants, NEW i \in Offered(executions[r], now),
               Outcome(executions[r], i[1], i[2], now) = "applied",
               Settlement(executions[r], Candidate(executions[r], i[1], i[2], now))
        PROVE  Fits(Reserve(r, TerminalReserve(executions[r],
                      Candidate(executions[r], i[1], i[2], now), i[1], Held(r))))
    <3>1. now \in Nat
      BY JournalAssumption DEF Instants
    <3>2. WellFormed(i[1]) /\ i[2] \in RecordedObservation /\ i[1].kind # "begin"
      BY <2>1, <3>1, OfferedWellFormed
    <3> QED
      BY <2>3, <3>2, SettlementFits
  <2> QED
    BY <2>2, <2>3
<1> QED
  BY <1>1, JournalInvariant, PTL

(* For every set of requests and resources: a resource is claimed exactly by *)
(* the one attempt that may be working on it (resources.rs).                 *)
THEOREM ResourcesAreExclusive == Spec => []ClaimsMatchWork
<1>1. JInv => ClaimsMatchWork
  BY DEF JInv
<1> QED
  BY <1>1, JournalInvariant, PTL

(* An admission of the step, whatever the request: it happens inside the     *)
(* plan's validity, under a fresh identity, and on a timely confirmation     *)
(* when the policy never admits directly (apply_input, confirmed).           *)
THEOREM AdmissionNeedsConfirmation == Spec => AdmissionConfirmed
<1>1. JInv /\ [Next]_journal => [AdmissionConfirmedStep]_journal
  <2> SUFFICES ASSUME JInv, Next PROVE AdmissionConfirmedStep
    OBVIOUS
  <2> SUFFICES ASSUME NEW r \in Requests, executions'[r].attempts # executions[r].attempts
               PROVE  /\ executions'[r].attempt.id \notin attemptKeys
                      /\ NotBefore <= watermark' /\ watermark' < ExpiresAt
                      /\ "direct" \notin Gates =>
                           /\ confirmation[r].status = "accepted" /\ confirmation[r].at < ConfirmBy
                           /\ watermark' < ConfirmBy
    BY DEF AdmissionConfirmedStep
  <2>1. executions \in [Requests -> Snapshot]
    BY DEF JInv, TypeOK
  <2>2. ASSUME NEW q \in Requests, NEW now \in Instants, OpenExecution(q, now) PROVE FALSE
    <3>1. q \notin opened /\ executions' = [executions EXCEPT ![q] = Open(now)]
      BY <2>2 DEF OpenExecution
    <3>2. q = r
      BY <2>1, <3>1
    <3>3. ~HasAttempt(executions[r]) /\ Validate(executions[r])
      BY <3>1, <3>2 DEF JInv, AttemptsKnown, ValidExecutions
    <3>4. executions[r].attempts = 0
      BY <3>3 DEF Validate
    <3>5. executions'[r].attempts = 0
      BY <2>1, <3>1, <3>2 DEF Open
    <3> QED
      BY <3>4, <3>5
  <2>3. ASSUME NEW q \in Requests, NEW e, WellFormed(e), NEW f \in RecordedObservation, NEW gate,
               NEW now \in Instants, ApplyInput(q, e, f, gate, now)
        PROVE  q = r /\ e.kind = "begin" /\ InputApplied(q, e, f, gate, now)
    <3>1. InputApplied(q, e, f, gate, now)
      BY <2>3 DEF ApplyInput, InputRecorded
    <3>2. /\ executions' = [executions EXCEPT ![q] = executions'[q]]
          /\ e.kind # "begin" => Continues(executions[q], executions'[q])
      BY <2>3, <3>1, AppliedFacts
    <3>3. q = r
      BY <2>1, <3>2
    <3> QED
      BY <3>1, <3>2, <3>3 DEF Continues
  <2>4. CASE SubmitInput
    <3>1. PICK q \in Requests, now \in Instants : \E i \in Offered(executions[q], now) :
            ApplyInput(q, i[1], i[2], "direct", now)
      BY <2>4 DEF SubmitInput
    <3>2. PICK i \in Offered(executions[q], now) : ApplyInput(q, i[1], i[2], "direct", now)
      BY <3>1
    <3>3. WellFormed(i[1]) /\ i[2] \in RecordedObservation /\ i[1].kind # "begin"
      BY <2>1, JournalAssumption, OfferedWellFormed DEF Instants
    <3> QED
      BY <2>3, <3>2, <3>3
  <2>5. CASE BeginAttempt
    <3>1. PICK q \in Requests, now \in Instants, c \in Commands, n \in Runners, gate \in Gates :
            \E x \in Expected(executions[q]) :
              ApplyInput(q, BeginEvent(executions[q], <<q, c>>, n, x), NoObservation, gate, now)
      BY <2>5 DEF BeginAttempt
    <3>2. PICK x \in Expected(executions[q]) :
            ApplyInput(q, BeginEvent(executions[q], <<q, c>>, n, x), NoObservation, gate, now)
      BY <3>1
    <3> DEFINE e == BeginEvent(executions[q], <<q, c>>, n, x)
    <3>3. WellFormed(e)
      BY <2>1, BeginWellFormed
    <3> HIDE DEF e
    <3>4. q = r /\ e.kind = "begin" /\ InputApplied(r, e, NoObservation, gate, now)
      BY <2>3, <3>2, <3>3, NothingTyped DEF e
    <3>5. executions'[r].attempt.id \notin attemptKeys
      BY <3>3, <3>4, NothingTyped, AppliedFacts
    <3>6. Allowed(r, gate, now) /\ watermark' = now
      BY <3>4 DEF InputApplied, Changes, Receipt
    <3>7. "direct" \notin Gates => /\ confirmation[r].status = "accepted"
                                   /\ confirmation[r].at < ConfirmBy /\ now < ConfirmBy
      BY <3>6 DEF Allowed, Confirmed, JInv, AnswersHeld
    <3> QED
      BY <3>5, <3>6, <3>7 DEF Allowed
  <2>6. CASE executions' = executions
    BY <2>6
  <2> QED
    BY <2>2, <2>4, <2>5, <2>6
       DEF Next, ReopenExecution, OpenInteraction, ApplyInteraction, RecordSoftwareProgress
<1> QED
  BY <1>1, JournalInvariant, PTL DEF Spec, AdmissionConfirmed

-----------------------------------------------------------------------------
(* The inductive invariant. *)

WorkStates == {"absent"} \cup Live \cup Finished

Over == {"exited", "notStarted"}

AdvancePcs == {"lookup", "prepare", "reload", "check", "begin", "granted", "deliver", "report"}

CapturedPcs ==
  {"save", "output", "reloadCapture", "acknowledge", "decide", "stopReport", "reloadStop", "observe"}

ReconcilePcs == {"capture"} \cup CapturedPcs

(* The call of one instance, as its steps leave it.                          *)
Calls ==
  [pc : {"idle", "cancel"} \cup AdvancePcs \cup ReconcilePcs, request : Requests \cup {NoId},
   command : Commands \cup {NoId}, loaded : Snapshot, grant : Nat,
   about : AttemptIds \cup {NoId}, capture : Captures, live : BOOLEAN,
   note : DeliveryCauses \cup StopAnswers \cup {"none"}]

AppTyped ==
  /\ clock \in Times
  /\ app \in [Instances -> Calls]
  /\ work \in [AttemptIds -> WorkStates]
  /\ output \in [AttemptIds -> Bytes]
  /\ stored \in [AttemptIds -> Captures]
  /\ deliveries \in [AttemptIds -> Nat]

(* A receipt remembers that a write changed something, never that it may     *)
(* release an action.                                                        *)
ReceiptsInert == \A x \in receipts : x.outcome # "applied"

(* Only attempts that are durable were delivered, and nothing works for an   *)
(* attempt before its delivery.                                              *)
DeliveredOnce ==
  \A a \in AttemptIds :
    /\ deliveries[a] = 0 => work[a] = "absent"
    /\ deliveries[a] # 0 => deliveries[a] = 1 /\ a \in attemptKeys

(* Stored evidence of an end is true.                                        *)
StoredTrue == \A a \in AttemptIds : stored[a].state \in Over => work[a] = stored[a].state

(* A recorded end is true: the journal never learns of a quiescent or        *)
(* uncertain end from these callers.                                         *)
EndTrue(r) ==
  HasAttempt(executions[r]) /\ Terminated(executions[r]) =>
    \/ /\ executions[r].attempt.termination.kind = "exited"
       /\ work[executions[r].attempt.id] = "exited"
    \/ /\ executions[r].attempt.termination.kind = "neverDispatched"
       /\ work[executions[r].attempt.id] = "notStarted"

(* Work that is not known to be over belongs to the current attempt.         *)
LiveIsCurrent(r) ==
  \A c \in Commands : work[<<r, c>>] \in Live \cup {"lost"} =>
    /\ HasAttempt(executions[r]) /\ executions[r].attempt.id = <<r, c>>
    /\ ~Terminated(executions[r])

World ==
  /\ ReceiptsInert /\ DeliveredOnce /\ StoredTrue
  /\ \A r \in Requests : EndTrue(r) /\ LiveIsCurrent(r)

(* What a call relies on: its snapshot was stored once, a reconcile has an   *)
(* attempt to look at, and what it captured of an end is true.               *)
CallTrue(i) ==
  LET c == app[i] IN
  c.pc # "idle" =>
    /\ c.request \in opened
    /\ Validate(c.loaded)
    /\ HasAttempt(c.loaded) => c.loaded.attempt.id \in {c.request} \X Commands
    /\ c.pc \in AdvancePcs => c.command \in Commands
    /\ c.pc \in ReconcilePcs => HasAttempt(c.loaded) /\ HasAttempt(executions[c.request])
    /\ c.pc \in CapturedPcs => c.about \in AttemptIds
    /\ c.capture.state \in Over => c.about \in AttemptIds /\ work[c.about] = c.capture.state
    /\ c.pc = "report" => c.note \in DeliveryCauses \cup {"none"}
    /\ c.pc = "stopReport" => c.note \in StopAnswers

(* An instance that was granted the delivery of an attempt and has not       *)
(* called the runner yet.                                                    *)
Holds(i) == app[i].pc \in {"granted", "deliver"}

(* It is the only one, the attempt is durable, current and open, and the     *)
(* runner never heard of it.                                                 *)
HolderTrue(i) ==
  Holds(i) =>
    LET s == executions[app[i].request] IN
    /\ AttemptOf(i) \in attemptKeys
    /\ deliveries[AttemptOf(i)] = 0
    /\ HasAttempt(s) /\ s.attempt.id = AttemptOf(i) /\ ~Terminated(s)

OneHolder ==
  \A i, j \in Instances : Holds(i) /\ Holds(j) /\ AttemptOf(i) = AttemptOf(j) => i = j

CallInv ==
  /\ JInv /\ AppTyped /\ World /\ OneHolder
  /\ \A i \in Instances : CallTrue(i) /\ HolderTrue(i)

(* The runner remembers only attempts that were delivered to it.             *)
Remembered == \A a \in records : a \in AttemptIds /\ work[a] # "absent"

IInv == CallInv /\ Remembered

-----------------------------------------------------------------------------
(* What a commit does to the executions. *)

(* Evidence is only offered for an end that happened.                        *)
Truthful(e, f) ==
  e.kind = "observe" /\ f.kind \in Terminations =>
    \/ f.kind = "exited" /\ work[e.attempt] = "exited"
    \/ f.kind = "neverDispatched" /\ work[e.attempt] = "notStarted"

(* A termination in a candidate was there before, or is the observed fact    *)
(* about the current attempt.                                                *)
LEMMA TerminationSource ==
  ASSUME NEW s, NEW e, NEW f, NEW now, Premise(s, e, f, now), e.kind # "begin"
  PROVE  \/ Candidate(s, e, f, now).attempt.termination = s.attempt.termination
         \/ /\ Candidate(s, e, f, now).attempt.termination = f
            /\ e.kind = "observe" /\ f.kind \in Terminations /\ s.attempt.id = e.attempt
            /\ ~Terminated(s)
<1> DEFINE c == Candidate(s, e, f, now)
<1>1. s \in Snapshot /\ s.attempt \in AttemptSnapshot /\ e.kind \in CommandKinds \cup {"observe"}
  BY DEF Premise, WellFormed, Snapshot, Events
<1>2. CASE e.kind \in {"prepare", "wait", "cancel"}
  BY <1>1, <1>2 DEF Candidate, ApplyCommand, ApplyOutput, Snapshot
<1>3. CASE e.kind \in {"dispatched", "stopReported", "output"}
  BY <1>1, <1>3 DEF Candidate, ApplyCommand, ApplyOutput, Snapshot, AttemptSnapshot
<1>4. CASE e.kind \in {"unconfirmed", "recover"}
  <2> DEFINE m == MarkUncertain(s)
  <2>1. m \in Snapshot /\ m.attempt.termination = s.attempt.termination
    BY <1>1, MarkUncertainTyped DEF MarkUncertain, Snapshot, AttemptSnapshot
  <2>2. c.attempt \in {m.attempt, [m.attempt EXCEPT !.cause = e.note]}
    BY <1>4, <2>1 DEF Candidate, ApplyCommand, ApplyOutput, Snapshot
  <2> HIDE DEF m, c
  <2>3. c.attempt.termination = s.attempt.termination
    BY <2>1, <2>2 DEF Snapshot, AttemptSnapshot
  <2> QED
    BY <2>3 DEF c
<1>5. CASE e.kind = "observe"
  <2>1. ObservationAccepts(s, e, f, now)
    BY <1>5 DEF Premise, Accepts, CommandAccepts, PreparationAccepts, BeginAccepts,
       DispatchedAccepts, ReportAccepts, OutputAccepts
  <2>2. s.attempt.id = e.attempt
    BY <2>1 DEF ObservationAccepts, FactBound, Current
  <2>3. CASE f.kind \in Terminations
    <3>1. ~Terminated(s)
      BY <2>1, <2>3 DEF ObservationAccepts, TerminationAccepts, EffectAccepts, Terminations
    <3> QED
      BY <1>1, <1>5, <2>2, <2>3, <3>1
         DEF Candidate, ApplyObservation, Snapshot, AttemptSnapshot, Terminations
  <2>4. CASE f.kind \in {"effect", "uncertain"}
    BY <1>1, <1>5, <2>4 DEF Candidate, ApplyObservation, Snapshot, AttemptSnapshot
  <2> QED
    BY <2>1, <2>3, <2>4 DEF ObservationAccepts, TerminationAccepts, EffectAccepts, Terminations
<1> QED
  BY <1>1, <1>2, <1>3, <1>4, <1>5 DEF CommandKinds

(* What every journal step of the application preserves: executions and      *)
(* attempt identities stay, an attempt that is not over stays current and    *)
(* open, and a recorded end is true.                                         *)
JournalMoves ==
  /\ opened \subseteq opened' /\ attemptKeys \subseteq attemptKeys'
  /\ \A q \in Requests :
       /\ HasAttempt(executions[q]) => HasAttempt(executions'[q])
       /\ /\ HasAttempt(executions[q]) /\ ~Terminated(executions[q])
          /\ work[executions[q].attempt.id] \notin Over
          => /\ executions'[q].attempt.id = executions[q].attempt.id
             /\ ~Terminated(executions'[q])
       /\ EndTrue(q)'

(* Without a write nothing moves.                                            *)
LEMMA Unmoved ==
  ASSUME JInv, World, UNCHANGED <<journal, work>>
  PROVE  JInv' /\ JournalMoves
<1>1. JInv'
  BY DEF journal, JInv, TypeOK, ValidExecutions, SlotsHeld, AnswersHeld, AttemptsKnown,
     ClaimsMatchWork, MayBeWorking
<1>2. JournalMoves
  BY DEF journal, JournalMoves, World, EndTrue
<1> QED
  BY <1>1, <1>2

(* A receipt that changes no execution moves nothing.                        *)
LEMMA RecordedMoves ==
  ASSUME JInv, World, AppTyped, NEW r \in Requests, NEW e, NEW f, NEW gate,
         InputRecorded(r, e, f, gate, clock), UNCHANGED work
  PROVE  JInv' /\ JournalMoves
<1>1. Receipt(reserved, clock) /\ clock \in Instants
      /\ UNCHANGED <<opened, executions, confirmation, attemptKeys, claims, closed>>
  BY DEF InputRecorded, Receipt, Instants, AppTyped
<1>2. JInv'
  BY <1>1, RecordedStep
<1>3. JournalMoves
  BY <1>1 DEF JournalMoves, World, EndTrue
<1> QED
  BY <1>2, <1>3

(* An applied input moves only its own execution: it ends an attempt that is *)
(* over, or admits one when the previous one has ended.                      *)
LEMMA AppliedMoves ==
  ASSUME JInv, World, AppTyped, NEW r \in Requests, NEW e, WellFormed(e),
         NEW f \in RecordedObservation, Truthful(e, f),
         e.kind = "begin" => e.attempt \in {r} \X Commands,
         InputApplied(r, e, f, "direct", clock), UNCHANGED work
  PROVE  JInv' /\ JournalMoves
<1> DEFINE s == executions[r]
           c == executions'[r]
<1>1. clock \in Instants
  BY DEF InputApplied, Receipt, Instants, AppTyped
<1>2. JInv'
  BY <1>1, AppliedStep
<1>3. /\ Premise(s, e, f, clock)
      /\ s \in Snapshot /\ Validate(s) /\ c \in Snapshot /\ Validate(c)
      /\ executions' = [executions EXCEPT ![r] = c]
      /\ c = Candidate(s, e, f, clock)
      /\ e.kind = "begin" => Admits(s, c)
      /\ e.kind # "begin" => Continues(s, c)
  BY <1>1, AppliedFacts DEF JInv, TypeOK, ValidExecutions
<1>4. executions \in [Requests -> Snapshot] /\ opened' = opened /\ attemptKeys \subseteq attemptKeys'
  BY DEF JInv, TypeOK, InputApplied
<1>5. \A q \in Requests : q # r => executions'[q] = executions[q]
  BY <1>3, <1>4
<1>6. HasAttempt(s) => HasAttempt(c)
  BY <1>3 DEF Admits, Continues, HasAttempt
<1>7. ASSUME HasAttempt(s), ~Terminated(s), work[s.attempt.id] \notin Over
      PROVE  c.attempt.id = s.attempt.id /\ ~Terminated(c)
  <2>1. e.kind # "begin"
    <3>1. SUFFICES ASSUME e.kind = "begin" PROVE FALSE
      OBVIOUS
    <3>2. c.updated \in Nat /\ Directive(s, c.updated) \in {"ready", "retryEligible"}
      BY <1>3, <3>1 DEF Admits, Snapshot
    <3> QED
      BY <1>3, <1>7, <3>2, AdmissionFacts
  <2>2. c.attempt.id = s.attempt.id
    BY <1>3, <2>1 DEF Continues
  <2>3. c.attempt.termination = s.attempt.termination
    BY <1>3, <1>7, <2>1, TerminationSource DEF Truthful, Over
  <2> QED
    BY <1>7, <2>2, <2>3 DEF Terminated
<1>8. EndTrue(r)'
  <2>1. CASE e.kind = "begin"
    BY <1>3, <2>1 DEF Admits, EndTrue
  <2>2. CASE e.kind # "begin"
    <3>1. c.attempt.id = s.attempt.id /\ c.attempt.number = s.attempt.number
      BY <1>3, <2>2 DEF Continues
    <3>2. EndTrue(r)
      BY DEF World
    <3>3. CASE c.attempt.termination = s.attempt.termination
      BY <3>1, <3>2, <3>3 DEF EndTrue, HasAttempt, Terminated
    <3>4. CASE c.attempt.termination # s.attempt.termination
      <4>1. /\ c.attempt.termination = f /\ e.kind = "observe" /\ f.kind \in Terminations
            /\ s.attempt.id = e.attempt
        BY <1>3, <2>2, <3>4, TerminationSource
      <4> QED
        BY <3>1, <4>1 DEF EndTrue, Truthful
    <3> QED
      BY <3>3, <3>4
  <2> QED
    BY <2>1, <2>2
<1>9. \A q \in Requests : q # r => EndTrue(q)'
  BY <1>5 DEF World, EndTrue
<1> HIDE DEF s, c
<1>10. JournalMoves
  BY <1>4, <1>5, <1>6, <1>7, <1>8, <1>9 DEF JournalMoves, s, c
<1> QED
  BY <1>2, <1>10

(* One commit of a call: the journal keeps its invariant and moves on, and   *)
(* "applied" means that this very call wrote the input.                      *)
LEMMA CommitMoves ==
  ASSUME JInv, World, AppTyped, NEW i \in Instances, app[i].request \in Requests,
         NEW e, WellFormed(e), NEW f \in RecordedObservation, Truthful(e, f),
         e.kind = "begin" => e.attempt \in {app[i].request} \X Commands,
         NEW o \in CommitOutcomes, Commit(i, e, f, o), UNCHANGED work
  PROVE  /\ JInv' /\ JournalMoves /\ ReceiptsInert'
         /\ o = "applied" => InputApplied(app[i].request, e, f, "direct", clock)
<1> DEFINE r == app[i].request
<1>1. ReceiptsInert
  BY DEF World
<1>2. ASSUME NEW x \in receipts, o = (IF x.event = e THEN x.outcome ELSE "error"),
             UNCHANGED <<journal, receipts>>
      PROVE  JInv' /\ JournalMoves /\ ReceiptsInert' /\ o # "applied"
  BY <1>1, <1>2, Unmoved DEF ReceiptsInert
<1>3. ASSUME o = "error", UNCHANGED <<journal, receipts>>
      PROVE  JInv' /\ JournalMoves /\ ReceiptsInert' /\ o # "applied"
  BY <1>1, <1>3, Unmoved DEF ReceiptsInert
<1>4. ASSUME InputApplied(r, e, f, "direct", clock),
             receipts' = receipts \cup {[event |-> e, outcome |-> "changed"]}
      PROVE  JInv' /\ JournalMoves /\ ReceiptsInert'
  BY <1>1, <1>4, AppliedMoves DEF ReceiptsInert
<1>5. ASSUME o \in {"stale", "rejected"}, InputRecorded(r, e, f, "direct", clock),
             receipts' = receipts \cup {[event |-> e, outcome |-> o]}
      PROVE  JInv' /\ JournalMoves /\ ReceiptsInert' /\ o # "applied"
  BY <1>1, <1>5, RecordedMoves DEF ReceiptsInert
<1> QED
  BY <1>2, <1>3, <1>4, <1>5 DEF Commit

(* Opening an execution moves nothing else.                                  *)
LEMMA OpenMoves ==
  ASSUME JInv, World, AppTyped, NEW r \in Requests, OpenExecution(r, clock), UNCHANGED work
  PROVE  JInv' /\ JournalMoves
<1>1. clock \in Instants
  BY DEF OpenExecution, Receipt, Instants, AppTyped
<1>2. JInv'
  BY <1>1, OpenStep
<1>3. /\ executions' = [executions EXCEPT ![r] = Open(clock)] /\ opened \subseteq opened'
      /\ attemptKeys' = attemptKeys /\ executions \in [Requests -> Snapshot]
  BY DEF OpenExecution, JInv, TypeOK
<1>4. ~HasAttempt(executions[r]) /\ ~HasAttempt(Open(clock))
  BY DEF JInv, AttemptsKnown, OpenExecution, HasAttempt, Open, NoAttempt
<1>5. \A q \in Requests : EndTrue(q)'
  BY <1>3, <1>4 DEF World, EndTrue
<1>6. JournalMoves
  BY <1>3, <1>4, <1>5 DEF JournalMoves
<1> QED
  BY <1>2, <1>6

-----------------------------------------------------------------------------
(* What a step of one call leaves of the other calls. *)

(* An undelivered attempt stays current and open, whatever the others write. *)
LEMMA HolderKept ==
  ASSUME CallInv, JournalMoves, UNCHANGED <<work, deliveries>>,
         NEW i \in Instances, Holds(i),
         app'[i].request = app[i].request, app'[i].command = app[i].command
  PROVE  HolderTrue(i)'
<1> DEFINE s == executions[app[i].request]
<1>1. /\ AttemptOf(i) \in attemptKeys /\ deliveries[AttemptOf(i)] = 0
      /\ HasAttempt(s) /\ s.attempt.id = AttemptOf(i) /\ ~Terminated(s)
  BY DEF CallInv, HolderTrue
<1>2. app[i].request \in Requests /\ AttemptOf(i) \in AttemptIds
  BY <1>1 DEF CallInv, CallTrue, Holds, JInv, TypeOK
<1>3. work[AttemptOf(i)] \notin Over
  BY <1>1, <1>2 DEF CallInv, World, DeliveredOnce, Over
<1>4. /\ HasAttempt(executions'[app[i].request]) /\ ~Terminated(executions'[app[i].request])
      /\ executions'[app[i].request].attempt.id = AttemptOf(i)
  BY <1>1, <1>2, <1>3 DEF JournalMoves
<1> QED
  BY <1>1, <1>4 DEF HolderTrue, AttemptOf, JournalMoves

(* While the work does not change, the moves of the journal keep the world   *)
(* true, and every call that makes no step.                                  *)
LEMMA MovesKeep ==
  ASSUME CallInv, JInv', JournalMoves, ReceiptsInert', StoredTrue',
         UNCHANGED <<work, deliveries>>
  PROVE  /\ World'
         /\ \A i \in Instances : app'[i] = app[i] => CallTrue(i)' /\ HolderTrue(i)'
<1>1. World'
  <2>1. DeliveredOnce'
    BY DEF CallInv, World, DeliveredOnce, JournalMoves
  <2>2. ASSUME NEW r \in Requests PROVE LiveIsCurrent(r)'
    <3>1. SUFFICES ASSUME NEW c \in Commands, work[<<r, c>>] \in Live \cup {"lost"}
                   PROVE  /\ HasAttempt(executions'[r]) /\ executions'[r].attempt.id = <<r, c>>
                          /\ ~Terminated(executions'[r])
      BY DEF LiveIsCurrent
    <3>2. /\ HasAttempt(executions[r]) /\ executions[r].attempt.id = <<r, c>>
          /\ ~Terminated(executions[r])
      BY <3>1 DEF CallInv, World, LiveIsCurrent
    <3> QED
      BY <3>1, <3>2 DEF JournalMoves, Live, Over
  <2> QED
    BY <2>1, <2>2 DEF World, JournalMoves
<1>2. ASSUME NEW i \in Instances, app'[i] = app[i] PROVE CallTrue(i)'
  <2>1. CallTrue(i) /\ opened \subseteq Requests
    BY DEF CallInv, JInv, TypeOK
  <2> QED
    BY <1>2, <2>1 DEF CallTrue, JournalMoves
<1>3. ASSUME NEW i \in Instances, app'[i] = app[i] PROVE HolderTrue(i)'
  <2>1. CASE Holds(i)
    BY <1>3, <2>1, HolderKept
  <2>2. CASE ~Holds(i)
    BY <1>3, <2>2 DEF HolderTrue, Holds
  <2> QED
    BY <2>1, <2>2
<1> QED
  BY <1>1, <1>2, <1>3

(* A step of one call that changes no work: it is enough to look at that     *)
(* call, which becomes a holder only under a fresh attempt.                  *)
LEMMA StoringStep ==
  ASSUME CallInv, JInv', JournalMoves, ReceiptsInert',
         stored' \in [AttemptIds -> Captures], StoredTrue',
         UNCHANGED <<clock, work, output, deliveries>>,
         NEW i \in Instances, NEW x \in Calls, app' = [app EXCEPT ![i] = x],
         CallTrue(i)', HolderTrue(i)',
         x.pc \in {"granted", "deliver"} =>
           \/ Holds(i) /\ x.request = app[i].request /\ x.command = app[i].command
           \/ <<x.request, x.command>> \notin attemptKeys
  PROVE  CallInv'
<1>1. /\ AppTyped' /\ app'[i] = x
      /\ \A j \in Instances : j # i => app'[j] = app[j]
  BY DEF CallInv, AppTyped
<1>2. World' /\ \A j \in Instances : CallTrue(j)' /\ HolderTrue(j)'
  BY <1>1, MovesKeep
<1>3. OneHolder'
  <2>1. SUFFICES ASSUME NEW j \in Instances, j # i, Holds(i)', Holds(j)',
                        AttemptOf(i)' = AttemptOf(j)'
                 PROVE  FALSE
    BY <1>1 DEF OneHolder, Holds, AttemptOf, CallInv
  <2>2. Holds(j) /\ AttemptOf(j) \in attemptKeys /\ AttemptOf(j) = <<x.request, x.command>>
    BY <1>1, <2>1 DEF CallInv, Holds, AttemptOf, HolderTrue
  <2>3. Holds(i) /\ AttemptOf(i) = AttemptOf(j)
    BY <1>1, <2>1, <2>2 DEF Holds, AttemptOf
  <2> QED
    BY <2>1, <2>2, <2>3 DEF CallInv, OneHolder
<1> QED
  BY <1>1, <1>2, <1>3 DEF CallInv

(* Most steps store nothing.                                                 *)
LEMMA CallStep ==
  ASSUME CallInv, JInv', JournalMoves, ReceiptsInert',
         UNCHANGED <<clock, work, output, stored, deliveries>>,
         NEW i \in Instances, NEW x \in Calls, app' = [app EXCEPT ![i] = x],
         CallTrue(i)', HolderTrue(i)',
         x.pc \in {"granted", "deliver"} =>
           \/ Holds(i) /\ x.request = app[i].request /\ x.command = app[i].command
           \/ <<x.request, x.command>> \notin attemptKeys
  PROVE  CallInv'
<1>1. stored' \in [AttemptIds -> Captures] /\ StoredTrue'
  BY DEF CallInv, AppTyped, World, StoredTrue
<1> QED
  BY <1>1, StoringStep

(* A call that goes on, on the snapshot it had or on the stored one, knows   *)
(* what it knew.                                                             *)
LEMMA Proceed ==
  ASSUME CallInv, JInv', JournalMoves, ReceiptsInert',
         UNCHANGED <<clock, work, output, stored, deliveries>>,
         NEW i \in Instances, NEW x \in Calls, app' = [app EXCEPT ![i] = x],
         app[i].pc # "idle", x.request = app[i].request, x.command = app[i].command,
         x.loaded \in {app[i].loaded, executions[app[i].request]},
         x.about = app[i].about, x.capture = app[i].capture,
         x.pc \in AdvancePcs => app[i].pc \in AdvancePcs,
         x.pc \in ReconcilePcs => app[i].pc \in ReconcilePcs,
         x.pc \in CapturedPcs => app[i].pc \in CapturedPcs,
         x.pc = "report" => x.note \in DeliveryCauses \cup {"none"},
         x.pc = "stopReport" => x.note \in StopAnswers,
         x.pc \in {"granted", "deliver"} => Holds(i)
  PROVE  CallInv'
<1>1. app'[i] = x /\ CallTrue(i) /\ opened \subseteq Requests
  BY DEF CallInv, AppTyped, JInv, TypeOK
<1>2. /\ Validate(x.loaded)
      /\ HasAttempt(x.loaded) => x.loaded.attempt.id \in {x.request} \X Commands
      /\ x.pc \in ReconcilePcs => HasAttempt(x.loaded)
  BY <1>1 DEF CallTrue, CallInv, JInv, ValidExecutions, AttemptsKnown
<1>3. CallTrue(i)'
  BY <1>1, <1>2 DEF CallTrue, JournalMoves
<1>4. HolderTrue(i)'
  <2>1. CASE Holds(i)
    BY <1>1, <2>1, HolderKept
  <2>2. CASE ~Holds(i)
    BY <1>1, <2>2 DEF HolderTrue, Holds
  <2> QED
    BY <2>1, <2>2
<1> QED
  BY <1>3, <1>4, CallStep

(* A call that is over knows nothing.                                        *)
LEMMA IdleTyped == Idle \in Calls /\ Idle.pc = "idle" /\ Open(0) \in Snapshot
<1>1. NoAttempt \in AttemptSnapshot
  BY NothingTyped DEF NoAttempt, AttemptSnapshot, DispatchStates
<1>2. Open(0) \in Snapshot
  BY <1>1, NothingTyped DEF Open, Snapshot
<1> QED
  BY <1>2, NothingTyped DEF Idle, Calls, Captures, NoCapture

(* Ending the call of an instance keeps the invariant.                       *)
LEMMA Finish ==
  ASSUME CallInv, JInv', JournalMoves, ReceiptsInert',
         UNCHANGED <<clock, work, output, stored, deliveries>>,
         NEW i \in Instances, app' = [app EXCEPT ![i] = Idle]
  PROVE  CallInv'
<1>1. app'[i] = Idle
  BY DEF CallInv, AppTyped
<1>2. CallTrue(i)' /\ HolderTrue(i)'
  BY <1>1, IdleTyped DEF CallTrue, HolderTrue, Holds
<1> QED
  BY <1>2, IdleTyped, CallStep

(* A call that begins looks at the stored snapshot.                          *)
LEMMA NewCall ==
  ASSUME CallInv, NEW i \in Instances, NEW r \in opened, NEW x \in Calls, Local(i, x),
         x.pc \in {"lookup", "capture", "cancel"}, x.request = r, x.loaded = executions[r],
         x.capture = NoCapture,
         x.pc = "lookup" => x.command \in Commands,
         x.pc = "capture" => HasAttempt(executions[r])
  PROVE  CallInv'
<1>1. JInv /\ World /\ AppTyped /\ opened \subseteq Requests
  BY DEF CallInv, JInv, TypeOK
<1>2. /\ JInv' /\ JournalMoves /\ ReceiptsInert' /\ app' = [app EXCEPT ![i] = x]
      /\ UNCHANGED <<clock, work, output, stored, deliveries, opened, executions>>
  BY <1>1, Unmoved DEF Local, World, ReceiptsInert, runner, journal
<1>3. app'[i] = x
  BY <1>1, <1>2 DEF AppTyped
<1>4. CallTrue(i)'
  BY <1>1, <1>2, <1>3 DEF CallTrue, JInv, ValidExecutions, AttemptsKnown, NoCapture, Over,
     AdvancePcs, ReconcilePcs, CapturedPcs
<1>5. HolderTrue(i)'
  BY <1>3 DEF HolderTrue, Holds
<1> QED
  BY <1>2, <1>4, <1>5, CallStep

(* Goto keeps the call and its type.                                         *)
LEMMA GotoTyped ==
  ASSUME CallInv, NEW i \in Instances, NEW pc \in {"idle", "cancel"} \cup AdvancePcs \cup ReconcilePcs
  PROVE  /\ Goto(i, pc) \in Calls
         /\ Goto(i, pc) = [app[i] EXCEPT !.pc = pc]
         /\ Goto(i, pc).pc = pc /\ Goto(i, pc).request = app[i].request
         /\ Goto(i, pc).command = app[i].command /\ Goto(i, pc).loaded = app[i].loaded
         /\ Goto(i, pc).about = app[i].about /\ Goto(i, pc).capture = app[i].capture
         /\ Goto(i, pc).note = app[i].note
BY DEF CallInv, AppTyped, Calls, Goto

(* A step that only moves its own call on leaves everything else alone.      *)
LEMMA Stays ==
  ASSUME CallInv, UNCHANGED <<journal, receipts, clock, work, stored>>
  PROVE  JInv' /\ JournalMoves /\ ReceiptsInert'
BY Unmoved DEF CallInv, World, ReceiptsInert

(* An early return.                                                          *)
LEMMA LocalEnd ==
  ASSUME CallInv, NEW i \in Instances, Local(i, Idle)
  PROVE  CallInv'
BY Stays, Finish DEF Local, runner

-----------------------------------------------------------------------------
(* The commands of a call. *)

(* Every revision in a stored snapshot is within its type.                   *)
LEMMA RevisionBound ==
  ASSUME NEW s \in Snapshot, Validate(s)
  PROVE  s.revision \in 0..RevisionMax
BY BudgetAssumption DEF Snapshot, Validate, ValidEnvelope, Events

(* The event of a call is typed, whatever its stage and identity.            *)
LEMMA EventTyped ==
  ASSUME CallInv, NEW i \in Instances, app[i].pc # "idle",
         NEW kind \in CommandKinds \cup {"observe"},
         NEW stage \in CommandKinds \cup Terminations \cup Assessments \cup {"dispatchResult"},
         NEW identity \in Commands \cup AttemptIds \cup {NoId}, NEW bytes \in Bytes
  PROVE  /\ Stage(i, kind, identity, bytes).kind = kind
         /\ Stage(i, kind, identity, bytes).attempt = app[i].loaded.attempt.id
         /\ [Stage(i, kind, identity, bytes) EXCEPT
               !.id = Operation(stage, app[i].request, identity, bytes, app[i].loaded.revision)]
              \in Events
         /\ app[i].request \in Requests
<1> DEFINE s == app[i].loaded
<1>1. app[i] \in Calls /\ s \in Snapshot /\ Validate(s) /\ app[i].request \in Requests
  BY DEF CallInv, AppTyped, Calls, CallTrue, JInv, TypeOK
<1>2. s.revision \in 0..RevisionMax /\ s.revision \in Nat
  BY <1>1, RevisionBound DEF Snapshot
<1>3. Operation(stage, app[i].request, identity, bytes, s.revision) \in EventIds
  BY <1>1, <1>2, OperationAssumption DEF Operation, Operations
<1>4. s.attempt.id \in AttemptIds \cup {NoId}
  BY <1>1 DEF Snapshot, AttemptSnapshot
<1> HIDE DEF s
<1> QED
  BY <1>1, <1>2, <1>3, <1>4, NothingTyped DEF Stage, Events, NoEvent, s

(* The stage of a command is its kind.                                       *)
LEMMA StageTyped ==
  ASSUME CallInv, NEW i \in Instances, app[i].pc # "idle", NEW kind \in CommandKinds,
         NEW identity \in Commands \cup AttemptIds \cup {NoId}, NEW bytes \in Bytes
  PROVE  /\ Stage(i, kind, identity, bytes) \in Events
         /\ Stage(i, kind, identity, bytes).kind = kind
         /\ Stage(i, kind, identity, bytes).attempt = app[i].loaded.attempt.id
         /\ app[i].request \in Requests
<1> DEFINE id == Operation(kind, app[i].request, identity, bytes, app[i].loaded.revision)
<1>1. /\ [Stage(i, kind, identity, bytes) EXCEPT !.id = id] \in Events
      /\ Stage(i, kind, identity, bytes).kind = kind
      /\ Stage(i, kind, identity, bytes).attempt = app[i].loaded.attempt.id
      /\ app[i].request \in Requests
  BY EventTyped
<1>2. [Stage(i, kind, identity, bytes) EXCEPT !.id = id] = Stage(i, kind, identity, bytes)
  BY DEF Stage, NoEvent
<1> QED
  BY <1>1, <1>2

(* A command of a call, after which the call ends or reads again.            *)
LEMMA Written ==
  ASSUME CallInv, NEW i \in Instances, app[i].pc # "idle",
         NEW e, WellFormed(e), e.kind \notin {"begin", "observe"},
         NEW o \in CommitOutcomes, Commit(i, e, NoObservation, o), Quiet,
         NEW pc, NEW x \in {Idle, Goto(i, pc)}, app' = [app EXCEPT ![i] = x],
         \/ pc = "reload" /\ app[i].pc \in AdvancePcs
         \/ pc \in {"reloadCapture", "reloadStop"} /\ app[i].pc \in CapturedPcs
  PROVE  CallInv'
<1>1. app[i].request \in Requests /\ JInv /\ World /\ AppTyped
  BY DEF CallInv, CallTrue, JInv, TypeOK
<1>2. JInv' /\ JournalMoves /\ ReceiptsInert'
  BY <1>1, CommitMoves, NothingTyped DEF Truthful, Quiet, runner
<1>3. UNCHANGED <<clock, work, output, stored, deliveries>>
  BY DEF Quiet, runner
<1>4. CASE x = Idle
  BY <1>2, <1>3, <1>4, Finish
<1>5. CASE x = Goto(i, pc)
  <2>1. pc \in AdvancePcs \cup ReconcilePcs
    BY DEF AdvancePcs, ReconcilePcs, CapturedPcs
  <2>2. /\ x \in Calls /\ x.pc = pc /\ x.request = app[i].request /\ x.command = app[i].command
        /\ x.loaded = app[i].loaded /\ x.about = app[i].about /\ x.capture = app[i].capture
    BY <1>5, <2>1, GotoTyped
  <2>3. /\ pc \in AdvancePcs => app[i].pc \in AdvancePcs
        /\ pc \in ReconcilePcs => app[i].pc \in ReconcilePcs
        /\ pc \in CapturedPcs => app[i].pc \in CapturedPcs
        /\ pc \notin {"report", "stopReport", "granted", "deliver"}
    BY DEF AdvancePcs, ReconcilePcs, CapturedPcs
  <2> QED
    BY <1>2, <1>3, <2>2, <2>3, Proceed
<1> QED
  BY <1>4, <1>5

(* A step that moves the call on without a write.                            *)
LEMMA Moved ==
  ASSUME CallInv, NEW i \in Instances, app[i].pc # "idle",
         NEW x \in Calls, app' = [app EXCEPT ![i] = x],
         UNCHANGED <<journal, receipts, clock, work, output, stored, deliveries>>,
         x.request = app[i].request, x.command = app[i].command,
         x.loaded \in {app[i].loaded, executions[app[i].request]},
         x.about = app[i].about, x.capture = app[i].capture,
         x.pc \in AdvancePcs => app[i].pc \in AdvancePcs,
         x.pc \in ReconcilePcs => app[i].pc \in ReconcilePcs,
         x.pc \in CapturedPcs => app[i].pc \in CapturedPcs,
         x.pc = "report" => x.note \in DeliveryCauses \cup {"none"},
         x.pc = "stopReport" => x.note \in StopAnswers,
         x.pc \in {"granted", "deliver"} => Holds(i)
  PROVE  CallInv'
BY Stays, Proceed

(* Reading the journal again.                                                *)
LEMMA Loaded ==
  ASSUME CallInv, NEW i \in Instances, NEW pc, Load(i, pc),
         \/ pc = "check" /\ app[i].pc = "reload"
         \/ pc = "deliver" /\ app[i].pc = "granted"
         \/ pc \in {"acknowledge", "decide", "observe"} /\ app[i].pc \in CapturedPcs
  PROVE  CallInv'
<1> DEFINE x == [Goto(i, pc) EXCEPT !.loaded = executions[app[i].request]]
<1>1. /\ app[i].pc # "idle" /\ pc \in AdvancePcs \cup ReconcilePcs
      /\ pc \in AdvancePcs => app[i].pc \in AdvancePcs
      /\ pc \in ReconcilePcs => app[i].pc \in ReconcilePcs
      /\ pc \in CapturedPcs => app[i].pc \in CapturedPcs
      /\ pc \notin {"report", "stopReport", "granted"}
      /\ pc = "deliver" => Holds(i)
  BY DEF AdvancePcs, ReconcilePcs, CapturedPcs, Holds
<1>2. executions[app[i].request] \in Snapshot
  BY <1>1 DEF CallInv, CallTrue, JInv, TypeOK
<1>3. /\ x \in Calls /\ x.pc = pc /\ x.request = app[i].request /\ x.command = app[i].command
      /\ x.loaded = executions[app[i].request] /\ x.about = app[i].about
      /\ x.capture = app[i].capture
  BY <1>1, <1>2, GotoTyped DEF Calls
<1>4. /\ app' = [app EXCEPT ![i] = x]
      /\ UNCHANGED <<journal, receipts, clock, work, output, stored, deliveries>>
  BY DEF Load, runner
<1> HIDE DEF x
<1> QED
  BY <1>1, <1>3, <1>4, Moved

-----------------------------------------------------------------------------
(* request_execution, retry_execution and dispatch. *)

(* A new call, its look-up and the checks before the attempt.                *)
LEMMA AdvanceLocal ==
  ASSUME CallInv, NEW i \in Instances,
         \/ \E r \in Requests, c \in Commands : Advance(i, r, c)
         \/ LookUp(i) \/ Reload(i) \/ CheckDirective(i) \/ LoadForDispatch(i) \/ Refuse(i)
  PROVE  CallInv'
<1>1. ASSUME NEW r \in Requests, NEW c \in Commands, Advance(i, r, c) PROVE CallInv'
  <2> DEFINE x == [Idle EXCEPT !.pc = "lookup", !.request = r, !.command = c, !.loaded = executions[r]]
  <2>1. r \in opened /\ executions[r] \in Snapshot
    BY <1>1 DEF Advance, CallInv, JInv, TypeOK
  <2>2. /\ x \in Calls /\ x.pc = "lookup" /\ x.request = r /\ x.command = c
        /\ x.loaded = executions[r] /\ x.capture = NoCapture
    BY <2>1, IdleTyped DEF Idle, Calls, AdvancePcs
  <2>3. Local(i, x)
    BY <1>1 DEF Advance
  <2> HIDE DEF x
  <2> QED
    BY <2>1, <2>2, <2>3, NewCall
<1>2. ASSUME NEW pc \in {"prepare", "check", "begin"}, app[i].pc \in {"lookup", "check"},
             Local(i, Goto(i, pc))
      PROVE  CallInv'
  <2>1. pc \in AdvancePcs /\ app[i].pc \in AdvancePcs /\ pc \notin ReconcilePcs /\ pc \notin CapturedPcs
    BY <1>2 DEF AdvancePcs, ReconcilePcs, CapturedPcs
  <2> DEFINE x == Goto(i, pc)
  <2>2. /\ x \in Calls /\ x.pc = pc /\ x.request = app[i].request /\ x.command = app[i].command
        /\ x.loaded = app[i].loaded /\ x.about = app[i].about /\ x.capture = app[i].capture
    BY <2>1, GotoTyped
  <2>3. /\ app' = [app EXCEPT ![i] = x] /\ app[i].pc # "idle"
        /\ UNCHANGED <<journal, receipts, clock, work, output, stored, deliveries>>
    BY <1>2 DEF Local, runner
  <2>4. pc \notin {"report", "stopReport", "granted", "deliver"}
    OBVIOUS
  <2> HIDE DEF x
  <2> QED
    BY <2>1, <2>2, <2>3, <2>4, Moved
<1>3. CASE LookUp(i)
  BY <1>2, <1>3, LocalEnd DEF LookUp
<1>4. CASE CheckDirective(i)
  BY <1>2, <1>4, LocalEnd DEF CheckDirective
<1>5. CASE Reload(i) \/ LoadForDispatch(i)
  BY <1>5, Loaded DEF Reload, LoadForDispatch
<1>6. CASE Refuse(i)
  <2> DEFINE cause == DispatchCause(app[i].loaded, app[i].grant, clock)
             x == [Goto(i, "report") EXCEPT !.note = cause]
  <2>1. cause \in DeliveryCauses \cup {"none"} /\ app[i].pc = "deliver"
    BY <1>6 DEF Refuse, DispatchCause, DeliveryCauses
  <2>2. /\ app' = [app EXCEPT ![i] = x]
        /\ UNCHANGED <<journal, receipts, clock, work, output, stored, deliveries>>
    BY <1>6 DEF Refuse, Local, runner
  <2> HIDE DEF cause
  <2>3. "report" \in AdvancePcs /\ app[i].pc \in AdvancePcs /\ "report" \notin ReconcilePcs
        /\ "report" \notin CapturedPcs
    BY <2>1 DEF AdvancePcs, ReconcilePcs, CapturedPcs
  <2>4. /\ x \in Calls /\ x.pc = "report" /\ x.note = cause /\ x.request = app[i].request
        /\ x.command = app[i].command /\ x.loaded = app[i].loaded /\ x.about = app[i].about
        /\ x.capture = app[i].capture
    BY <2>1, <2>3, GotoTyped DEF Calls
  <2> HIDE DEF x
  <2> QED
    BY <2>1, <2>2, <2>3, <2>4, Moved
<1> QED
  BY <1>1, <1>3, <1>4, <1>5, <1>6

(* The preparation is written, and read back whatever became of it.          *)
LEMMA PrepareKeeps ==
  ASSUME CallInv, NEW i \in Instances, PrepareAttempt(i)
  PROVE  CallInv'
<1> DEFINE e == Stage(i, "prepare", app[i].command, 0)
<1>1. app[i].pc = "prepare" /\ app[i].pc \in AdvancePcs /\ app[i].command \in Commands
  BY DEF PrepareAttempt, CallInv, CallTrue, AdvancePcs
<1>2. WellFormed(e) /\ e.kind = "prepare"
  <2>1. "prepare" \in CommandKinds /\ app[i].pc # "idle" /\ 0 \in Bytes
    BY <1>1, NothingTyped DEF CommandKinds
  <2>2. e \in Events /\ e.kind = "prepare"
    BY <1>1, <2>1, StageTyped
  <2> HIDE DEF e
  <2> QED
    BY <2>2 DEF WellFormed
<1>3. PICK o \in CommitOutcomes :
        /\ Commit(i, e, NoObservation, o)
        /\ app' = [app EXCEPT ![i] = IF o = "error" THEN Idle ELSE Goto(i, "reload")]
  BY DEF PrepareAttempt
<1>4. Quiet
  BY DEF PrepareAttempt
<1> DEFINE x == IF o = "error" THEN Idle ELSE Goto(i, "reload")
<1>5. x \in {Idle, Goto(i, "reload")} /\ app' = [app EXCEPT ![i] = x]
  BY <1>3
<1>6. app[i].pc # "idle" /\ e.kind \notin {"begin", "observe"}
  BY <1>1, <1>2
<1> HIDE DEF e, x
<1> QED
  BY <1>1, <1>2, <1>3, <1>4, <1>5, <1>6, Written

(* The commit that creates the attempt grants its one delivery.              *)
LEMMA BeginKeeps ==
  ASSUME CallInv, NEW i \in Instances, NEW n \in Runners, Begin(i, n)
  PROVE  CallInv'
<1> DEFINE s == app[i].loaded
           r == app[i].request
           e == [NoEvent EXCEPT !.id = BeginOperation(i), !.expected = s.revision, !.kind = "begin",
                                !.attempt = AttemptOf(i), !.runner = n, !.mode = "real"]
           x == [Goto(i, "granted") EXCEPT !.grant = s.revision + 1]
<1>1. /\ app[i].pc = "begin" /\ app[i].command \in Commands /\ r \in Requests /\ r \in opened
      /\ s \in Snapshot /\ Validate(s) /\ s.revision \in Nat
      /\ HasAttempt(s) => s.attempt.id \in {r} \X Commands
  BY DEF Begin, CallInv, CallTrue, AdvancePcs, JInv, TypeOK, AppTyped, Calls, Snapshot
<1>2. AttemptOf(i) \in {r} \X Commands /\ AttemptOf(i) \in AttemptIds
  BY <1>1, JournalAssumption DEF AttemptOf
<1>3. WellFormed(e) /\ e.kind = "begin" /\ e.attempt = AttemptOf(i)
  <2>1. BeginOperation(i) \in EventIds
    BY <1>1, NothingTyped, BudgetAssumption, OperationAssumption
       DEF BeginOperation, Operation, Operations, CommandKinds
  <2> QED
    BY <1>1, <1>2, <2>1, NothingTyped DEF WellFormed, Events, NoEvent, CommandKinds
<1>4. PICK o \in CommitOutcomes :
        /\ Commit(i, e, NoObservation, o)
        /\ app' = [app EXCEPT ![i] = IF Granted(o) THEN x ELSE Idle]
  BY DEF Begin
<1>5. UNCHANGED <<clock, work, output, stored, deliveries>>
  BY DEF Begin, Quiet, runner
<1> HIDE DEF e
<1>6. /\ JInv' /\ JournalMoves /\ ReceiptsInert'
      /\ o = "applied" => InputApplied(r, e, NoObservation, "direct", clock)
  BY <1>1, <1>2, <1>3, <1>4, <1>5, CommitMoves, NothingTyped DEF Truthful, CallInv
<1>7. CASE o # "applied"
  BY <1>4, <1>5, <1>6, <1>7, Finish DEF Granted
<1>8. CASE o = "applied"
  <2>1. /\ x \in Calls /\ x.pc = "granted" /\ x.request = r /\ x.command = app[i].command
        /\ x.loaded = s /\ x.about = app[i].about /\ x.capture = app[i].capture
    BY <1>1, GotoTyped DEF Calls, AdvancePcs
  <2>2. app' = [app EXCEPT ![i] = x]
    BY <1>4, <1>8 DEF Granted
  <2>3. clock \in Instants
    BY <1>6, <1>8 DEF CallInv, AppTyped, InputApplied, Receipt, Instants
  <2>4. /\ Admits(executions[r], executions'[r]) /\ executions'[r].attempt.id = AttemptOf(i)
        /\ AttemptOf(i) \notin attemptKeys
    BY <1>1, <1>3, <1>6, <1>8, <2>3, AppliedFacts, NothingTyped DEF CallInv
  <2>5. AttemptOf(i) \in attemptKeys'
    BY <1>3, <1>6, <1>8 DEF InputApplied
  <2>6. deliveries[AttemptOf(i)] = 0
    BY <1>2, <2>4 DEF CallInv, World, DeliveredOnce
  <2> HIDE DEF x
  <2>7. app'[i] = x
    BY <2>2 DEF CallInv, AppTyped
  <2>8. HolderTrue(i)'
    BY <1>5, <2>1, <2>4, <2>5, <2>6, <2>7 DEF HolderTrue, AttemptOf, Admits
  <2>9. CallTrue(i)'
    <3>1. CallTrue(i) /\ app[i].pc \in AdvancePcs /\ x.pc \in AdvancePcs
          /\ x.pc \notin ReconcilePcs /\ x.pc \notin CapturedPcs
      BY <1>1, <2>1 DEF CallInv, AdvancePcs, ReconcilePcs, CapturedPcs
    <3> QED
      BY <1>1, <1>5, <1>6, <2>1, <2>7, <3>1 DEF CallTrue, JournalMoves
  <2> QED
    BY <1>5, <1>6, <2>1, <2>2, <2>4, <2>8, <2>9, CallStep DEF AttemptOf
<1> QED
  BY <1>7, <1>8

(* The result of the delivery is written at the revision that was read.      *)
LEMMA ReportKeeps ==
  ASSUME CallInv, NEW i \in Instances, Report(i)
  PROVE  CallInv'
<1> DEFINE cause == app[i].note
           kind == IF cause = "none" THEN "dispatched" ELSE "unconfirmed"
           d == [Stage(i, kind, AttemptOf(i), 0) EXCEPT
                  !.id = Operation("dispatchResult", app[i].request, AttemptOf(i), 0, app[i].loaded.revision)]
           e == [d EXCEPT !.attempt = AttemptOf(i), !.note = cause]
<1>1. /\ app[i].pc = "report" /\ app[i].command \in Commands /\ app[i].request \in Requests
      /\ cause \in DeliveryCauses \cup {"none"}
  BY DEF Report, CallInv, CallTrue, AdvancePcs, JInv, TypeOK
<1>2. AttemptOf(i) \in AttemptIds
  BY <1>1, JournalAssumption DEF AttemptOf
<1>3. d \in Events /\ d.kind = kind
  <2>1. kind \in CommandKinds /\ app[i].pc # "idle" /\ 0 \in Bytes
    BY <1>1, NothingTyped DEF CommandKinds
  <2> HIDE DEF kind
  <2>2. d \in Events
    BY <1>2, <2>1, EventTyped
  <2>3. d.kind = kind
    BY DEF Stage, NoEvent
  <2> QED
    BY <2>2, <2>3
<1> HIDE DEF d
<1>4. WellFormed(e) /\ e.kind = kind
  BY <1>1, <1>2, <1>3, OperationAssumption DEF WellFormed, Events
<1>5. PICK o \in CommitOutcomes : Commit(i, e, NoObservation, o)
  BY DEF Report, d, Stage, NoEvent
<1>6. Quiet /\ app' = [app EXCEPT ![i] = Idle]
  BY DEF Report
<1> HIDE DEF e, kind
<1>7. "reload" = "reload" /\ app[i].pc \in AdvancePcs /\ e.kind \notin {"begin", "observe"}
  BY <1>1, <1>4 DEF kind, AdvancePcs
<1> QED
  BY <1>1, <1>4, <1>5, <1>6, <1>7, Written

-----------------------------------------------------------------------------
(* Steps of the runner. *)

(* Work that goes on keeps the world true: an end is final, and only work of *)
(* the current attempt may start.                                            *)
LEMMA WorkMoves ==
  ASSUME CallInv, UNCHANGED <<journal, receipts, stored>>, DeliveredOnce',
         \A a \in AttemptIds : work[a] \in Over => work'[a] = work[a],
         \A r \in Requests, c \in Commands : work'[<<r, c>>] \in Live \cup {"lost"} =>
           \/ work[<<r, c>>] \in Live \cup {"lost"}
           \/ /\ HasAttempt(executions[r]) /\ executions[r].attempt.id = <<r, c>>
              /\ ~Terminated(executions[r])
  PROVE  /\ JInv' /\ World'
         /\ \A j \in Instances : app'[j] = app[j] => CallTrue(j)'
<1>1. JInv' /\ UNCHANGED <<opened, executions, attemptKeys>>
  BY DEF journal, CallInv, JInv, TypeOK, ValidExecutions, SlotsHeld, AnswersHeld, AttemptsKnown,
     ClaimsMatchWork, MayBeWorking
<1>2. ReceiptsInert' /\ StoredTrue'
  BY DEF CallInv, World, ReceiptsInert, StoredTrue
<1>3. ASSUME NEW r \in Requests PROVE EndTrue(r)' /\ LiveIsCurrent(r)'
  <2>1. EndTrue(r) /\ LiveIsCurrent(r)
    BY DEF CallInv, World
  <2>2. HasAttempt(executions[r]) => executions[r].attempt.id \in AttemptIds
    BY JournalAssumption DEF CallInv, JInv, AttemptsKnown
  <2>3. EndTrue(r)'
    BY <1>1, <2>1, <2>2 DEF EndTrue, Over
  <2>4. LiveIsCurrent(r)'
    BY <1>1, <2>1 DEF LiveIsCurrent
  <2> QED
    BY <2>3, <2>4
<1>4. ASSUME NEW j \in Instances, app'[j] = app[j] PROVE CallTrue(j)'
  <2>1. CallTrue(j)
    BY DEF CallInv
  <2> QED
    BY <1>1, <1>4, <2>1 DEF CallTrue
<1> QED
  BY <1>1, <1>2, <1>3, <1>4 DEF World

(* RunnerPort::dispatch is called once, for an attempt nothing works for.    *)
LEMMA DeliverKeeps ==
  ASSUME CallInv, NEW i \in Instances, Deliver(i)
  PROVE  CallInv'
<1> DEFINE a == AttemptOf(i)
<1>1. /\ app[i].pc = "deliver" /\ Holds(i)
      /\ deliveries' = [deliveries EXCEPT ![a] = @ + 1]
      /\ UNCHANGED <<journal, receipts, clock, output, stored>>
  BY DEF Deliver, Holds
<1>2. /\ a \in attemptKeys /\ deliveries[a] = 0 /\ a = <<app[i].request, app[i].command>>
      /\ HasAttempt(executions[app[i].request]) /\ executions[app[i].request].attempt.id = a
      /\ ~Terminated(executions[app[i].request]) /\ app[i].request \in Requests
      /\ app[i].command \in Commands /\ a \in AttemptIds
  BY <1>1, JournalAssumption DEF CallInv, HolderTrue, CallTrue, AttemptOf, JInv, TypeOK, AdvancePcs
<1>3. work[a] = "absent"
  BY <1>2 DEF CallInv, World, DeliveredOnce
<1>4. PICK n \in DeliveryCauses \cup {"none"} :
        /\ app' = [app EXCEPT ![i] = [Goto(i, "report") EXCEPT !.note = n]]
        /\ \/ \E w \in {"preparing", "notStarted"} : work' = [work EXCEPT ![a] = w]
           \/ work' = work
  BY DEF Deliver, DeliveryCauses
<1> DEFINE x == [Goto(i, "report") EXCEPT !.note = n]
<1>5. /\ x \in Calls /\ x.pc = "report" /\ x.note = n /\ x.request = app[i].request
      /\ x.command = app[i].command /\ x.loaded = app[i].loaded /\ x.about = app[i].about
      /\ x.capture = app[i].capture
  BY GotoTyped DEF Calls, AdvancePcs
<1>6. app' = [app EXCEPT ![i] = x]
  BY <1>4
<1> HIDE DEF x
<1>7. /\ app'[i] = x /\ \A j \in Instances : j # i => app'[j] = app[j]
      /\ app' \in [Instances -> Calls]
  BY <1>5, <1>6 DEF CallInv, AppTyped
<1>8. /\ work' \in [AttemptIds -> WorkStates] /\ deliveries' \in [AttemptIds -> Nat]
      /\ \A b \in AttemptIds : b # a => work'[b] = work[b] /\ deliveries'[b] = deliveries[b]
      /\ deliveries'[a] = 1
  BY <1>1, <1>2, <1>4 DEF CallInv, AppTyped, WorkStates, Live, Finished
<1> HIDE DEF a
<1>9. DeliveredOnce'
  BY <1>1, <1>2, <1>8 DEF CallInv, World, DeliveredOnce, journal
<1>10. /\ JInv' /\ World' /\ \A j \in Instances : j # i => CallTrue(j)'
  <2>1. \A b \in AttemptIds : work[b] \in Over => work'[b] = work[b]
    BY <1>3, <1>8 DEF Over
  <2>2. ASSUME NEW r \in Requests, NEW c \in Commands, work'[<<r, c>>] \in Live \cup {"lost"}
        PROVE  \/ work[<<r, c>>] \in Live \cup {"lost"}
               \/ /\ HasAttempt(executions[r]) /\ executions[r].attempt.id = <<r, c>>
                  /\ ~Terminated(executions[r])
    <3>1. CASE <<r, c>> = a
      BY <1>2, <3>1
    <3>2. CASE <<r, c>> # a
      <4>1. <<r, c>> \in AttemptIds
        BY JournalAssumption
      <4> QED
        BY <1>8, <2>2, <3>2, <4>1
    <3> QED
      BY <3>1, <3>2
  <2> QED
    BY <1>1, <1>7, <1>9, <2>1, <2>2, WorkMoves
<1>11. CallTrue(i)'
  <2>1. CallTrue(i) /\ UNCHANGED <<opened, executions>>
    BY <1>1 DEF CallInv, journal
  <2>2. \A b \in AttemptIds : work[b] \in Over => work'[b] = work[b]
    BY <1>3, <1>8 DEF Over
  <2> QED
    BY <1>1, <1>5, <1>7, <2>1, <2>2 DEF CallTrue, AdvancePcs, ReconcilePcs, CapturedPcs
<1>12. ASSUME NEW j \in Instances PROVE HolderTrue(j)'
  <2>1. CASE j = i
    BY <1>5, <1>7, <2>1 DEF HolderTrue, Holds
  <2>2. CASE j # i /\ Holds(j)
    <3>1. AttemptOf(j) # a /\ HolderTrue(j) /\ AttemptOf(j) \in AttemptIds
      BY <1>1, <2>2 DEF CallInv, OneHolder, a, HolderTrue, JInv, TypeOK
    <3>2. deliveries'[AttemptOf(j)] = deliveries[AttemptOf(j)] /\ UNCHANGED <<executions, attemptKeys>>
      BY <1>1, <1>8, <3>1 DEF journal
    <3> QED
      BY <1>7, <2>2, <3>1, <3>2 DEF HolderTrue, Holds, AttemptOf
  <2>3. CASE j # i /\ ~Holds(j)
    BY <1>7, <2>3 DEF HolderTrue, Holds
  <2> QED
    BY <2>1, <2>2, <2>3
<1>13. OneHolder'
  BY <1>5, <1>7 DEF CallInv, OneHolder, Holds, AttemptOf
<1>14. AppTyped'
  BY <1>1, <1>7, <1>8 DEF CallInv, AppTyped
<1> QED
  BY <1>10, <1>11, <1>12, <1>13, <1>14 DEF CallInv

(* The runner's own steps: work that was delivered goes on, and no call      *)
(* notices.                                                                  *)
LEMMA RunnerKeeps ==
  ASSUME CallInv, NEW a \in AttemptIds,
         \/ \E how \in {"running", "notStarted"} : Launch(a, how)
         \/ Write(a)
         \/ \E how \in {"exited", "killed", "lost"} : End(a, how)
  PROVE  CallInv'
<1>1. UNCHANGED <<journal, receipts, app, clock, stored, deliveries>>
  BY DEF Launch, Write, End
<1>2. /\ output' \in [AttemptIds -> Bytes] /\ work' \in [AttemptIds -> WorkStates]
      /\ \A b \in AttemptIds : work'[b] # work[b] => work[b] \in Live /\ work'[b] # "absent"
  BY NothingTyped DEF CallInv, AppTyped, Launch, Write, End, WorkStates, Live, Finished
<1>3. AppTyped'
  BY <1>1, <1>2 DEF CallInv, AppTyped
<1>4. DeliveredOnce'
  BY <1>1, <1>2 DEF CallInv, World, DeliveredOnce, Live, journal
<1>5. JInv' /\ World' /\ \A j \in Instances : CallTrue(j)'
  <2>1. \A b \in AttemptIds : work[b] \in Over => work'[b] = work[b]
    BY <1>2 DEF Over, Live
  <2>2. \A r \in Requests, c \in Commands : work'[<<r, c>>] \in Live \cup {"lost"} =>
          work[<<r, c>>] \in Live \cup {"lost"}
    BY <1>2, JournalAssumption
  <2> QED
    BY <1>1, <1>4, <2>1, <2>2, WorkMoves
<1>6. OneHolder' /\ \A j \in Instances : HolderTrue(j)'
  BY <1>1 DEF CallInv, OneHolder, HolderTrue, Holds, AttemptOf, journal
<1> QED
  BY <1>3, <1>5, <1>6 DEF CallInv

(* The service dies: every call and every grant is gone, and what was being  *)
(* prepared never starts.                                                    *)
LEMMA DieKeeps ==
  ASSUME CallInv, Die
  PROVE  CallInv'
<1>1. /\ UNCHANGED <<journal, receipts, clock, output, deliveries, stored>>
      /\ app' = [i \in Instances |-> Idle]
  BY DEF Die
<1>2. PICK survivors \in SUBSET {a \in AttemptIds : work[a] = "running"} :
        work' = [a \in AttemptIds |->
                   IF work[a] = "preparing" THEN "notStarted"
                   ELSE IF work[a] = "running" /\ a \notin survivors THEN "killed"
                   ELSE work[a]]
  BY DEF Die
<1>3. /\ work' \in [AttemptIds -> WorkStates]
      /\ \A b \in AttemptIds : work'[b] # work[b] =>
           work[b] \in Live /\ work'[b] \in {"notStarted", "killed"}
  BY <1>2 DEF CallInv, AppTyped, WorkStates, Live, Finished
<1>4. AppTyped'
  BY <1>1, <1>3, IdleTyped DEF CallInv, AppTyped
<1>5. DeliveredOnce'
  BY <1>1, <1>3 DEF CallInv, World, DeliveredOnce, Live, journal
<1>6. JInv' /\ World'
  <2>1. \A b \in AttemptIds : work[b] \in Over => work'[b] = work[b]
    BY <1>3 DEF Over, Live
  <2>2. \A r \in Requests, c \in Commands : work'[<<r, c>>] \in Live \cup {"lost"} =>
          work[<<r, c>>] \in Live \cup {"lost"}
    BY <1>3, JournalAssumption DEF Live
  <2> QED
    BY <1>1, <1>5, <2>1, <2>2, WorkMoves
<1>7. \A i \in Instances : app'[i] = Idle /\ ~Holds(i)'
  BY <1>1, IdleTyped DEF Holds
<1>8. OneHolder' /\ \A i \in Instances : CallTrue(i)' /\ HolderTrue(i)'
  BY <1>7, IdleTyped DEF OneHolder, CallTrue, HolderTrue
<1> QED
  BY <1>4, <1>6, <1>8 DEF CallInv

(* Time passes, a call is lost, or a plan is registered.                     *)
LEMMA OtherKeeps ==
  ASSUME CallInv,
         \/ Tick
         \/ \E i \in Instances : Fail(i)
         \/ \E r \in Requests : Register(r)
  PROVE  CallInv'
<1>1. CASE Tick
  <2>1. clock' \in Times /\ UNCHANGED <<journal, receipts, app, work, output, stored, deliveries>>
    BY <1>1 DEF Tick, runner
  <2>2. JInv' /\ JournalMoves /\ ReceiptsInert' /\ StoredTrue'
    BY <2>1, Unmoved DEF CallInv, World, ReceiptsInert, StoredTrue
  <2>3. World' /\ \A i \in Instances : CallTrue(i)' /\ HolderTrue(i)'
    BY <2>1, <2>2, MovesKeep
  <2>4. AppTyped' /\ OneHolder'
    BY <2>1 DEF CallInv, AppTyped, OneHolder, Holds, AttemptOf
  <2> QED
    BY <2>2, <2>3, <2>4 DEF CallInv
<1>2. ASSUME NEW i \in Instances, Fail(i) PROVE CallInv'
  BY <1>2, Stays, Finish DEF Fail, runner
<1>3. ASSUME NEW r \in Requests, Register(r) PROVE CallInv'
  <2>1. /\ OpenExecution(r, clock)
        /\ UNCHANGED <<receipts, app, clock, work, output, stored, deliveries>>
    BY <1>3 DEF Register, Quiet, runner
  <2>2. JInv' /\ JournalMoves /\ ReceiptsInert' /\ StoredTrue'
    BY <2>1, OpenMoves DEF CallInv, World, ReceiptsInert, StoredTrue
  <2>3. World' /\ \A i \in Instances : CallTrue(i)' /\ HolderTrue(i)'
    BY <2>1, <2>2, MovesKeep
  <2>4. AppTyped' /\ OneHolder'
    BY <2>1 DEF CallInv, AppTyped, OneHolder, Holds, AttemptOf
  <2> QED
    BY <2>2, <2>3, <2>4 DEF CallInv
<1> QED
  BY <1>1, <1>2, <1>3

-----------------------------------------------------------------------------
(* cancel and reconcile. *)

(* A try of cancel.                                                          *)
LEMMA CancelKeeps ==
  ASSUME CallInv, NEW i \in Instances, CancelStep(i)
  PROVE  CallInv'
<1>1. ASSUME NEW r \in Requests, Cancel(i, r) PROVE CallInv'
  <2> DEFINE x == [Idle EXCEPT !.pc = "cancel", !.request = r, !.loaded = executions[r]]
  <2>1. r \in opened /\ executions[r] \in Snapshot
    BY <1>1 DEF Cancel, CallInv, JInv, TypeOK
  <2>2. /\ x \in Calls /\ x.pc = "cancel" /\ x.request = r
        /\ x.loaded = executions[r] /\ x.capture = NoCapture
    BY <2>1, IdleTyped DEF Idle, Calls
  <2>3. Local(i, x)
    BY <1>1 DEF Cancel
  <2> HIDE DEF x
  <2> QED
    BY <2>1, <2>2, <2>3, NewCall
<1>2. CASE CommitCancel(i)
  <2> DEFINE d == Stage(i, "cancel", NoId, 0)
             e == [d EXCEPT !.attempt = NoId]
  <2>1. app[i].pc = "cancel" /\ Quiet /\ app' = [app EXCEPT ![i] = Idle]
    BY <1>2 DEF CommitCancel
  <2>2. "cancel" \in CommandKinds /\ app[i].pc # "idle" /\ 0 \in Bytes
    BY <2>1, NothingTyped DEF CommandKinds
  <2>3. d \in Events /\ d.kind = "cancel" /\ app[i].request \in Requests
    BY <2>2, StageTyped
  <2>4. PICK o \in CommitOutcomes : Commit(i, e, NoObservation, o)
    BY <1>2 DEF CommitCancel
  <2> HIDE DEF d
  <2>5. WellFormed(e) /\ e.kind = "cancel"
    BY <2>3 DEF WellFormed, Events
  <2> HIDE DEF e
  <2>6. JInv' /\ JournalMoves /\ ReceiptsInert'
    BY <2>1, <2>3, <2>4, <2>5, CommitMoves, NothingTyped DEF CallInv, Truthful, Quiet, runner
  <2> QED
    BY <2>1, <2>6, Finish DEF Quiet, runner
<1> QED
  BY <1>1, <1>2 DEF CancelStep

(* A reconcile begins with a snapshot that has an attempt, and captures what *)
(* the runner holds of it, or what was stored.                               *)
LEMMA CaptureKeeps ==
  ASSUME CallInv, Remembered, NEW i \in Instances,
         (\E r \in Requests : Reconcile(i, r)) \/ Capture(i)
  PROVE  CallInv'
<1>1. ASSUME NEW r \in Requests, Reconcile(i, r) PROVE CallInv'
  <2> DEFINE x == [Idle EXCEPT !.pc = "capture", !.request = r, !.loaded = executions[r]]
  <2>1. r \in opened /\ executions[r] \in Snapshot /\ HasAttempt(executions[r])
    BY <1>1 DEF Reconcile, CallInv, JInv, TypeOK
  <2>2. /\ x \in Calls /\ x.pc = "capture" /\ x.request = r
        /\ x.loaded = executions[r] /\ x.capture = NoCapture
    BY <2>1, IdleTyped DEF Idle, Calls, ReconcilePcs
  <2>3. Local(i, x)
    BY <1>1 DEF Reconcile
  <2> HIDE DEF x
  <2> QED
    BY <2>1, <2>2, <2>3, NewCall
<1>2. CASE Capture(i)
  <2> DEFINE a == app[i].loaded.attempt.id
             facts == IF a \in records THEN [state |-> work[a], output |-> output[a]] ELSE stored[a]
             x == [app[i] EXCEPT !.pc = IF facts = NoCapture THEN "decide" ELSE "save",
                                 !.about = a, !.live = (a \in records), !.capture = facts]
  <2>1. app[i].pc = "capture" /\ Local(i, x) /\ app[i] \in Calls /\ CallTrue(i)
    BY <1>2 DEF Capture, CallInv, AppTyped
  <2>2. /\ a \in AttemptIds /\ app[i].request \in opened /\ app[i].request \in Requests
        /\ Validate(app[i].loaded) /\ HasAttempt(app[i].loaded)
        /\ a \in {app[i].request} \X Commands
        /\ HasAttempt(executions[app[i].request])
    BY <2>1, JournalAssumption DEF CallTrue, ReconcilePcs, CallInv, JInv, TypeOK
  <2>3. facts \in Captures /\ (facts.state \in Over => work[a] = facts.state)
    <3>1. CASE a \in records
      <4>1. work[a] \in WorkStates /\ work[a] # "absent" /\ output[a] \in Bytes
        BY <2>2, <3>1 DEF CallInv, AppTyped, Remembered
      <4> QED
        BY <3>1, <4>1 DEF Captures, WorkStates
    <3>2. CASE a \notin records
      BY <2>2, <3>2 DEF CallInv, AppTyped, World, StoredTrue
    <3> QED
      BY <3>1, <3>2
  <2> HIDE DEF facts
  <2>4. /\ x \in Calls /\ x.pc \in {"decide", "save"} /\ x.request = app[i].request
        /\ x.loaded = app[i].loaded /\ x.about = a /\ x.capture = facts
    <3>1. {"decide", "save"} \subseteq ReconcilePcs
      BY DEF ReconcilePcs, CapturedPcs
    <3> DEFINE pc == IF facts = NoCapture THEN "decide" ELSE "save"
               live == a \in records
    <3>2. pc \in {"decide", "save"} /\ live \in BOOLEAN
      OBVIOUS
    <3>3. x = [app[i] EXCEPT !.pc = pc, !.about = a, !.live = live, !.capture = facts]
      OBVIOUS
    <3> HIDE DEF pc, live, x
    <3> QED
      BY <2>1, <2>2, <2>3, <3>1, <3>2, <3>3 DEF Calls
  <2> HIDE DEF x
  <2>5. /\ app' = [app EXCEPT ![i] = x]
        /\ UNCHANGED <<journal, receipts, clock, work, output, stored, deliveries, opened, executions>>
    BY <2>1 DEF Local, runner, journal
  <2>6. app'[i] = x
    BY <2>5 DEF CallInv, AppTyped
  <2>7. CallTrue(i)' /\ HolderTrue(i)'
    <3>1. x.pc \in CapturedPcs /\ x.pc \notin AdvancePcs /\ x.pc \notin {"report", "stopReport"}
      BY <2>4 DEF CapturedPcs, AdvancePcs
    <3> QED
      BY <2>2, <2>3, <2>4, <2>5, <2>6, <3>1 DEF CallTrue, HolderTrue, Holds
  <2> QED
    BY <2>4, <2>5, <2>7, Stays, CallStep
<1> QED
  BY <1>1, <1>2

(* record_process stores facts that are true.                                *)
LEMMA SaveKeeps ==
  ASSUME CallInv, NEW i \in Instances, Save(i)
  PROVE  CallInv'
<1> DEFINE facts == app[i].capture
           pc == IF ~Terminated(app[i].loaded) /\ facts.output > app[i].loaded.attempt.output
                 THEN "output" ELSE IF facts.state \in Finished THEN "acknowledge" ELSE "decide"
           x == Goto(i, pc)
<1>1. /\ app[i].pc = "save" /\ app[i] \in Calls /\ CallTrue(i) /\ app[i].about \in AttemptIds
      /\ facts \in Captures
      /\ UNCHANGED <<journal, receipts, clock, work, output, deliveries, opened, executions>>
  BY DEF Save, CallInv, AppTyped, Calls, CallTrue, CapturedPcs, runner, journal
<1>2. CASE ~Recordable(i)
  BY <1>1, <1>2, Stays, Finish DEF Save
<1>3. CASE Recordable(i)
  <2>1. stored' = [stored EXCEPT ![app[i].about] = facts] /\ app' = [app EXCEPT ![i] = x]
    BY <1>3 DEF Save
  <2>2. pc \in {"output", "acknowledge", "decide"}
    OBVIOUS
  <2> HIDE DEF pc
  <2>3. /\ pc \in CapturedPcs /\ pc \in ReconcilePcs /\ pc \notin AdvancePcs
        /\ app[i].pc \in CapturedPcs /\ app[i].pc \in ReconcilePcs
    BY <1>1, <2>2 DEF CapturedPcs, ReconcilePcs, AdvancePcs
  <2>4. /\ x \in Calls /\ x.pc = pc /\ x.request = app[i].request /\ x.loaded = app[i].loaded
        /\ x.about = app[i].about /\ x.capture = facts
    BY <2>3, GotoTyped
  <2> HIDE DEF x
  <2>5. app'[i] = x
    BY <2>1 DEF CallInv, AppTyped
  <2>6. CallTrue(i)' /\ HolderTrue(i)'
    BY <1>1, <2>2, <2>3, <2>4, <2>5 DEF CallTrue, HolderTrue, Holds
  <2>7. stored' \in [AttemptIds -> Captures] /\ StoredTrue'
    <3>1. facts.state \in Over => work[app[i].about] = facts.state
      BY <1>1 DEF CallTrue
    <3> HIDE DEF facts
    <3> QED
      BY <1>1, <2>1, <3>1 DEF CallInv, AppTyped, World, StoredTrue
  <2>8. JInv' /\ JournalMoves /\ ReceiptsInert'
    BY <1>1, Unmoved DEF CallInv, World, ReceiptsInert
  <2> QED
    BY <1>1, <2>1, <2>2, <2>4, <2>6, <2>7, <2>8, StoringStep
<1> QED
  BY <1>2, <1>3

(* The steps of a reconcile that write nothing.                              *)
LEMMA ReconcileLocal ==
  ASSUME CallInv, NEW i \in Instances,
         \/ ReloadCapture(i) \/ Acknowledge(i) \/ Stop(i) \/ NoStop(i) \/ ReloadStop(i)
         \/ NothingToDo(i)
  PROVE  CallInv'
<1>1. ASSUME NEW pc \in {"decide", "observe", "reloadStop", "stopReport"}, NEW n,
             NEW x, x \in {Goto(i, pc), [Goto(i, pc) EXCEPT !.note = n]},
             pc = "stopReport" => x.note \in StopAnswers, n \in StopAnswers,
             app[i].pc \in {"acknowledge", "decide"}, app' = [app EXCEPT ![i] = x],
             UNCHANGED <<journal, receipts, clock, work, output, stored, deliveries>>
      PROVE  CallInv'
  <2>1. /\ pc \in CapturedPcs /\ pc \in ReconcilePcs /\ pc \notin AdvancePcs
        /\ app[i].pc \in CapturedPcs /\ app[i].pc \in ReconcilePcs /\ app[i].pc # "idle"
        /\ pc \notin {"report", "granted", "deliver"}
    BY <1>1 DEF CapturedPcs, ReconcilePcs, AdvancePcs
  <2>2. /\ x \in Calls /\ x.pc = pc /\ x.request = app[i].request /\ x.command = app[i].command
        /\ x.loaded = app[i].loaded /\ x.about = app[i].about /\ x.capture = app[i].capture
    BY <1>1, <2>1, GotoTyped DEF Calls
  <2> QED
    BY <1>1, <2>1, <2>2, Moved
<1>2. CASE Acknowledge(i)
  BY <1>1, <1>2 DEF Acknowledge, StopAnswers
<1>3. CASE NoStop(i)
  BY <1>1, <1>3 DEF NoStop, Local, runner, StopAnswers
<1>4. CASE Stop(i)
  <2> DEFINE answer == IF app[i].loaded.attempt.id \in records THEN "acknowledged" ELSE "failed"
             pc == IF app[i].loaded.attempt.stop = answer THEN "reloadStop" ELSE "stopReport"
             x == [Goto(i, pc) EXCEPT !.note = answer]
  <2>1. /\ app[i].pc = "decide" /\ app' = [app EXCEPT ![i] = x]
        /\ UNCHANGED <<journal, receipts, clock, work, output, stored, deliveries>>
    BY <1>4 DEF Stop
  <2>2. answer \in StopAnswers /\ pc \in {"reloadStop", "stopReport"}
    BY DEF StopAnswers
  <2> HIDE DEF answer, pc
  <2>3. x.note = answer
    BY <2>2, GotoTyped DEF Calls, ReconcilePcs, CapturedPcs
  <2> QED
    BY <1>1, <2>1, <2>2, <2>3
<1>5. CASE ReloadCapture(i) \/ ReloadStop(i)
  <2>1. app[i].pc \in CapturedPcs
    BY <1>5 DEF ReloadCapture, ReloadStop, CapturedPcs
  <2> QED
    BY <1>5, <2>1, Loaded DEF ReloadCapture, ReloadStop
<1>6. CASE NothingToDo(i)
  BY <1>6, LocalEnd DEF NothingToDo
<1> QED
  BY <1>2, <1>3, <1>4, <1>5, <1>6

(* Output, the report of a stop and the mark of uncertainty.                 *)
LEMMA ReconcileWrites ==
  ASSUME CallInv, NEW i \in Instances, ChargeOutput(i) \/ StopReport(i) \/ Recover(i)
  PROVE  CallInv'
<1>1. app[i] \in Calls /\ CallTrue(i) /\ 0 \in Bytes
  BY NothingTyped DEF CallInv, AppTyped
<1>2. CASE ChargeOutput(i)
  <2> DEFINE e == Stage(i, "output", NoId, app[i].capture.output)
  <2>1. PICK o \in CommitOutcomes :
          /\ Commit(i, e, NoObservation, o)
          /\ app' = [app EXCEPT ![i] =
                       IF o \in {"applied", "changed"} THEN Goto(i, "reloadCapture") ELSE Idle]
    BY <1>2 DEF ChargeOutput
  <2>2. app[i].pc = "output" /\ app[i].pc \in CapturedPcs /\ Quiet /\ "output" \in CommandKinds
        /\ app[i].capture.output \in Bytes
    BY <1>1, <1>2 DEF ChargeOutput, CapturedPcs, CommandKinds, Calls, Captures
  <2>3. e \in Events /\ e.kind = "output"
    BY <2>2, StageTyped
  <2> DEFINE x == IF o \in {"applied", "changed"} THEN Goto(i, "reloadCapture") ELSE Idle
  <2>4. x \in {Idle, Goto(i, "reloadCapture")} /\ app' = [app EXCEPT ![i] = x]
    BY <2>1
  <2> HIDE DEF e, x
  <2>5. WellFormed(e) /\ app[i].pc # "idle" /\ e.kind \notin {"begin", "observe"}
    BY <2>2, <2>3 DEF WellFormed
  <2> QED
    BY <2>1, <2>2, <2>4, <2>5, Written
<1>3. CASE StopReport(i)
  <2> DEFINE d == Stage(i, "stopReported", app[i].loaded.attempt.id, 0)
             e == [d EXCEPT !.note = app[i].note]
  <2>1. PICK o \in CommitOutcomes :
          Commit(i, e, NoObservation, o) /\ app' = [app EXCEPT ![i] = AfterStopReport(i, o)]
    BY <1>3 DEF StopReport
  <2>2. /\ app[i].pc = "stopReport" /\ app[i].pc \in CapturedPcs /\ Quiet
        /\ "stopReported" \in CommandKinds /\ app[i].loaded.attempt.id \in AttemptIds \cup {NoId}
        /\ app[i].note \in StopAnswers
    BY <1>1, <1>3 DEF StopReport, CapturedPcs, CommandKinds, Calls, Snapshot, AttemptSnapshot, CallTrue
  <2>3. d \in Events /\ d.kind = "stopReported"
    BY <1>1, <2>2, StageTyped
  <2> HIDE DEF d
  <2>4. WellFormed(e) /\ e.kind = "stopReported"
    BY <2>2, <2>3, OperationAssumption DEF WellFormed, Events
  <2> HIDE DEF e
  <2> DEFINE x == Goto(i, "reloadStop")
  <2>5. /\ x \in {Idle, Goto(i, "reloadStop")} /\ app' = [app EXCEPT ![i] = x]
        /\ app[i].pc # "idle" /\ e.kind \notin {"begin", "observe"}
    BY <2>1, <2>2, <2>4 DEF AfterStopReport
  <2> HIDE DEF x
  <2> QED
    BY <2>1, <2>2, <2>4, <2>5, Written
<1>4. CASE Recover(i)
  <2> DEFINE e == Stage(i, "recover", app[i].loaded.attempt.id, 0)
  <2>1. PICK o \in CommitOutcomes : Commit(i, e, NoObservation, o)
    BY <1>4 DEF Recover
  <2>2. /\ app[i].pc = "observe" /\ app[i].pc \in CapturedPcs /\ Quiet
        /\ "recover" \in CommandKinds /\ app[i].loaded.attempt.id \in AttemptIds \cup {NoId}
        /\ app' = [app EXCEPT ![i] = Idle]
    BY <1>1, <1>4 DEF Recover, CapturedPcs, CommandKinds, Calls, Snapshot, AttemptSnapshot
  <2>3. e \in Events /\ e.kind = "recover"
    BY <1>1, <2>2, StageTyped
  <2> HIDE DEF e
  <2>4. WellFormed(e) /\ app[i].pc # "idle" /\ e.kind \notin {"begin", "observe"}
    BY <2>2, <2>3 DEF WellFormed
  <2>5. Idle \in {Idle, Goto(i, "reloadStop")}
    OBVIOUS
  <2> QED
    BY <2>1, <2>2, <2>4, <2>5, Written
<1> QED
  BY <1>2, <1>3, <1>4

(* What is observed is typed evidence, and true of the attempt it names: the *)
(* runner answers about the loaded attempt, stored facts are those of the    *)
(* captured one.                                                             *)
LEMMA ObservedTrue ==
  ASSUME CallInv, NEW i \in Instances, app[i].pc = "observe", NEW x \in Observable(i)
  PROVE  /\ ObservedFact(i, x) \in RecordedObservation
         /\ ObservedFact(i, x).evidence \in EvidenceKinds
         /\ ObservedFact(i, x).runner \in Runners \cup {NoId}
         /\ x \in Terminations \cup Assessments
         /\ ObservedFact(i, x).kind \in Terminations =>
              LET about == IF FromRunner(i) THEN app[i].loaded.attempt.id ELSE app[i].about
              IN  \/ ObservedFact(i, x).kind = "exited" /\ work[about] = "exited"
                  \/ ObservedFact(i, x).kind = "neverDispatched" /\ work[about] = "notStarted"
<1> DEFINE s == app[i].loaded
           f == ObservedFact(i, x)
           about == IF FromRunner(i) THEN s.attempt.id ELSE app[i].about
<1>1. /\ app[i] \in Calls /\ CallTrue(i) /\ s \in Snapshot /\ s.attempt.id \in AttemptIds
      /\ s.attempt.runner \in Runners \cup {NoId} /\ s.attempt.output \in Bytes
      /\ app[i].capture.output \in Bytes /\ clock \in Nat
  <2>1. app[i] \in Calls /\ CallTrue(i) /\ clock \in Nat /\ opened \subseteq Requests
    BY JournalAssumption DEF CallInv, AppTyped, JInv, TypeOK
  <2>2. s \in Snapshot /\ app[i].capture.output \in Bytes
    BY <2>1 DEF Calls, Captures
  <2>3. s.attempt.runner \in Runners \cup {NoId} /\ s.attempt.output \in Bytes
    BY <2>2 DEF Snapshot, AttemptSnapshot
  <2>4. s.attempt.id \in AttemptIds
    BY <2>1, JournalAssumption DEF CallTrue, ReconcilePcs, CapturedPcs
  <2> QED
    BY <2>1, <2>2, <2>3, <2>4
<1>2. output[s.attempt.id] \in Bytes
  BY <1>1 DEF CallInv, AppTyped
<1>3. x \in Effects \/ x \in {"exited", "neverDispatched"}
  BY DEF Observable
<1>4. x \in Assessments \cup {"exited", "neverDispatched"}
  BY <1>3, AppAssumption
<1>5. /\ f.kind = (IF x \in Assessments THEN "effect" ELSE x)
      /\ f.evidence = (IF x = "exited" THEN "processExited" ELSE "stateObserved")
      /\ f.runner = s.attempt.runner
      /\ f \in RecordedObservation
  <2> DEFINE n == IF x # "exited" THEN 0
                  ELSE IF FromRunner(i) THEN output[s.attempt.id] ELSE app[i].capture.output
             g == Fact(s, x, clock)
  <2>1. n \in Bytes
    BY <1>1, <1>2, NothingTyped
  <2>2. f = [g EXCEPT !.output = n]
    BY DEF ObservedFact
  <2> HIDE DEF n, f
  <2>3. g \in RecordedObservation
    BY <1>1, <1>4 DEF Fact, RecordedObservation, Terminations, EvidenceKinds, Assessments
  <2> QED
    BY <2>1, <2>2, <2>3 DEF RecordedObservation, Fact
<1>6. ASSUME f.kind \in Terminations
      PROVE  \/ f.kind = "exited" /\ work[about] = "exited"
             \/ f.kind = "neverDispatched" /\ work[about] = "notStarted"
  <2> DEFINE state == IF FromRunner(i) THEN work[s.attempt.id] ELSE app[i].capture.state
  <2>1. x \notin Assessments /\ f.kind = x
    BY <1>5, <1>6 DEF Terminations
  <2>2. \/ x = "exited" /\ state = "exited"
        \/ x = "neverDispatched" /\ state = "notStarted"
    <3>1. x \notin Effects
      BY <2>1, AppAssumption
    <3>2. ~Terminated(s)
      BY <3>1 DEF Observable
    <3>3. Observable(i) = IF state = "exited" THEN {"exited"}
                          ELSE IF state = "notStarted" THEN {"neverDispatched"} ELSE {}
      BY <3>2 DEF Observable
    <3> HIDE DEF state
    <3> QED
      BY <3>3
  <2>3. state \in Over => work[about] = state
    BY <1>1 DEF CallTrue
  <2> HIDE DEF state, about, f
  <2> QED
    BY <2>1, <2>2, <2>3 DEF Over
<1>7. f.evidence \in EvidenceKinds /\ f.runner \in Runners \cup {NoId}
  BY <1>1, <1>5 DEF EvidenceKinds
<1> HIDE DEF f
<1> QED
  BY <1>4, <1>5, <1>6, <1>7 DEF f, Terminations

(* observe_and_record.                                                       *)
LEMMA ObserveKeeps ==
  ASSUME CallInv, NEW i \in Instances, Observe(i)
  PROVE  CallInv'
<1> DEFINE s == app[i].loaded
           about == IF FromRunner(i) THEN s.attempt.id ELSE app[i].about
<1>1. /\ app[i].pc = "observe" /\ app[i] \in Calls /\ CallTrue(i) /\ 0 \in Bytes
      /\ s.attempt.id \in AttemptIds \cup {NoId} /\ app[i].about \in AttemptIds \cup {NoId}
      /\ app[i].request \in Requests
  BY NothingTyped DEF Observe, CallInv, AppTyped, Calls, Snapshot, AttemptSnapshot, CallTrue, JInv, TypeOK
<1>2. PICK x \in Observable(i), o \in CommitOutcomes :
        Commit(i, [Stage(i, "observe", s.attempt.id, 0) EXCEPT
                     !.id = Operation(x, app[i].request, s.attempt.id, 0, s.revision),
                     !.attempt = about,
                     !.runner = ObservedFact(i, x).runner, !.note = ObservedFact(i, x).evidence],
               ObservedFact(i, x), o)
  BY DEF Observe
<1> DEFINE f == ObservedFact(i, x)
           d == [Stage(i, "observe", s.attempt.id, 0) EXCEPT
                   !.id = Operation(x, app[i].request, s.attempt.id, 0, s.revision)]
           e == [d EXCEPT !.attempt = about, !.runner = f.runner, !.note = f.evidence]
<1>3. /\ f \in RecordedObservation /\ f.evidence \in EvidenceKinds /\ f.runner \in Runners \cup {NoId}
      /\ x \in Terminations \cup Assessments
      /\ f.kind \in Terminations =>
           \/ f.kind = "exited" /\ work[about] = "exited"
           \/ f.kind = "neverDispatched" /\ work[about] = "notStarted"
  BY <1>1, ObservedTrue
<1>4. d \in Events
  BY <1>1, <1>3, EventTyped
<1>5. d.kind = "observe"
  BY DEF Stage, NoEvent
<1>6. Commit(i, e, f, o)
  BY <1>2 DEF Stage, NoEvent
<1>7. about \in AttemptIds \cup {NoId}
  BY <1>1
<1> HIDE DEF d, f, about
<1>8. WellFormed(e) /\ e.kind = "observe" /\ e.attempt = about
  BY <1>3, <1>4, <1>5, <1>7 DEF WellFormed, Events
<1> HIDE DEF e
<1>9. Truthful(e, f)
  BY <1>3, <1>8 DEF Truthful
<1>10. /\ app' = [app EXCEPT ![i] = Idle]
       /\ UNCHANGED <<clock, work, output, stored, deliveries>>
  BY DEF Observe, Quiet, runner
<1>11. JInv' /\ JournalMoves /\ ReceiptsInert'
  BY <1>1, <1>3, <1>6, <1>8, <1>9, <1>10, CommitMoves DEF CallInv
<1> QED
  BY <1>10, <1>11, Finish

-----------------------------------------------------------------------------
(* Every step. *)

(* The runner only remembers what it was asked to start.                     *)
LEMMA RememberedKeeps ==
  ASSUME IInv, AppNext
  PROVE  Remembered'
<1> SUFFICES ASSUME records' # records \/ work' # work PROVE Remembered'
  BY DEF IInv, Remembered
<1>1. work \in [AttemptIds -> WorkStates] /\ Remembered
  BY DEF IInv, CallInv, AppTyped
<1>2. ASSUME NEW i \in Instances, Deliver(i) PROVE Remembered'
  <2>1. AttemptOf(i) \in AttemptIds
    BY <1>2 DEF IInv, CallInv, HolderTrue, Holds, Deliver, JInv, TypeOK
  <2> QED
    BY <1>1, <1>2, <2>1 DEF Deliver, Remembered
<1>3. ASSUME NEW i \in Instances, Acknowledge(i) PROVE Remembered'
  BY <1>1, <1>3 DEF Acknowledge, Remembered
<1>4. CASE Die
  BY <1>4 DEF Die, Remembered
<1>5. ASSUME NEW a \in AttemptIds,
             \/ \E how \in {"running", "notStarted"} : Launch(a, how)
             \/ \E how \in {"exited", "killed", "lost"} : End(a, how)
      PROVE  Remembered'
  BY <1>1, <1>5 DEF Launch, End, Remembered
<1> QED
  BY <1>2, <1>3, <1>4, <1>5
     DEF AppNext, AdvanceStep, ReconcileStep, CancelStep, Instances, Register, Advance, LookUp,
         PrepareAttempt, Reload, CheckDirective, Begin, LoadForDispatch, Refuse, Report, Reconcile,
         Capture, Save, ChargeOutput, ReloadCapture, Stop, NoStop, StopReport, ReloadStop, Observe,
         Recover, NothingToDo, Cancel, CommitCancel, Write, Tick, Fail, Local, Load, Quiet, runner

(* Every step of the application keeps the invariant.                        *)
LEMMA AppKeeps ==
  ASSUME IInv, [AppNext]_vars
  PROVE  IInv'
<1>1. CallInv /\ Remembered
  BY DEF IInv
<1>2. CASE UNCHANGED vars
  <2>1. UNCHANGED <<journal, receipts, app, clock, work, output, records, stored, deliveries>>
    BY <1>2 DEF vars, runner
  <2>2. JInv' /\ JournalMoves /\ ReceiptsInert' /\ StoredTrue'
    BY <1>1, <2>1, Unmoved DEF CallInv, World, ReceiptsInert, StoredTrue
  <2>3. World' /\ \A i \in Instances : CallTrue(i)' /\ HolderTrue(i)'
    BY <1>1, <2>1, <2>2, MovesKeep
  <2>4. AppTyped' /\ OneHolder' /\ Remembered'
    BY <1>1, <2>1 DEF CallInv, AppTyped, OneHolder, Holds, AttemptOf, Remembered
  <2> QED
    BY <2>2, <2>3, <2>4 DEF IInv, CallInv
<1>3. CASE AppNext
  <2>1. ASSUME NEW i \in Instances, AdvanceStep(i) PROVE CallInv'
    BY <1>1, <2>1, AdvanceLocal, PrepareKeeps, BeginKeeps, DeliverKeeps, ReportKeeps DEF AdvanceStep
  <2>2. ASSUME NEW i \in Instances, ReconcileStep(i) PROVE CallInv'
    BY <1>1, <2>2, CaptureKeeps, SaveKeeps, ReconcileLocal, ReconcileWrites, ObserveKeeps DEF ReconcileStep
  <2>3. CallInv'
    BY <1>1, <1>3, <2>1, <2>2, CancelKeeps, RunnerKeeps, DieKeeps, OtherKeeps DEF AppNext, Instances
  <2> QED
    BY <1>3, <2>3, RememberedKeeps DEF IInv
<1> QED
  BY <1>2, <1>3

(* At the start nothing is open, nothing works and no call runs.             *)
LEMMA AppStarts == AppInit => IInv
<1> SUFFICES ASSUME AppInit PROVE IInv
  OBVIOUS
<1>1. JInv
  BY InitInvariant DEF AppInit
<1>2. /\ clock \in Times /\ receipts = {} /\ records = {}
      /\ app = [i \in Instances |-> Idle]
      /\ work = [a \in AttemptIds |-> "absent"] /\ output = [a \in AttemptIds |-> 0]
      /\ stored = [a \in AttemptIds |-> NoCapture] /\ deliveries = [a \in AttemptIds |-> 0]
  BY DEF AppInit
<1>3. AppTyped
  BY <1>2, IdleTyped, NothingTyped DEF AppTyped, WorkStates, NoCapture, Captures
<1>4. ReceiptsInert /\ DeliveredOnce /\ StoredTrue /\ Remembered
  BY <1>2 DEF ReceiptsInert, DeliveredOnce, StoredTrue, NoCapture, Over, Remembered
<1>5. ASSUME NEW r \in Requests PROVE EndTrue(r) /\ LiveIsCurrent(r)
  <2>1. ~HasAttempt(executions[r])
    BY <1>5 DEF AppInit, Init, HasAttempt, Open, NoAttempt
  <2>2. \A c \in Commands : work[<<r, c>>] \notin Live \cup {"lost"}
    BY <1>2, JournalAssumption DEF Live
  <2> QED
    BY <2>1, <2>2 DEF EndTrue, LiveIsCurrent
<1>6. \A i \in Instances : app[i] = Idle
  BY <1>2
<1>7. OneHolder /\ \A i \in Instances : CallTrue(i) /\ HolderTrue(i)
  BY <1>6, IdleTyped DEF OneHolder, Holds, CallTrue, HolderTrue
<1> QED
  BY <1>1, <1>3, <1>4, <1>5, <1>7 DEF IInv, CallInv, World

-----------------------------------------------------------------------------
(* Theorems *)

(* The invariant holds throughout, for every number of instances and faults. *)
THEOREM AppInvariant == AppSpec => []IInv
BY AppStarts, AppKeeps, PTL DEF AppSpec

(* The journal stays within its types and its limit under the application,   *)
(* and a resource is claimed by exactly the attempt that may work on it.     *)
THEOREM JournalHolds == AppSpec => [](TypeOK /\ ClaimsMatchWork)
<1>1. IInv => TypeOK /\ ClaimsMatchWork
  BY DEF IInv, CallInv, JInv
<1> QED
  BY <1>1, AppInvariant, PTL

(* However many instances race, replay, fail and restart: the runner is      *)
(* asked to start an attempt at most once, and only a durable one.           *)
THEOREM DeliveriesAreUnique == AppSpec => []AtMostOneDelivery
<1>1. IInv => AtMostOneDelivery
  BY DEF IInv, CallInv, AppTyped, World, DeliveredOnce, AtMostOneDelivery
<1> QED
  BY <1>1, AppInvariant, PTL

(* Work that may still run belongs to the current, unterminated attempt of   *)
(* its request, also after the runner lost its memory.                       *)
THEOREM OnlyCurrentWorkRuns == AppSpec => []RunningWorkIsCurrent
<1>1. IInv => RunningWorkIsCurrent
  BY DEF IInv, CallInv, World, LiveIsCurrent, RunningWorkIsCurrent
<1> QED
  BY <1>1, AppInvariant, PTL

(* A termination in the journal is what really became of the work.           *)
THEOREM TerminationsAreTrue == AppSpec => []TerminationIsTrue
<1>1. IInv => TerminationIsTrue
  <2> SUFFICES ASSUME IInv, NEW r \in Requests, HasAttempt(executions[r]), Terminated(executions[r])
               PROVE  IF executions[r].attempt.termination.kind = "neverDispatched"
                      THEN work[executions[r].attempt.id] = "notStarted"
                      ELSE work[executions[r].attempt.id] = "exited"
    BY DEF TerminationIsTrue
  <2>1. EndTrue(r)
    BY DEF IInv, CallInv, World
  <2> QED
    BY <2>1 DEF EndTrue
<1> QED
  BY <1>1, AppInvariant, PTL

(* Physical work of two attempts never touches the same exclusive resource.  *)
WorkExcludes ==
  \A q, r \in Requests, c, d \in Commands :
    /\ work[<<q, c>>] \in Live \cup {"lost"} /\ work[<<r, d>>] \in Live \cup {"lost"}
    /\ Needs[q] \cap Needs[r] # {}
    => <<q, c>> = <<r, d>>

(* What the journal claims is what happens: work that is prepared, runs or   *)
(* may still run shares no resource with any other, across requests,         *)
(* retries, crashes and restarts (resources.rs, RunnerPort).                 *)
THEOREM WorkIsExclusive == AppSpec => []WorkExcludes
<1>1. IInv => WorkExcludes
  <2> SUFFICES ASSUME IInv, NEW q \in Requests, NEW r \in Requests, NEW c \in Commands, NEW d \in Commands,
                      work[<<q, c>>] \in Live \cup {"lost"}, work[<<r, d>>] \in Live \cup {"lost"},
                      NEW k \in Needs[q] \cap Needs[r]
               PROVE  <<q, c>> = <<r, d>>
    BY DEF WorkExcludes
  <2>1. /\ HasAttempt(executions[q]) /\ executions[q].attempt.id = <<q, c>> /\ ~Terminated(executions[q])
        /\ HasAttempt(executions[r]) /\ executions[r].attempt.id = <<r, d>> /\ ~Terminated(executions[r])
    BY DEF IInv, CallInv, World, LiveIsCurrent
  <2>2. MayBeWorking(q) /\ MayBeWorking(r)
    BY <2>1 DEF MayBeWorking, IInv, CallInv, JInv, AttemptsKnown
  <2>3. claims[k] = <<q, c>> /\ claims[k] = <<r, d>>
    BY <2>1, <2>2 DEF IInv, CallInv, JInv, ClaimsMatchWork
  <2> QED
    BY <2>3
<1> QED
  BY <1>1, AppInvariant, PTL

(* A settlement the lifecycle accepts: the first cancellation, uncertainty,  *)
(* termination or assessment of an attempt, or a conclusion.                 *)
SettlementsFit ==
  \A r \in opened, e \in Events, f \in RecordedObservation, now \in Instants :
    /\ WellFormed(e) /\ e.kind # "begin"
    /\ Outcome(executions[r], e, f, now) = "applied"
    /\ Settlement(executions[r], Candidate(executions[r], e, f, now))
    => Fits(Reserve(r, TerminalReserve(executions[r], Candidate(executions[r], e, f, now), e, Held(r))))

(* No call of the application ever finds the journal too full to settle: not *)
(* to cancel, mark uncertain, terminate, assess or conclude (output is no    *)
(* settlement and has no such slot).                                         *)
THEOREM CallsCanSettle == AppSpec => []SettlementsFit
<1>1. IInv => SettlementsFit
  BY SettlementFits DEF IInv, CallInv, SettlementsFit
<1> QED
  BY <1>1, AppInvariant, PTL
=============================================================================
