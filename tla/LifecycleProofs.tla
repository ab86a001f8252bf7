-------------------------- MODULE LifecycleProofs --------------------------
(***************************************************************************)
(* Theorems about Lifecycle for every plan, every set of identities and    *)
(* every set of host times.  The inductive invariant is the one the code   *)
(* itself checks on every write: typed snapshots that pass validation.rs.  *)
(***************************************************************************)
EXTENDS Lifecycle, LifecycleCoreProofs

IInv == TypeOK /\ Validate(snapshot) /\ GuardsImplyValid

(* Every step of the specification submits one well-formed input that is     *)
(* accepted, and commits its candidate.                                      *)
LEMMA SubmitStep ==
  ASSUME IInv, NEW e, NEW f, NEW now \in Instants, WellFormed(e), f \in RecordedObservation,
         e.expected = snapshot.revision, Submit(e, f, now)
  PROVE  /\ Premise(snapshot, e, f, now)
         /\ snapshot' = Candidate(snapshot, e, f, now)
         /\ refused' = refused
<1>1. now \in Nat /\ now >= snapshot.updated /\ snapshot.revision # RevisionMax
  BY InputAssumption, BudgetAssumption DEF Instants, IInv, TypeOK, Snapshot
<1>2. Accepts(snapshot, e, f, now)
  BY DEF Submit, Outcome
<1>3. Premise(snapshot, e, f, now)
  BY <1>1, <1>2 DEF Premise, IInv, TypeOK
<1>4. Outcome(snapshot, e, f, now) = "applied"
  <2>1. Validate(Candidate(snapshot, e, f, now))
    BY <1>3, CandidateValid
  <2> QED
    BY <2>1 DEF Outcome, Submit
<1> QED
  BY <1>3, <1>4 DEF Submit, IInv, TypeOK

(* The event constructors of the actions build typed events.                 *)
LEMMA EventFields ==
  ASSUME TypeOK, NEW id \in EventIds, NEW kind \in CommandKinds \cup {"observe"}
  PROVE  /\ Event(id, kind) \in Events
         /\ Event(id, kind).kind = kind
         /\ Event(id, kind).expected = snapshot.revision
<1>1. 0 \in Bytes /\ snapshot.revision \in Nat
  BY BudgetAssumption DEF Bytes, TypeOK, Snapshot
<1> QED
  BY <1>1 DEF Event, NoEvent, Events

(* Every action of Next is one typed Submit.                                 *)
LEMMA NextStep ==
  ASSUME IInv, Next
  PROVE  \E e, f, now : /\ Premise(snapshot, e, f, now)
                        /\ snapshot' = Candidate(snapshot, e, f, now)
                        /\ refused' = refused
<1> DEFINE Goal == \E e, f, now : /\ Premise(snapshot, e, f, now)
                                  /\ snapshot' = Candidate(snapshot, e, f, now)
                                  /\ refused' = refused
<1>1. TypeOK
  BY DEF IInv
<1>2. NoObservation \in RecordedObservation
  BY BudgetAssumption DEF NoObservation, RecordedObservation, Bytes
<1>3. ASSUME NEW id \in FreshIds, NEW now \in Instants,
             NEW k \in {"prepare", "wait", "cancel", "recover"},
             Submit(Event(id, k), NoObservation, now)
      PROVE  Goal
  <2>1. WellFormed(Event(id, k)) /\ Event(id, k).expected = snapshot.revision
    BY <1>1, EventFields DEF WellFormed, CommandKinds, FreshIds
  <2> QED
    BY <1>2, <1>3, <2>1, SubmitStep
<1>4. ASSUME NEW id \in FreshIds, NEW now \in Instants, NEW a \in AttemptIds,
             NEW r \in Runners, NEW m \in Modes,
             Submit(BeginEvent(id, a, r, m), NoObservation, now)
      PROVE  Goal
  <2>1. Event(id, "begin") \in Events /\ Event(id, "begin").kind = "begin"
        /\ Event(id, "begin").expected = snapshot.revision /\ m \in {"test", "real"}
    BY <1>1, EventFields, BudgetAssumption DEF CommandKinds, FreshIds
  <2>2. WellFormed(BeginEvent(id, a, r, m)) /\ BeginEvent(id, a, r, m).expected = snapshot.revision
    BY <2>1 DEF WellFormed, BeginEvent, Events
  <2> QED
    BY <1>2, <1>4, <2>2, SubmitStep
<1>5. ASSUME NEW id \in FreshIds, NEW now \in Instants, NEW a \in AttemptIds,
             NEW k \in {"dispatched", "unconfirmed", "stopReported"}, NEW n,
             \/ k = "dispatched" /\ n = "none"
             \/ k = "unconfirmed" /\ n \in Causes
             \/ k = "stopReported" /\ n \in StopOutcomes,
             Submit(AttemptEvent(id, k, a, n), NoObservation, now)
      PROVE  Goal
  <2>1. Event(id, k) \in Events /\ Event(id, k).kind = k
        /\ Event(id, k).expected = snapshot.revision
    BY <1>1, EventFields DEF CommandKinds, FreshIds
  <2>2. WellFormed(AttemptEvent(id, k, a, n)) /\ AttemptEvent(id, k, a, n).expected = snapshot.revision
    BY <2>1, <1>5 DEF WellFormed, AttemptEvent, Events
  <2> QED
    BY <1>2, <1>5, <2>2, SubmitStep
<1>6. ASSUME NEW id \in FreshIds, NEW now \in Instants, NEW a \in AttemptIds, NEW n \in Counts,
             Submit(OutputEvent(id, a, n), NoObservation, now)
      PROVE  Goal
  <2>1. Event(id, "output") \in Events /\ Event(id, "output").kind = "output"
        /\ Event(id, "output").expected = snapshot.revision /\ n \in Bytes
    BY <1>1, EventFields, InputAssumption DEF CommandKinds, FreshIds
  <2>2. WellFormed(OutputEvent(id, a, n)) /\ OutputEvent(id, a, n).expected = snapshot.revision
    BY <2>1 DEF WellFormed, OutputEvent, Events
  <2> QED
    BY <1>2, <1>6, <2>2, SubmitStep
<1>7. ASSUME NEW k \in Terminations \cup {"effect", "uncertain"}, NEW n \in Bytes,
             NEW x \in Assessments \cup {"none"}, Observe(k, n, x)
      PROVE  Goal
  <2>1. PICK id \in FreshIds, now \in Instants, at \in Times, a \in AttemptIds, r \in Runners,
             ev \in EvidenceKinds :
           Submit(ObserveEvent(id, a, r, ev), Fact(k, ev, r, at, n, x), now)
    BY <1>7 DEF Observe
  <2>2. Event(id, "observe") \in Events /\ Event(id, "observe").kind = "observe"
        /\ Event(id, "observe").expected = snapshot.revision
    BY <1>1, EventFields DEF FreshIds
  <2>3. WellFormed(ObserveEvent(id, a, r, ev))
        /\ ObserveEvent(id, a, r, ev).expected = snapshot.revision
    BY <2>2 DEF WellFormed, ObserveEvent, Events
  <2>4. Fact(k, ev, r, at, n, x) \in RecordedObservation
    BY InputAssumption DEF Fact, RecordedObservation
  <2> QED
    BY <2>1, <2>3, <2>4, SubmitStep
<1>8. 0 \in Bytes /\ Counts \subseteq Bytes
  BY BudgetAssumption, InputAssumption DEF Bytes
<1> SUFFICES Goal
  OBVIOUS
<1> HIDE DEF Goal
<1>9. CASE Prepare \/ Wait \/ Cancel \/ Recover
  BY <1>3, <1>9 DEF Prepare, Wait, Cancel, Recover
<1>10. CASE BeginAttempt
  BY <1>4, <1>10 DEF BeginAttempt
<1>11. CASE Dispatched \/ DispatchUnconfirmed \/ StopReported
  BY <1>5, <1>11 DEF Dispatched, DispatchUnconfirmed, StopReported
<1>12. CASE Output
  BY <1>6, <1>12 DEF Output
<1>13. CASE ObserveExit \/ ObserveNeverDispatched \/ ObserveQuiescent \/ ObserveUncertain
  BY <1>7, <1>8, <1>13 DEF ObserveExit, ObserveNeverDispatched, ObserveQuiescent, ObserveUncertain,
     Terminations
<1>14. CASE ObserveEffect
  BY <1>7, <1>8, <1>14 DEF ObserveEffect
<1> QED
  BY <1>9, <1>10, <1>11, <1>12, <1>13, <1>14 DEF Next

(* Every reachable snapshot is typed, restorable, and evaluate_input never   *)
(* fails with LifecycleError::Snapshot.                                      *)
THEOREM GuardsImplyValidAlways == Spec => [](TypeOK /\ GuardsImplyValid /\ Validate(snapshot))
<1>1. Init => IInv
  <2> SUFFICES ASSUME Init PROVE IInv
    OBVIOUS
  <2>1. PICK now \in Times : snapshot = Open(now)
    BY DEF Init
  <2>2. NoObservation \in RecordedObservation /\ 0 \in Bytes /\ now \in Nat
    BY BudgetAssumption, InputAssumption DEF NoObservation, RecordedObservation, Bytes
  <2>3. NoAttempt \in AttemptSnapshot
    BY <2>2 DEF NoAttempt, AttemptSnapshot, DispatchStates
  <2>4. NoEvent \in Events
    BY <2>2 DEF NoEvent, Events
  <2>5. snapshot \in Snapshot
    BY <2>1, <2>2, <2>3, <2>4 DEF Open, Snapshot
  <2>6. Validate(snapshot)
    BY <2>1, <2>2, BudgetAssumption DEF Open, Validate, ValidEnvelope, HasAttempt, NoAttempt, NoEvent
  <2> QED
    BY <2>5, <2>6 DEF Init, IInv, TypeOK, GuardsImplyValid
<1>2. IInv /\ [Next]_vars => IInv'
  <2> SUFFICES ASSUME IInv, [Next]_vars PROVE IInv'
    OBVIOUS
  <2>1. CASE Next
    <3>1. PICK e, f, now : /\ Premise(snapshot, e, f, now)
                           /\ snapshot' = Candidate(snapshot, e, f, now)
                           /\ refused' = refused
      BY <2>1, NextStep
    <3>2. snapshot' \in Snapshot /\ Validate(snapshot')
      BY <3>1, CandidateValid
    <3> QED
      BY <3>1, <3>2 DEF IInv, TypeOK, GuardsImplyValid
  <2>2. CASE UNCHANGED vars
    BY <2>2 DEF vars, IInv, TypeOK, GuardsImplyValid
  <2> QED
    BY <2>1, <2>2
<1> QED
  BY <1>1, <1>2, PTL DEF Spec, IInv

(* The snapshot keeps its types: whatever was applied, evaluate_input leaves  *)
(* a record that restore can read back.                                      *)
THEOREM SnapshotTyped == Spec => []TypeOK
BY GuardsImplyValidAlways, PTL

-----------------------------------------------------------------------------
(* Action properties. *)

(* Every step of Next from a valid snapshot stays within the effect relation.*)
LEMMA StepSummary ==
  ASSUME IInv, Next
  PROVE  /\ snapshot' \in Snapshot
         /\ Admits(snapshot, snapshot') \/ Continues(snapshot, snapshot')
         /\ snapshot'.updated >= snapshot.updated
<1>1. PICK e, f, now : /\ Premise(snapshot, e, f, now)
                       /\ snapshot' = Candidate(snapshot, e, f, now)
  BY NextStep
<1>2. Candidate(snapshot, e, f, now).updated = now
  <2> DEFINE d == IF e.kind = "observe" THEN ApplyObservation(snapshot, f)
                  ELSE ApplyCommand(snapshot, e, now)
  <2>1. snapshot' \in Snapshot /\ snapshot' = [d EXCEPT !.updated = now, !.revision = snapshot.revision + 1, !.last = e]
    BY <1>1, CandidateValid DEF Candidate
  <2> HIDE DEF d
  <2>2. "updated" \in DOMAIN d
    BY <2>1 DEF Snapshot
  <2> QED
    BY <1>1, <2>1, <2>2
<1> QED
  BY <1>1, <1>2, CandidateValid, StepEffect DEF Premise

(* A second attempt is admitted only when the previous one is proven to have *)
(* had no effect, for every plan and every order of inputs.                  *)
THEOREM RetryIsSafe == Spec => RetryOnlyAfterNoEffect
<1>1. Spec => []IInv
  BY GuardsImplyValidAlways, PTL DEF IInv
<1>2. IInv /\ [Next]_vars => [RetryOnlyAfterNoEffectStep]_vars
  <2> SUFFICES ASSUME IInv, Next PROVE RetryOnlyAfterNoEffectStep
    OBVIOUS
  <2>1. snapshot \in Snapshot /\ Validate(snapshot)
    BY DEF IInv, TypeOK
  <2>2. snapshot' \in Snapshot /\ (Admits(snapshot, snapshot') \/ Continues(snapshot, snapshot'))
    BY StepSummary
  <2>3. CASE Admits(snapshot, snapshot')
    <3>1. HasAttempt(snapshot) => Terminated(snapshot) /\ NoEffect(snapshot)
                                 /\ snapshot.attempt.termination.kind # "quiescent"
      BY <2>1, <2>2, <2>3, AdmissionFacts DEF Admits, Snapshot
    <3>2. ~HasAttempt(snapshot) => snapshot.attempts = 0
      BY <2>1 DEF Validate
    <3>3. HasAttempt(snapshot) => snapshot.attempt.termination.kind \in Terminations
      BY <2>1, <3>1 DEF Validate, ValidTermination, Terminated
    <3> QED
      BY <3>1, <3>2, <3>3 DEF RetryOnlyAfterNoEffectStep, NoEffect, AssessmentOf, Assessed, Terminations
  <2>4. CASE Continues(snapshot, snapshot')
    BY <2>4 DEF Continues, RetryOnlyAfterNoEffectStep
  <2> QED
    BY <2>2, <2>3, <2>4
<1> QED
  BY <1>1, <1>2, PTL DEF Spec, RetryOnlyAfterNoEffect

(* No step gives back time, attempts or output that was already accounted.   *)
THEOREM BudgetsAreCumulative == Spec => BudgetNeverRefunded
<1>1. Spec => []IInv
  BY GuardsImplyValidAlways, PTL DEF IInv
<1>2. IInv /\ [Next]_vars => [BudgetNeverRefundedStep]_vars
  <2> SUFFICES ASSUME IInv, Next PROVE BudgetNeverRefundedStep
    OBVIOUS
  <2>1. snapshot \in Snapshot /\ Validate(snapshot)
    BY DEF IInv, TypeOK
  <2>2. snapshot' \in Snapshot /\ (Admits(snapshot, snapshot') \/ Continues(snapshot, snapshot'))
    BY StepSummary
  <2>3. snapshot.attempts \in Nat /\ TotalOutputBytes(snapshot) \in Nat /\ U64Max \in Nat
    BY <2>1, TotalTyped, BudgetAssumption DEF Snapshot, Bytes
  <2>4. CASE Admits(snapshot, snapshot')
    <3>1. TotalOutputBytes(snapshot') = TotalOutputBytes(snapshot)
      BY <2>1, <2>4, <2>3, TotalTyped, BudgetAssumption DEF Admits, TotalOutputBytes, SaturatingAdd, Bytes
    <3> QED
      BY <2>3, <2>4, <3>1 DEF Admits, BudgetNeverRefundedStep
  <2>5. CASE Continues(snapshot, snapshot')
    <3>1. TotalOutputBytes(snapshot') >= TotalOutputBytes(snapshot)
      <4>1. /\ snapshot.prior \in Nat /\ snapshot.attempt.output \in Nat
            /\ snapshot'.attempt.output \in Nat
        BY <2>1, <2>2, BudgetAssumption DEF Snapshot, AttemptSnapshot, Bytes
      <4> QED
        BY <2>3, <2>5, <4>1 DEF Continues, TotalOutputBytes, SaturatingAdd, HasAttempt
    <3> QED
      BY <2>3, <2>5, <3>1 DEF Continues, BudgetNeverRefundedStep
  <2> QED
    BY <2>2, <2>4, <2>5
<1> QED
  BY <1>1, <1>2, PTL DEF Spec, BudgetNeverRefunded

(* Termination, settled output and conclusive assessments are never          *)
(* rewritten, uncertainty never erases a confirmed dispatch of the current   *)
(* attempt, and nothing is admitted after a cancellation.                    *)
THEOREM WhatIsKnownStaysKnown == Spec => FactsAreFinal
<1> DEFINE Step == SettledFactsFinalStep /\ DispatchHistoryStickyStep /\ CancelIsFinalStep
<1>1. Spec => []IInv
  BY GuardsImplyValidAlways, PTL DEF IInv
<1>2. IInv /\ [Next]_vars => [Step]_vars
  <2> SUFFICES ASSUME IInv, Next PROVE Step
    OBVIOUS
  <2>1. snapshot \in Snapshot /\ Validate(snapshot)
    BY DEF IInv, TypeOK
  <2>2. snapshot' \in Snapshot /\ (Admits(snapshot, snapshot') \/ Continues(snapshot, snapshot'))
    BY StepSummary
  <2>3. snapshot.attempts \in Nat
    BY <2>1 DEF Snapshot
  <2>4. SettledFactsFinalStep
    BY <2>2, <2>3 DEF Admits, Continues, SettledFactsFinalStep
  <2>5. DispatchHistoryStickyStep
    BY <2>2 DEF Admits, Continues, DispatchHistoryStickyStep
  <2>6. CancelIsFinalStep
    <3>1. CASE Admits(snapshot, snapshot')
      <4>1. ~snapshot.cancel
        BY <2>1, <2>2, <3>1, AdmissionFacts DEF Admits, Snapshot
      <4> QED
        BY <4>1 DEF CancelIsFinalStep
    <3>2. CASE Continues(snapshot, snapshot')
      BY <3>2 DEF Continues, CancelIsFinalStep
    <3> QED
      BY <2>2, <3>1, <3>2
  <2> QED
    BY <2>4, <2>5, <2>6
<1> QED
  BY <1>1, <1>2, PTL DEF Spec, FactsAreFinal

(* The phase shown to callers only moves forward while an attempt lasts.     *)
THEOREM PhasesMoveForward == Spec => PhaseNeverRegresses
<1>1. Spec => []IInv
  BY GuardsImplyValidAlways, PTL DEF IInv
<1>2. IInv /\ [Next]_vars => [PhaseNeverRegressesStep]_vars
  <2> SUFFICES ASSUME IInv, Next, snapshot'.attempts = snapshot.attempts
               PROVE  PhaseRank(Phase(snapshot')) >= PhaseRank(Phase(snapshot))
    BY DEF PhaseNeverRegressesStep
  <2> DEFINE s == snapshot
             c == snapshot'
  <2>1. s \in Snapshot /\ Validate(s) /\ c \in Snapshot
    BY StepSummary DEF IInv, TypeOK
  <2>2. Continues(s, c)
    BY <2>1, StepSummary DEF Admits, Snapshot
  <2> HIDE DEF s, c
  <2>3. HasAttempt(c) <=> HasAttempt(s)
    BY <2>2 DEF Continues, HasAttempt
  <2>4. CASE ~HasAttempt(s)
    <3>1. /\ s.preparation \in {"received", "prepared", "waiting"}
          /\ c.preparation \in {"received", "prepared", "waiting"}
          /\ s.cancel \in BOOLEAN /\ c.cancel \in BOOLEAN
      BY <2>1 DEF Snapshot
    <3>2. /\ Phase(s) = IF s.cancel THEN "cancelled" ELSE s.preparation
          /\ Phase(c) = IF c.cancel THEN "cancelled" ELSE c.preparation
      BY <2>3, <2>4 DEF Phase
    <3>3. /\ s.cancel => c.cancel
          /\ s.preparation # "received" => c.preparation # "received"
      BY <2>2 DEF Continues
    <3>4. PhaseRank(Phase(s)) \in 0..2
      BY <3>1, <3>2 DEF PhaseRank
    <3>5. CASE c.cancel
      <4>1. PhaseRank(Phase(c)) = 2
        BY <3>2, <3>5 DEF PhaseRank
      <4> QED
        BY <3>4, <4>1 DEF s, c
    <3>6. CASE ~c.cancel
      <4>1. Phase(c) = c.preparation /\ Phase(s) = s.preparation
        BY <3>2, <3>3, <3>6
      <4> QED
        BY <3>1, <3>3, <4>1 DEF PhaseRank, s, c
    <3> QED
      BY <3>1, <3>5, <3>6
  <2>5. CASE HasAttempt(s)
    <3>1. /\ Assessed(s) => Assessed(c)
          /\ Terminated(s) => Terminated(c)
          /\ WasDispatched(s.attempt.dispatch) => WasDispatched(c.attempt.dispatch)
          /\ s.attempt.dispatch \notin {"starting", "dispatched"} =>
               c.attempt.dispatch \notin {"starting", "dispatched"}
      BY <2>2, <2>5 DEF Continues, Terminated
    <3>2. s.attempt.dispatch \in DispatchStates /\ c.attempt.dispatch \in DispatchStates
      BY <2>1 DEF Snapshot, AttemptSnapshot
    <3>3. ASSUME NEW x, HasAttempt(x)
          PROVE  PhaseRank(Phase(x)) = IF Assessed(x) THEN 7 ELSE IF Terminated(x) THEN 6
                   ELSE IF x.attempt.dispatch = "starting" THEN 3
                   ELSE IF x.attempt.dispatch = "dispatched" THEN 4 ELSE 5
      BY <3>3 DEF PhaseRank, Phase
    <3>4. /\ PhaseRank(Phase(s)) = IF Assessed(s) THEN 7 ELSE IF Terminated(s) THEN 6
               ELSE IF s.attempt.dispatch = "starting" THEN 3
               ELSE IF s.attempt.dispatch = "dispatched" THEN 4 ELSE 5
          /\ PhaseRank(Phase(c)) = IF Assessed(c) THEN 7 ELSE IF Terminated(c) THEN 6
               ELSE IF c.attempt.dispatch = "starting" THEN 3
               ELSE IF c.attempt.dispatch = "dispatched" THEN 4 ELSE 5
      BY <2>3, <2>5, <3>3
    <3>5. PhaseRank(Phase(c)) >= PhaseRank(Phase(s))
      BY <3>1, <3>2, <3>4 DEF DispatchStates, WasDispatched
    <3> QED
      BY <3>5 DEF s, c
  <2> QED
    BY <2>4, <2>5
<1> QED
  BY <1>1, <1>2, PTL DEF Spec, PhaseNeverRegresses

(* Once a time, output or attempt bound is used up, it stays used up.        *)
THEOREM ExhaustionIsPermanent == Spec => ExhaustionIsFinal
<1>1. Spec => []IInv
  BY GuardsImplyValidAlways, PTL DEF IInv
<1>2. IInv /\ IInv' /\ [Next]_vars => [ExhaustionIsFinalStep]_vars
  <2> SUFFICES ASSUME IInv, IInv', Next,
                      NEW t \in Times, Exhausted(snapshot, t),
                      NEW u \in Times, u >= t, Admissible(snapshot', u)
               PROVE  FALSE
    BY DEF ExhaustionIsFinalStep
  <2>1. /\ snapshot \in Snapshot /\ Validate(snapshot)
        /\ snapshot' \in Snapshot /\ Validate(snapshot')
        /\ t \in Nat /\ u \in Nat
    BY InputAssumption DEF IInv, TypeOK
  <2>2. Directive(snapshot', u) \in {"ready", "retryEligible"}
    BY DEF Admissible
  <2>3. HasAttempt(snapshot') => Terminated(snapshot')
    BY <2>2 DEF Directive, ActiveDirective
  <2>4. Continues(snapshot, snapshot')
    BY <2>3, StepSummary DEF Admits
  <2>5. /\ u < ExpiresAt
        /\ TotalOutputBytes(snapshot') < TotalOutput
        /\ snapshot'.first # NoTime => u - snapshot'.first < TotalTimeout
        /\ snapshot'.attempts < MaxAttempts
    BY <2>1, <2>2, AdmissionFacts
  <2>6. TotalOutputBytes(snapshot') >= TotalOutputBytes(snapshot)
    <3>1. /\ snapshot.prior \in Nat /\ snapshot.attempt.output \in Nat
          /\ snapshot'.attempt.output \in Nat /\ U64Max \in Nat
      BY <2>1, BudgetAssumption DEF Snapshot, AttemptSnapshot, Bytes
    <3> QED
      BY <2>4, <3>1 DEF Continues, TotalOutputBytes, SaturatingAdd, HasAttempt
  <2>7. TotalOutputBytes(snapshot) \in Nat /\ TotalOutputBytes(snapshot') \in Nat
    BY <2>1, TotalTyped, BudgetAssumption DEF Bytes
  <2>8. TotalOutputBytes(snapshot) < TotalOutput /\ t < ExpiresAt
    BY <2>1, <2>5, <2>6, <2>7, BudgetAssumption
  <2>9. snapshot.first # NoTime => t - snapshot.first < TotalTimeout
    BY <2>1, <2>4, <2>5, BudgetAssumption DEF Continues, Snapshot, NoTime
  <2>10. ~(TotalOutputBytes(snapshot) >= TotalOutput) /\ ~(t >= ExpiresAt)
         /\ ~(snapshot.first # NoTime /\ t - snapshot.first >= TotalTimeout)
    BY <2>1, <2>7, <2>8, <2>9, BudgetAssumption DEF Snapshot, NoTime
  <2>11. LimitReason(snapshot, t) \in {"none", "notYetValid"}
    BY <2>10 DEF LimitReason
  <2>12. LimitReason(snapshot, t) = "none"
    BY <2>11 DEF Exhausted
  <2>13. snapshot.attempts >= MaxAttempts
    BY <2>12 DEF Exhausted, Directive, IdleDirective, ActiveDirective, SettledDirective, Concluded
  <2> QED
    BY <2>1, <2>4, <2>5, <2>13, BudgetAssumption DEF Continues, Snapshot
<1> QED
  BY <1>1, <1>2, PTL DEF Spec, ExhaustionIsFinal
=============================================================================
