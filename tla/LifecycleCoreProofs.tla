------------------------ MODULE LifecycleCoreProofs ------------------------
(***************************************************************************)
(* Lemmas about the pure lifecycle operators: what one accepted input makes *)
(* of a valid snapshot.  Lifecycle and Journal both commit such candidates, *)
(* so both proofs rest on these.                                           *)
(***************************************************************************)
EXTENDS LifecycleCore, TLAPS

(* An input event whose payload has the type that its kind carries.          *)
WellFormed(e) ==
  /\ e \in Events
  /\ e.kind # "none"
  /\ e.kind = "unconfirmed" => e.note \in Causes
  /\ e.kind = "stopReported" => e.note \in StopOutcomes

(* The part of the premise that every accepted input establishes.            *)
Premise(s, e, f, now) ==
  /\ s \in Snapshot /\ Validate(s)
  /\ WellFormed(e)
  /\ f \in RecordedObservation
  /\ now \in Nat /\ now >= s.updated
  /\ e.expected = s.revision /\ s.revision # RevisionMax
  /\ Accepts(s, e, f, now)

(* Saturating addition stays within u64 and is monotone from its left side.  *)
LEMMA SaturatingAddBounds ==
  ASSUME NEW a \in Bytes, NEW b \in Bytes
  PROVE  SaturatingAdd(a, b) \in Bytes /\ SaturatingAdd(a, b) >= a /\ SaturatingAdd(a, b) >= b
BY BudgetAssumption DEF SaturatingAdd, Bytes

(* The cumulative output of a typed snapshot is a u64.                       *)
LEMMA TotalTyped ==
  ASSUME NEW s \in Snapshot
  PROVE  TotalOutputBytes(s) \in Bytes
<1>1. s.prior \in Bytes /\ s.attempt.output \in Bytes
  BY DEF Snapshot, AttemptSnapshot
<1>2. 0 \in Bytes
  BY BudgetAssumption DEF Bytes
<1> QED
  BY <1>1, <1>2, SaturatingAddBounds DEF TotalOutputBytes

(* An admission only happens without a limit, and with an attempt to spare.  *)
LEMMA AdmissionFacts ==
  ASSUME NEW s \in Snapshot, Validate(s), NEW now \in Nat,
         Directive(s, now) \in {"ready", "retryEligible"}
  PROVE  /\ now >= NotBefore /\ now < ExpiresAt
         /\ TotalOutputBytes(s) < TotalOutput
         /\ s.first # NoTime => now - s.first < TotalTimeout
         /\ s.attempts < MaxAttempts
         /\ ~s.cancel
         /\ s.preparation = "prepared"
         /\ HasAttempt(s) => Terminated(s) /\ NoEffect(s)
                              /\ s.attempt.termination.kind # "quiescent"
<1>1. LimitReason(s, now) = "none"
  BY DEF Directive, IdleDirective, ActiveDirective, SettledDirective, Concluded
<1>2. HasAttempt(s) => Terminated(s)
  BY DEF Directive, ActiveDirective
<1>3. now >= NotBefore /\ now < ExpiresAt
  BY <1>1, <1>2, BudgetAssumption DEF LimitReason
<1>4. /\ TotalOutputBytes(s) < TotalOutput
      /\ s.first # NoTime => now - s.first < TotalTimeout
  <2>1. TotalOutputBytes(s) \in Bytes
    BY TotalTyped
  <2> QED
    BY <1>1, <1>2, <1>3, <2>1, BudgetAssumption DEF LimitReason, Snapshot, Bytes, NoTime
<1>5. s.attempts < MaxAttempts
  <2>1. CASE HasAttempt(s)
    <3>1. ~(s.attempts >= MaxAttempts)
      BY <1>2, <2>1 DEF Directive, SettledDirective, Concluded
    <3> QED
      BY <3>1, BudgetAssumption DEF Snapshot
  <2>2. CASE ~HasAttempt(s)
    BY <2>2, BudgetAssumption DEF Validate
  <2> QED
    BY <2>1, <2>2
<1>6. ~s.cancel
  BY DEF Directive, IdleDirective, SettledDirective, Concluded, ActiveDirective
<1>7. s.preparation = "prepared"
  BY DEF Directive, IdleDirective, Validate, ValidAttempt
<1>8. HasAttempt(s) => NoEffect(s) /\ s.attempt.termination.kind # "quiescent"
  BY DEF Directive, SettledDirective, Concluded, ActiveDirective
<1> QED
  BY <1>2, <1>3, <1>4, <1>5, <1>6, <1>7, <1>8

(* What a candidate has in common whatever the input was.                    *)
LEMMA EnvelopeKept ==
  ASSUME NEW s, NEW e, NEW f, NEW now, Premise(s, e, f, now),
         NEW c, c \in Snapshot,
         c.updated = now, c.revision = s.revision + 1, c.last = e,
         c.opened = s.opened, c.attempts \in Nat, c.attempts <= MaxAttempts
  PROVE  ValidEnvelope(c)
BY BudgetAssumption DEF Premise, WellFormed, Validate, ValidEnvelope, Snapshot, Events

(* Facts recorded for an attempt survive when only time moves on.            *)
LEMMA AttemptKept ==
  ASSUME NEW s, NEW e, NEW f, NEW now, Premise(s, e, f, now), HasAttempt(s),
         NEW c, c \in Snapshot,
         c.updated = now, c.opened = s.opened, c.first = s.first,
         c.attempts = s.attempts, c.prior = s.prior, c.preparation = s.preparation,
         c.attempt.number = s.attempt.number, c.attempt.accepted = s.attempt.accepted,
         c.attempt.mode = s.attempt.mode
  PROVE  c.first # NoTime /\ ValidAttempt(c)
BY BudgetAssumption DEF Premise, Validate, ValidAttempt, Snapshot, AttemptSnapshot, NoTime

(* Prepare and Wait are accepted before any attempt, and stay valid.         *)
LEMMA PreparationValid ==
  ASSUME NEW s, NEW e, NEW f, NEW now, Premise(s, e, f, now), e.kind \in {"prepare", "wait"}
  PROVE  Candidate(s, e, f, now) \in Snapshot /\ Validate(Candidate(s, e, f, now))
<1> DEFINE c == Candidate(s, e, f, now)
<1>1. ~HasAttempt(s)
  BY DEF Premise, Accepts, CommandAccepts, PreparationAccepts, BeginAccepts,
         DispatchedAccepts, ReportAccepts, OutputAccepts, ObservationAccepts
<1>2. PICK p \in {"prepared", "waiting"} :
        c = [[s EXCEPT !.preparation = p] EXCEPT !.updated = now, !.revision = s.revision + 1, !.last = e]
  BY DEF Candidate, ApplyCommand
<1>3. c \in Snapshot
  <2>1. s.revision + 1 \in Nat /\ now \in Nat /\ e \in Events
    BY DEF Premise, WellFormed, Snapshot
  <2>2. [s EXCEPT !.preparation = p] \in Snapshot
    BY <1>2 DEF Premise, Snapshot
  <2> QED
    BY <1>2, <2>1, <2>2 DEF Snapshot
<1>4. /\ c.updated = now /\ c.revision = s.revision + 1 /\ c.last = e /\ c.opened = s.opened
      /\ c.attempts = s.attempts /\ c.attempt = s.attempt /\ c.first = s.first /\ c.prior = s.prior
  BY <1>2 DEF Premise, Snapshot
<1>5. c.attempts = 0 /\ c.first = NoTime /\ c.prior = 0 /\ ~HasAttempt(c)
  BY <1>1, <1>4 DEF Premise, Validate, HasAttempt
<1> HIDE DEF c
<1>6. ValidEnvelope(c)
  BY <1>3, <1>4, <1>5, EnvelopeKept, BudgetAssumption
<1> QED
  BY <1>3, <1>5, <1>6 DEF Validate, c

(* A BeginAttempt accepted by directive leaves a snapshot that validates.    *)
LEMMA BeginValid ==
  ASSUME NEW s, NEW e, NEW f, NEW now, Premise(s, e, f, now), e.kind = "begin"
  PROVE  Candidate(s, e, f, now) \in Snapshot /\ Validate(Candidate(s, e, f, now))
<1> DEFINE c == Candidate(s, e, f, now)
<1>1. BeginAccepts(s, e, now)
  BY DEF Premise, Accepts, CommandAccepts, PreparationAccepts,
         DispatchedAccepts, ReportAccepts, OutputAccepts, ObservationAccepts
<1>2. /\ now >= NotBefore /\ now < ExpiresAt
      /\ TotalOutputBytes(s) < TotalOutput
      /\ s.first # NoTime => now - s.first < TotalTimeout
      /\ s.attempts < MaxAttempts
      /\ s.preparation = "prepared"
  BY <1>1, AdmissionFacts DEF BeginAccepts, Premise
<1>3. TotalOutputBytes(s) \in Bytes
  BY TotalTyped DEF Premise
<1>4. /\ c.updated = now /\ c.revision = s.revision + 1 /\ c.last = e /\ c.opened = s.opened
      /\ c.attempts = s.attempts + 1 /\ c.attempt = NewAttempt(s, e, now)
      /\ c.first = (IF s.first = NoTime THEN now ELSE s.first)
      /\ c.prior = TotalOutputBytes(s) /\ c.preparation = s.preparation
      /\ c.cancel = s.cancel
  BY DEF Candidate, ApplyCommand, ApplyOutput, Begun, Premise, Snapshot
<1>5. NoObservation \in RecordedObservation
  BY BudgetAssumption DEF NoObservation, RecordedObservation, Bytes
<1>6. NewAttempt(s, e, now) \in AttemptSnapshot
  <2>1. /\ e.attempt \in AttemptIds \cup {NoId} /\ e.runner \in Runners \cup {NoId}
        /\ e.mode \in {"test", "real"} /\ now \in Nat /\ s.attempts + 1 \in Nat
    BY DEF Premise, WellFormed, Events, Snapshot
  <2>2. NoAttempt \in AttemptSnapshot
    BY <1>5, BudgetAssumption DEF NoAttempt, AttemptSnapshot, DispatchStates, Bytes
  <2> QED
    BY <2>1, <2>2 DEF NewAttempt, AttemptSnapshot
<1>7. c \in Snapshot
  <2>1. /\ s.revision + 1 \in Nat /\ now \in Nat /\ e \in Events /\ s.attempts + 1 \in Nat
        /\ (IF s.first = NoTime THEN now ELSE s.first) \in Nat \cup {NoTime}
    BY DEF Premise, WellFormed, Snapshot
  <2>2. Begun(s, e, now) \in Snapshot
    BY <1>3, <1>6, <2>1 DEF Begun, Premise, Snapshot
  <2> QED
    BY <2>1, <2>2 DEF Candidate, ApplyCommand, ApplyOutput, Snapshot
<1>8. /\ c.attempt.number = s.attempts + 1 /\ c.attempt.accepted = now
      /\ c.attempt.mode = e.mode /\ c.attempt.runner = e.runner
      /\ c.attempt.termination = NoObservation /\ c.attempt.assessment = NoObservation
  BY <1>4 DEF NewAttempt, NoAttempt
<1> HIDE DEF c
<1>9. ValidEnvelope(c)
  BY <1>2, <1>4, <1>7, EnvelopeKept, BudgetAssumption DEF Premise, Snapshot
<1>10. s.attempts = 0 => s.first = NoTime /\ TotalOutputBytes(s) = 0
  <2> SUFFICES ASSUME s.attempts = 0 PROVE s.first = NoTime /\ TotalOutputBytes(s) = 0
    OBVIOUS
  <2>1. ~HasAttempt(s)
    BY DEF Premise, Validate, ValidAttempt, HasAttempt
  <2> QED
    BY <2>1, BudgetAssumption DEF Premise, Validate, TotalOutputBytes, SaturatingAdd
<1>11. HasAttempt(c) /\ c.first # NoTime /\ ValidAttempt(c)
  <2>1. s.first # NoTime => s.first >= s.opened /\ s.first >= NotBefore /\ s.first <= s.updated
    BY BudgetAssumption DEF Premise, Validate, ValidAttempt, Snapshot, AttemptSnapshot, NoTime
  <2>2. s.first # NoTime => HasAttempt(s)
    BY DEF Premise, Validate
  <2> QED
    BY <1>1, <1>2, <1>4, <1>8, <1>10, <2>1, <2>2, BudgetAssumption
       DEF HasAttempt, ValidAttempt, BeginAccepts, Premise, Validate, ValidEnvelope, Snapshot, NoTime
<1>12. ValidTermination(c) /\ ValidAssessment(c)
  BY <1>8 DEF ValidTermination, ValidAssessment, NoObservation
<1> QED
  BY <1>7, <1>9, <1>11, <1>12 DEF Validate, c

(* A candidate that keeps the attempt's identity, time and recorded facts.    *)
Keeps(s, c) ==
  /\ c.opened = s.opened /\ c.first = s.first /\ c.attempts = s.attempts
  /\ c.prior = s.prior /\ c.preparation = s.preparation
  /\ c.attempt.number = s.attempt.number /\ c.attempt.accepted = s.attempt.accepted
  /\ c.attempt.mode = s.attempt.mode /\ c.attempt.runner = s.attempt.runner
  /\ c.attempt.termination = s.attempt.termination
  /\ c.attempt.assessment = s.attempt.assessment
  /\ (HasAttempt(s) /\ Terminated(s)) => c.attempt.output = s.attempt.output

(* A typed candidate that keeps the admission and the recorded facts of its  *)
(* snapshot (Keeps) validates.                                               *)
LEMMA KeepsValid ==
  ASSUME NEW s, NEW e, NEW f, NEW now, Premise(s, e, f, now),
         NEW c, c \in Snapshot, c.updated = now, c.revision = s.revision + 1, c.last = e,
         Keeps(s, c)
  PROVE  Validate(c)
<1>1. ValidEnvelope(c)
  BY EnvelopeKept, BudgetAssumption DEF Premise, Keeps, Validate, ValidEnvelope, Snapshot
<1>2. HasAttempt(c) <=> HasAttempt(s)
  BY DEF Keeps, HasAttempt
<1>3. CASE ~HasAttempt(s)
  BY <1>1, <1>2, <1>3 DEF Keeps, Validate, Premise
<1>4. CASE HasAttempt(s)
  <2>1. c.first # NoTime /\ ValidAttempt(c)
    BY <1>4, AttemptKept DEF Keeps
  <2>2. ValidTermination(s) /\ ValidAssessment(s)
    BY <1>4 DEF Premise, Validate
  <2>3. now >= s.updated /\ now \in Nat /\ s.updated \in Nat
        /\ s.attempt.termination.at \in Nat /\ s.attempt.assessment.at \in Nat
    BY DEF Premise, Snapshot, AttemptSnapshot, RecordedObservation
  <2>4. ValidTermination(c)
    BY <1>4, <2>2, <2>3 DEF ValidTermination, ValidRecorded, Keeps, Terminated
  <2>5. ValidAssessment(c)
    BY <1>4, <2>2, <2>3 DEF ValidAssessment, ValidRecorded, Keeps, Terminated
  <2> QED
    BY <1>1, <1>2, <1>4, <2>1, <2>4, <2>5 DEF Validate
<1> QED
  BY <1>3, <1>4

(* Marking an attempt uncertain keeps the snapshot typed.                    *)
LEMMA MarkUncertainTyped ==
  ASSUME NEW s \in Snapshot
  PROVE  MarkUncertain(s) \in Snapshot
<1>1. Uncertain(s.attempt.dispatch) \in DispatchStates
  BY DEF Uncertain, DispatchStates
<1>2. [s.attempt EXCEPT !.dispatch = Uncertain(s.attempt.dispatch)] \in AttemptSnapshot
  BY <1>1 DEF Snapshot, AttemptSnapshot
<1> QED
  BY <1>2 DEF MarkUncertain, Snapshot

(* Every command other than Prepare, Wait and BeginAttempt stays valid.      *)
LEMMA ReportValid ==
  ASSUME NEW s, NEW e, NEW f, NEW now, Premise(s, e, f, now),
         e.kind \in {"dispatched", "unconfirmed", "stopReported", "cancel", "recover", "output"}
  PROVE  Candidate(s, e, f, now) \in Snapshot /\ Validate(Candidate(s, e, f, now))
<1> DEFINE d == ApplyCommand(s, e, now)
           c == Candidate(s, e, f, now)
<1>1. s \in Snapshot /\ s.attempt \in AttemptSnapshot /\ e \in Events /\ now \in Nat
      /\ s.revision + 1 \in Nat
  BY DEF Premise, WellFormed, Snapshot
<1>2. d \in Snapshot /\ Keeps(s, d)
  <2>1. CASE e.kind = "dispatched"
    <3>1. [s.attempt EXCEPT !.dispatch = "dispatched"] \in AttemptSnapshot
      BY <1>1 DEF AttemptSnapshot, DispatchStates
    <3>2. d = [s EXCEPT !.attempt = [s.attempt EXCEPT !.dispatch = "dispatched"]]
      BY <2>1, <1>1 DEF ApplyCommand, ApplyOutput, Snapshot
    <3> QED
      BY <1>1, <3>1, <3>2 DEF Keeps, Snapshot, AttemptSnapshot
  <2>2. CASE e.kind = "unconfirmed"
    <3> DEFINE m == MarkUncertain(s)
    <3>1. m \in Snapshot
      BY <1>1, MarkUncertainTyped
    <3>2. Keeps(s, m)
      BY <1>1 DEF Keeps, MarkUncertain, Snapshot, AttemptSnapshot
    <3>3. m.attempt \in AttemptSnapshot /\ e.note \in Causes
      BY <2>2, <3>1 DEF Snapshot, Premise, WellFormed
    <3>4. d = [m EXCEPT !.attempt = [m.attempt EXCEPT !.cause = e.note]]
      BY <2>2, <3>1 DEF ApplyCommand, ApplyOutput, Snapshot
    <3> HIDE DEF m
    <3>5. [m.attempt EXCEPT !.cause = e.note] \in AttemptSnapshot
      BY <3>3 DEF AttemptSnapshot
    <3> QED
      BY <3>1, <3>2, <3>3, <3>4, <3>5 DEF Keeps, Snapshot, AttemptSnapshot
  <2>3. CASE e.kind = "stopReported"
    <3>1. [s.attempt EXCEPT !.stop = e.note] \in AttemptSnapshot
      BY <1>1, <2>3 DEF AttemptSnapshot, Premise, WellFormed
    <3>2. d = [s EXCEPT !.attempt = [s.attempt EXCEPT !.stop = e.note]]
      BY <2>3, <1>1 DEF ApplyCommand, ApplyOutput, Snapshot
    <3> QED
      BY <1>1, <3>1, <3>2 DEF Keeps, Snapshot, AttemptSnapshot
  <2>4. CASE e.kind = "cancel"
    BY <1>1, <2>4 DEF ApplyCommand, ApplyOutput, Keeps, Snapshot
  <2>5. CASE e.kind = "recover"
    <3>1. d = MarkUncertain(s)
      BY <2>5 DEF ApplyCommand
    <3> QED
      BY <1>1, <3>1, MarkUncertainTyped DEF Keeps, MarkUncertain, Snapshot, AttemptSnapshot
  <2>6. CASE e.kind = "output"
    <3>1. [s.attempt EXCEPT !.output = e.bytes] \in AttemptSnapshot
      BY <1>1 DEF AttemptSnapshot, Events
    <3>2. d = IF Terminated(s) THEN s
              ELSE [s EXCEPT !.attempt = [s.attempt EXCEPT !.output = e.bytes]]
      BY <2>6, <1>1 DEF ApplyCommand, ApplyOutput, Snapshot
    <3> QED
      BY <1>1, <3>1, <3>2 DEF Keeps, Snapshot, AttemptSnapshot, Terminated
  <2> QED
    BY <2>1, <2>2, <2>3, <2>4, <2>5, <2>6
<1>3. c = [d EXCEPT !.updated = now, !.revision = s.revision + 1, !.last = e]
  BY DEF Candidate
<1> HIDE DEF d
<1>4. c \in Snapshot
  BY <1>1, <1>2, <1>3 DEF Snapshot
<1>5. c.updated = now /\ c.revision = s.revision + 1 /\ c.last = e /\ Keeps(s, c)
  BY <1>2, <1>3 DEF Snapshot, Keeps
<1> HIDE DEF c
<1> QED
  BY <1>4, <1>5, KeepsValid DEF c

(* An accepted observation stays valid: its fact is bound to the attempt,    *)
(* and termination precedes assessment.                                      *)
LEMMA ObservationValid ==
  ASSUME NEW s, NEW e, NEW f, NEW now, Premise(s, e, f, now), e.kind = "observe"
  PROVE  Candidate(s, e, f, now) \in Snapshot /\ Validate(Candidate(s, e, f, now))
<1> DEFINE d == ApplyObservation(s, f)
           c == Candidate(s, e, f, now)
<1>1. s \in Snapshot /\ s.attempt \in AttemptSnapshot /\ e \in Events /\ now \in Nat
      /\ s.revision + 1 \in Nat /\ f \in RecordedObservation
  BY DEF Premise, WellFormed, Snapshot
<1>2. ObservationAccepts(s, e, f, now)
  BY DEF Premise, Accepts, CommandAccepts, PreparationAccepts, BeginAccepts,
         DispatchedAccepts, ReportAccepts, OutputAccepts
<1>3. HasAttempt(s)
  BY <1>2 DEF ObservationAccepts, TerminationAccepts, EffectAccepts, Terminations, FactBound, Current
<1>4. c = [d EXCEPT !.updated = now, !.revision = s.revision + 1, !.last = e]
  BY DEF Candidate
<1>5. \E a \in AttemptSnapshot :
        /\ d = [s EXCEPT !.attempt = a]
        /\ a.number = s.attempt.number /\ a.accepted = s.attempt.accepted
        /\ a.mode = s.attempt.mode /\ a.runner = s.attempt.runner
        /\ \/ /\ a.termination = s.attempt.termination /\ a.assessment = s.attempt.assessment
              /\ a.output = s.attempt.output
           \/ /\ f.kind \in Terminations /\ ~Terminated(s)
              /\ a.termination = f /\ a.assessment = s.attempt.assessment
              /\ f.kind # "quiescent" => a.output = f.output
           \/ /\ f.kind = "effect" /\ Terminated(s) /\ f.at >= s.attempt.termination.at
              /\ a.assessment = f /\ a.termination = s.attempt.termination
              /\ a.output = s.attempt.output
  <2>1. CASE f.kind \in {"exited", "neverDispatched"}
    <3> DEFINE a == [s.attempt EXCEPT !.output = f.output, !.termination = f]
    <3>1. a \in AttemptSnapshot
      BY <1>1 DEF AttemptSnapshot, RecordedObservation
    <3>2. d = [s EXCEPT !.attempt = a]
      BY <1>1, <2>1 DEF ApplyObservation, Snapshot, AttemptSnapshot
    <3>3. ~Terminated(s)
      BY <1>2, <2>1 DEF ObservationAccepts, TerminationAccepts, EffectAccepts, Terminations
    <3> QED
      BY <1>1, <2>1, <3>1, <3>2, <3>3 DEF AttemptSnapshot, Terminations
  <2>2. CASE f.kind = "quiescent"
    <3> DEFINE a == [s.attempt EXCEPT !.termination = f]
    <3>1. a \in AttemptSnapshot
      BY <1>1 DEF AttemptSnapshot
    <3>2. d = [s EXCEPT !.attempt = a]
      BY <1>1, <2>2 DEF ApplyObservation, Snapshot, AttemptSnapshot
    <3>3. ~Terminated(s)
      BY <1>2, <2>2 DEF ObservationAccepts, TerminationAccepts, EffectAccepts, Terminations
    <3> QED
      BY <1>1, <2>2, <3>1, <3>2, <3>3 DEF AttemptSnapshot, Terminations
  <2>3. CASE f.kind = "effect"
    <3> DEFINE a == [s.attempt EXCEPT !.assessment = f]
    <3>1. a \in AttemptSnapshot
      BY <1>1 DEF AttemptSnapshot
    <3>2. d = [s EXCEPT !.attempt = a]
      BY <1>1, <2>3 DEF ApplyObservation, Snapshot, AttemptSnapshot
    <3>3. Terminated(s) /\ f.at >= s.attempt.termination.at
      BY <1>2, <2>3 DEF ObservationAccepts, TerminationAccepts, EffectAccepts, Terminations
    <3> QED
      BY <1>1, <2>3, <3>1, <3>2, <3>3 DEF AttemptSnapshot
  <2>4. CASE f.kind = "uncertain"
    <3> DEFINE a == [s.attempt EXCEPT !.dispatch = Uncertain(s.attempt.dispatch)]
    <3>1. a \in AttemptSnapshot
      BY <1>1 DEF AttemptSnapshot, Uncertain, DispatchStates
    <3>2. d = [s EXCEPT !.attempt = a]
      BY <1>1, <2>4 DEF ApplyObservation, Snapshot, AttemptSnapshot
    <3> QED
      BY <1>1, <3>1, <3>2 DEF AttemptSnapshot
  <2> QED
    BY <1>2, <2>1, <2>2, <2>3, <2>4 DEF ObservationAccepts, TerminationAccepts, EffectAccepts, Terminations
<1> HIDE DEF d
<1>6. d \in Snapshot
  BY <1>1, <1>5 DEF Snapshot
<1>7. c \in Snapshot /\ c.updated = now /\ c.revision = s.revision + 1 /\ c.last = e
  BY <1>1, <1>4, <1>6 DEF Snapshot
<1>8. PICK a \in AttemptSnapshot :
        /\ c.attempt = a /\ c.opened = s.opened /\ c.first = s.first /\ c.attempts = s.attempts
        /\ c.prior = s.prior /\ c.preparation = s.preparation
        /\ a.number = s.attempt.number /\ a.accepted = s.attempt.accepted
        /\ a.mode = s.attempt.mode /\ a.runner = s.attempt.runner
        /\ \/ /\ a.termination = s.attempt.termination /\ a.assessment = s.attempt.assessment
              /\ a.output = s.attempt.output
           \/ /\ f.kind \in Terminations /\ ~Terminated(s)
              /\ a.termination = f /\ a.assessment = s.attempt.assessment
              /\ f.kind # "quiescent" => a.output = f.output
           \/ /\ f.kind = "effect" /\ Terminated(s) /\ f.at >= s.attempt.termination.at
              /\ a.assessment = f /\ a.termination = s.attempt.termination
              /\ a.output = s.attempt.output
  BY <1>1, <1>4, <1>5 DEF Snapshot
<1> HIDE DEF c
<1>9. ValidRecorded(c, f)
  BY <1>2, <1>7, <1>8 DEF ObservationAccepts, TerminationAccepts, EffectAccepts, Terminations, FactBound, ValidRecorded
<1>10. ValidEnvelope(c) /\ HasAttempt(c) /\ c.first # NoTime /\ ValidAttempt(c)
  <2>1. ValidEnvelope(c)
    BY <1>7, <1>8, EnvelopeKept, BudgetAssumption DEF Premise, Validate, ValidEnvelope, Snapshot
  <2>2. c.first # NoTime /\ ValidAttempt(c)
    BY <1>3, <1>7, <1>8, AttemptKept
  <2> QED
    BY <1>3, <1>8, <2>1, <2>2 DEF HasAttempt
<1>11. ValidTermination(s) /\ ValidAssessment(s)
  BY <1>3 DEF Premise, Validate
<1>12. now >= s.updated /\ now \in Nat /\ s.updated \in Nat
       /\ s.attempt.termination.at \in Nat /\ s.attempt.assessment.at \in Nat
  BY DEF Premise, Snapshot, AttemptSnapshot, RecordedObservation
<1>13. ValidTermination(c)
  BY <1>7, <1>8, <1>9, <1>11, <1>12 DEF ValidTermination, ValidRecorded, Terminated
<1>14. ValidAssessment(c)
  BY <1>7, <1>8, <1>9, <1>11, <1>12 DEF ValidAssessment, ValidRecorded, Terminated, Terminations
<1> QED
  BY <1>7, <1>10, <1>13, <1>14 DEF Validate, c

(* The guards alone are enough: whatever input is accepted in a valid state, *)
(* the candidate passes validation (evaluate_input, apply_*, validate).      *)
THEOREM CandidateValid ==
  ASSUME NEW s, NEW e, NEW f, NEW now, Premise(s, e, f, now)
  PROVE  Candidate(s, e, f, now) \in Snapshot /\ Validate(Candidate(s, e, f, now))
<1>1. e.kind \in CommandKinds \cup {"observe"}
  BY DEF Premise, WellFormed, Events
<1> QED
  BY <1>1, PreparationValid, BeginValid, ReportValid, ObservationValid DEF CommandKinds

-----------------------------------------------------------------------------
(* What a step may do to the facts it finds: either it admits an attempt, or *)
(* it continues the current one.                                             *)

Admits(s, c) ==
  /\ c.attempts = s.attempts + 1
  /\ c.first = (IF s.first = NoTime THEN c.updated ELSE s.first)
  /\ c.prior = TotalOutputBytes(s)
  /\ c.attempt.output = 0
  /\ c.attempt.dispatch = "starting"
  /\ HasAttempt(c) /\ ~Terminated(c) /\ ~Assessed(c)
  /\ c.attempt.id # s.attempt.id \/ ~HasAttempt(s)
  /\ Directive(s, c.updated) \in {"ready", "retryEligible"}
  /\ c.cancel = s.cancel

Continues(s, c) ==
  /\ c.attempts = s.attempts /\ c.first = s.first /\ c.prior = s.prior
  /\ s.cancel => c.cancel
  /\ s.preparation # "received" => c.preparation # "received"
  /\ c.attempt.id = s.attempt.id /\ c.attempt.number = s.attempt.number
  /\ WasDispatched(s.attempt.dispatch) => WasDispatched(c.attempt.dispatch)
  /\ s.attempt.dispatch \notin {"starting", "dispatched"} =>
       c.attempt.dispatch \notin {"starting", "dispatched"}
  /\ Assessed(s) => Assessed(c)
  /\ HasAttempt(s) => c.attempt.output >= s.attempt.output
  /\ HasAttempt(s) /\ Terminated(s) =>
       /\ c.attempt.termination = s.attempt.termination
       /\ c.attempt.dispatch = s.attempt.dispatch
       /\ c.attempt.output = s.attempt.output
       /\ AssessmentOf(s) \in {"satisfied", "noEffect"} =>
            c.attempt.assessment = s.attempt.assessment

(* DispatchState::uncertain keeps the delivery history.                      *)
LEMMA UncertainKeepsHistory ==
  ASSUME NEW d
  PROVE  /\ WasDispatched(d) => WasDispatched(Uncertain(d))
         /\ Uncertain(d) \notin {"starting", "dispatched"}
BY DEF WasDispatched, Uncertain

(* What one accepted input may change, for every kind of input: the effect   *)
(* relation from which the action properties follow.                         *)
LEMMA StepEffect ==
  ASSUME NEW s, NEW e, NEW f, NEW now, Premise(s, e, f, now)
  PROVE  /\ e.kind = "begin" => /\ Admits(s, Candidate(s, e, f, now))
                                /\ Candidate(s, e, f, now).attempt.id = e.attempt
         /\ e.kind # "begin" => Continues(s, Candidate(s, e, f, now))
<1> DEFINE c == Candidate(s, e, f, now)
<1>1. /\ s \in Snapshot /\ s.attempt \in AttemptSnapshot /\ s.attempt.output \in Nat
      /\ e \in Events /\ f \in RecordedObservation
  BY BudgetAssumption DEF Premise, WellFormed, Snapshot, AttemptSnapshot, Bytes
<1>2. CASE e.kind = "begin"
  <2>1. BeginAccepts(s, e, now)
    BY <1>2 DEF Premise, Accepts, CommandAccepts, PreparationAccepts,
       DispatchedAccepts, ReportAccepts, OutputAccepts, ObservationAccepts
  <2>2. /\ c.updated = now /\ c.attempts = s.attempts + 1 /\ c.attempt = NewAttempt(s, e, now)
        /\ c.first = (IF s.first = NoTime THEN now ELSE s.first)
        /\ c.prior = TotalOutputBytes(s) /\ c.cancel = s.cancel
    BY <1>1, <1>2 DEF Candidate, ApplyCommand, ApplyOutput, Begun, Snapshot
  <2> HIDE DEF c
  <2>3. Admits(s, c) /\ c.attempt.id = e.attempt
    BY <1>1, <2>1, <2>2 DEF Admits, NewAttempt, NoAttempt, NoObservation, BeginAccepts,
       HasAttempt, Terminated, Assessed, Snapshot
  <2> QED
    BY <1>2, <2>3 DEF c
<1>3. CASE e.kind \in {"prepare", "wait", "cancel"}
  <2>1. /\ c.attempts = s.attempts /\ c.first = s.first /\ c.prior = s.prior
        /\ c.attempt = s.attempt
        /\ s.preparation # "received" => c.preparation # "received"
    BY <1>1, <1>3 DEF Candidate, ApplyCommand, ApplyOutput, Snapshot
  <2>2. s.cancel => c.cancel
    <3>1. CASE e.kind = "cancel"
      BY <1>1, <3>1 DEF Candidate, ApplyCommand, ApplyOutput, Snapshot
    <3>2. CASE e.kind # "cancel"
      <4>1. c.cancel = s.cancel
        BY <1>1, <1>3, <3>2 DEF Candidate, ApplyCommand, ApplyOutput, Snapshot
      <4> QED
        BY <4>1
    <3> QED
      BY <3>1, <3>2
  <2> HIDE DEF c
  <2>3. Continues(s, c)
    BY <1>1, <2>1, <2>2 DEF Continues, Assessed
  <2> QED
    BY <1>3, <2>3 DEF c
<1>4. CASE e.kind = "dispatched"
  <2>1. s.attempt.dispatch = "starting" /\ ~Terminated(s)
    BY <1>4 DEF Premise, Accepts, CommandAccepts, PreparationAccepts, BeginAccepts,
       DispatchedAccepts, ReportAccepts, OutputAccepts, ObservationAccepts
  <2> QED
    BY <1>1, <1>4, <2>1 DEF Candidate, ApplyCommand, ApplyOutput, Continues, Assessed, Snapshot, AttemptSnapshot, WasDispatched
<1>5. CASE e.kind \in {"unconfirmed", "recover"}
  <2> DEFINE m == MarkUncertain(s)
  <2>1. m \in Snapshot
    BY <1>1, MarkUncertainTyped
  <2>2. Continues(s, m)
    BY <1>1, UncertainKeepsHistory DEF Continues, Assessed, MarkUncertain, Snapshot, AttemptSnapshot
  <2>3. c.attempts = m.attempts /\ c.first = m.first /\ c.prior = m.prior /\ c.cancel = m.cancel
        /\ c.preparation = m.preparation
        /\ c.attempt \in {m.attempt, [m.attempt EXCEPT !.cause = e.note]}
    BY <1>5, <2>1 DEF Candidate, ApplyCommand, ApplyOutput, Snapshot
  <2> HIDE DEF m, c
  <2>4. Continues(s, c)
    BY <2>1, <2>2, <2>3 DEF Continues, Assessed, Snapshot, AttemptSnapshot
  <2> QED
    BY <1>5, <2>4 DEF c
<1>6. CASE e.kind = "stopReported"
  BY <1>1, <1>6 DEF Candidate, ApplyCommand, ApplyOutput, Continues, Assessed, Snapshot, AttemptSnapshot
<1>7. CASE e.kind = "output"
  <2>1. ~Terminated(s) => e.bytes >= s.attempt.output
    BY <1>7 DEF Premise, Accepts, CommandAccepts, PreparationAccepts, BeginAccepts,
       DispatchedAccepts, ReportAccepts, OutputAccepts, ObservationAccepts
  <2> QED
    BY <1>1, <1>7, <2>1 DEF Candidate, ApplyCommand, ApplyOutput, Continues, Assessed, Snapshot, AttemptSnapshot
<1>8. CASE e.kind = "observe"
  <2>1. ObservationAccepts(s, e, f, now)
    BY <1>8 DEF Premise, Accepts, CommandAccepts, PreparationAccepts, BeginAccepts,
       DispatchedAccepts, ReportAccepts, OutputAccepts
  <2>2. CASE f.kind \in {"exited", "neverDispatched"}
    <3>1. ~Terminated(s) /\ f.output >= s.attempt.output
      BY <2>1, <2>2 DEF ObservationAccepts, TerminationAccepts, EffectAccepts, Terminations
    <3> QED
      BY <1>1, <1>8, <2>2, <3>1 DEF Candidate, ApplyObservation, Continues, Assessed, Snapshot, AttemptSnapshot
  <2>3. CASE f.kind = "quiescent"
    <3>1. ~Terminated(s)
      BY <2>1, <2>3 DEF ObservationAccepts, TerminationAccepts, EffectAccepts, Terminations
    <3> QED
      BY <1>1, <1>8, <2>3, <3>1 DEF Candidate, ApplyObservation, Continues, Assessed, Snapshot, AttemptSnapshot
  <2>4. CASE f.kind = "uncertain"
    <3>1. ~Terminated(s)
      BY <2>1, <2>4 DEF ObservationAccepts, TerminationAccepts, EffectAccepts, Terminations
    <3> QED
      BY <1>1, <1>8, <2>4, <3>1, UncertainKeepsHistory
         DEF Candidate, ApplyObservation, Continues, Assessed, Snapshot, AttemptSnapshot
  <2>5. CASE f.kind = "effect"
    <3>1. AssessmentOf(s) \notin {"satisfied", "noEffect"}
      BY <2>1, <2>5 DEF ObservationAccepts, TerminationAccepts, EffectAccepts, Terminations, AssessmentOf
    <3> QED
      BY <1>1, <1>8, <2>5, <3>1 DEF Candidate, ApplyObservation, Continues, Assessed, Snapshot, AttemptSnapshot
  <2> QED
    BY <2>1, <2>2, <2>3, <2>4, <2>5 DEF ObservationAccepts, TerminationAccepts, EffectAccepts, Terminations
<1>9. e.kind \in CommandKinds \cup {"observe"}
  BY DEF Premise, WellFormed, Events
<1> QED
  BY <1>2, <1>3, <1>4, <1>5, <1>6, <1>7, <1>8, <1>9 DEF CommandKinds
=============================================================================
