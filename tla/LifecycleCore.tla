--------------------------- MODULE LifecycleCore ---------------------------
(***************************************************************************)
(* The pure execution lifecycle of crates/execution-lifecycle: a snapshot  *)
(* record, the advice derived from it (Phase, Directive) and the function  *)
(* that evaluates one input event against it (Outcome, Next snapshot).     *)
(* There are no variables here: Lifecycle drives these operators alone,    *)
(* Journal drives them behind the execution journal.                       *)
(*                                                                         *)
(* An Option field of the Rust snapshot is a value of the same shape with  *)
(* a distinguished tag: no attempt is the record whose number is 0 (an     *)
(* admitted attempt counts from 1), no observation is the record whose     *)
(* kind is "none", no time is -1.                                          *)
(***************************************************************************)
EXTENDS Integers

CONSTANTS
  EventIds,       \* identities of input events
  AttemptIds,     \* identities of attempts
  Runners,        \* identities of runners
  Modes,          \* the execution modes offered to BeginAttempt
  Causes,         \* the first-delivery diagnoses of DispatchUnconfirmed
  StopOutcomes,   \* the diagnoses of StopReported
  NoId,           \* the absent event, attempt or runner identity
  TestAuthority,  \* the frozen plan carries Authority::Test
  NotBefore,      \* plan.validity.not_before_unix_ms
  ExpiresAt,      \* plan.validity.expires_at_unix_ms
  MaxAttempts,    \* plan.budget.max_attempts
  TotalTimeout,   \* plan.budget.total_timeout_ms
  TotalOutput,    \* plan.budget.total_output_bytes
  U64Max,         \* u64::MAX for byte counts, which saturate there
  RevisionMax     \* u64::MAX for revisions, which are refused there

ASSUME BudgetAssumption ==
  /\ MaxAttempts \in Nat \ {0}
  /\ TotalTimeout \in Nat \ {0}
  /\ TotalOutput \in Nat \ {0}
  /\ NotBefore \in Nat /\ ExpiresAt \in Nat /\ NotBefore < ExpiresAt
  /\ U64Max \in Nat /\ TotalOutput <= U64Max
  /\ RevisionMax \in Nat \ {0}
  /\ TestAuthority \in BOOLEAN
  /\ Modes \subseteq {"test", "real"}

ASSUME IdAssumption ==
  /\ NoId \notin EventIds
  /\ NoId \notin AttemptIds
  /\ NoId \notin Runners

NoTime == -1

Bytes == 0..U64Max

EvidenceKinds == {"processExited", "stateObserved", "testResult"}

Assessments == {"noEffect", "satisfied", "notSatisfied", "unknown"}

Terminations == {"exited", "neverDispatched", "quiescent"}

-----------------------------------------------------------------------------
(* Snapshot types. *)

NoObservation ==
  [kind |-> "none", evidence |-> "none", runner |-> NoId, at |-> 0,
   output |-> 0, assessment |-> "none"]

(* A verified fact: what ObservationVerifier::verify returns once its plan   *)
(* binding has been checked.  The exit code is not kept, nothing reads it.   *)
RecordedObservation ==
  [kind       : Terminations \cup {"effect", "uncertain", "none"},
   evidence   : EvidenceKinds \cup {"none"},
   runner     : Runners \cup {NoId},
   at         : Nat,
   output     : Bytes,
   assessment : Assessments \cup {"none"}]

DispatchStates == {"starting", "dispatched", "unknownDispatched", "unknownNotDispatched"}

NoAttempt ==
  [id |-> NoId, number |-> 0, accepted |-> 0, runner |-> NoId, mode |-> "test",
   dispatch |-> "starting", cause |-> "none", stop |-> "none",
   termination |-> NoObservation, assessment |-> NoObservation, output |-> 0]

AttemptSnapshot ==
  [id          : AttemptIds \cup {NoId},
   number      : Nat,
   accepted    : Nat,
   runner      : Runners \cup {NoId},
   mode        : {"test", "real"},
   dispatch    : DispatchStates,
   cause       : Causes \cup {"none"},
   stop        : StopOutcomes \cup {"none"},
   termination : RecordedObservation,
   assessment  : RecordedObservation,
   output      : Bytes]

CommandKinds ==
  {"prepare", "wait", "begin", "dispatched", "unconfirmed", "stopReported",
   "cancel", "recover", "output"}

(* EventRecord: a command, or a reference to evidence ("observe").          *)
Events ==
  [id       : EventIds \cup {NoId},
   expected : Nat,
   kind     : CommandKinds \cup {"observe", "none"},
   attempt  : AttemptIds \cup {NoId},
   runner   : Runners \cup {NoId},
   mode     : {"test", "real"},
   bytes    : Bytes,
   note     : Causes \cup StopOutcomes \cup EvidenceKinds \cup {"none"}]

NoEvent ==
  [id |-> NoId, expected |-> 0, kind |-> "none", attempt |-> NoId,
   runner |-> NoId, mode |-> "test", bytes |-> 0, note |-> "none"]

Snapshot ==
  [opened      : Nat,
   updated     : Nat,
   revision    : Nat,
   preparation : {"received", "prepared", "waiting"},
   cancel      : BOOLEAN,
   first       : Nat \cup {NoTime},
   attempts    : Nat,
   prior       : Bytes,
   attempt     : AttemptSnapshot,
   last        : Events]

(* Execution::open *)
Open(now) ==
  [opened |-> now, updated |-> now, revision |-> 0,
   preparation |-> "received", cancel |-> FALSE, first |-> NoTime,
   attempts |-> 0, prior |-> 0, attempt |-> NoAttempt, last |-> NoEvent]

-----------------------------------------------------------------------------
(* Facts derived from a snapshot. *)

HasAttempt(s) == s.attempt.number # 0

Terminated(s) == s.attempt.termination.kind # "none"

Assessed(s) == s.attempt.assessment.kind # "none"

(* The recorded effect assessment, "none" while nothing was assessed.        *)
AssessmentOf(s) == IF Assessed(s) THEN s.attempt.assessment.assessment ELSE "none"

WasDispatched(d) == d \in {"dispatched", "unknownDispatched"}

Uncertain(d) ==
  IF WasDispatched(d) THEN "unknownDispatched" ELSE "unknownNotDispatched"

SaturatingAdd(a, b) == IF a + b > U64Max THEN U64Max ELSE a + b

TotalOutputBytes(s) == SaturatingAdd(s.prior, IF HasAttempt(s) THEN s.attempt.output ELSE 0)

(* Faulty variant of LimitReason: the validity window has no end.            *)
NoExpiry(s, now) ==
  IF now < NotBefore THEN "notYetValid"
  ELSE IF TotalOutputBytes(s) >= TotalOutput THEN "output"
  ELSE IF s.first # NoTime /\ now - s.first >= TotalTimeout THEN "timeout"
  ELSE "none"

(* Faulty variant of LimitReason: the elapsed budget restarts at every event. *)
TimeoutSinceLastEvent(s, now) ==
  IF now < NotBefore THEN "notYetValid"
  ELSE IF now >= ExpiresAt /\ (HasAttempt(s) => Terminated(s)) THEN "expired"
  ELSE IF TotalOutputBytes(s) >= TotalOutput THEN "output"
  ELSE IF s.first # NoTime /\ now - s.updated >= TotalTimeout THEN "timeout"
  ELSE "none"

(* limit_reason: validity bounds new attempts, an attempt that has not       *)
(* terminated keeps only its cumulative budget.                              *)
LimitReason(s, now) ==
  IF now < NotBefore THEN "notYetValid"
  ELSE IF now >= ExpiresAt /\ (HasAttempt(s) => Terminated(s)) THEN "expired"
  ELSE IF TotalOutputBytes(s) >= TotalOutput THEN "output"
  ELSE IF s.first # NoTime /\ now - s.first >= TotalTimeout THEN "timeout"
  ELSE "none"

(* Faulty variant of NoEffect: a later assessment cannot contradict a         *)
(* never-dispatched fact.                                                    *)
NeverDispatchedWins(s) ==
  AssessmentOf(s) = "noEffect" \/ s.attempt.termination.kind = "neverDispatched"

(* No effect is established by an assessment, or by the authoritative        *)
(* never-dispatched termination as long as nothing was assessed.             *)
NoEffect(s) ==
  \/ AssessmentOf(s) = "noEffect"
  \/ ~Assessed(s) /\ s.attempt.termination.kind = "neverDispatched"

(* Execution::phase: the phase shown to callers, derived and never stored.   *)
Phase(s) ==
  CASE ~HasAttempt(s) -> IF s.cancel THEN "cancelled" ELSE s.preparation
    [] HasAttempt(s) /\ Assessed(s) -> "verified"
    [] HasAttempt(s) /\ ~Assessed(s) /\ Terminated(s) ->
         IF s.attempt.termination.kind = "neverDispatched"
         THEN "failedBeforeDispatch" ELSE "executionEnded"
    [] OTHER ->
         CASE s.attempt.dispatch = "starting" -> "starting"
           [] s.attempt.dispatch = "dispatched" -> "running"
           [] OTHER -> "outcomeUnknown"

(* The three arms of Execution::directive, for now >= s.updated.             *)
IdleDirective(s, now) ==
  CASE s.cancel -> "done"
    [] ~s.cancel /\ LimitReason(s, now) # "none" -> "budgetExhausted"
    [] OTHER -> CASE s.preparation = "received" -> "prepare"
                  [] s.preparation = "prepared" -> "ready"
                  [] OTHER -> "wait"

ActiveDirective(s, now) ==
  CASE s.cancel \/ LimitReason(s, now) # "none" -> "stopRunner"
    [] OTHER -> IF s.attempt.dispatch = "dispatched" THEN "wait" ELSE "reconcile"

Concluded(s) == AssessmentOf(s) = "satisfied" \/ (s.cancel /\ NoEffect(s))

SettledDirective(s, now) ==
  IF Concluded(s) THEN "done"
  ELSE IF NoEffect(s) /\ s.attempt.termination.kind = "quiescent"
  THEN "manualReview"
  ELSE IF NoEffect(s)
  THEN IF LimitReason(s, now) # "none" \/ s.attempts >= MaxAttempts
       THEN "budgetExhausted" ELSE "retryEligible"
  ELSE IF Assessed(s) THEN "manualReview" ELSE "verifyTarget"

Directive(s, now) ==
  IF ~HasAttempt(s) THEN IdleDirective(s, now)
  ELSE IF ~Terminated(s) THEN ActiveDirective(s, now)
  ELSE SettledDirective(s, now)

-----------------------------------------------------------------------------
(* Validation of a snapshot against its plan (validation.rs). *)

ValidEvidence(mode, evidence, kind) ==
  IF mode = "test" THEN evidence = "testResult"
  ELSE evidence = IF kind = "exited" THEN "processExited" ELSE "stateObserved"

ValidEnvelope(s) ==
  /\ s.updated >= s.opened
  /\ s.attempts <= MaxAttempts
  /\ IF s.last.kind = "none" THEN s.revision = 0
     ELSE s.last.expected < RevisionMax /\ s.revision = s.last.expected + 1
  /\ s.revision = 0 =>
       /\ s.preparation = "received" /\ ~s.cancel
       /\ ~HasAttempt(s) /\ s.opened = s.updated

ValidRecorded(s, o) ==
  /\ o.runner = s.attempt.runner
  /\ ValidEvidence(s.attempt.mode, o.evidence, o.kind)
  /\ o.at >= s.attempt.accepted
  /\ o.at <= s.updated

ValidAttempt(s) ==
  LET a == s.attempt IN
  /\ s.preparation = "prepared"
  /\ a.number = s.attempts
  /\ s.first >= s.opened /\ s.first >= NotBefore
  /\ a.accepted >= s.first /\ a.accepted < ExpiresAt /\ a.accepted <= s.updated
  /\ a.accepted - s.first < TotalTimeout
  /\ a.number = 1 => s.first = a.accepted /\ s.prior = 0
  /\ s.prior < TotalOutput
  /\ TestAuthority => a.mode = "test"

ValidTermination(s) ==
  LET t == s.attempt.termination IN
  t.kind # "none" =>
    /\ ValidRecorded(s, t)
    /\ t.kind \in Terminations
    /\ t.kind # "quiescent" => t.output = s.attempt.output

ValidAssessment(s) ==
  LET o == s.attempt.assessment IN
  o.kind # "none" =>
    /\ ValidRecorded(s, o)
    /\ o.kind = "effect"
    /\ Terminated(s)
    /\ o.at >= s.attempt.termination.at

Validate(s) ==
  /\ ValidEnvelope(s)
  /\ IF HasAttempt(s)
     THEN /\ s.first # NoTime
          /\ ValidAttempt(s)
          /\ ValidTermination(s)
          /\ ValidAssessment(s)
     ELSE s.first = NoTime /\ s.attempts = 0 /\ s.prior = 0

-----------------------------------------------------------------------------
(* apply_command: when each command is accepted, and what it leaves. *)

Current(s, e) == HasAttempt(s) /\ s.attempt.id = e.attempt

PreparationAccepts(s, e) ==
  e.kind \in {"prepare", "wait"} /\ ~HasAttempt(s) /\ ~s.cancel

BeginAccepts(s, e, now) ==
  /\ e.kind = "begin"
  /\ Directive(s, now) \in {"ready", "retryEligible"}
  /\ TestAuthority => e.mode = "test"
  /\ HasAttempt(s) =>
       s.attempt.id # e.attempt /\ s.attempt.runner = e.runner /\ s.attempt.mode = e.mode

(* Faulty variant of DispatchedAccepts: a late delivery receipt overrules the *)
(* uncertainty that recovery recorded.                                       *)
LateReceiptAccepts(s, e) ==
  e.kind = "dispatched" /\ Current(s, e) /\ ~Terminated(s)

DispatchedAccepts(s, e) ==
  /\ e.kind = "dispatched" /\ Current(s, e)
  /\ s.attempt.dispatch = "starting" /\ ~Terminated(s)

ReportAccepts(s, e) == e.kind \in {"unconfirmed", "stopReported"} /\ Current(s, e)

OutputAccepts(s, e) ==
  /\ e.kind = "output" /\ Current(s, e)
  /\ IF Terminated(s) THEN e.bytes <= s.attempt.output ELSE e.bytes >= s.attempt.output

CommandAccepts(s, e, now) ==
  \/ PreparationAccepts(s, e)
  \/ BeginAccepts(s, e, now)
  \/ DispatchedAccepts(s, e)
  \/ ReportAccepts(s, e)
  \/ OutputAccepts(s, e)
  \/ e.kind \in {"cancel", "recover"}

NewAttempt(s, e, now) ==
  [NoAttempt EXCEPT !.id = e.attempt, !.number = s.attempts + 1, !.accepted = now,
                    !.runner = e.runner, !.mode = e.mode]

(* Faulty variant of Begun: the previous attempt's output is not carried over. *)
BegunWithFreshOutput(s, e, now) ==
  [s EXCEPT !.attempts = s.attempts + 1,
            !.first = IF s.first = NoTime THEN now ELSE s.first,
            !.attempt = NewAttempt(s, e, now)]

Begun(s, e, now) ==
  [s EXCEPT !.attempts = s.attempts + 1,
            !.first = IF s.first = NoTime THEN now ELSE s.first,
            !.prior = TotalOutputBytes(s),
            !.attempt = NewAttempt(s, e, now)]

MarkUncertain(s) ==
  IF HasAttempt(s) /\ ~Terminated(s)
  THEN [s EXCEPT !.attempt.dispatch = Uncertain(s.attempt.dispatch)]
  ELSE s

(* Faulty variant of ApplyOutput: the reported total is taken for a delta.   *)
OutputAsDelta(s, e) ==
  IF Terminated(s) THEN s ELSE [s EXCEPT !.attempt.output = s.attempt.output + e.bytes]

ApplyOutput(s, e) ==
  IF Terminated(s) THEN s ELSE [s EXCEPT !.attempt.output = e.bytes]

ApplyCommand(s, e, now) ==
  CASE e.kind = "prepare"      -> [s EXCEPT !.preparation = "prepared"]
    [] e.kind = "wait"         -> [s EXCEPT !.preparation = "waiting"]
    [] e.kind = "begin"        -> Begun(s, e, now)
    [] e.kind = "dispatched"   -> [s EXCEPT !.attempt.dispatch = "dispatched"]
    [] e.kind = "unconfirmed"  -> [MarkUncertain(s) EXCEPT !.attempt.cause = e.note]
    [] e.kind = "stopReported" -> [s EXCEPT !.attempt.stop = e.note]
    [] e.kind = "cancel"       -> [s EXCEPT !.cancel = TRUE]
    [] e.kind = "recover"      -> MarkUncertain(s)
    [] OTHER -> ApplyOutput(s, e)

-----------------------------------------------------------------------------
(* apply_observation: f is the fact the verifier returned for the event's    *)
(* evidence reference.                                                       *)

FactBound(s, e, f, now) ==
  /\ Current(s, e)
  /\ f.evidence = e.note
  /\ f.runner = e.runner
  /\ f.runner = s.attempt.runner
  /\ f.at >= s.attempt.accepted
  /\ f.at <= now
  /\ ValidEvidence(s.attempt.mode, f.evidence, f.kind)

TerminationAccepts(s, f) ==
  /\ f.kind \in Terminations
  /\ ~Terminated(s)
  /\ f.kind # "quiescent" => f.output >= s.attempt.output

(* Faulty variant of EffectAccepts: a later assessment replaces any other.   *)
EffectOverwrites(s, f) ==
  /\ f.kind = "effect"
  /\ Terminated(s)
  /\ f.at >= s.attempt.termination.at

EffectAccepts(s, f) ==
  /\ f.kind = "effect"
  /\ Terminated(s)
  /\ f.at >= s.attempt.termination.at
  /\ Assessed(s) =>
       /\ f.at >= s.attempt.assessment.at
       /\ AssessmentOf(s) \notin {"satisfied", "noEffect"}

ObservationAccepts(s, e, f, now) ==
  /\ e.kind = "observe"
  /\ FactBound(s, e, f, now)
  /\ \/ TerminationAccepts(s, f)
     \/ EffectAccepts(s, f)
     \/ f.kind = "uncertain" /\ ~Terminated(s)

ApplyObservation(s, f) ==
  CASE f.kind \in {"exited", "neverDispatched"} ->
         [s EXCEPT !.attempt.output = f.output, !.attempt.termination = f]
    [] f.kind = "quiescent" -> [s EXCEPT !.attempt.termination = f]
    [] f.kind = "effect"    -> [s EXCEPT !.attempt.assessment = f]
    [] OTHER -> [s EXCEPT !.attempt.dispatch = Uncertain(s.attempt.dispatch)]

-----------------------------------------------------------------------------
(* evaluate_input: the candidate snapshot, and which of the exits is taken.  *)

Candidate(s, e, f, now) ==
  LET applied == IF e.kind = "observe" THEN ApplyObservation(s, f)
                 ELSE ApplyCommand(s, e, now)
  IN  [applied EXCEPT !.updated = now, !.revision = s.revision + 1, !.last = e]

Accepts(s, e, f, now) ==
  CommandAccepts(s, e, now) \/ ObservationAccepts(s, e, f, now)

Outcome(s, e, f, now) ==
  IF now < s.updated THEN "clock"
  ELSE IF s.last.kind # "none" /\ s.last.id = e.id
  THEN IF s.last = e THEN "duplicate" ELSE "conflict"
  ELSE IF e.expected < s.revision THEN "stale"
  ELSE IF e.expected # s.revision \/ s.revision = RevisionMax THEN "revision"
  ELSE IF ~Accepts(s, e, f, now) THEN "rejected"
  ELSE IF ~Validate(Candidate(s, e, f, now)) THEN "snapshot"
  ELSE "applied"
=============================================================================
