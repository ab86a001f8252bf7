----------------------------- MODULE Lifecycle -----------------------------
(***************************************************************************)
(* One execution of crates/execution-lifecycle as a state machine: every   *)
(* action is one Command or one Observation evaluated at some reliable     *)
(* host time and committed.  The inputs are not ordered or filtered by a   *)
(* caller: any command may be submitted at any time, time may jump, and    *)
(* the verifier may return any fact it can bind to the current attempt.    *)
(* An evaluation that ends in an error, Duplicate or Stale leaves the      *)
(* snapshot as it is and is a stuttering step.                             *)
(***************************************************************************)
EXTENDS LifecycleCore

CONSTANTS
  Times,    \* the host times at which inputs may be evaluated
  Counts    \* the byte counts a runner may report

ASSUME InputAssumption == Times \subseteq Nat /\ Counts \subseteq Bytes

VARIABLES
  snapshot,  \* the committed snapshot
  refused    \* history: restore has refused a candidate with LifecycleError::Snapshot

vars == <<snapshot, refused>>

Init == (\E now \in Times : snapshot = Open(now)) /\ refused = FALSE

(* evaluate_input followed by a successful Transition::commit, or by the     *)
(* error that restore raises on the candidate.                               *)
Submit(e, f, now) ==
  LET o == Outcome(snapshot, e, f, now) IN
  /\ o \in {"applied", "snapshot"}
  /\ snapshot' = IF o = "applied" THEN Candidate(snapshot, e, f, now) ELSE snapshot
  /\ refused' = (refused \/ o = "snapshot")

-----------------------------------------------------------------------------
(* The inputs that get past the checks common to all of them: they carry the *)
(* current revision, which is not the last one, and an identity other than    *)
(* the last event's, and the clock is not behind the committed watermark.     *)
(* evaluate_input returns before it looks at any other input.                *)

FreshIds == EventIds \ {snapshot.last.id}

Instants == {t \in Times : t >= snapshot.updated /\ snapshot.revision < RevisionMax}

Event(id, kind) ==
  [NoEvent EXCEPT !.id = id, !.kind = kind, !.expected = snapshot.revision]

BeginEvent(id, attempt, runner, mode) ==
  [Event(id, "begin") EXCEPT !.attempt = attempt, !.runner = runner, !.mode = mode]

AttemptEvent(id, kind, attempt, note) ==
  [Event(id, kind) EXCEPT !.attempt = attempt, !.note = note]

OutputEvent(id, attempt, bytes) ==
  [Event(id, "output") EXCEPT !.attempt = attempt, !.bytes = bytes]

ObserveEvent(id, attempt, runner, evidence) ==
  [Event(id, "observe") EXCEPT !.attempt = attempt, !.runner = runner, !.note = evidence]

Fact(kind, evidence, runner, at, output, assessment) ==
  [kind |-> kind, evidence |-> evidence, runner |-> runner, at |-> at,
   output |-> output, assessment |-> assessment]

-----------------------------------------------------------------------------

Prepare == \E id \in FreshIds, now \in Instants :
  Submit(Event(id, "prepare"), NoObservation, now)

Wait == \E id \in FreshIds, now \in Instants :
  Submit(Event(id, "wait"), NoObservation, now)

BeginAttempt ==
  \E id \in FreshIds, now \in Instants, a \in AttemptIds, r \in Runners, m \in Modes :
    Submit(BeginEvent(id, a, r, m), NoObservation, now)

Dispatched == \E id \in FreshIds, now \in Instants, a \in AttemptIds :
  Submit(AttemptEvent(id, "dispatched", a, "none"), NoObservation, now)

DispatchUnconfirmed == \E id \in FreshIds, now \in Instants, a \in AttemptIds, c \in Causes :
  Submit(AttemptEvent(id, "unconfirmed", a, c), NoObservation, now)

StopReported == \E id \in FreshIds, now \in Instants, a \in AttemptIds, o \in StopOutcomes :
  Submit(AttemptEvent(id, "stopReported", a, o), NoObservation, now)

Cancel == \E id \in FreshIds, now \in Instants :
  Submit(Event(id, "cancel"), NoObservation, now)

Recover == \E id \in FreshIds, now \in Instants :
  Submit(Event(id, "recover"), NoObservation, now)

Output == \E id \in FreshIds, now \in Instants, a \in AttemptIds, n \in Counts :
  Submit(OutputEvent(id, a, n), NoObservation, now)

(* One observation of kind k, resolved by the verifier.                      *)
Observe(k, n, x) ==
  \E id \in FreshIds, now \in Instants, at \in Times, a \in AttemptIds, r \in Runners, ev \in EvidenceKinds :
    Submit(ObserveEvent(id, a, r, ev), Fact(k, ev, r, at, n, x), now)

ObserveExit == \E n \in Counts : Observe("exited", n, "none")

ObserveNeverDispatched == \E n \in Counts : Observe("neverDispatched", n, "none")

ObserveQuiescent == Observe("quiescent", 0, "none")

ObserveEffect == \E x \in Assessments : Observe("effect", 0, x)

ObserveUncertain == Observe("uncertain", 0, "none")

Next ==
  \/ Prepare \/ Wait \/ BeginAttempt \/ Dispatched \/ DispatchUnconfirmed
  \/ StopReported \/ Cancel \/ Recover \/ Output
  \/ ObserveExit \/ ObserveNeverDispatched \/ ObserveQuiescent
  \/ ObserveEffect \/ ObserveUncertain

Spec == Init /\ [][Next]_vars
-----------------------------------------------------------------------------
(* Properties *)

(* Every field of the snapshot keeps its type, byte counters included: they  *)
(* saturate at u64::MAX (state.rs, total_output_bytes) and never exceed it.  *)
TypeOK == snapshot \in Snapshot /\ refused \in BOOLEAN

(* The guards of apply_command and apply_observation are strong enough for   *)
(* validation.rs: the snapshot that an accepted input produces always passes *)
(* restore, so evaluate_input never fails with LifecycleError::Snapshot on a *)
(* state it reached itself.                                                  *)
GuardsImplyValid == ~refused

RetryOnlyAfterNoEffectStep ==
  snapshot'.attempts # snapshot.attempts =>
    \/ snapshot.attempts = 0
    \/ /\ snapshot.attempt.termination.kind \in {"exited", "neverDispatched"}
       /\ AssessmentOf(snapshot) \in {"none", "noEffect"}
       /\ AssessmentOf(snapshot) = "none" =>
            snapshot.attempt.termination.kind = "neverDispatched"

(* A new attempt is admitted only as the first one, or after the previous    *)
(* attempt has an exit and an assessment of no effect, or an authoritative   *)
(* never-dispatched fact that was not contradicted by another assessment.    *)
RetryOnlyAfterNoEffect == [][RetryOnlyAfterNoEffectStep]_vars

BudgetNeverRefundedStep ==
  /\ snapshot.first # NoTime => snapshot'.first = snapshot.first
  /\ snapshot'.attempts >= snapshot.attempts
  /\ TotalOutputBytes(snapshot') >= TotalOutputBytes(snapshot)

(* Waits, retries, restarts and late reports never refund a budget: the      *)
(* first admission time is sticky, the attempt count and the cumulative      *)
(* output never decrease.                                                    *)
BudgetNeverRefunded == [][BudgetNeverRefundedStep]_vars

Exhausted(s, t) ==
  /\ t >= s.updated
  /\ Directive(s, t) = "budgetExhausted"
  /\ LimitReason(s, t) # "notYetValid"

Admissible(s, t) == t >= s.updated /\ Directive(s, t) \in {"ready", "retryEligible"}

ExhaustionIsFinalStep ==
  \A t \in Times : Exhausted(snapshot, t) =>
    \A u \in Times : u >= t => ~Admissible(snapshot', u)

(* An exhausted execution stays exhausted: once directive reports that a     *)
(* time, output or attempt bound is used up, no later state admits another   *)
(* attempt at that time or at any later time.                                *)
ExhaustionIsFinal == [][ExhaustionIsFinalStep]_vars

DispatchHistoryStickyStep ==
  /\ HasAttempt(snapshot)
  /\ snapshot'.attempt.id = snapshot.attempt.id
  /\ WasDispatched(snapshot.attempt.dispatch)
  => WasDispatched(snapshot'.attempt.dispatch)

SettledFactsFinalStep ==
  snapshot'.attempts = snapshot.attempts /\ HasAttempt(snapshot) /\ Terminated(snapshot) =>
    /\ snapshot'.attempt.termination = snapshot.attempt.termination
    /\ snapshot'.attempt.dispatch = snapshot.attempt.dispatch
    /\ snapshot'.attempt.output = snapshot.attempt.output
    /\ AssessmentOf(snapshot) \in {"satisfied", "noEffect"} =>
         snapshot'.attempt.assessment = snapshot.attempt.assessment

CancelIsFinalStep ==
  snapshot.cancel => snapshot'.cancel /\ snapshot'.attempts = snapshot.attempts

(* What is known for certain stays known.  Terminal facts of an attempt are  *)
(* written once: after termination neither the recorded fact, the dispatch   *)
(* history nor the settled output changes, and a conclusive assessment is    *)
(* never replaced.  Recovery and delivery diagnoses never erase a confirmed  *)
(* dispatch (DispatchState::Unknown keeps the sticky history).  And a        *)
(* cancellation is never withdrawn: no attempt is admitted after it,         *)
(* whatever the runner of the current attempt reports later.                 *)
FactsAreFinal ==
  [][SettledFactsFinalStep /\ DispatchHistoryStickyStep /\ CancelIsFinalStep]_vars

PhaseRank(p) ==
  CASE p = "received" -> 0
    [] p \in {"prepared", "waiting"} -> 1
    [] p = "cancelled" -> 2
    [] p = "starting" -> 3
    [] p = "running" -> 4
    [] p = "outcomeUnknown" -> 5
    [] p \in {"executionEnded", "failedBeforeDispatch"} -> 6
    [] p = "verified" -> 7

PhaseNeverRegressesStep ==
  snapshot'.attempts = snapshot.attempts =>
    PhaseRank(Phase(snapshot')) >= PhaseRank(Phase(snapshot))

(* The phase derived for callers only moves forward while the attempt is the *)
(* same: an attempt whose outcome became unknown is never shown as running   *)
(* again on a late delivery receipt, and an ended one is never reopened.     *)
PhaseNeverRegresses == [][PhaseNeverRegressesStep]_vars
=============================================================================
