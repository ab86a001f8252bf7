---------------------------- MODULE ExecutionApp ----------------------------
(***************************************************************************)
(* crates/execution-app over the journal: several instances, each running  *)
(* one call at a time, read a snapshot, decide on it and write, while the  *)
(* others, the runner, the clock and crashes interleave.  A step is one    *)
(* journal transaction, one journal read or one runner call.  The runner   *)
(* (crates/execution-runner) appears as far as these calls use it: memory  *)
(* of launched attempts, the physical work, and evidence about it.         *)
(* The requests are not software programs and need no confirmation here;   *)
(* Journal covers both.                                                    *)
(***************************************************************************)
EXTENDS Journal

CONSTANTS
  Advancers,    \* instances that run request_execution and retry_execution
  Reconcilers,  \* instances that run reconcile
  Cancellers,   \* instances that run cancel
  Effects,      \* assessments an effect observer can establish
  Prints,       \* whether the launched work writes output
  MaxFaults     \* bound on failed calls and process deaths

Instances == Advancers \cup Reconcilers \cup Cancellers

ASSUME AppAssumption ==
  /\ Effects \subseteq Assessments
  /\ Prints \in BOOLEAN
  /\ MaxFaults \in Nat
  /\ Software = {}

(* The identities that operation and revision_operation derive: the stage,   *)
(* the request, the command or attempt, a byte count, the loaded revision.   *)
Operations ==
  (CommandKinds \cup Terminations \cup Assessments \cup {"dispatchResult"}) \X Requests
    \X (Commands \cup AttemptIds \cup {NoId}) \X Bytes \X (0..RevisionMax)

DeliveryCauses ==
  {"cancelled", "staleRevision", "limit", "lifecycleChanged", "runnerRejected", "runnerError"}

StopAnswers == {"acknowledged", "failed"}

ASSUME OperationAssumption ==
  /\ Operations \subseteq EventIds
  /\ DeliveryCauses \subseteq Causes
  /\ StopAnswers \subseteq StopOutcomes

VARIABLES
  receipts,    \* the receipts table: the event (its id is the operation) and outcome
  app,         \* the call each instance is in
  clock,       \* AppHost::reliable_now
  work,        \* the physical work of each attempt
  output,      \* bytes it has written
  records,     \* NativeRunner.records: attempts the runner remembers
  stopping,    \* attempts whose cancel flag is set
  stored,      \* process_evidence
  deliveries,  \* history: calls of RunnerPort::dispatch per attempt
  faults       \* failures so far

runner == <<work, output, records, stopping, deliveries>>
vars == <<journal, receipts, app, clock, runner, stored, faults>>

(* What the runner reports of finished work: an exit with a code, an end by a *)
(* signal, a start that never happened, or supervision given up before the   *)
(* work was seen to be over (finished but not quiescent).                    *)
Finished == {"exited", "killed", "notStarted", "lost"}

NoCapture == [state |-> "none", output |-> 0]

Live == {"preparing", "running"}

Captures == [state : {"none"} \cup Live \cup Finished, output : Bytes]

Idle ==
  [pc |-> "idle", request |-> NoId, command |-> NoId, loaded |-> Open(0), grant |-> 0,
   about |-> NoId, capture |-> NoCapture, live |-> FALSE, note |-> "none"]

AppInit ==
  /\ Init
  /\ receipts = {}
  /\ app = [i \in Instances |-> Idle]
  /\ clock \in Times /\ \A t \in Times : clock <= t
  /\ work = [a \in AttemptIds |-> "absent"]
  /\ output = [a \in AttemptIds |-> 0]
  /\ records = {} /\ stopping = {}
  /\ stored = [a \in AttemptIds |-> NoCapture]
  /\ deliveries = [a \in AttemptIds |-> 0]
  /\ faults = 0

-----------------------------------------------------------------------------
(* Operation identities: begin is named by its command alone, every other    *)
(* operation also by the revision its caller has loaded.                     *)

Operation(stage, r, identity, bytes, revision) == <<stage, r, identity, bytes, revision>>

Stage(i, kind, identity, bytes) ==
  LET s == app[i].loaded IN
  [NoEvent EXCEPT !.id = Operation(kind, app[i].request, identity, bytes, s.revision),
                  !.expected = s.revision, !.kind = kind,
                  !.attempt = s.attempt.id, !.bytes = bytes]

AttemptOf(i) == <<app[i].request, app[i].command>>

BeginOperation(i) == Operation("begin", app[i].request, app[i].command, 0, 0)

Known(op) == \E x \in receipts : x.event.id = op

CanCommit(r, e, f) ==
  LET s == executions[r] IN
  IF Changes(r, e, f, "direct", clock)
  THEN /\ e.kind = "begin" => e.attempt \notin attemptKeys /\ Claimable(r, e.attempt)
       /\ Fits(Reserve(r, TerminalReserve(s, Candidate(s, e, f, clock), e, Held(r))))
  ELSE Fits(reserved)

Goto(i, pc) == [app[i] EXCEPT !.pc = pc]

(* One call of apply_command or apply_observation that returns outcome o.    *)
(* A known operation replays its receipt, or is a conflict when its content  *)
(* differs; only a fresh write is "applied" and may release an action; a     *)
(* write that does not fit or is refused fails with nothing kept.            *)
CommitOutcomes == {"applied", "changed", "stale", "rejected", "error"}

Commit(i, e, f, o) ==
  LET r == app[i].request IN
  \/ \E x \in receipts :
       /\ x.event.id = e.id
       /\ o = IF x.event = e THEN x.outcome ELSE "error"
       /\ UNCHANGED <<journal, receipts>>
  \/ /\ ~Known(e.id) /\ o = "applied"
     /\ InputApplied(r, e, f, "direct", clock)
     /\ receipts' = receipts \cup {[event |-> e, outcome |-> "changed"]}
  \/ /\ ~Known(e.id)
     /\ o = IF Outcome(executions[r], e, f, clock) = "stale" THEN "stale" ELSE "rejected"
     /\ InputRecorded(r, e, f, "direct", clock)
     /\ receipts' = receipts \cup {[event |-> e, outcome |-> o]}
  \/ /\ ~Known(e.id) /\ o = "error"
     /\ ~CanCommit(r, e, f)
     /\ UNCHANGED <<journal, receipts>>

(* A journal read: the caller continues on the snapshot it saw.              *)
Load(i, pc) ==
  /\ app' = [app EXCEPT ![i] = [Goto(i, pc) EXCEPT !.loaded = executions[app[i].request]]]
  /\ UNCHANGED <<journal, receipts, clock, runner, stored, faults>>

(* A step of the call that touches neither the journal nor the runner.       *)
Local(i, next) ==
  /\ app' = [app EXCEPT ![i] = next]
  /\ UNCHANGED <<journal, receipts, clock, runner, stored, faults>>

Quiet == UNCHANGED <<clock, runner, stored, faults>>

-----------------------------------------------------------------------------
(* request_execution registers the plan; advance commits one attempt and     *)
(* holds the action that its first commit releases.                          *)

Register(r) ==
  /\ OpenExecution(r, clock)
  /\ UNCHANGED <<receipts, app>> /\ Quiet

Advance(i, r, c) ==
  /\ app[i].pc = "idle" /\ r \in opened
  /\ Local(i, [Idle EXCEPT !.pc = "lookup", !.request = r, !.command = c, !.loaded = executions[r]])

(* committed_attempt: a receipt of this command ends the call, with no action. *)
LookUp(i) ==
  LET s == app[i].loaded IN
  /\ app[i].pc = "lookup"
  /\ Local(i, IF Known(BeginOperation(i)) THEN Idle
              ELSE Goto(i, IF ~HasAttempt(s) /\ s.preparation # "prepared" THEN "prepare" ELSE "check"))

(* Any receipt of the preparation is good enough, the reload decides.        *)
PrepareAttempt(i) ==
  /\ app[i].pc = "prepare"
  /\ \E o \in CommitOutcomes :
       /\ Commit(i, Stage(i, "prepare", app[i].command, 0), NoObservation, o)
       /\ app' = [app EXCEPT ![i] = IF o = "error" THEN Idle ELSE Goto(i, "reload")]
  /\ Quiet

Reload(i) == app[i].pc = "reload" /\ Load(i, "check")

CheckDirective(i) ==
  /\ app[i].pc = "check"
  /\ Local(i, IF Directive(app[i].loaded, clock) \in {"ready", "retryEligible"}
              THEN Goto(i, "begin") ELSE Idle)

(* Faulty variant of Granted: a replayed begin releases the action again.    *)
GrantedOnReplay(outcome) == outcome \in {"applied", "changed"}

(* Only the commit that created the attempt releases a DispatchAction.       *)
Granted(outcome) == outcome = "applied"

Begin(i, runner_) ==
  LET s == app[i].loaded
      e == [NoEvent EXCEPT !.id = BeginOperation(i), !.expected = s.revision, !.kind = "begin",
                           !.attempt = AttemptOf(i), !.runner = runner_, !.mode = "real"]
  IN
  /\ app[i].pc = "begin"
  /\ \E o \in CommitOutcomes :
       /\ Commit(i, e, NoObservation, o)
       /\ app' = [app EXCEPT ![i] = IF Granted(o) THEN [Goto(i, "granted") EXCEPT !.grant = s.revision + 1]
                                   ELSE Idle]
  /\ Quiet

-----------------------------------------------------------------------------
(* dispatch: re-read, decide whether the action is still good, deliver it to *)
(* the runner and report the result at the revision that was read.           *)

LoadForDispatch(i) == app[i].pc = "granted" /\ Load(i, "deliver")

DispatchCause(s, grant, now) ==
  IF s.cancel THEN "cancelled"
  ELSE IF s.revision # grant THEN "staleRevision"
  ELSE IF Directive(s, now) = "reconcile" THEN "none"
  ELSE IF Directive(s, now) \in {"stopRunner", "budgetExhausted"} THEN "limit"
  ELSE "lifecycleChanged"

Refuse(i) ==
  LET cause == DispatchCause(app[i].loaded, app[i].grant, clock) IN
  /\ app[i].pc = "deliver" /\ cause # "none"
  /\ Local(i, [Goto(i, "report") EXCEPT !.note = cause])

(* RunnerPort::dispatch: a remembered attempt is refused with an error; else *)
(* it is accepted and a thread prepares it, or it is rejected before that,   *)
(* or the call fails.                                                        *)
Deliver(i) ==
  LET a == AttemptOf(i) IN
  /\ app[i].pc = "deliver"
  /\ DispatchCause(app[i].loaded, app[i].grant, clock) = "none"
  /\ deliveries' = [deliveries EXCEPT ![a] = @ + 1]
  /\ \/ /\ a \notin records
        /\ \E w \in {"preparing", "notStarted"} :
             /\ work' = [work EXCEPT ![a] = w]
             /\ app' = [app EXCEPT ![i] = [Goto(i, "report") EXCEPT
                          !.note = IF w = "preparing" THEN "none" ELSE "runnerRejected"]]
        /\ records' = records \cup {a}
     \/ /\ app' = [app EXCEPT ![i] = [Goto(i, "report") EXCEPT !.note = "runnerError"]]
        /\ UNCHANGED <<work, records>>
  /\ UNCHANGED <<journal, receipts, clock, output, stopping, stored, faults>>

Report(i) ==
  LET cause == app[i].note
      e == [Stage(i, IF cause = "none" THEN "dispatched" ELSE "unconfirmed", AttemptOf(i), 0)
              EXCEPT !.id = Operation("dispatchResult", app[i].request, AttemptOf(i), 0,
                                      app[i].loaded.revision),
                     !.attempt = AttemptOf(i), !.note = cause]
  IN
  /\ app[i].pc = "report"
  /\ \E o \in CommitOutcomes : Commit(i, e, NoObservation, o)
  /\ app' = [app EXCEPT ![i] = Idle]
  /\ Quiet

-----------------------------------------------------------------------------
(* reconcile: one of its two rounds; the second is a further call.           *)

Reconcile(i, r) ==
  /\ app[i].pc = "idle" /\ r \in opened
  /\ HasAttempt(executions[r])
  /\ AssessmentOf(executions[r]) \notin {"satisfied", "noEffect", "notSatisfied"}
  /\ Local(i, [Idle EXCEPT !.pc = "capture", !.request = r, !.loaded = executions[r]])

(* capture_for: the runner's evidence, or what was stored when it has none.  *)
Capture(i) ==
  LET a == app[i].loaded.attempt.id
      facts == IF a \in records THEN [state |-> work[a], output |-> output[a]] ELSE stored[a]
  IN
  /\ app[i].pc = "capture"
  /\ Local(i, [app[i] EXCEPT !.pc = IF facts = NoCapture THEN "decide" ELSE "save",
                             !.about = a, !.live = (a \in records), !.capture = facts])

(* Of the current attempt, and only more than is stored; facts that left the *)
(* end of the work open may be replaced.                                     *)
Recordable(i) ==
  LET a == app[i].about IN
  /\ executions[app[i].request].attempt.id = a
  /\ stored[a] # app[i].capture =>
       stored[a].state \notin Finished \ {"lost"} /\ stored[a].output <= app[i].capture.output

(* record_process, then on to charging output that has grown, to the         *)
(* acknowledgement of finished facts, or to the decision.                    *)
Save(i) ==
  LET facts == app[i].capture
      s == app[i].loaded
  IN
  /\ app[i].pc = "save"
  /\ IF Recordable(i)
     THEN /\ stored' = [stored EXCEPT ![app[i].about] = facts]
          /\ app' = [app EXCEPT ![i] = Goto(i,
                       IF ~Terminated(s) /\ facts.output > s.attempt.output THEN "output"
                       ELSE IF facts.state \in Finished THEN "acknowledge" ELSE "decide")]
     ELSE /\ app' = [app EXCEPT ![i] = Idle]
          /\ UNCHANGED stored
  /\ UNCHANGED <<journal, receipts, clock, runner, faults>>

(* The output command must be applied, now or earlier; anything else ends    *)
(* the call with an error.                                                   *)
ChargeOutput(i) ==
  /\ app[i].pc = "output"
  /\ \E o \in CommitOutcomes :
       /\ Commit(i, Stage(i, "output", NoId, app[i].capture.output), NoObservation, o)
       /\ app' = [app EXCEPT ![i] = IF o \in {"applied", "changed"} THEN Goto(i, "reloadCapture") ELSE Idle]
  /\ Quiet

ReloadCapture(i) ==
  /\ app[i].pc = "reloadCapture"
  /\ Load(i, IF app[i].capture.state \in Finished THEN "acknowledge" ELSE "decide")

(* acknowledge_capture: the runner forgets facts that are stored, unless     *)
(* they leave the end of the work open.                                      *)
Acknowledge(i) ==
  LET a == app[i].about IN
  /\ app[i].pc = "acknowledge"
  /\ records' = IF app[i].capture.state = "lost" THEN records ELSE records \ {a}
  /\ app' = [app EXCEPT ![i] = Goto(i, "decide")]
  /\ UNCHANGED <<journal, receipts, clock, work, output, stopping, deliveries, stored, faults>>

(* Faulty variant of NeedsStop: only confirmed deliveries are stopped.       *)
StopsConfirmed(i) ==
  /\ Directive(app[i].loaded, clock) = "stopRunner"
  /\ app[i].loaded.attempt.dispatch = "dispatched"
  /\ app[i].capture.state \notin Finished

NeedsStop(i) ==
  /\ Directive(app[i].loaded, clock) = "stopRunner"
  /\ app[i].capture.state \notin Finished

(* stop_and_record: ask the runner, report its answer when it is news.       *)
Stop(i) ==
  LET a == app[i].loaded.attempt.id
      answer == IF a \in records THEN "acknowledged" ELSE "failed"
  IN
  /\ app[i].pc = "decide" /\ NeedsStop(i)
  /\ stopping' = IF a \in records THEN stopping \cup {a} ELSE stopping
  /\ app' = [app EXCEPT ![i] = [Goto(i, IF app[i].loaded.attempt.stop = answer
                                        THEN "reloadStop" ELSE "stopReport")
                                  EXCEPT !.note = answer]]
  /\ UNCHANGED <<journal, receipts, clock, work, output, records, deliveries, stored, faults>>

NoStop(i) == app[i].pc = "decide" /\ ~NeedsStop(i) /\ Local(i, Goto(i, "observe"))

(* A stop report that cannot be recorded does not end the call.              *)
AfterStopReport(i, outcome) == Goto(i, "reloadStop")

StopReport(i) ==
  LET a == app[i].loaded.attempt.id
      e == [Stage(i, "stopReported", a, 0) EXCEPT !.note = app[i].note]
  IN
  /\ app[i].pc = "stopReport"
  /\ \E o \in CommitOutcomes :
       /\ Commit(i, e, NoObservation, o)
       /\ app' = [app EXCEPT ![i] = AfterStopReport(i, o)]
  /\ Quiet

ReloadStop(i) == app[i].pc = "reloadStop" /\ Load(i, "observe")

(* Faulty variant of Observable: the runner's memory alone is asked, not the *)
(* facts that were stored before it was told to forget them.                 *)
ObservableLive(i) ==
  LET s == app[i].loaded
      a == s.attempt.id
  IN IF Terminated(s)
     THEN IF AssessmentOf(s) \in {"none", "unknown"} THEN Effects ELSE {}
     ELSE IF a \in records /\ work[a] = "exited" THEN {"exited"}
     ELSE IF a \in records /\ work[a] = "notStarted" THEN {"neverDispatched"}
     ELSE {}

(* Faulty variant of Observable: an attempt nobody remembers is taken for    *)
(* one that never started.                                                   *)
AbsentMeansNever(i) ==
  LET s == app[i].loaded IN
  IF Terminated(s)
  THEN IF AssessmentOf(s) \in {"none", "unknown"} THEN Effects ELSE {}
  ELSE IF app[i].capture.state = "exited" THEN {"exited"}
  ELSE IF app[i].capture.state \in {"none", "notStarted"} THEN {"neverDispatched"}
  ELSE {}

(* runner.observe answers about the loaded attempt from its own memory;      *)
(* otherwise the facts captured earlier in this call are used.               *)
FromRunner(i) ==
  LET a == app[i].loaded.attempt.id IN
  Terminated(app[i].loaded) \/ (a \in records /\ work[a] \in {"exited", "notStarted"})

(* What can be observed of the loaded attempt: an effect once it terminated, *)
(* an exit or a start that never happened before that.                       *)
Observable(i) ==
  LET s == app[i].loaded
      state == IF FromRunner(i) THEN work[s.attempt.id] ELSE app[i].capture.state
  IN IF Terminated(s)
     THEN IF AssessmentOf(s) \in {"none", "unknown"} THEN Effects ELSE {}
     ELSE IF state = "exited" THEN {"exited"}
     ELSE IF state = "notStarted" THEN {"neverDispatched"}
     ELSE {}

ObservedFact(i, x) ==
  [Fact(app[i].loaded, x, clock) EXCEPT
     !.output = IF x # "exited" THEN 0
                ELSE IF FromRunner(i) THEN output[app[i].loaded.attempt.id]
                ELSE app[i].capture.output]

Observe(i) ==
  LET s == app[i].loaded IN
  /\ app[i].pc = "observe"
  /\ \E x \in Observable(i), o \in CommitOutcomes :
       LET f == ObservedFact(i, x)
           e == [Stage(i, "observe", s.attempt.id, 0) EXCEPT
                   !.id = Operation(x, app[i].request, s.attempt.id, 0, s.revision),
                   !.attempt = IF FromRunner(i) THEN s.attempt.id ELSE app[i].about,
                   !.runner = f.runner, !.note = f.evidence]
       IN Commit(i, e, f, o)
  /\ app' = [app EXCEPT ![i] = Idle]
  /\ Quiet

(* Faulty variant of NeedsRecovery: an attempt the runner never heard of is   *)
(* left for its caller to report.                                            *)
RecoversFinished(i) ==
  LET s == app[i].loaded IN
  /\ ~Terminated(s) /\ ~IsUncertain(s)
  /\ app[i].capture.state \in Finished

(* Nothing is known of an attempt that the runner does not hold: mark it     *)
(* uncertain, never terminated and never started again.                      *)
NeedsRecovery(i) ==
  LET s == app[i].loaded IN
  /\ ~Terminated(s) /\ ~IsUncertain(s)
  /\ ~app[i].live \/ app[i].capture.state \in Finished

Recover(i) ==
  /\ app[i].pc = "observe" /\ Observable(i) = {} /\ NeedsRecovery(i)
  /\ \E o \in CommitOutcomes :
       Commit(i, Stage(i, "recover", app[i].loaded.attempt.id, 0), NoObservation, o)
  /\ app' = [app EXCEPT ![i] = Idle]
  /\ Quiet

NothingToDo(i) ==
  /\ app[i].pc = "observe" /\ ~NeedsRecovery(i)
  /\ Observable(i) \subseteq Assessments
  /\ Local(i, Idle)

-----------------------------------------------------------------------------
(* cancel: one of its three tries; the next try is a further call.           *)

Cancel(i, r) ==
  /\ app[i].pc = "idle" /\ r \in opened
  /\ ~executions[r].cancel
  /\ Local(i, [Idle EXCEPT !.pc = "cancel", !.request = r, !.loaded = executions[r]])

CommitCancel(i) ==
  /\ app[i].pc = "cancel"
  /\ \E o \in CommitOutcomes :
       Commit(i, [Stage(i, "cancel", NoId, 0) EXCEPT !.attempt = NoId], NoObservation, o)
  /\ app' = [app EXCEPT ![i] = Idle]
  /\ Quiet

-----------------------------------------------------------------------------
(* The runner's own work, time and failures. *)

(* The runner's thread spawns the prepared process, or publishes that it     *)
(* never started: cancelled, too late, or failed.                            *)
Launch(a, how) ==
  /\ work[a] = "preparing"
  /\ work' = [work EXCEPT ![a] = how]
  /\ UNCHANGED <<journal, receipts, app, clock, output, records, stopping, deliveries, stored, faults>>

Write(a) ==
  /\ Prints /\ work[a] = "running" /\ output[a] = 0
  /\ output' = [output EXCEPT ![a] = 1]
  /\ UNCHANGED <<journal, receipts, app, clock, work, records, stopping, deliveries, stored, faults>>

(* It exits, or is killed: on request, at its deadline, at its output limit; *)
(* or the runner gives up on it.                                             *)
End(a, how) ==
  /\ work[a] = "running"
  /\ work' = [work EXCEPT ![a] = how]
  /\ UNCHANGED <<journal, receipts, app, clock, output, records, stopping, deliveries, stored, faults>>

Tick ==
  /\ \E t \in Times : t > clock /\ clock' = t
  /\ UNCHANGED <<journal, receipts, app, runner, stored, faults>>

(* A call ends early: a failed read, a lost answer, a refused permission.    *)
Fail(i) ==
  /\ app[i].pc # "idle" /\ faults < MaxFaults
  /\ app' = [app EXCEPT ![i] = Idle]
  /\ faults' = faults + 1
  /\ UNCHANGED <<journal, receipts, clock, runner, stored>>

(* The service process dies: every call, the runner's memory and any held    *)
(* action are gone; what was being prepared is never spawned, and launched   *)
(* work may or may not survive.                                              *)
Die ==
  /\ faults < MaxFaults
  /\ app' = [i \in Instances |-> Idle]
  /\ \E survivors \in SUBSET {a \in AttemptIds : work[a] = "running"} :
       work' = [a \in AttemptIds |->
                  IF work[a] = "preparing" THEN "notStarted"
                  ELSE IF work[a] = "running" /\ a \notin survivors THEN "killed"
                  ELSE work[a]]
  /\ records' = {} /\ stopping' = {}
  /\ faults' = faults + 1
  /\ UNCHANGED <<journal, receipts, clock, output, deliveries, stored>>

-----------------------------------------------------------------------------

AdvanceStep(i) ==
  \/ \E r \in Requests, c \in Commands : Advance(i, r, c)
  \/ LookUp(i) \/ PrepareAttempt(i) \/ Reload(i) \/ CheckDirective(i)
  \/ \E n \in Runners : Begin(i, n)
  \/ LoadForDispatch(i) \/ Refuse(i) \/ Deliver(i) \/ Report(i)

ReconcileStep(i) ==
  \/ \E r \in Requests : Reconcile(i, r)
  \/ Capture(i) \/ Save(i) \/ ChargeOutput(i) \/ ReloadCapture(i) \/ Acknowledge(i)
  \/ Stop(i) \/ NoStop(i) \/ StopReport(i) \/ ReloadStop(i)
  \/ Observe(i) \/ Recover(i) \/ NothingToDo(i)

CancelStep(i) == (\E r \in Requests : Cancel(i, r)) \/ CommitCancel(i)

AppNext ==
  \/ \E r \in Requests : Register(r)
  \/ \E i \in Advancers : AdvanceStep(i)
  \/ \E i \in Reconcilers : ReconcileStep(i)
  \/ \E i \in Cancellers : CancelStep(i)
  \/ \E a \in AttemptIds, how \in {"running", "notStarted"} : Launch(a, how)
  \/ \E a \in AttemptIds : Write(a)
  \/ \E a \in AttemptIds, how \in {"exited", "killed", "lost"} : End(a, how)
  \/ Tick
  \/ \E i \in Instances : Fail(i)
  \/ Die

AppSpec == AppInit /\ [][AppNext]_vars

(* The service reconciles every open request again and again and finishes a  *)
(* call it started; the runner ends the preparation by its deadline, and     *)
(* kills work whose cancel flag is set or gives up on it.  Nothing else needs *)
(* to happen: work may run forever, callers may never return.                *)
FairAppSpec ==
  /\ AppSpec
  /\ \A i \in Reconcilers : WF_vars(ReconcileStep(i))
  /\ \A a \in AttemptIds :
       /\ WF_vars(Launch(a, "running") \/ Launch(a, "notStarted"))
       /\ WF_vars(a \in stopping /\ (End(a, "killed") \/ End(a, "lost")))

-----------------------------------------------------------------------------
(* Properties *)

(* Whatever is replayed, raced, lost or restarted, the runner is asked to    *)
(* start an attempt at most once, and only after the attempt is durable.     *)
AtMostOneDelivery ==
  \A a \in AttemptIds : deliveries[a] <= 1 /\ (deliveries[a] = 1 => a \in attemptKeys)

(* Work that is prepared, runs or may still run belongs to the current       *)
(* attempt of its request, which the journal does not consider terminated:   *)
(* no retry starts beside it and no evidence is invented for it, not even    *)
(* after the runner lost its memory.  So at most one attempt of a request    *)
(* runs at any time.                                                         *)
RunningWorkIsCurrent ==
  \A r \in Requests, c \in Commands : work[<<r, c>>] \in Live \cup {"lost"} =>
    executions[r].attempt.id = <<r, c>> /\ ~Terminated(executions[r])

(* A terminated attempt really is over, and it is recorded as never started  *)
(* only when it never was.                                                   *)
TerminationIsTrue ==
  \A r \in Requests : r \in opened /\ HasAttempt(executions[r]) /\ Terminated(executions[r]) =>
    LET w == work[executions[r].attempt.id] IN
    IF executions[r].attempt.termination.kind = "neverDispatched" THEN w = "notStarted" ELSE w = "exited"

Evident(r) ==
  LET a == executions[r].attempt.id IN
  /\ r \in opened /\ HasAttempt(executions[r])
  /\ (a \in records /\ work[a] \in {"exited", "notStarted"})
     \/ stored[a].state \in {"exited", "notStarted"}

(* Evidence of the end of an attempt, held by the runner or stored, becomes  *)
(* its termination unless the runner loses it before it was stored           *)
(* (capture_for), as long as the journal has room for the receipt of the     *)
(* output: that receipt is not reserved, and reconcile ends with its failure. *)
EndIsRecorded ==
  \A r \in Requests : Evident(r) ~> (Terminated(executions[r]) \/ ~Evident(r))

(* An attempt does not stay in the starting phase: it is reported, ended, or *)
(* marked uncertain, also when its caller or the whole service died before   *)
(* or during the delivery.                                                   *)
StartingIsResolved ==
  \A r \in Requests :
    (Phase(executions[r]) = "starting" /\ executions[r].attempt.id \notin records)
      ~> (Phase(executions[r]) # "starting" \/ executions[r].attempt.id \in records)

(* Live work that the runner remembers and that is to be stopped, because    *)
(* its time or output is used up or its request was cancelled, does not      *)
(* simply run on: the scheduled reconcile asks for the stop, also when the   *)
(* delivery was never confirmed (stop_and_record).  A bound that is used up  *)
(* stays so, as a cancellation does.                                         *)
DueStopsHappen ==
  \A r \in Requests, c \in Commands :
    LET due == /\ executions[r].attempt.id = <<r, c>>
               /\ Directive(executions[r], clock) = "stopRunner"
        live == work[<<r, c>>] \in Live /\ <<r, c>> \in records
    IN  (due /\ live) ~> ~live
=============================================================================
