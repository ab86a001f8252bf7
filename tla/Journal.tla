------------------------------ MODULE Journal ------------------------------
(***************************************************************************)
(* The execution journal of crates/execution-sqlite: several executions    *)
(* share one database whose receipts are bounded.  Every write is one      *)
(* immediate transaction, hence one action; a write that fails is rolled   *)
(* back and is a stuttering step.  What a snapshot may become is decided   *)
(* by LifecycleCore; the journal adds the clock watermark, the receipts    *)
(* and the slots reserved for settlements, attempt identities, exclusive   *)
(* resources and the confirmation that admission may require.              *)
(*                                                                         *)
(* An operation identity that already has a receipt returns that receipt   *)
(* and changes nothing (Start::Replay); the actions here are the writes of *)
(* fresh identities.  ExecutionApp adds the identities and their replay.   *)
(***************************************************************************)
EXTENDS LifecycleCore, FiniteSets

CONSTANTS
  Requests,      \* request identities, one execution each
  Commands,      \* owner command identities; an attempt is named by request and command
  Resources,     \* exclusive resource keys
  Needs,         \* Needs[r]: plan.exclusive_resource_keys()
  Software,      \* the requests whose plan is a software program
  MaxReceipts,   \* limits.max_receipts
  ConfirmBy,     \* execution_confirmation(plan).expires_at_unix_ms
  Gates,         \* verdicts AppHost::admit may return
  Inputs,        \* the kinds of input offered in this instance
  Times          \* host times

Answers == {"accepted", "declined", "cancelled", "checkExpiry"}

GateVerdicts == {"direct", "confirmation", "blocked", "denied"}

ASSUME JournalAssumption ==
  /\ \E x, y \in EventIds : x # y
  /\ IsFiniteSet(Requests)
  /\ AttemptIds = Requests \X Commands
  /\ Needs \in [Requests -> SUBSET Resources]
  /\ Software \subseteq Requests
  /\ MaxReceipts \in Nat
  /\ ConfirmBy \in Nat /\ ConfirmBy <= ExpiresAt
  /\ Gates \subseteq GateVerdicts
  /\ Times \subseteq Nat
  /\ Inputs \subseteq (CommandKinds \ {"begin"}) \cup Terminations \cup Assessments \cup {"uncertain"}

VARIABLES
  opened,        \* requests with a row in executions
  executions,    \* executions.snapshot
  reserved,      \* executions.reserve and interactions.reserve: <<request, obligation>>
  confirmation,  \* the confirmation interaction of each request
  attemptKeys,   \* the attempts table
  claims,        \* resource_claims: the attempt that holds a resource, or NoId
  closed,        \* attempts whose software progress is closed
  used,          \* number of receipts
  watermark      \* metadata.clock_watermark

journal == <<opened, executions, reserved, confirmation, attemptKeys, claims, closed, used, watermark>>

Obligations == {"cancel", "uncertainty", "termination", "assessment", "conclusion"}

NoConfirmation == [status |-> "absent", at |-> 0]

Confirmations ==
  [status : {"absent", "pending", "accepted", "declined", "cancelled", "expired"}, at : Nat]

Init ==
  /\ opened = {}
  /\ executions = [r \in Requests |-> Open(0)]
  /\ reserved = {}
  /\ confirmation = [r \in Requests |-> NoConfirmation]
  /\ attemptKeys = {}
  /\ claims = [k \in Resources |-> NoId]
  /\ closed = {}
  /\ used = 0
  /\ watermark = 0

-----------------------------------------------------------------------------
(* Faulty variant of Fits: the receipt being written is not counted.         *)
FitsLoosely(held) == used + Cardinality(held) <= MaxReceipts

(* Receipts: ensure_capacity counts the receipts, the slots that stay        *)
(* reserved after this write, and the receipt being written.                 *)
Fits(held) == used + Cardinality(held) + 1 <= MaxReceipts

Receipt(held, now) ==
  /\ now >= watermark
  /\ Fits(held)
  /\ reserved' = held
  /\ used' = used + 1
  /\ watermark' = now

Held(r) == {o \in Obligations : <<r, o>> \in reserved}

(* Replace the obligations of one execution, keeping all other reservations. *)
Reserve(r, obligations) ==
  (reserved \ ({r} \X Obligations)) \cup ({r} \X obligations)

IsUncertain(s) == HasAttempt(s) /\ s.attempt.dispatch \in {"unknownDispatched", "unknownNotDispatched"}

Conclusive(s) == HasAttempt(s) /\ AssessmentOf(s) \in {"satisfied", "noEffect"}

(* The obligations that the step from s to c discharges.                     *)
Discharged(s, c) ==
  (IF ~s.cancel /\ c.cancel THEN {"cancel"} ELSE {})
  \cup (IF IsUncertain(c) /\ HasAttempt(s) /\ ~IsUncertain(s) THEN {"uncertainty"} ELSE {})
  \cup (IF HasAttempt(s) /\ Terminated(c) /\ ~Terminated(s) THEN {"termination"} ELSE {})
  \cup (IF HasAttempt(s) /\ Assessed(c) /\ ~Assessed(s) THEN {"assessment"} ELSE {})

(* Faulty variant of TerminalReserve: a new attempt inherits what the        *)
(* previous one left instead of reserving again.                             *)
InheritedReserve(s, c, e, held) ==
  IF Conclusive(c) \/ (~HasAttempt(c) /\ c.cancel) THEN {}
  ELSE held \ Discharged(s, c)

TerminalReserve(s, c, e, held) ==
  IF e.kind = "begin" THEN Obligations
  ELSE IF Conclusive(c) \/ (~HasAttempt(c) /\ c.cancel) THEN {}
  ELSE held \ Discharged(s, c)

-----------------------------------------------------------------------------
(* Exclusive resources. *)

Claimable(r, a) == \A k \in Needs[r] : claims[k] \in {NoId, a}

Claim(r, a) == [k \in Resources |-> IF k \in Needs[r] THEN a ELSE claims[k]]

(* Faulty variant of Settles: an exit of the process releases a software plan too. *)
AnyExitSettles(r, s, shut) == HasAttempt(s) /\ Terminated(s)

(* The physical work of the current attempt is known to be over.             *)
Settles(r, s, shut) ==
  /\ HasAttempt(s) /\ Terminated(s)
  /\ \/ s.attempt.termination.kind = "neverDispatched"
     \/ r \notin Software /\ s.attempt.termination.kind \in {"exited", "quiescent"}
     \/ s.attempt.id \in shut

Settle(r, s, shut, held) ==
  IF Needs[r] # {} /\ Settles(r, s, shut)
  THEN [k \in Resources |-> IF held[k] = s.attempt.id THEN NoId ELSE held[k]]
  ELSE held

-----------------------------------------------------------------------------
(* Confirmation (crates/execution-interaction, ExecutionAction kind). *)

(* Faulty variant of Confirmed: an answer never ages.                        *)
EverConfirmed(r, now) == confirmation[r].status = "accepted"

Confirmed(r, now) == now < ConfirmBy /\ confirmation[r].status = "accepted"

(* The commit gate of BeginAttempt.  "blocked" is ExecutionGate::Blocked or a *)
(* permit past its valid_until, "denied" a refusal of AppHost::admit.        *)
Allowed(r, gate, now) ==
  /\ gate = "direct" \/ (gate = "confirmation" /\ Confirmed(r, now))
  /\ NotBefore <= now /\ now < ExpiresAt

(* Interaction::evaluate on a pending interaction: expiry has precedence     *)
(* over any command, even the right answer.                                  *)
Answered(command, now) ==
  [status |-> IF now >= ConfirmBy THEN "expired" ELSE command, at |-> now]

OpenInteraction(r, now) ==
  /\ r \in opened
  /\ confirmation[r].status = "absent"
  /\ now < ConfirmBy
  /\ Receipt(reserved \cup {<<r, "answer">>}, now)
  /\ confirmation' = [confirmation EXCEPT ![r] = [status |-> "pending", at |-> now]]
  /\ UNCHANGED <<opened, executions, attemptKeys, claims, closed>>

(* Answer, cancel or check expiry.  A late command, and a check before the   *)
(* deadline, leave a receipt only.                                           *)
ApplyInteraction(r, command, now) ==
  /\ r \in opened
  /\ confirmation[r].status # "absent"
  /\ LET changes == confirmation[r].status = "pending" /\ (command # "checkExpiry" \/ now >= ConfirmBy)
     IN  /\ Receipt(IF changes THEN reserved \ {<<r, "answer">>} ELSE reserved, now)
         /\ confirmation' = IF changes THEN [confirmation EXCEPT ![r] = Answered(command, now)]
                            ELSE confirmation
  /\ UNCHANGED <<opened, executions, attemptKeys, claims, closed>>

-----------------------------------------------------------------------------
(* Executions. *)

OpenExecution(r, now) ==
  /\ r \notin opened
  /\ Receipt(Reserve(r, Obligations), now)
  /\ opened' = opened \cup {r}
  /\ executions' = [executions EXCEPT ![r] = Open(now)]
  /\ UNCHANGED <<confirmation, attemptKeys, claims, closed>>

(* Another operation registers the same plan: a Duplicate receipt.           *)
ReopenExecution(r, now) ==
  /\ r \in opened
  /\ Receipt(reserved, now)
  /\ UNCHANGED <<opened, executions, confirmation, attemptKeys, claims, closed>>

(* Whether apply_input gets as far as writing a changed snapshot.            *)
Changes(r, e, f, gate, now) ==
  /\ e.kind = "begin" => Allowed(r, gate, now)
  /\ Outcome(executions[r], e, f, now) = "applied"

(* A commit-gate rejection, a lifecycle error, Stale and Duplicate leave the *)
(* snapshot alone and are recorded as a receipt of their own.                *)
InputRecorded(r, e, f, gate, now) ==
  /\ r \in opened
  /\ ~Changes(r, e, f, gate, now)
  /\ Receipt(reserved, now)
  /\ UNCHANGED <<opened, executions, confirmation, attemptKeys, claims, closed>>

InputApplied(r, e, f, gate, now) ==
  LET s == executions[r]
      c == Candidate(s, e, f, now)
  IN
  /\ r \in opened
  /\ Changes(r, e, f, gate, now)
  /\ e.kind = "begin" => e.attempt \notin attemptKeys /\ Claimable(r, e.attempt)
  /\ Receipt(Reserve(r, TerminalReserve(s, c, e, Held(r))), now)
  /\ executions' = [executions EXCEPT ![r] = c]
  /\ attemptKeys' = IF e.kind = "begin" THEN attemptKeys \cup {e.attempt} ELSE attemptKeys
  /\ claims' = Settle(r, c, closed, IF e.kind = "begin" THEN Claim(r, e.attempt) ELSE claims)
  /\ UNCHANGED <<opened, confirmation, closed>>

ApplyInput(r, e, f, gate, now) ==
  InputRecorded(r, e, f, gate, now) \/ InputApplied(r, e, f, gate, now)

(* record_software_progress appends checkpoints to the current attempt, with *)
(* no receipt; shut says whether SoftwareProgress::closed holds of them.     *)
(* A running program opens and closes phases; after the termination nothing  *)
(* is appended to a closed sequence (resume_software needs an active attempt,*)
(* cleanup_allowance an open sequence), but a late cleanup may close it and  *)
(* settle the resources.                                                     *)
RecordSoftwareProgress(r, shut) ==
  LET s == executions[r] IN
  /\ r \in opened \cap Software
  /\ HasAttempt(s)
  /\ Terminated(s) /\ s.attempt.id \in closed => shut
  /\ closed' = IF shut THEN closed \cup {s.attempt.id} ELSE closed \ {s.attempt.id}
  /\ claims' = Settle(r, s, closed', claims)
  /\ UNCHANGED <<opened, executions, reserved, confirmation, attemptKeys, used, watermark>>

-----------------------------------------------------------------------------
(* The inputs of this instance.  Event identities are never reused and a     *)
(* snapshot compares only with its last one, so two of them suffice; a       *)
(* caller holds the current revision or an old one.                          *)

Instants == {t \in Times : t >= watermark}

FreshId(s) == CHOOSE id \in EventIds : id # s.last.id

Expected(s) == {s.revision, 0}

Notes(kind) ==
  CASE kind = "unconfirmed" -> Causes
    [] kind = "stopReported" -> StopOutcomes
    [] OTHER -> {"none"}

CommandEvent(s, kind, note, expected) ==
  [NoEvent EXCEPT !.id = FreshId(s), !.expected = expected, !.kind = kind,
                  !.attempt = s.attempt.id, !.note = note,
                  !.bytes = IF kind = "output" THEN 1 ELSE 0]

BeginEvent(s, attempt, runner, expected) ==
  [NoEvent EXCEPT !.id = FreshId(s), !.expected = expected, !.kind = "begin",
                  !.attempt = attempt, !.runner = runner, !.mode = "real"]

ObservationEvent(s, fact, expected) ==
  [NoEvent EXCEPT !.id = FreshId(s), !.expected = expected, !.kind = "observe",
                  !.attempt = s.attempt.id, !.runner = fact.runner, !.note = fact.evidence]

(* A fact about the current attempt: an assessment, or any other kind.       *)
Fact(s, i, now) ==
  [kind |-> IF i \in Assessments THEN "effect" ELSE i,
   evidence |-> IF i = "exited" THEN "processExited" ELSE "stateObserved",
   runner |-> s.attempt.runner, at |-> now, output |-> s.attempt.output,
   assessment |-> IF i \in Assessments THEN i ELSE "none"]

Offered(s, now) ==
  (UNION {{<<CommandEvent(s, k, n, x), NoObservation>> : n \in Notes(k), x \in Expected(s)} :
            k \in Inputs \cap CommandKinds})
  \cup {<<ObservationEvent(s, Fact(s, i, now), x), Fact(s, i, now)>> :
           i \in Inputs \cap (Terminations \cup Assessments \cup {"uncertain"}), x \in Expected(s)}

SubmitInput ==
  \E r \in Requests, now \in Instants : \E i \in Offered(executions[r], now) :
    ApplyInput(r, i[1], i[2], "direct", now)

BeginAttempt ==
  \E r \in Requests, now \in Instants, c \in Commands, runner \in Runners, gate \in Gates :
    \E x \in Expected(executions[r]) :
      ApplyInput(r, BeginEvent(executions[r], <<r, c>>, runner, x), NoObservation, gate, now)

Next ==
  \/ \E r \in Requests, now \in Instants : OpenExecution(r, now)
  \/ \E r \in Requests, now \in Instants : ReopenExecution(r, now)
  \/ \E r \in Requests, now \in Instants : OpenInteraction(r, now)
  \/ \E r \in Requests, now \in Instants, command \in Answers : ApplyInteraction(r, command, now)
  \/ SubmitInput
  \/ BeginAttempt
  \/ \E r \in Requests, shut \in BOOLEAN : RecordSoftwareProgress(r, shut)

Spec == Init /\ [][Next]_journal

-----------------------------------------------------------------------------
(* Properties *)

(* Every table keeps its type, and receipts together with the reserved slots *)
(* never exceed limits.max_receipts.                                         *)
TypeOK ==
  /\ opened \subseteq Requests
  /\ executions \in [Requests -> Snapshot]
  /\ reserved \subseteq Requests \X (Obligations \cup {"answer"})
  /\ confirmation \in [Requests -> Confirmations]
  /\ attemptKeys \subseteq AttemptIds
  /\ claims \in [Resources -> AttemptIds \cup {NoId}]
  /\ closed \subseteq AttemptIds
  /\ used \in Nat /\ used + Cardinality(reserved) <= MaxReceipts
  /\ watermark \in Nat

(* An input that settles something the journal reserved for: the first       *)
(* cancellation, uncertainty, termination or assessment, or the conclusion.  *)
Settlement(s, c) == ~Conclusive(s) /\ (Discharged(s, c) # {} \/ Conclusive(c))

(* However full the journal is, in whatever order several executions and     *)
(* their confirmations used it up: the receipt of every settlement the       *)
(* lifecycle accepts, and of the answer to a pending confirmation, still     *)
(* fits (terminal_reserve, ensure_capacity).                                 *)
ReservedSlotsSuffice ==
  \A r \in opened :
    LET s == executions[r] IN
    /\ \A now \in Instants : \A i \in Offered(s, now) :
         LET c == Candidate(s, i[1], i[2], now) IN
         Outcome(s, i[1], i[2], now) = "applied" /\ Settlement(s, c) =>
           Fits(Reserve(r, TerminalReserve(s, c, i[1], Held(r))))
    /\ confirmation[r].status = "pending" => Fits(reserved \ {<<r, "answer">>})

(* The attempt may still touch its resources: it has not terminated, or it   *)
(* is a dispatched software program with an open phase.                      *)
MayBeWorking(r) ==
  LET s == executions[r] IN
  /\ r \in opened /\ HasAttempt(s)
  /\ Terminated(s) =>
       r \in Software /\ s.attempt.termination.kind # "neverDispatched" /\ s.attempt.id \notin closed

(* A resource is claimed exactly by the attempt that may be working on it:   *)
(* two such attempts never share a resource, across requests and retries,    *)
(* and no claim outlives the work it protects (resources.rs).                *)
ClaimsMatchWork ==
  /\ \A r \in Requests : MayBeWorking(r) =>
       \A k \in Needs[r] : claims[k] = executions[r].attempt.id
  /\ \A k \in Resources : claims[k] # NoId =>
       \E r \in Requests : MayBeWorking(r) /\ k \in Needs[r] /\ claims[k] = executions[r].attempt.id

AdmissionConfirmedStep ==
  \A r \in Requests : executions'[r].attempts # executions[r].attempts =>
    /\ executions'[r].attempt.id \notin attemptKeys
    /\ NotBefore <= watermark' /\ watermark' < ExpiresAt
    /\ "direct" \notin Gates =>
         /\ confirmation[r].status = "accepted" /\ confirmation[r].at < ConfirmBy
         /\ watermark' < ConfirmBy

(* An attempt is admitted inside the plan's validity under an identity that  *)
(* was never used before, and where the policy asks for confirmation, only   *)
(* on an answer that accepted in time and has not aged out meanwhile.        *)
AdmissionConfirmed == [][AdmissionConfirmedStep]_journal
=============================================================================
