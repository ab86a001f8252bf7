---------------------------- MODULE SessionHost -----------------------------
(***************************************************************************)
(* One product session of the AI Host (packages/ai-host/src/index.ts):     *)
(* the durable command queue, the scheduler, the provider worker behind    *)
(* it, the facts the worker reports and the recovery of a lost worker,     *)
(* with the store's transitions (packages/ai-contract/src/transitions.ts)  *)
(* and the provider evidence (packages/ai-contract/src/session.ts).        *)
(*                                                                         *)
(* Everything that touches the store runs in the session's mailbox and is  *)
(* one action.  One turn of the scheduler's loop is one action: each turn  *)
(* reads the store again.  Calls to the worker run outside the mailbox;    *)
(* their answers come back as facts that are applied later, after other    *)
(* actions, after the worker failed or after it was replaced.              *)
(***************************************************************************)
EXTENDS Naturals, FiniteSets

CONSTANTS Prompts,     \* ordinary commands (queue_next)
          Cancels,     \* control commands that cancel a prompt
          Responds,    \* control commands that answer a prompt's question
          QueueLimit,  \* accepted prompts at once
          BurstLimit,  \* controls in a row before a ready prompt (8 in the code)
          Gens,        \* provider generations; one no longer named may return
          Timed,       \* commands whose deadlines pass in this instance
          MaxFaults,   \* bound on failures, lost answers, crashes, suspensions
          MaxSilence   \* bound on what may come on top of a fault: a refusal that
                       \* comes too late, a restored provider that cannot tell
                       \* anything about an attempt, a failed resume or suspension

Controls == Cancels \cup Responds
Cmds == Prompts \cup Controls
MaxAttempts == MaxFaults + 1
Attempts == 1..MaxAttempts
None == "none"

ASSUME CommandsAssumption ==
  /\ Prompts \cap Controls = {} /\ Cancels \cap Responds = {} /\ None \notin Cmds
  /\ IsFiniteSet(Cmds) /\ Timed \subseteq Cmds
ASSUME LimitsAssumption ==
  /\ QueueLimit \in Nat \ {0} /\ BurstLimit \in Nat \ {0}
  /\ Gens \subseteq Nat \ {0} /\ 1 \in Gens /\ MaxFaults \in Nat /\ MaxSilence \in Nat

VARIABLES
  cmd,        \* durable: the record of each command
  inter,      \* durable: the question a prompt raised
  sess,       \* durable: status, generation and native run of the session
  lapsed,     \* prompts whose retry window is over
  expired,    \* commands past expiresAtMs
  rt,         \* the runtime: none, live (verified) or broken (isolated)
  calls,      \* worker calls under way
  wire,       \* dispatches the worker has not taken up yet: <<command, attempt>>
  facts,      \* provider facts waiting for the mailbox
  observing,  \* prompts with an observation stream
  burst,      \* controls scheduled since the last prompt
  kick,       \* a schedule run is queued
  backoff,    \* prompts waiting for their retry timer
  lost,       \* a call of unavailable() is queued
  fence,      \* the caller: open, closing (suspendCaller runs) or closed
  got,        \* the provider: attempts it carried out, of each command
  faults, silences

durable == <<cmd, inter, sess>>
time == <<lapsed, expired>>
memory == <<rt, observing, burst, backoff, fence>>
budget == <<faults, silences>>
vars == <<durable, time, memory, calls, wire, facts, kick, lost, got, budget>>

States == {"absent", "accepted", "dispatching", "running", "reconciliation_required",
           "terminal", "invalidated", "acknowledged", "cancelled"}
SettledStates == {"terminal", "invalidated", "acknowledged", "cancelled"}
FactKinds == {"submitted", "not_submitted", "unknown", "running", "terminal",
              "acknowledged", "question"}
NoRun == <<None, 0>>

Settled(c) == cmd[c].st \in SettledStates
Dispatched(c) == cmd[c].cert # None
Unsettled(c) == cmd[c].st \notin SettledStates \cup {"absent"}
\* The native run of a prompt, once its dispatch carries one.
RunOf(p) == IF cmd[p].known THEN <<p, cmd[p].attempt>> ELSE NoRun

Record == [st: States, target: Prompts \cup {None}, run: (Prompts \cup {None}) \X (0..MaxAttempts),
           gen: Gens \cup {0}, attempt: 0..MaxAttempts, cert: {None, "intent", "unknown", "submitted"},
           known: BOOLEAN, ord: 0..Cardinality(Cmds), retried: BOOLEAN]
NoRecord == [st |-> "absent", target |-> None, run |-> NoRun, gen |-> 0, attempt |-> 0,
             cert |-> None, known |-> FALSE, ord |-> 0, retried |-> FALSE]
Call == [kind: {"dispatch", "reconcile"}, c: Cmds, n: Attempts, g: Gens]
Fact == [from: {"dispatch", "reconcile", "observe"}, c: Cmds, n: Attempts, g: Gens,
         kind: FactKinds, again: BOOLEAN]

TypeOK ==
  /\ cmd \in [Cmds -> Record]
  /\ inter \in [Prompts -> {None, "pending", "answered", "unavailable"}]
  /\ sess \in [status: {"active", "recovery_required"}, gen: Gens,
               run: (Prompts \cup {None}) \X (0..MaxAttempts)]
  /\ lapsed \subseteq Prompts /\ expired \subseteq Cmds
  /\ rt \in {"none", "live", "broken"}
  /\ calls \subseteq Call /\ wire \subseteq Cmds \X Attempts /\ facts \subseteq Fact
  /\ observing \subseteq Prompts /\ backoff \subseteq Prompts
  /\ burst \in 0..Cardinality(Cmds) /\ kick \in BOOLEAN /\ lost \in BOOLEAN
  /\ fence \in {"open", "closing", "closed"}
  /\ got \in [Cmds -> SUBSET Attempts]
  /\ faults \in 0..MaxFaults /\ silences \in 0..MaxSilence

Init ==
  /\ cmd = [c \in Cmds |-> NoRecord]
  /\ inter = [p \in Prompts |-> None]
  /\ sess = [status |-> "active", gen |-> 1, run |-> NoRun]
  /\ lapsed = {} /\ expired = {}
  /\ rt = "live" /\ calls = {} /\ wire = {} /\ facts = {} /\ observing = {}
  /\ burst = 0 /\ kick = FALSE /\ backoff = {} /\ lost = FALSE /\ fence = "open"
  /\ got = [c \in Cmds |-> {}]
  /\ faults = 0 /\ silences = 0

Fault == faults < MaxFaults /\ faults' = faults + 1 /\ UNCHANGED silences
Silence == silences < MaxSilence /\ silences' = silences + 1 /\ UNCHANGED faults

----------------------------------------------------------------------------
(* Acceptance *)

Accepted(c) == cmd[c].st = "accepted"
NextOrd == Cardinality({c \in Cmds : cmd[c].st # "absent"}) + 1
Ready == sess.status = "active" /\ rt = "live"

\* accept() of a prompt: the caller is not fenced, the queue has room, the
\* store writes the receipt; a schedule run is queued.
AcceptPrompt(p) ==
  /\ cmd[p].st = "absent" /\ p \notin expired
  /\ Ready /\ fence = "open"
  /\ Cardinality({q \in Prompts : Accepted(q)}) < QueueLimit
  /\ cmd' = [cmd EXCEPT ![p].st = "accepted", ![p].ord = NextOrd]
  /\ kick' = TRUE
  /\ UNCHANGED <<inter, sess, time, memory, calls, wire, facts, lost, got, budget>>

\* accept() of a cancel, from the user or from suspendCaller: it names the
\* current generation and, of a dispatched prompt, the session's native run.
AcceptCancel(k) ==
  /\ cmd[k].st = "absent" /\ k \notin expired
  /\ Ready /\ fence # "closed"
  /\ \E p \in Prompts :
       /\ cmd[p].st # "absent"
       /\ Dispatched(p) => RunOf(p) = sess.run
       /\ cmd' = [cmd EXCEPT ![k].st = "accepted", ![k].ord = NextOrd, ![k].target = p,
                             ![k].gen = sess.gen, ![k].run = RunOf(p)]
  /\ kick' = TRUE
  /\ UNCHANGED <<inter, sess, time, memory, calls, wire, facts, lost, got, budget>>

\* accept() of an answer: the question is answered in the same transaction.
AcceptRespond(r) ==
  /\ cmd[r].st = "absent" /\ r \notin expired
  /\ Ready /\ fence = "open"
  /\ \E p \in Prompts :
       /\ inter[p] = "pending"
       /\ inter' = [inter EXCEPT ![p] = "answered"]
       /\ cmd' = [cmd EXCEPT ![r].st = "accepted", ![r].ord = NextOrd, ![r].target = p,
                             ![r].gen = sess.gen, ![r].run = RunOf(p)]
  /\ kick' = TRUE
  /\ UNCHANGED <<sess, time, memory, calls, wire, facts, lost, got, budget>>

----------------------------------------------------------------------------
(* Scheduling *)

Earliest(S) == CHOOSE c \in S : \A d \in S : cmd[c].ord <= cmd[d].ord
Queue == {p \in Prompts : Accepted(p)}
ControlQueue == {k \in Controls : Accepted(k)}

\* Faulty variant: a prompt that waits for its timer lets the next one pass.
OrdinaryReady == IF Queue \subseteq backoff THEN None ELSE Earliest(Queue \ backoff)

\* The head of the prompt queue, unless it waits for its retry timer.
Ordinary == IF Queue = {} \/ Earliest(Queue) \in backoff THEN None ELSE Earliest(Queue)
Control == IF ControlQueue = {} THEN None ELSE Earliest(ControlQueue)
Occupied == \E p \in Prompts : Dispatched(p) /\ ~Settled(p)

Chosen ==
  IF Control # None /\ (burst < BurstLimit \/ Occupied \/ Ordinary = None) THEN Control
  ELSE IF ~Occupied /\ fence = "open" THEN Ordinary
  ELSE Control

\* controlIsStale(): another generation, or another run than the session's.
Stale(c) ==
  /\ c \in Controls
  /\ \/ cmd[c].gen # sess.gen
     \/ /\ c \in Cancels => Dispatched(cmd[c].target)
        /\ cmd[c].run # sess.run

\* dispatchDeadline(): the store lets a retried prompt be sent only inside its
\* original retry window.
PastDeadline(c) == c \in expired \/ (cmd[c].retried /\ c \in lapsed)

\* Faulty variant: an expired command is left to the store to refuse.
VoidIfStale(c) == Stale(c)

\* Never to be dispatched: the scheduler settles it at once.
Void(c) == c \in expired \/ Stale(c)

CountBurst(c) == burst' = IF c \in Prompts THEN 0 ELSE IF burst < BurstLimit THEN burst + 1 ELSE burst

ScheduleNothing ==
  /\ kick
  /\ ~Ready \/ Chosen = None
  /\ kick' = FALSE
  /\ UNCHANGED <<durable, time, memory, calls, wire, facts, lost, got, budget>>

ScheduleInvalid(c) ==
  /\ kick /\ Ready /\ c = Chosen
  /\ Void(c)
  /\ cmd' = [cmd EXCEPT ![c].st = "invalidated"]
  /\ CountBurst(c)
  /\ UNCHANGED <<inter, sess, time, rt, observing, backoff, fence, calls, wire, facts,
                 kick, lost, got, budget>>

\* A prompt still in the queue is cancelled locally, both records at once.
CancelsQueued(c) == c \in Cancels /\ Accepted(cmd[c].target)

ScheduleCancelQueued(c) ==
  /\ kick /\ Ready /\ c = Chosen
  /\ ~Void(c) /\ CancelsQueued(c)
  /\ cmd' = [cmd EXCEPT ![c].st = "acknowledged", ![cmd[c].target].st = "cancelled"]
  /\ CountBurst(c)
  /\ UNCHANGED <<inter, sess, time, rt, observing, backoff, fence, calls, wire, facts,
                 kick, lost, got, budget>>

\* The dispatch intent is durable before the worker is called.
ScheduleDispatch(c) ==
  LET n == cmd[c].attempt + 1 IN
  /\ kick /\ Ready /\ c = Chosen
  /\ ~Void(c) /\ ~CancelsQueued(c) /\ ~PastDeadline(c)
  /\ cmd' = [cmd EXCEPT ![c].st = "dispatching", ![c].attempt = n, ![c].cert = "intent",
                        ![c].gen = IF c \in Prompts THEN sess.gen ELSE @]
  /\ calls' = calls \cup {[kind |-> "dispatch", c |-> c, n |-> n, g |-> sess.gen]}
  /\ wire' = wire \cup {<<c, n>>}
  /\ CountBurst(c)
  /\ UNCHANGED <<inter, sess, time, rt, observing, backoff, fence, facts, kick, lost, got, budget>>

\* The scheduler looks at expiresAtMs only, the store also at the retry window:
\* the refused commit ends the run and gives the worker up.
ScheduleRefused(c) ==
  /\ kick /\ Ready /\ c = Chosen
  /\ ~Void(c) /\ ~CancelsQueued(c) /\ PastDeadline(c)
  /\ kick' = FALSE /\ lost' = TRUE
  /\ CountBurst(c)
  /\ UNCHANGED <<durable, time, rt, observing, backoff, fence, calls, wire, facts, got, budget>>

Schedule ==
  \/ ScheduleNothing
  \/ \E c \in Cmds : \/ ScheduleInvalid(c) \/ ScheduleCancelQueued(c)
                     \/ ScheduleDispatch(c) \/ ScheduleRefused(c)

----------------------------------------------------------------------------
(* The worker (external) and the calls to it *)

\* The worker takes a dispatch up and the provider carries it out.
Receive(c) ==
  /\ rt = "live"
  /\ \E n \in Attempts : /\ <<c, n>> \in wire
                         /\ wire' = wire \ {<<c, n>>}
                         /\ got' = [got EXCEPT ![c] = @ \cup {n}]
  /\ UNCHANGED <<durable, time, memory, calls, facts, kick, lost, budget>>

\* The worker refuses the dispatch, and its refusal misses the call's deadline.
Drop(c) ==
  /\ Silence
  /\ \E n \in Attempts : <<c, n>> \in wire /\ wire' = wire \ {<<c, n>>}
  /\ UNCHANGED <<durable, time, memory, calls, facts, kick, lost, got>>

FactOf(call, kind, again) ==
  [from |-> call.kind, c |-> call.c, n |-> call.n, g |-> call.g, kind |-> kind, again |-> again]

\* The answer of a dispatch: what the provider says, or "unknown" when the call
\* failed, timed out or its worker is gone.
AnswerDispatch(c) ==
  \E call \in calls :
    LET sentOff == call.n \in got[c]
        waiting == <<c, call.n>> \in wire IN
    /\ call.kind = "dispatch" /\ call.c = c
    /\ calls' = calls \ {call}
    /\ \/ /\ sentOff /\ rt = "live"
          /\ facts' = facts \cup
               {FactOf(call, IF c \in Prompts THEN "submitted" ELSE "acknowledged", FALSE)}
          /\ UNCHANGED <<wire, budget>>
       \/ /\ waiting /\ rt = "live" /\ Fault
          /\ \E again \in BOOLEAN : facts' = facts \cup {FactOf(call, "not_submitted", again)}
          /\ wire' = wire \ {<<c, call.n>>}
       \/ /\ facts' = facts \cup {FactOf(call, "unknown", FALSE)}
          /\ IF rt = "live" /\ (sentOff \/ waiting) THEN Fault ELSE UNCHANGED budget
          /\ UNCHANGED wire
    /\ UNCHANGED <<durable, time, memory, kick, lost, got>>

\* reconcile() asks a restored provider about the original attempt; when the
\* call fails, the worker is given up.
AnswerReconcile(c) ==
  \E call \in calls :
    /\ call.kind = "reconcile" /\ call.c = c /\ rt = "live"
    /\ calls' = calls \ {call}
    /\ \/ /\ \E kind \in (IF call.n \notin got[c] THEN {"not_submitted"}
                          ELSE IF c \in Prompts THEN {"running", "terminal"} ELSE {"acknowledged"}) :
               facts' = facts \cup {FactOf(call, kind, TRUE)}
          /\ UNCHANGED <<lost, budget>>
       \/ /\ Silence
          /\ facts' = facts \cup {FactOf(call, "unknown", FALSE)}
          /\ UNCHANGED lost
       \/ /\ Fault /\ lost' = TRUE /\ UNCHANGED facts
    /\ UNCHANGED <<durable, time, memory, wire, kick, got>>

\* An observation stream yields one fact and waits until it is applied.
Observed(p, kind) ==
  /\ p \in observing /\ rt = "live"
  /\ cmd[p].attempt \in got[p]
  /\ ~\E f \in facts : f.from = "observe" /\ f.c = p
  /\ kind = "question" => inter[p] = None
  /\ facts' = facts \cup {[from |-> "observe", c |-> p, n |-> cmd[p].attempt, g |-> sess.gen,
                           kind |-> kind, again |-> FALSE]}
  /\ UNCHANGED <<durable, time, memory, calls, wire, kick, lost, got, budget>>

\* The stream ends: normally after the prompt settled, else the worker is given up.
ObserveEnd(p) ==
  /\ p \in observing
  /\ ~\E f \in facts : f.from = "observe" /\ f.c = p
  /\ observing' = observing \ {p}
  /\ kick' = TRUE
  /\ IF Settled(p) \/ rt # "live" THEN UNCHANGED <<lost, budget>> ELSE lost' = TRUE /\ Fault
  /\ UNCHANGED <<durable, time, rt, burst, backoff, fence, calls, wire, facts, got>>

----------------------------------------------------------------------------
(* Facts *)

\* Faulty variant: evidence is matched to its attempt, settled or not.
AppliesToAttempt(f) ==
  sess.status = "active" /\ f.g = sess.gen /\ Dispatched(f.c) /\ f.n = cmd[f.c].attempt

\* providerFactFor(): evidence of the current generation and attempt only.
Applies(f) ==
  /\ sess.status = "active" /\ f.g = sess.gen
  /\ Unsettled(f.c) /\ Dispatched(f.c) /\ f.n = cmd[f.c].attempt
  /\ ~(/\ f.kind = "submitted"
       /\ \/ cmd[f.c].st = "running"
          \/ cmd[f.c].st = "dispatching" /\ cmd[f.c].cert = "submitted")
  /\ ~(f.kind = "running" /\ cmd[f.c].st = "running")
\* The store refuses to take back a submission that was confirmed.
Contradicts(f) == f.kind = "not_submitted" /\ cmd[f.c].cert = "submitted"
Retry(f) == f.c \in Prompts /\ f.again /\ f.c \notin lapsed \cup expired

After(f) ==
  LET r == cmd[f.c] IN
  CASE f.kind = "not_submitted" ->
         IF Retry(f) THEN [r EXCEPT !.st = "accepted", !.cert = None, !.known = FALSE, !.retried = TRUE]
                     ELSE [r EXCEPT !.st = "invalidated", !.cert = None, !.known = FALSE]
    [] f.kind = "unknown" ->
         [r EXCEPT !.st = "reconciliation_required",
                   !.cert = IF @ = "submitted" THEN @ ELSE "unknown"]
    [] f.kind \in {"submitted", "running", "terminal", "acknowledged"} ->
         [r EXCEPT !.st = IF f.kind = "submitted" THEN "dispatching" ELSE f.kind,
                   !.cert = "submitted", !.known = TRUE]
    [] OTHER -> r

\* The stream that follows a fact: dispatch() observes a prompt that is still
\* open, reconcile() one that the provider says is under way.
Follow(f, st) ==
  IF /\ rt = "live" /\ f.g = sess.gen /\ f.c \in Prompts
     /\ \/ f.from = "dispatch" /\ st \in {"dispatching", "running", "reconciliation_required"}
        \/ f.from = "reconcile" /\ st \in {"dispatching", "running"}
  THEN observing \cup {f.c} ELSE observing

\* applyFact(): record, question, session run and events in one commit.
ApplyFact(f) ==
  LET r == After(f)
      settles == r.st \in SettledStates
      retrying == f.kind = "not_submitted" /\ r.st = "accepted" IN
  /\ f \in facts /\ facts' = facts \ {f}
  /\ Applies(f) /\ ~Contradicts(f)
  /\ cmd' = [cmd EXCEPT ![f.c] = r]
  /\ inter' = [p \in Prompts |->
                 IF p = f.c /\ f.kind = "question" THEN "pending"
                 ELSE IF p = f.c /\ settles /\ inter[p] = "pending" THEN "unavailable"
                 ELSE inter[p]]
  /\ sess' = [sess EXCEPT !.run = IF f.kind \in {"submitted", "running", "terminal"} /\ f.c \in Prompts
                                  THEN <<f.c, f.n>> ELSE @]
  /\ backoff' = IF retrying THEN backoff \cup {f.c} ELSE backoff
  /\ kick' = (kick \/ ~retrying \/ f.from # "observe")
  /\ observing' = Follow(f, r.st)
  /\ UNCHANGED <<time, rt, burst, fence, calls, wire, lost, got, budget>>

\* A fact that is not evidence any more is dropped; a contradiction gives the
\* worker up.
DropFact(f) ==
  /\ f \in facts /\ facts' = facts \ {f}
  /\ ~Applies(f) \/ Contradicts(f)
  /\ lost' = (lost \/ (Applies(f) /\ Contradicts(f)))
  /\ kick' = TRUE
  /\ observing' = Follow(f, cmd[f.c].st)
  /\ UNCHANGED <<durable, time, rt, burst, backoff, fence, calls, wire, got, budget>>

\* The 100 ms retry timer fires.
RetryTimer(p) ==
  /\ p \in backoff /\ backoff' = backoff \ {p} /\ kick' = TRUE
  /\ UNCHANGED <<durable, time, rt, observing, burst, fence, calls, wire, facts, lost, got, budget>>

----------------------------------------------------------------------------
(* Losing and replacing the worker *)

\* Faulty variant: an intent without an answer counts as not submitted.
HandedOffRequeued(c) ==
  LET r == cmd[c] IN
  IF ~Unsettled(c) THEN r
  ELSE IF r.cert = "intent" /\ c \in Prompts THEN [r EXCEPT !.st = "accepted", !.cert = None]
  ELSE IF Dispatched(c) THEN [r EXCEPT !.st = "reconciliation_required"]
  ELSE IF c \in Controls THEN [r EXCEPT !.st = "invalidated"]
  ELSE r

\* reduceHandoff(): dispatched work becomes uncertain, undispatched controls
\* are void, prompts stay queued, questions can no longer be answered.
HandedOff(c) ==
  LET r == cmd[c] IN
  IF ~Unsettled(c) THEN r
  ELSE IF Dispatched(c) THEN [r EXCEPT !.st = "reconciliation_required"]
  ELSE IF c \in Controls THEN [r EXCEPT !.st = "invalidated"]
  ELSE r

\* Faulty variant: the hand-off leaves open questions open.
QuestionsKept == inter

QuestionsVoid == [p \in Prompts |-> IF inter[p] = "pending" THEN "unavailable" ELSE inter[p]]

\* A reconcile() under way fails with its worker, and its failure queues a
\* further unavailable(), whichever worker the session has by then.
Reconciling == {call \in calls : call.kind = "reconcile"}

\* A worker that fails is isolated at once, outside the mailbox.
WorkerFails ==
  /\ rt = "live" /\ Fault
  /\ rt' = "broken" /\ wire' = {} /\ lost' = TRUE /\ calls' = calls \ Reconciling
  /\ UNCHANGED <<durable, time, observing, burst, backoff, fence, facts, kick, got>>

\* recoverUnavailable() of an active session.
HandOff ==
  IF sess.status = "active"
  THEN /\ cmd' = [c \in Cmds |-> HandedOff(c)] /\ inter' = QuestionsVoid
       /\ sess' = [sess EXCEPT !.status = "recovery_required"]
  ELSE UNCHANGED durable
\* The hand-off is not stored, or the process is not proven stopped.
HandOffIncomplete ==
  /\ HandOff \/ UNCHANGED durable
  /\ rt' = IF rt = "none" THEN "none" ELSE "broken"
Isolate == wire' = {} /\ observing' = {} /\ calls' = calls \ Reconciling

\* unavailable(): the worker is isolated, the loss made durable, the process
\* stopped.
Unavailable ==
  /\ lost /\ lost' = (Reconciling # {})
  /\ Isolate
  /\ \/ HandOff /\ rt' = "none" /\ UNCHANGED budget
     \/ HandOffIncomplete /\ Fault
  /\ UNCHANGED <<time, burst, backoff, fence, facts, kick, got>>

GensInUse == {sess.gen} \cup {f.g : f \in facts} \cup {k.g : k \in calls}
             \cup {cmd[c].gen : c \in {d \in Cmds : Unsettled(d)}}

\* open() with a restored provider: a fresh generation, the hand-off, and a
\* reconcile of every uncertain attempt.  An unavailable() that is queued runs
\* first, unless the resume was in the mailbox before it.
Open ==
  /\ rt # "live" /\ fence = "open"
  /\ \E g \in Gens \ GensInUse :
       /\ \A h \in Gens \ GensInUse : g <= h
       /\ cmd' = [c \in Cmds |-> IF Unsettled(c) /\ Dispatched(c) /\ c \in Prompts
                                 THEN [HandedOff(c) EXCEPT !.gen = g] ELSE HandedOff(c)]
       /\ sess' = [sess EXCEPT !.status = "active", !.gen = g]
       /\ calls' = calls \cup {[kind |-> "reconcile", c |-> c, n |-> cmd[c].attempt, g |-> g] :
                                c \in {d \in Cmds : Unsettled(d) /\ Dispatched(d)}}
  /\ inter' = QuestionsVoid
  /\ rt' = "live" /\ wire' = {} /\ observing' = {} /\ burst' = 0 /\ backoff' = {}
  /\ kick' = TRUE
  /\ IF lost THEN Fault ELSE UNCHANGED budget
  /\ UNCHANGED <<time, fence, facts, lost, got>>

\* resume() fails: unavailable() follows in the same turn.
OpenFails ==
  /\ rt # "live" /\ fence = "open" /\ Silence
  /\ Isolate
  /\ (HandOff /\ rt' = "none") \/ HandOffIncomplete
  /\ UNCHANGED <<time, burst, backoff, fence, facts, kick, lost, got>>

\* The Host process stops; its worker does not outlive it (module WorkerFence).
Crash ==
  /\ Fault
  /\ rt' = "none" /\ calls' = {} /\ wire' = {} /\ facts' = {} /\ observing' = {}
  /\ burst' = 0 /\ kick' = FALSE /\ backoff' = {} /\ lost' = FALSE /\ fence' = "open"
  /\ UNCHANGED <<durable, time, got>>

----------------------------------------------------------------------------
(* Suspending the caller *)

\* suspendCaller(): nothing new is admitted from here on.
SuspendBegin ==
  /\ fence = "open" /\ Fault /\ fence' = "closing"
  /\ UNCHANGED <<durable, time, rt, observing, burst, backoff, calls, wire, facts, kick, lost, got>>

\* Faulty variant: the suspension is an ordinary hand-off.
SuspendedAsHandOff(c) == HandedOff(c)

\* suspendSession(): what was not sent is cancelled.
Suspended(c) ==
  IF c \in Prompts /\ Accepted(c) THEN [cmd[c] EXCEPT !.st = "cancelled"] ELSE HandedOff(c)

\* unavailable() and the store's suspension in one mailbox turn: queued prompts
\* are cancelled, dispatched work stays uncertain.
SuspendSession ==
  /\ fence = "closing" /\ fence' = "closed"
  /\ cmd' = [c \in Cmds |-> Suspended(c)]
  /\ inter' = QuestionsVoid
  /\ sess' = [sess EXCEPT !.status = "recovery_required"]
  /\ rt' = "none" /\ wire' = {} /\ observing' = {}
  /\ lost' = (lost \/ Reconciling # {}) /\ calls' = calls \ Reconciling
  /\ UNCHANGED <<time, burst, backoff, facts, kick, got, budget>>

\* It fails before the session's turn or in unavailable(): the caller is back.
SuspendFails ==
  /\ fence = "closing" /\ Silence /\ fence' = "open"
  /\ \/ UNCHANGED <<durable, rt, wire, observing, calls, lost>>
     \/ Isolate /\ HandOffIncomplete /\ lost' = (lost \/ Reconciling # {})
  /\ UNCHANGED <<time, burst, backoff, facts, kick, got>>

\* activateCaller()
Activate ==
  /\ fence = "closed" /\ fence' = "open"
  /\ UNCHANGED <<durable, time, rt, observing, burst, backoff, calls, wire, facts, kick, lost, got, budget>>

----------------------------------------------------------------------------
(* Time *)

RetryWindowEnds(p) ==
  /\ p \in Timed \ lapsed /\ cmd[p].st # "absent" /\ lapsed' = lapsed \cup {p}
  /\ UNCHANGED <<durable, expired, memory, calls, wire, facts, kick, lost, got, budget>>

Expires(c) ==
  /\ c \in Timed \ expired /\ cmd[c].st # "absent" /\ (c \in Prompts => c \in lapsed)
  /\ expired' = expired \cup {c}
  /\ UNCHANGED <<durable, lapsed, memory, calls, wire, facts, kick, lost, got, budget>>

Next ==
  \/ \E p \in Prompts : \/ AcceptPrompt(p) \/ RetryTimer(p) \/ ObserveEnd(p) \/ RetryWindowEnds(p)
                        \/ \E kind \in {"running", "question", "terminal"} : Observed(p, kind)
  \/ \E k \in Cancels : AcceptCancel(k)
  \/ \E r \in Responds : AcceptRespond(r)
  \/ \E c \in Cmds : Receive(c) \/ Drop(c) \/ AnswerDispatch(c) \/ AnswerReconcile(c) \/ Expires(c)
  \/ \E f \in facts : ApplyFact(f) \/ DropFact(f)
  \/ Schedule \/ WorkerFails \/ Unavailable \/ Open \/ OpenFails \/ Crash
  \/ SuspendBegin \/ SuspendSession \/ SuspendFails \/ Activate

\* The mailbox runs what is queued, the worker answers or its deadline does,
\* a run it carries out ends, timers fire, time passes, and a caller resumes a
\* session it wants an answer from.
Fairness ==
  /\ WF_vars(Schedule) /\ WF_vars(Unavailable) /\ WF_vars(Open)
  /\ WF_vars(SuspendSession) /\ WF_vars(Activate)
  /\ \A p \in Prompts : /\ WF_vars(RetryTimer(p)) /\ WF_vars(ObserveEnd(p) /\ Settled(p))
                        /\ SF_vars(Observed(p, "terminal"))
                        /\ WF_vars(RetryWindowEnds(p)) /\ WF_vars(Expires(p))
  /\ \A c \in Cmds : /\ WF_vars(Receive(c)) /\ WF_vars(AnswerDispatch(c))
                     /\ WF_vars(AnswerReconcile(c))
                     /\ WF_vars(\E f \in facts : f.c = c /\ (ApplyFact(f) \/ DropFact(f)))

Spec == Init /\ [][Next]_vars
FairSpec == Spec /\ Fairness

----------------------------------------------------------------------------
(* Properties *)

\* A prompt is carried out by the provider at most once, over all retries,
\* lost answers, worker replacements and crashes: only proof that an attempt
\* was not submitted puts the prompt back into the queue (applyFact,
\* reduceHandoff).
PromptSubmittedOnce == \A p \in Prompts : Cardinality(got[p]) <= 1

\* Prompts are handed to the provider in the order of their acceptance, each
\* only once every earlier one is settled, also when an earlier one waits for
\* its retry timer or its worker was replaced (schedule).
DispatchedInOrder ==
  \A p, q \in Prompts :
    0 < cmd[p].ord /\ cmd[p].ord < cmd[q].ord /\ cmd[q].attempt > 0 => Settled(p)

\* A settled command never changes again, whatever facts of an old attempt,
\* an old worker or a late observation still arrive (applyFact).
SettledIsFinal == [][\A c \in Cmds : Settled(c) => cmd'[c] = cmd[c]]_vars

\* A question can be answered only while the run that asked it is open under
\* the current provider generation (applyFact, reduceHandoff).
QuestionsAreCurrent ==
  \A p \in Prompts : inter[p] = "pending" =>
    Unsettled(p) /\ sess.status = "active" /\ cmd[p].gen = sess.gen

\* While a caller is suspended nothing of its session is queued or under way:
\* what was sent is uncertain, what was not is cancelled (suspendCaller).
SuspendedIsQuiet ==
  fence = "closed" =>
    /\ rt # "live"
    /\ \A p \in Prompts : cmd[p].st \notin {"accepted", "dispatching", "running"}

\* Every accepted prompt is settled in the end: run, cancelled or void, also
\* one whose retry window ends while the scheduler keeps offering it to a
\* store that refuses it (schedule, dispatchDeadline).
AcceptedSettles == \A p \in Prompts : Accepted(p) ~> Settled(p)
=============================================================================
