------------------------- MODULE SessionHostProofs --------------------------
(***************************************************************************)
(* Theorems about one session of the AI Host, for every set of commands,   *)
(* every queue and burst limit and every number of faults.  The invariant  *)
(* ties three places together: the durable record of a command, what is on *)
(* its way to the worker or was told about it, and what the provider has   *)
(* carried out.                                                            *)
(***************************************************************************)
EXTENDS SessionHost, FiniteSetTheorems, WellFoundedInduction, TLAPS

Present == {c \in Cmds : cmd[c].st # "absent"}

Undispatched(c) == cmd[c].st \in {"absent", "accepted"}

(* The records, calls and facts have their types, the number of attempts     *)
(* left open: that no retry happens without a fault is not needed here.      *)
Records ==
  [st : States, target : Prompts \cup {None}, run : (Prompts \cup {None}) \X Nat,
   gen : Gens \cup {0}, attempt : Nat, cert : {None, "intent", "unknown", "submitted"},
   known : BOOLEAN, ord : Nat, retried : BOOLEAN]

CallRecords == [kind : {"dispatch", "reconcile"}, c : Cmds, n : Nat, g : Gens]

FactRecords ==
  [from : {"dispatch", "reconcile", "observe"}, c : Cmds, n : Nat, g : Gens,
   kind : FactKinds, again : BOOLEAN]

Typed ==
  /\ cmd \in [Cmds -> Records]
  /\ inter \in [Prompts -> {None, "pending", "answered", "unavailable"}]
  /\ sess \in [status : {"active", "recovery_required"}, gen : Gens,
               run : (Prompts \cup {None}) \X Nat]
  /\ calls \subseteq CallRecords
  /\ wire \subseteq Cmds \X Nat
  /\ facts \subseteq FactRecords
  /\ observing \subseteq Prompts
  /\ got \in [Cmds -> SUBSET Nat]

(* What was never handed over has no dispatch, and an open command that was  *)
(* has one; a control names its prompt.                                      *)
RecordTrue ==
  \A c \in Cmds :
    /\ Undispatched(c) => cmd[c].cert = None
    /\ Unsettled(c) /\ ~Accepted(c) => Dispatched(c)
    /\ cmd[c].st = "absent" => cmd[c].attempt = 0 /\ cmd[c].ord = 0
    /\ c \in Controls /\ cmd[c].st # "absent" => cmd[c].target \in Prompts

(* The provider knows the last attempt of a command at most, and nothing of  *)
(* a command that is not handed over (again).                                *)
ProviderTrue ==
  \A c \in Cmds : got[c] \subseteq {cmd[c].attempt} /\ (Undispatched(c) => got[c] = {})

(* What is on its way to the worker is the last attempt, not taken up yet.   *)
WireTrue ==
  \A c \in Cmds, n \in Nat : <<c, n>> \in wire =>
    n = cmd[c].attempt /\ n \notin got[c] /\ ~Undispatched(c)

(* An attempt is asked about only when nothing of it is on its way.          *)
CallsTrue ==
  \A k \in calls :
    /\ k.n <= cmd[k.c].attempt
    /\ k.kind = "reconcile" => <<k.c, k.n>> \notin wire

(* A fact that proves an attempt was not submitted stays true, and only a    *)
(* run the provider took up asks a question.                                 *)
FactsTrue ==
  \A f \in facts :
    /\ f.n <= cmd[f.c].attempt
    /\ f.kind = "not_submitted" => f.n \notin got[f.c] /\ <<f.c, f.n>> \notin wire
    /\ f.kind = "question" => f.c \in Prompts /\ f.n \in got[f.c]

(* The open work of an active session belongs to its generation.             *)
GenerationTrue ==
  sess.status = "active" =>
    \A p \in Prompts : Unsettled(p) /\ Dispatched(p) => cmd[p].gen = sess.gen

QuestionsTrue ==
  \A p \in Prompts : inter[p] = "pending" =>
    /\ Unsettled(p) /\ sess.status = "active"
    /\ cmd[p].attempt \in got[p]

(* Places in the queue are given in the order of acceptance.                 *)
OrderTrue == \A c \in Cmds : cmd[c].ord <= Cardinality(Present)

FencedQuiet == fence = "closed" => sess.status = "recovery_required"

(* What belongs to a command, and what belongs to the session as a whole.    *)
CommandInv ==
  /\ Typed /\ RecordTrue /\ ProviderTrue /\ WireTrue /\ CallsTrue /\ FactsTrue
  /\ OrderTrue /\ DispatchedInOrder

SessionInv == GenerationTrue /\ QuestionsTrue /\ FencedQuiet /\ SuspendedIsQuiet

IInv == CommandInv /\ SessionInv

(* A step keeps the place and the attempts of a command, and all of a        *)
(* settled one.                                                              *)
Keeps(c) ==
  /\ cmd'[c].attempt = cmd[c].attempt
  /\ cmd'[c].ord = cmd[c].ord
  /\ cmd'[c].target = cmd[c].target
  /\ cmd'[c].st = "absent" <=> cmd[c].st = "absent"
  /\ Settled(c) => cmd'[c] = cmd[c]

SettledKept == \A c \in Cmds : Settled(c) => cmd'[c] = cmd[c]

Preserved == IInv' /\ SettledKept

-----------------------------------------------------------------------------
(* The queue *)

Before == {x \in Nat \X Nat : x[1] < x[2]}

(* A set of numbers that is not empty has a least one.                       *)
LEMMA LeastExists ==
  ASSUME NEW S, S \subseteq Nat, S # {}
  PROVE  \E x \in S : \A y \in S : x <= y
<1>1. IsWellFoundedOn(Before, Nat)
  BY NatLessThanWellFounded DEF OpToRel, Before
<1>2. PICK x \in S : \A y \in S : <<y, x>> \notin Before
  BY <1>1, WFMin
<1>3. ASSUME NEW y \in S PROVE x <= y
  <2>1. ~(y < x)
    BY <1>2 DEF Before
  <2> QED
    BY <2>1
<1> QED
  BY <1>3

(* The earliest command of a set is one of the set, and none is before it.   *)
LEMMA EarliestIsFirst ==
  ASSUME Typed, NEW S, S \subseteq Cmds, S # {}
  PROVE  Earliest(S) \in S /\ \A d \in S : cmd[Earliest(S)].ord <= cmd[d].ord
<1> DEFINE Places == {cmd[c].ord : c \in S}
<1>1. Places \subseteq Nat /\ Places # {}
  BY DEF Typed, Records
<1>2. PICK x \in Places : \A y \in Places : x <= y
  <2> HIDE DEF Places
  <2> QED
    BY <1>1, LeastExists
<1>3. PICK c \in S : cmd[c].ord = x
  BY <1>2
<1>4. \A d \in S : cmd[c].ord <= cmd[d].ord
  BY <1>2, <1>3
<1> QED
  BY <1>3, <1>4 DEF Earliest

(* The scheduler takes an accepted command; a prompt only when no other is   *)
(* under way and none before it waits.                                       *)
LEMMA ChosenIsReady ==
  ASSUME Typed, NEW c \in Cmds, c = Chosen
  PROVE  /\ Accepted(c)
         /\ c \in Prompts =>
              /\ ~Occupied
              /\ \A q \in Prompts : Accepted(q) => cmd[c].ord <= cmd[q].ord
<1>1. Control = None \/ (Control \in Controls /\ Accepted(Control))
  <2>1. CASE ControlQueue = {}
    BY <2>1 DEF Control
  <2>2. CASE ControlQueue # {}
    <3>1. Earliest(ControlQueue) \in ControlQueue
      BY <2>2, EarliestIsFirst DEF ControlQueue, Cmds
    <3> QED
      BY <2>2, <3>1 DEF Control, ControlQueue
  <2> QED
    BY <2>1, <2>2
<1>2. Ordinary # None =>
        /\ Ordinary \in Prompts /\ Accepted(Ordinary)
        /\ \A q \in Prompts : Accepted(q) => cmd[Ordinary].ord <= cmd[q].ord
  <2> SUFFICES ASSUME Ordinary # None
               PROVE  /\ Ordinary \in Prompts /\ Accepted(Ordinary)
                      /\ \A q \in Prompts : Accepted(q) => cmd[Ordinary].ord <= cmd[q].ord
    OBVIOUS
  <2>1. Queue # {} /\ Ordinary = Earliest(Queue)
    BY DEF Ordinary
  <2>2. Ordinary \in Queue /\ \A q \in Queue : cmd[Ordinary].ord <= cmd[q].ord
    BY <2>1, EarliestIsFirst DEF Queue, Cmds
  <2> QED
    BY <2>2 DEF Queue
<1>3. None \notin Cmds /\ Prompts \cap Controls = {}
  BY CommandsAssumption
<1>4. CASE c = Control
  BY <1>1, <1>3, <1>4 DEF Cmds
<1>5. CASE c # Control
  <2>1. ~Occupied /\ c = Ordinary
    BY <1>5 DEF Chosen
  <2> QED
    BY <1>2, <1>3, <2>1
<1> QED
  BY <1>4, <1>5

-----------------------------------------------------------------------------
(* Steps that keep the commands' places and attempts *)

(* What a new call or fact has to say of the commands as they are.           *)
CallHolds(k) == k.n <= cmd[k.c].attempt /\ (k.kind = "reconcile" => <<k.c, k.n>> \notin wire')

FactHolds(f) ==
  /\ f.n <= cmd[f.c].attempt
  /\ f.kind = "not_submitted" => f.n \notin got[f.c] /\ <<f.c, f.n>> \notin wire'
  /\ f.kind = "question" => f.c \in Prompts /\ f.n \in got[f.c]

(* A step that keeps every command's place and attempt, takes only what was  *)
(* not sent back into the queue, and adds only true calls and facts keeps    *)
(* what is known of the commands.                                            *)
LEMMA CommandsKept ==
  ASSUME CommandInv, Typed', got' = got, wire' \subseteq wire,
         \A c \in Cmds : Keeps(c),
         \A c \in Cmds : Undispatched(c)' =>
           cmd'[c].cert = None /\ got[c] = {} /\ \A n \in Nat : <<c, n>> \notin wire',
         \A c \in Cmds : Unsettled(c)' /\ ~Accepted(c)' => Dispatched(c)',
         \A k \in calls' : k \in calls \/ CallHolds(k),
         \A f \in facts' : f \in facts \/ FactHolds(f)
  PROVE  CommandInv'
<1> USE DEF CommandInv
<1>1. RecordTrue'
  BY DEF RecordTrue, Keeps, Undispatched
<1>2. ProviderTrue'
  BY DEF ProviderTrue, Keeps
<1>3. WireTrue'
  BY DEF WireTrue, Keeps, Typed
<1>4. CallsTrue'
  <2> SUFFICES ASSUME NEW k \in calls'
               PROVE  k.n <= cmd'[k.c].attempt /\ (k.kind = "reconcile" => <<k.c, k.n>> \notin wire')
    BY DEF CallsTrue
  <2>1. k.c \in Cmds
    BY DEF Typed, CallRecords
  <2>2. CallHolds(k)
    BY DEF CallsTrue, CallHolds
  <2> QED
    BY <2>1, <2>2 DEF CallHolds, Keeps
<1>5. FactsTrue'
  <2> SUFFICES ASSUME NEW f \in facts'
               PROVE  /\ f.n <= cmd'[f.c].attempt
                      /\ f.kind = "not_submitted" => f.n \notin got[f.c] /\ <<f.c, f.n>> \notin wire'
                      /\ f.kind = "question" => f.c \in Prompts /\ f.n \in got[f.c]
    BY DEF FactsTrue
  <2>1. f.c \in Cmds
    BY DEF Typed, FactRecords
  <2>2. FactHolds(f)
    BY DEF FactsTrue, FactHolds
  <2> QED
    BY <2>1, <2>2 DEF FactHolds, Keeps
<1>6. Present' = Present
  BY DEF Present, Keeps
<1>7. OrderTrue'
  BY <1>6 DEF OrderTrue, Keeps
<1>8. DispatchedInOrder'
  <2> SUFFICES ASSUME NEW p \in Prompts, NEW q \in Prompts,
                      0 < cmd'[p].ord, cmd'[p].ord < cmd'[q].ord, cmd'[q].attempt > 0
               PROVE  cmd'[p].st \in SettledStates
    BY DEF DispatchedInOrder, Settled
  <2>1. p \in Cmds /\ q \in Cmds
    BY DEF Cmds
  <2>2. Settled(p)
    BY <2>1 DEF DispatchedInOrder, Keeps
  <2> QED
    BY <2>1, <2>2 DEF Keeps, Settled
<1> QED
  BY <1>1, <1>2, <1>3, <1>4, <1>5, <1>7, <1>8

(* A step that leaves all durable state and the provider alone.              *)
LEMMA QuietStep ==
  ASSUME IInv, UNCHANGED durable, got' = got,
         wire' \subseteq wire, calls' \subseteq calls, observing' \subseteq Prompts,
         facts' \subseteq FactRecords, \A f \in facts' : f \in facts \/ FactHolds(f),
         fence' = "closed" => fence = "closed" /\ (rt' = "live" => rt = "live")
  PROVE  Preserved
<1>1. cmd' = cmd /\ inter' = inter /\ sess' = sess
  BY DEF durable
<1>2. Typed'
  BY <1>1 DEF Typed, IInv, CommandInv
<1>3. \A c \in Cmds : Keeps(c)
  BY <1>1 DEF Keeps
<1>4. \A c \in Cmds : Undispatched(c)' =>
        cmd'[c].cert = None /\ got[c] = {} /\ \A n \in Nat : <<c, n>> \notin wire'
  BY <1>1 DEF IInv, CommandInv, RecordTrue, ProviderTrue, WireTrue, Undispatched
<1>5. \A c \in Cmds : Unsettled(c)' /\ ~Accepted(c)' => Dispatched(c)'
  BY <1>1 DEF IInv, CommandInv, RecordTrue, Unsettled, Accepted, Dispatched
<1>6. CommandInv'
  BY <1>2, <1>3, <1>4, <1>5, CommandsKept DEF IInv
<1>7. GenerationTrue' /\ QuestionsTrue'
  BY <1>1 DEF IInv, SessionInv, GenerationTrue, QuestionsTrue, Unsettled, Dispatched
<1>8. FencedQuiet' /\ SuspendedIsQuiet'
  BY <1>1 DEF IInv, SessionInv, FencedQuiet, SuspendedIsQuiet
<1> QED
  BY <1>1, <1>6, <1>7, <1>8 DEF Preserved, IInv, SessionInv, SettledKept

-----------------------------------------------------------------------------
(* The steps one by one: those that leave the durable state alone *)

(* The scheduler finds nothing to do, or the store refuses its choice.       *)
LEMMA IdleSteps ==
  ASSUME IInv
  PROVE  /\ ScheduleNothing => Preserved
         /\ \A c \in Cmds : ScheduleRefused(c) => Preserved
<1>1. ASSUME ScheduleNothing PROVE Preserved
  BY <1>1, QuietStep DEF ScheduleNothing, memory, IInv, CommandInv, Typed
<1>2. ASSUME NEW c \in Cmds, ScheduleRefused(c) PROVE Preserved
  BY <1>2, QuietStep DEF ScheduleRefused, IInv, CommandInv, Typed
<1> QED
  BY <1>1, <1>2

(* A dispatch that is dropped on the way.                                    *)
LEMMA DropStep ==
  ASSUME IInv, NEW c \in Cmds, Drop(c)
  PROVE  Preserved
BY QuietStep DEF Drop, memory, IInv, CommandInv, Typed

(* The answers of a call carry its attempt, and proof that the attempt was   *)
(* not submitted comes with its withdrawal.                                  *)
LEMMA AnswerSteps ==
  ASSUME IInv, NEW c \in Cmds
  PROVE  (AnswerDispatch(c) \/ AnswerReconcile(c)) => Preserved
<1> USE DEF IInv, CommandInv
<1>1. \A k \in calls : k \in CallRecords
  BY DEF Typed
<1>2. ASSUME AnswerDispatch(c) PROVE Preserved
  <2>1. PICK k \in calls :
          /\ k.kind = "dispatch" /\ k.c = c /\ calls' = calls \ {k}
          /\ \/ /\ facts' = facts \cup {FactOf(k, IF c \in Prompts THEN "submitted" ELSE "acknowledged", FALSE)}
                /\ UNCHANGED wire
             \/ /\ <<c, k.n>> \in wire
                /\ \E again \in BOOLEAN : facts' = facts \cup {FactOf(k, "not_submitted", again)}
                /\ wire' = wire \ {<<c, k.n>>}
             \/ /\ facts' = facts \cup {FactOf(k, "unknown", FALSE)}
                /\ UNCHANGED wire
    BY <1>2 DEF AnswerDispatch
  <2>2. k \in CallRecords /\ k.n <= cmd[k.c].attempt
    BY <1>1 DEF CallsTrue
  <2>3. PICK kind \in FactKinds \ {"question"}, again \in BOOLEAN :
          /\ facts' = facts \cup {FactOf(k, kind, again)}
          /\ kind = "not_submitted" => <<c, k.n>> \in wire /\ wire' = wire \ {<<c, k.n>>}
          /\ wire' \subseteq wire
    BY <2>1, FALSE \in BOOLEAN DEF FactKinds
  <2>4. FactOf(k, kind, again) \in FactRecords
    BY <2>2 DEF FactOf, FactRecords, CallRecords
  <2>5. FactHolds(FactOf(k, kind, again))
    <3>1. kind = "not_submitted" => k.n \notin got[c] /\ <<c, k.n>> \notin wire'
      BY <2>2, <2>3 DEF WireTrue, CallRecords
    <3> QED
      BY <2>1, <2>2, <3>1 DEF FactHolds, FactOf, FactKinds
  <2>6. UNCHANGED <<durable, time, memory, kick, lost, got>>
    BY <1>2 DEF AnswerDispatch
  <2>7. facts' \subseteq FactRecords /\ \A f \in facts' : f \in facts \/ FactHolds(f)
    <3> HIDE DEF IInv, CommandInv
    <3>1. facts \subseteq FactRecords
      BY DEF IInv, CommandInv, Typed
    <3> QED
      BY <2>3, <2>4, <2>5, <3>1
  <2> QED
    <3> HIDE DEF IInv, CommandInv
    <3>1. observing \subseteq Prompts
      BY DEF IInv, CommandInv, Typed
    <3> QED
      BY <2>1, <2>3, <2>6, <2>7, <3>1, QuietStep DEF memory
<1>3. ASSUME AnswerReconcile(c) PROVE Preserved
  <2>1. PICK k \in calls :
          /\ k.kind = "reconcile" /\ k.c = c /\ calls' = calls \ {k}
          /\ \/ \E kind \in (IF k.n \notin got[c] THEN {"not_submitted"}
                             ELSE IF c \in Prompts THEN {"running", "terminal"} ELSE {"acknowledged"}) :
                  facts' = facts \cup {FactOf(k, kind, TRUE)}
             \/ facts' = facts \cup {FactOf(k, "unknown", FALSE)}
             \/ UNCHANGED facts
    BY <1>3 DEF AnswerReconcile
  <2>2. /\ k \in CallRecords /\ k.n <= cmd[k.c].attempt
        /\ <<c, k.n>> \notin wire
    BY <1>1, <2>1 DEF CallsTrue
  <2>3. UNCHANGED <<durable, time, memory, wire, kick, got>>
    BY <1>3 DEF AnswerReconcile
  <2>4. ASSUME NEW kind \in FactKinds \ {"question"}, NEW again \in BOOLEAN,
               kind = "not_submitted" => k.n \notin got[c]
        PROVE  /\ FactOf(k, kind, again) \in FactRecords
               /\ FactHolds(FactOf(k, kind, again))
    BY <2>1, <2>2, <2>3, <2>4 DEF FactOf, FactRecords, CallRecords, FactHolds, FactKinds
  <2>5. \A f \in facts' : f \in facts \/ (f \in FactRecords /\ FactHolds(f))
    <3>1. CASE UNCHANGED facts
      BY <3>1
    <3>2. CASE ~UNCHANGED facts
      <4>1. PICK kind \in FactKinds \ {"question"}, again \in BOOLEAN :
              /\ facts' = facts \cup {FactOf(k, kind, again)}
              /\ kind = "not_submitted" => k.n \notin got[c]
        <5>1. CASE facts' = facts \cup {FactOf(k, "unknown", FALSE)}
          BY <5>1, "unknown" \in FactKinds \ {"question"}, FALSE \in BOOLEAN DEF FactKinds
        <5>2. CASE facts' # facts \cup {FactOf(k, "unknown", FALSE)}
          <6>1. PICK kind \in (IF k.n \notin got[c] THEN {"not_submitted"}
                               ELSE IF c \in Prompts THEN {"running", "terminal"} ELSE {"acknowledged"}) :
                  facts' = facts \cup {FactOf(k, kind, TRUE)}
            BY <2>1, <3>2, <5>2
          <6>2. /\ kind \in FactKinds \ {"question"}
                /\ kind = "not_submitted" => k.n \notin got[c]
            BY DEF FactKinds
          <6> QED
            BY <6>1, <6>2
        <5> QED
          BY <5>1, <5>2
      <4> QED
        BY <2>4, <4>1
    <3> QED
      BY <3>1, <3>2
  <2> QED
    <3> HIDE DEF IInv, CommandInv
    <3>1. observing \subseteq Prompts /\ facts \subseteq FactRecords
      BY DEF IInv, CommandInv, Typed
    <3> QED
      BY <2>1, <2>3, <2>5, <3>1, QuietStep DEF memory
<1> QED
  BY <1>2, <1>3

(* A stream reports only of a run the provider took up, and ends.            *)
LEMMA ObserveSteps ==
  ASSUME IInv, NEW p \in Prompts
  PROVE  /\ \A kind \in {"running", "question", "terminal"} : Observed(p, kind) => Preserved
         /\ ObserveEnd(p) => Preserved
<1>1. ASSUME NEW kind \in {"running", "question", "terminal"}, Observed(p, kind)
      PROVE  Preserved
  <2> DEFINE f == [from |-> "observe", c |-> p, n |-> cmd[p].attempt, g |-> sess.gen,
                   kind |-> kind, again |-> FALSE]
  <2>1. p \in Cmds /\ cmd[p] \in Records /\ sess.gen \in Gens /\ cmd[p].attempt \in got[p]
    BY <1>1 DEF Cmds, IInv, CommandInv, Typed, Observed
  <2>2. f \in FactRecords
    BY <2>1 DEF FactRecords, FactKinds, Records
  <2>3. FactHolds(f)
    BY <2>1 DEF FactHolds, Records
  <2>4. facts' = facts \cup {f} /\ UNCHANGED <<durable, time, memory, calls, wire, got>>
    BY <1>1 DEF Observed
  <2>5. facts \subseteq FactRecords /\ observing \subseteq Prompts
    BY DEF IInv, CommandInv, Typed
  <2> HIDE DEF f
  <2> QED
    BY <2>2, <2>3, <2>4, <2>5, QuietStep DEF memory
<1>2. ASSUME ObserveEnd(p) PROVE Preserved
  BY <1>2, QuietStep DEF ObserveEnd, IInv, CommandInv, Typed
<1> QED
  BY <1>1, <1>2

(* A stream is opened for prompts only.                                      *)
LEMMA FollowsPrompts ==
  ASSUME Typed, NEW f, NEW st
  PROVE  Follow(f, st) \subseteq Prompts
BY DEF Follow, Typed

(* A fact that is no evidence any more is dropped.                           *)
LEMMA DropFactStep ==
  ASSUME IInv, NEW f \in facts, DropFact(f)
  PROVE  Preserved
<1>1. observing' \subseteq Prompts
  BY FollowsPrompts DEF DropFact, IInv, CommandInv
<1> QED
  BY <1>1, QuietStep DEF DropFact, IInv, CommandInv, Typed

(* Timers, the passing of time, the loss of the worker or of the process,    *)
(* and the fence of the caller.                                              *)
LEMMA OuterSteps ==
  ASSUME IInv
  PROVE  /\ WorkerFails \/ Crash \/ SuspendBegin \/ Activate => Preserved
         /\ \A p \in Prompts : RetryTimer(p) \/ RetryWindowEnds(p) => Preserved
         /\ \A c \in Cmds : Expires(c) => Preserved
         /\ UNCHANGED vars => Preserved
<1> USE DEF memory
<1>0. observing \subseteq Prompts /\ facts \subseteq FactRecords
  BY DEF IInv, CommandInv, Typed
<1>1. ASSUME WorkerFails PROVE Preserved
  BY <1>0, <1>1, QuietStep DEF WorkerFails, Reconciling
<1>2. ASSUME Crash PROVE Preserved
  BY <1>0, <1>2, QuietStep DEF Crash
<1>3. ASSUME SuspendBegin \/ Activate PROVE Preserved
  BY <1>0, <1>3, QuietStep DEF SuspendBegin, Activate
<1>4. ASSUME NEW p \in Prompts, RetryTimer(p) \/ RetryWindowEnds(p) PROVE Preserved
  BY <1>0, <1>4, QuietStep DEF RetryTimer, RetryWindowEnds
<1>5. ASSUME NEW c \in Cmds, Expires(c) PROVE Preserved
  BY <1>0, <1>5, QuietStep DEF Expires
<1>6. ASSUME UNCHANGED vars PROVE Preserved
  BY <1>0, <1>6, QuietStep DEF vars
<1> QED
  BY <1>1, <1>2, <1>3, <1>4, <1>5, <1>6

-----------------------------------------------------------------------------
(* The provider takes a dispatch up *)

(* What the provider takes up was on its way: it is the command's last       *)
(* attempt, and no fact or call says otherwise.                              *)
LEMMA ReceiveStep ==
  ASSUME IInv, NEW c \in Cmds, Receive(c)
  PROVE  Preserved
<1> USE DEF IInv, CommandInv
<1>1. PICK n \in Attempts : /\ <<c, n>> \in wire
                            /\ wire' = wire \ {<<c, n>>}
                            /\ got' = [got EXCEPT ![c] = @ \cup {n}]
  BY DEF Receive
<1>2. UNCHANGED <<durable, time, memory, calls, facts, kick, lost, budget>>
  BY DEF Receive
<1>3. n \in Nat /\ n = cmd[c].attempt /\ ~Undispatched(c)
  BY <1>1 DEF WireTrue, Typed
<1>4. /\ \A d \in Cmds : got[d] \subseteq got'[d]
      /\ \A d \in Cmds : got'[d] \subseteq got[d] \cup (IF d = c THEN {n} ELSE {})
  BY <1>1 DEF Typed
<1>5. UNCHANGED <<cmd, inter, sess, calls, facts, observing, fence, rt>>
  BY <1>2 DEF durable, memory
<1>6. Typed'
  BY <1>1, <1>3, <1>5 DEF Typed
<1>7. RecordTrue' /\ OrderTrue' /\ DispatchedInOrder'
  <2>1. RecordTrue'
    BY <1>5 DEF RecordTrue, Undispatched, Unsettled, Accepted, Dispatched
  <2>2. OrderTrue' /\ DispatchedInOrder'
    BY <1>5 DEF OrderTrue, Present, DispatchedInOrder, Settled
  <2> QED
    BY <2>1, <2>2
<1>8. ProviderTrue'
  BY <1>3, <1>4, <1>5 DEF ProviderTrue, Undispatched
<1>9. WireTrue'
  <2> SUFFICES ASSUME NEW d \in Cmds, NEW m \in Nat, <<d, m>> \in wire'
               PROVE  m = cmd[d].attempt /\ m \notin got'[d] /\ ~Undispatched(d)
    BY <1>5 DEF WireTrue, Undispatched
  <2>1. m = cmd[d].attempt /\ m \notin got[d] /\ ~Undispatched(d)
    BY <1>1 DEF WireTrue
  <2>2. d = c => m # n
    BY <1>1
  <2> QED
    BY <1>4, <2>1, <2>2
<1>10. CallsTrue'
  BY <1>1, <1>5 DEF CallsTrue
<1>11. FactsTrue'
  <2> SUFFICES ASSUME NEW f \in facts
               PROVE  /\ f.n <= cmd[f.c].attempt
                      /\ f.kind = "not_submitted" => f.n \notin got'[f.c] /\ <<f.c, f.n>> \notin wire'
                      /\ f.kind = "question" => f.c \in Prompts /\ f.n \in got'[f.c]
    BY <1>5 DEF FactsTrue
  <2>1. f.c \in Cmds
    BY DEF Typed, FactRecords
  <2>2. f.kind = "not_submitted" => <<f.c, f.n>> \notin wire
    BY DEF FactsTrue
  <2> QED
    BY <1>1, <1>4, <2>1, <2>2 DEF FactsTrue
<1>12. SessionInv'
  <2>1. GenerationTrue' /\ FencedQuiet' /\ SuspendedIsQuiet'
    BY <1>5 DEF SessionInv, GenerationTrue, FencedQuiet, SuspendedIsQuiet, Unsettled, Dispatched
  <2>2. \A p \in Prompts : got[p] \subseteq got'[p]
    BY <1>4 DEF Cmds
  <2>3. QuestionsTrue'
    BY <1>5, <2>2 DEF SessionInv, QuestionsTrue, Unsettled
  <2> QED
    BY <2>1, <2>3 DEF SessionInv
<1> QED
  BY <1>5, <1>6, <1>7, <1>8, <1>9, <1>10, <1>11, <1>12 DEF Preserved, SettledKept

-----------------------------------------------------------------------------
(* Acceptance *)

(* A command that is accepted comes after every command that was.            *)
LEMMA AcceptedStep ==
  ASSUME IInv, NEW c \in Cmds, Typed', fence # "closed", cmd[c].st = "absent",
         \A d \in Cmds : d # c => cmd'[d] = cmd[d],
         cmd'[c].st = "accepted", cmd'[c].ord = NextOrd, cmd'[c].attempt = cmd[c].attempt,
         cmd'[c].cert = cmd[c].cert, c \in Controls => cmd'[c].target \in Prompts,
         \A p \in Prompts : inter'[p] = "pending" => inter[p] = "pending",
         UNCHANGED <<sess, got, wire, calls, facts, fence, rt>>
  PROVE  Preserved
<1> USE DEF IInv, CommandInv
<1>1. cmd[c].cert = None /\ cmd[c].attempt = 0 /\ got[c] = {} /\ cmd'[c].attempt = 0
  BY DEF RecordTrue, ProviderTrue, Undispatched
<1>2. /\ IsFiniteSet(Present) /\ c \notin Present /\ Present' = Present \cup {c}
      /\ Cardinality(Present) \in Nat
  <2>1. IsFiniteSet(Present)
    BY CommandsAssumption, FS_Subset DEF Present
  <2> QED
    BY <2>1, FS_CardinalityType DEF Present
<1>3. Cardinality(Present') = Cardinality(Present) + 1 /\ NextOrd = Cardinality(Present) + 1
  BY <1>2, FS_AddElement DEF NextOrd, Present
<1>4. RecordTrue'
  BY <1>1 DEF RecordTrue, Undispatched, Unsettled, Accepted, Dispatched
<1>5. ProviderTrue'
  BY <1>1 DEF ProviderTrue, Undispatched
<1>6. WireTrue'
  <2>1. \A n \in Nat : <<c, n>> \notin wire
    BY DEF WireTrue, Undispatched
  <2> QED
    BY <2>1 DEF WireTrue, Undispatched
<1>7. CallsTrue' /\ FactsTrue'
  <2>1. \A d \in Cmds : cmd'[d].attempt = cmd[d].attempt
    OBVIOUS
  <2>2. CallsTrue'
    BY <2>1 DEF CallsTrue, Typed, CallRecords
  <2>3. FactsTrue'
    BY <2>1 DEF FactsTrue, Typed, FactRecords
  <2> QED
    BY <2>2, <2>3
<1>8. OrderTrue'
  BY <1>2, <1>3 DEF OrderTrue, Typed, Records
<1>9. DispatchedInOrder'
  <2> SUFFICES ASSUME NEW p \in Prompts, NEW q \in Prompts,
                      0 < cmd'[p].ord, cmd'[p].ord < cmd'[q].ord, cmd'[q].attempt > 0
               PROVE  cmd'[p].st \in SettledStates
    BY DEF DispatchedInOrder, Settled
  <2>1. p \in Cmds /\ q \in Cmds /\ q # c
    BY <1>1 DEF Cmds
  <2>2. cmd[q].ord <= Cardinality(Present) /\ cmd[q].ord \in Nat
    BY <2>1 DEF OrderTrue, Typed, Records
  <2>3. p # c
    BY <1>2, <1>3, <2>1, <2>2
  <2> QED
    BY <2>1, <2>3 DEF DispatchedInOrder, Settled
<1>10. GenerationTrue' /\ QuestionsTrue'
  <2>1. GenerationTrue'
    BY <1>1 DEF SessionInv, GenerationTrue, Unsettled, Dispatched, Cmds
  <2>2. ASSUME NEW p \in Prompts, inter'[p] = "pending"
        PROVE  Unsettled(p)' /\ sess'.status = "active" /\ cmd'[p].attempt \in got'[p]
    <3>1. p \in Cmds /\ Unsettled(p) /\ cmd[p].attempt \in got[p] /\ sess.status = "active"
      BY <2>2 DEF SessionInv, QuestionsTrue, Cmds
    <3>2. p # c
      BY <1>1, <3>1
    <3> QED
      BY <3>1, <3>2 DEF Unsettled
  <2> QED
    BY <2>1, <2>2 DEF QuestionsTrue
<1>11. SettledKept
  BY DEF SettledKept, Settled, SettledStates
<1> QED
  BY <1>4, <1>5, <1>6, <1>7, <1>8, <1>9, <1>10, <1>11
     DEF Preserved, SessionInv, FencedQuiet, SuspendedIsQuiet

(* The place of a new command is a number.                                   *)
LEMMA NextOrdIsNat == NextOrd \in Nat
<1>1. IsFiniteSet({c \in Cmds : cmd[c].st # "absent"})
  BY CommandsAssumption, FS_Subset
<1> QED
  BY <1>1, FS_CardinalityType DEF NextOrd

(* A step that replaces one record by another.                               *)
LEMMA RecordReplaced ==
  ASSUME Typed, NEW c \in Cmds, NEW r \in Records, cmd' = [cmd EXCEPT ![c] = r]
  PROVE  cmd' \in [Cmds -> Records] /\ cmd'[c] = r /\ \A d \in Cmds : d # c => cmd'[d] = cmd[d]
BY DEF Typed

(* Each kind of command is accepted with its place in the queue.             *)
LEMMA AcceptSteps ==
  ASSUME IInv
  PROVE  /\ \A p \in Prompts : AcceptPrompt(p) => Preserved
         /\ \A k \in Cancels : AcceptCancel(k) => Preserved
         /\ \A r \in Responds : AcceptRespond(r) => Preserved
<1> USE NextOrdIsNat DEF memory
<1>0. Typed /\ Prompts \cap Controls = {}
  BY CommandsAssumption DEF IInv, CommandInv
<1>1. ASSUME NEW p \in Prompts, AcceptPrompt(p) PROVE Preserved
  <2>1. p \in Cmds /\ p \notin Controls
    BY <1>0 DEF Cmds
  <2>2. /\ cmd[p].st = "absent" /\ fence # "closed"
        /\ cmd' = [cmd EXCEPT ![p].st = "accepted", ![p].ord = NextOrd]
        /\ UNCHANGED <<inter, sess, memory, calls, wire, facts, got>>
    BY <1>1 DEF AcceptPrompt
  <2> DEFINE r == [cmd[p] EXCEPT !.st = "accepted", !.ord = NextOrd]
  <2>a. r \in Records
    <3>1. cmd[p] \in Records
      BY <1>0, <2>1 DEF Typed
    <3> QED
      BY <3>1 DEF Records, States
  <2>b. cmd' = [cmd EXCEPT ![p] = r]
    BY <2>2
  <2>3. Typed'
    <3>1. cmd' \in [Cmds -> Records]
      <4> HIDE DEF r
      <4> QED
        BY <1>0, <2>1, <2>a, <2>b, RecordReplaced
    <3> QED
      BY <1>0, <2>2, <3>1 DEF Typed
  <2> QED
    BY <1>0, <2>1, <2>2, <2>3, AcceptedStep DEF Typed, Records
<1>2. ASSUME NEW k \in Cancels, AcceptCancel(k) PROVE Preserved
  <2>1. k \in Cmds
    BY DEF Cmds, Controls
  <2>2. PICK p \in Prompts :
          cmd' = [cmd EXCEPT ![k].st = "accepted", ![k].ord = NextOrd, ![k].target = p,
                             ![k].gen = sess.gen, ![k].run = RunOf(p)]
    BY <1>2 DEF AcceptCancel
  <2>3. /\ cmd[k].st = "absent" /\ fence # "closed"
        /\ UNCHANGED <<inter, sess, memory, calls, wire, facts, got>>
    BY <1>2 DEF AcceptCancel
  <2>4. RunOf(p) \in (Prompts \cup {None}) \X Nat /\ sess.gen \in Gens
    BY <1>0 DEF RunOf, NoRun, Typed, Records, Cmds
  <2> DEFINE r == [cmd[k] EXCEPT !.st = "accepted", !.ord = NextOrd, !.target = p,
                                 !.gen = sess.gen, !.run = RunOf(p)]
  <2>a. r \in Records
    <3>1. cmd[k] \in Records
      BY <1>0, <2>1 DEF Typed
    <3> QED
      BY <2>4, <3>1 DEF Records, States
  <2>b. cmd' = [cmd EXCEPT ![k] = r]
    BY <2>2
  <2>5. Typed'
    <3>1. cmd' \in [Cmds -> Records]
      <4> HIDE DEF r
      <4> QED
        BY <1>0, <2>1, <2>a, <2>b, RecordReplaced
    <3> QED
      BY <1>0, <2>2, <2>3, <3>1 DEF Typed
  <2> QED
    BY <1>0, <2>1, <2>2, <2>3, <2>5, AcceptedStep DEF Typed, Records
<1>3. ASSUME NEW k \in Responds, AcceptRespond(k) PROVE Preserved
  <2>1. k \in Cmds
    BY DEF Cmds, Controls
  <2>2. PICK p \in Prompts :
          /\ inter' = [inter EXCEPT ![p] = "answered"]
          /\ cmd' = [cmd EXCEPT ![k].st = "accepted", ![k].ord = NextOrd, ![k].target = p,
                                ![k].gen = sess.gen, ![k].run = RunOf(p)]
    BY <1>3 DEF AcceptRespond
  <2>3. /\ cmd[k].st = "absent" /\ fence # "closed"
        /\ UNCHANGED <<sess, memory, calls, wire, facts, got>>
    BY <1>3 DEF AcceptRespond
  <2>4. RunOf(p) \in (Prompts \cup {None}) \X Nat /\ sess.gen \in Gens
    BY <1>0 DEF RunOf, NoRun, Typed, Records, Cmds
  <2> DEFINE r == [cmd[k] EXCEPT !.st = "accepted", !.ord = NextOrd, !.target = p,
                                 !.gen = sess.gen, !.run = RunOf(p)]
  <2>a. r \in Records
    <3>1. cmd[k] \in Records
      BY <1>0, <2>1 DEF Typed
    <3> QED
      BY <2>4, <3>1 DEF Records, States
  <2>b. cmd' = [cmd EXCEPT ![k] = r]
    BY <2>2
  <2>5. Typed'
    <3>1. cmd' \in [Cmds -> Records]
      <4> HIDE DEF r
      <4> QED
        BY <1>0, <2>1, <2>a, <2>b, RecordReplaced
    <3> QED
      BY <1>0, <2>2, <2>3, <3>1 DEF Typed
  <2>6. \A q \in Prompts : inter'[q] = "pending" => inter[q] = "pending"
    BY <1>0, <2>2 DEF Typed
  <2> QED
    BY <1>0, <2>1, <2>2, <2>3, <2>5, <2>6, AcceptedStep DEF Typed, Records
<1> QED
  BY <1>1, <1>2, <1>3

-----------------------------------------------------------------------------
(* Scheduling *)

(* A ready session is not fenced, and what its scheduler takes was not       *)
(* handed over.                                                              *)
LEMMA ChosenIsFresh ==
  ASSUME IInv, Ready, NEW c \in Cmds, Accepted(c)
  PROVE  /\ fence # "closed"
         /\ cmd[c].cert = None /\ got[c] = {} /\ \A n \in Nat : <<c, n>> \notin wire
         /\ c \in Prompts => inter[c] # "pending"
<1>1. fence # "closed"
  BY DEF IInv, SessionInv, SuspendedIsQuiet, Ready
<1>2. Undispatched(c)
  BY DEF Undispatched, Accepted
<1>3. cmd[c].cert = None /\ got[c] = {} /\ \A n \in Nat : <<c, n>> \notin wire
  BY <1>2 DEF IInv, CommandInv, RecordTrue, ProviderTrue, WireTrue
<1>4. c \in Prompts => inter[c] # "pending"
  BY <1>3 DEF IInv, SessionInv, QuestionsTrue
<1> QED
  BY <1>1, <1>3, <1>4

(* Settling commands that were not handed over.                              *)
LEMMA SettleFreshStep ==
  ASSUME IInv, Ready, NEW S, S \subseteq Cmds,
         \A c \in S : Accepted(c),
         cmd' \in [Cmds -> Records],
         \A c \in Cmds : c \notin S => cmd'[c] = cmd[c],
         \A c \in S : /\ cmd'[c].st \in SettledStates /\ cmd'[c].attempt = cmd[c].attempt
                      /\ cmd'[c].ord = cmd[c].ord /\ cmd'[c].target = cmd[c].target,
         UNCHANGED <<inter, sess, got, wire, calls, facts, observing, fence, rt>>
  PROVE  Preserved
<1>1. \A c \in Cmds : Keeps(c)
  BY DEF Keeps, Settled, Accepted, SettledStates
<1>2. Typed'
  BY DEF IInv, CommandInv, Typed
<1>3. \A c \in Cmds : Undispatched(c)' =>
        cmd'[c].cert = None /\ got[c] = {} /\ \A n \in Nat : <<c, n>> \notin wire'
  <2> SUFFICES ASSUME NEW c \in Cmds, Undispatched(c)'
               PROVE  cmd'[c].cert = None /\ got[c] = {} /\ \A n \in Nat : <<c, n>> \notin wire'
    OBVIOUS
  <2>1. c \notin S
    BY DEF Undispatched, SettledStates
  <2> QED
    BY <2>1 DEF IInv, CommandInv, RecordTrue, ProviderTrue, WireTrue, Undispatched
<1>4. \A c \in Cmds : Unsettled(c)' /\ ~Accepted(c)' => Dispatched(c)'
  <2> SUFFICES ASSUME NEW c \in Cmds, Unsettled(c)' /\ ~Accepted(c)'
               PROVE  Dispatched(c)'
    OBVIOUS
  <2>1. c \notin S
    BY DEF Unsettled
  <2> QED
    BY <2>1 DEF IInv, CommandInv, RecordTrue, Unsettled, Accepted, Dispatched
<1>5. CommandInv'
  BY <1>1, <1>2, <1>3, <1>4, CommandsKept DEF IInv
<1>6. GenerationTrue'
  <2> SUFFICES ASSUME sess.status = "active", NEW p \in Prompts,
                      Unsettled(p)' /\ Dispatched(p)'
               PROVE  cmd'[p].gen = sess.gen
    BY DEF GenerationTrue
  <2>1. p \notin S /\ p \in Cmds
    BY DEF Unsettled, Cmds
  <2> QED
    BY <2>1 DEF IInv, SessionInv, GenerationTrue, Unsettled, Dispatched
<1>7. QuestionsTrue'
  <2> SUFFICES ASSUME NEW p \in Prompts, inter[p] = "pending"
               PROVE  Unsettled(p)' /\ sess.status = "active" /\ cmd'[p].attempt \in got[p]
    BY DEF QuestionsTrue
  <2>1. p \in Cmds /\ p \notin S
    BY ChosenIsFresh DEF Cmds
  <2> QED
    BY <2>1 DEF IInv, SessionInv, QuestionsTrue, Unsettled
<1>8. FencedQuiet' /\ SuspendedIsQuiet'
  BY DEF IInv, SessionInv, SuspendedIsQuiet, FencedQuiet, Ready
<1> QED
  BY <1>1, <1>5, <1>6, <1>7, <1>8 DEF Preserved, IInv, SessionInv, SettledKept, Keeps

(* A void command is settled at once; a queued prompt and its cancel together. *)
LEMMA SettlingSteps ==
  ASSUME IInv, NEW c \in Cmds
  PROVE  (ScheduleInvalid(c) \/ ScheduleCancelQueued(c)) => Preserved
<1>0. Typed /\ cmd[c] \in Records
  BY DEF IInv, CommandInv, Typed
<1>1. ASSUME ScheduleInvalid(c) PROVE Preserved
  <2>1. Accepted(c) /\ Ready
    BY <1>0, <1>1, ChosenIsReady DEF ScheduleInvalid
  <2> DEFINE r == [cmd[c] EXCEPT !.st = "invalidated"]
  <2>2. /\ r \in Records /\ r.st \in SettledStates
        /\ r.attempt = cmd[c].attempt /\ r.ord = cmd[c].ord /\ r.target = cmd[c].target
    BY <1>0 DEF Records, States, SettledStates
  <2>3. cmd' = [cmd EXCEPT ![c] = r]
    BY <1>1 DEF ScheduleInvalid
  <2>4. UNCHANGED <<inter, sess, got, wire, calls, facts, observing, fence, rt>>
    BY <1>1 DEF ScheduleInvalid
  <2> HIDE DEF r
  <2>5. /\ cmd' \in [Cmds -> Records] /\ cmd'[c] = r
        /\ \A d \in Cmds : d # c => cmd'[d] = cmd[d]
    BY <1>0, <2>2, <2>3, RecordReplaced
  <2> DEFINE S == {c}
  <2>6. /\ S \subseteq Cmds /\ \A d \in S : Accepted(d)
        /\ \A d \in Cmds : d \notin S => cmd'[d] = cmd[d]
        /\ \A d \in S : /\ cmd'[d].st \in SettledStates /\ cmd'[d].attempt = cmd[d].attempt
                         /\ cmd'[d].ord = cmd[d].ord /\ cmd'[d].target = cmd[d].target
    BY <2>1, <2>2, <2>5
  <2> HIDE DEF S
  <2> QED
    BY <2>1, <2>4, <2>5, <2>6, SettleFreshStep
<1>2. ASSUME ScheduleCancelQueued(c) PROVE Preserved
  <2>1. Accepted(c) /\ Ready /\ c \in Cancels /\ Accepted(cmd[c].target)
    BY <1>0, <1>2, ChosenIsReady DEF ScheduleCancelQueued, CancelsQueued
  <2> DEFINE p == cmd[c].target
             r == [cmd[c] EXCEPT !.st = "acknowledged"]
             q == [cmd[p] EXCEPT !.st = "cancelled"]
  <2>2. p \in Prompts /\ p \in Cmds /\ p # c
    <3>1. c \in Controls /\ cmd[c].st # "absent"
      BY <2>1 DEF Controls, Accepted
    <3>2. p \in Prompts
      BY <3>1 DEF IInv, CommandInv, RecordTrue
    <3> QED
      BY <3>1, <3>2, CommandsAssumption DEF Cmds
  <2>3. /\ r \in Records /\ r.st \in SettledStates
        /\ r.attempt = cmd[c].attempt /\ r.ord = cmd[c].ord /\ r.target = cmd[c].target
    BY <1>0 DEF Records, States, SettledStates
  <2>4. cmd[p] \in Records
    BY <1>0, <2>2 DEF Typed
  <2>5. /\ q \in Records /\ q.st \in SettledStates
        /\ q.attempt = cmd[p].attempt /\ q.ord = cmd[p].ord /\ q.target = cmd[p].target
    BY <2>4 DEF Records, States, SettledStates
  <2>6. cmd' = [[cmd EXCEPT ![c] = r] EXCEPT ![p] = q]
    <3>1. cmd' = [cmd EXCEPT ![c].st = "acknowledged", ![p].st = "cancelled"]
      BY <1>2 DEF ScheduleCancelQueued
    <3> QED
      BY <1>0, <2>2, <3>1 DEF Typed
  <2>7. UNCHANGED <<inter, sess, got, wire, calls, facts, observing, fence, rt>>
    BY <1>2 DEF ScheduleCancelQueued
  <2>8. Accepted(p)
    BY <2>1
  <2> HIDE DEF r, q, p
  <2>9. /\ cmd' \in [Cmds -> Records] /\ cmd'[c] = r /\ cmd'[p] = q
        /\ \A d \in Cmds : d \notin {c, p} => cmd'[d] = cmd[d]
    BY <1>0, <2>2, <2>3, <2>5, <2>6 DEF Typed
  <2> DEFINE S == {c, p}
  <2>10. /\ S \subseteq Cmds /\ \A d \in S : Accepted(d)
         /\ \A d \in Cmds : d \notin S => cmd'[d] = cmd[d]
         /\ \A d \in S : /\ cmd'[d].st \in SettledStates /\ cmd'[d].attempt = cmd[d].attempt
                          /\ cmd'[d].ord = cmd[d].ord /\ cmd'[d].target = cmd[d].target
    BY <2>1, <2>2, <2>3, <2>5, <2>8, <2>9
  <2> HIDE DEF S
  <2> QED
    BY <2>1, <2>7, <2>9, <2>10, SettleFreshStep
<1> QED
  BY <1>1, <1>2

(* A dispatch is a new attempt of a command of which nothing is known; a     *)
(* prompt is dispatched when every earlier one is settled.                   *)
LEMMA DispatchStep ==
  ASSUME IInv, NEW c \in Cmds, ScheduleDispatch(c)
  PROVE  Preserved
<1> DEFINE n == cmd[c].attempt + 1
           r == [cmd[c] EXCEPT !.st = "dispatching", !.attempt = n, !.cert = "intent",
                               !.gen = IF c \in Prompts THEN sess.gen ELSE @]
           k == [kind |-> "dispatch", c |-> c, n |-> n, g |-> sess.gen]
<1>1. Typed /\ cmd[c] \in Records /\ sess.gen \in Gens
  BY DEF IInv, CommandInv, Typed
<1>2. Ready /\ c = Chosen
  BY DEF ScheduleDispatch
<1>3. Accepted(c) /\ (c \in Prompts => ~Occupied /\ \A q \in Prompts : Accepted(q) => cmd[c].ord <= cmd[q].ord)
  BY <1>1, <1>2, ChosenIsReady
<1>4. /\ fence # "closed" /\ cmd[c].cert = None /\ got[c] = {}
      /\ \A m \in Nat : <<c, m>> \notin wire
      /\ c \in Prompts => inter[c] # "pending"
  BY <1>2, <1>3, ChosenIsFresh
<1>5. /\ r \in Records /\ r.st = "dispatching" /\ r.cert = "intent" /\ r.attempt = n
      /\ r.ord = cmd[c].ord /\ r.target = cmd[c].target
      /\ c \in Prompts => r.gen = sess.gen
      /\ n \in Nat /\ n > cmd[c].attempt
  <2> DEFINE g == IF c \in Prompts THEN sess.gen ELSE cmd[c].gen
  <2>1. n \in Nat /\ n > cmd[c].attempt
    BY <1>1 DEF Records
  <2>2. g \in Gens \cup {0} /\ (c \in Prompts => g = sess.gen)
    BY <1>1 DEF Records
  <2>3. r = [cmd[c] EXCEPT !.st = "dispatching", !.attempt = n, !.cert = "intent", !.gen = g]
    BY <1>1 DEF Records
  <2> HIDE DEF n, g, r
  <2> QED
    BY <1>1, <2>1, <2>2, <2>3 DEF Records, States
<1>6. k \in CallRecords /\ k.c = c /\ k.n = n /\ k.kind = "dispatch"
  BY <1>1, <1>5 DEF CallRecords
<1>7. cmd' = [cmd EXCEPT ![c] = r]
  BY <1>1 DEF ScheduleDispatch, Typed
<1>8. /\ calls' = calls \cup {k} /\ wire' = wire \cup {<<c, n>>}
      /\ UNCHANGED <<inter, sess, got, facts, observing, fence, rt>>
  BY DEF ScheduleDispatch
<1> HIDE DEF r, k, n
<1>9. /\ cmd' \in [Cmds -> Records] /\ cmd'[c] = r
      /\ \A d \in Cmds : d # c => cmd'[d] = cmd[d]
  BY <1>1, <1>5, <1>7, RecordReplaced
<1>10. Typed'
  BY <1>5, <1>6, <1>8, <1>9, <1>1 DEF Typed
<1>11. RecordTrue'
  <2>1. r.cert # None /\ ~(r.st \in {"absent", "accepted"})
    BY <1>5 DEF None
  <2>2. c \in Controls => r.target \in Prompts
    BY <1>3, <1>5 DEF IInv, CommandInv, RecordTrue, Accepted
  <2> QED
    BY <1>9, <2>1, <2>2, <1>5 DEF IInv, CommandInv, RecordTrue, Undispatched, Unsettled, Accepted, Dispatched
<1>12. ProviderTrue'
  BY <1>4, <1>5, <1>8, <1>9 DEF IInv, CommandInv, ProviderTrue, Undispatched
<1>13. WireTrue'
  <2> SUFFICES ASSUME NEW d \in Cmds, NEW m \in Nat, <<d, m>> \in wire'
               PROVE  m = cmd'[d].attempt /\ m \notin got[d] /\ ~Undispatched(d)'
    BY <1>8 DEF WireTrue
  <2>1. CASE d = c
    <3>1. m = n
      BY <1>4, <1>8, <2>1
    <3> QED
      BY <1>4, <1>5, <1>9, <2>1, <3>1 DEF Undispatched
  <2>2. CASE d # c
    <3>1. <<d, m>> \in wire
      BY <1>8, <2>2
    <3> QED
      BY <1>9, <2>2, <3>1 DEF IInv, CommandInv, WireTrue, Undispatched
  <2> QED
    BY <2>1, <2>2
<1>14. \A d \in Cmds, m \in Nat : m <= cmd[d].attempt => m <= cmd'[d].attempt /\ (<<d, m>> \in wire' => <<d, m>> \in wire)
  <2> SUFFICES ASSUME NEW d \in Cmds, NEW m \in Nat, m <= cmd[d].attempt
               PROVE  m <= cmd'[d].attempt /\ (<<d, m>> \in wire' => <<d, m>> \in wire)
    OBVIOUS
  <2>1. CASE d = c
    <3>1. m # n /\ m <= n
      BY <1>1, <1>5, <2>1 DEF Records
    <3> QED
      BY <1>5, <1>8, <1>9, <2>1, <3>1
  <2>2. CASE d # c
    BY <1>8, <1>9, <2>2
  <2> QED
    BY <2>1, <2>2
<1>15. CallsTrue'
  <2> SUFFICES ASSUME NEW j \in calls'
               PROVE  j.n <= cmd'[j.c].attempt /\ (j.kind = "reconcile" => <<j.c, j.n>> \notin wire')
    BY DEF CallsTrue
  <2>1. CASE j = k
    BY <1>5, <1>6, <1>9, <2>1
  <2>2. CASE j # k
    <3>1. j \in calls /\ j.c \in Cmds /\ j.n \in Nat
      BY <1>1, <1>8, <2>2 DEF Typed, CallRecords
    <3>2. j.n <= cmd[j.c].attempt /\ (j.kind = "reconcile" => <<j.c, j.n>> \notin wire)
      BY <3>1 DEF IInv, CommandInv, CallsTrue
    <3> QED
      BY <1>14, <3>1, <3>2
  <2> QED
    BY <2>1, <2>2
<1>16. FactsTrue'
  <2> SUFFICES ASSUME NEW f \in facts
               PROVE  /\ f.n <= cmd'[f.c].attempt
                      /\ f.kind = "not_submitted" => f.n \notin got[f.c] /\ <<f.c, f.n>> \notin wire'
                      /\ f.kind = "question" => f.c \in Prompts /\ f.n \in got[f.c]
    BY <1>8 DEF FactsTrue
  <2>1. f.c \in Cmds /\ f.n \in Nat
    BY <1>1 DEF Typed, FactRecords
  <2>2. /\ f.n <= cmd[f.c].attempt
        /\ f.kind = "not_submitted" => f.n \notin got[f.c] /\ <<f.c, f.n>> \notin wire
        /\ f.kind = "question" => f.c \in Prompts /\ f.n \in got[f.c]
    BY DEF IInv, CommandInv, FactsTrue
  <2> QED
    BY <1>14, <2>1, <2>2
<1>17. OrderTrue'
  <2>1. Present' = Present
    BY <1>3, <1>5, <1>9 DEF Present, Accepted
  <2> QED
    BY <1>5, <1>9, <2>1 DEF IInv, CommandInv, OrderTrue
<1>18. DispatchedInOrder'
  <2> SUFFICES ASSUME NEW p \in Prompts, NEW q \in Prompts,
                      0 < cmd'[p].ord, cmd'[p].ord < cmd'[q].ord, cmd'[q].attempt > 0
               PROVE  cmd'[p].st \in SettledStates
    BY DEF DispatchedInOrder, Settled
  <2>1. /\ p \in Cmds /\ q \in Cmds /\ cmd'[p].ord = cmd[p].ord /\ cmd'[q].ord = cmd[q].ord
        /\ cmd[p].ord \in Nat /\ cmd[q].ord \in Nat
    BY <1>1, <1>5, <1>9 DEF Cmds, Typed, Records
  <2>2. CASE q = c
    <3>1. p # c /\ ~Accepted(p)
      BY <1>3, <2>1, <2>2
    <3>2. cmd[p].st # "absent"
      BY <2>1 DEF IInv, CommandInv, RecordTrue
    <3>3. ~Unsettled(p)
      BY <1>3, <2>1, <2>2, <3>1 DEF IInv, CommandInv, RecordTrue, Occupied, Settled, Unsettled
    <3> QED
      BY <1>9, <2>1, <3>1, <3>2, <3>3 DEF Unsettled
  <2>3. CASE q # c
    <3>1. Settled(p)
      BY <1>9, <2>1, <2>3 DEF IInv, CommandInv, DispatchedInOrder
    <3>2. p # c
      BY <1>3, <3>1 DEF Settled, Accepted, SettledStates
    <3> QED
      BY <1>9, <2>1, <3>1, <3>2 DEF Settled
  <2> QED
    BY <2>2, <2>3
<1>19. GenerationTrue'
  <2> SUFFICES ASSUME sess.status = "active", NEW p \in Prompts, Unsettled(p)' /\ Dispatched(p)'
               PROVE  cmd'[p].gen = sess.gen
    BY <1>8 DEF GenerationTrue
  <2>1. p \in Cmds
    BY DEF Cmds
  <2> QED
    BY <1>5, <1>9, <2>1 DEF IInv, SessionInv, GenerationTrue, Unsettled, Dispatched
<1>20. QuestionsTrue'
  <2> SUFFICES ASSUME NEW p \in Prompts, inter[p] = "pending"
               PROVE  Unsettled(p)' /\ sess.status = "active" /\ cmd'[p].attempt \in got[p]
    BY <1>8 DEF QuestionsTrue
  <2>1. p \in Cmds /\ p # c
    BY <1>4 DEF Cmds
  <2> QED
    BY <1>9, <2>1 DEF IInv, SessionInv, QuestionsTrue, Unsettled
<1>21. FencedQuiet' /\ SuspendedIsQuiet'
  BY <1>4, <1>8 DEF FencedQuiet, SuspendedIsQuiet
<1>22. SettledKept
  BY <1>3, <1>9 DEF SettledKept, Settled, Accepted, SettledStates
<1>23. CommandInv'
  BY <1>10, <1>11, <1>12, <1>13, <1>15, <1>16, <1>17, <1>18 DEF CommandInv
<1> QED
  BY <1>19, <1>20, <1>21, <1>22, <1>23 DEF Preserved, IInv, SessionInv

-----------------------------------------------------------------------------
(* Facts *)

(* What a fact makes of its record: it goes back into the queue only by      *)
(* proof that it was not submitted, and stays open only as dispatched.       *)
LEMMA AfterRecord ==
  ASSUME IInv, NEW f \in facts, Applies(f)
  PROVE  /\ f.c \in Cmds /\ cmd[f.c] \in Records
         /\ After(f) \in Records
         /\ After(f).attempt = cmd[f.c].attempt /\ After(f).ord = cmd[f.c].ord
         /\ After(f).target = cmd[f.c].target /\ After(f).gen = cmd[f.c].gen
         /\ After(f).st # "absent"
         /\ After(f).st = "accepted" => f.kind = "not_submitted" /\ After(f).cert = None
         /\ After(f).st \notin SettledStates \cup {"accepted"} => After(f).cert # None
         /\ f.kind = "question" => After(f) = cmd[f.c]
<1> DEFINE r == cmd[f.c]
<1>1. f.c \in Cmds /\ r \in Records /\ f.kind \in FactKinds
  BY DEF IInv, CommandInv, Typed, FactRecords
<1>2. Unsettled(f.c) /\ r.cert # None
  BY DEF Applies, Dispatched
<1>3. ~Accepted(f.c)
  BY <1>1, <1>2 DEF IInv, CommandInv, RecordTrue, Undispatched, Accepted
<1>4. r.st \notin SettledStates \cup {"absent", "accepted"}
  BY <1>2, <1>3 DEF Unsettled, Accepted
<1> HIDE DEF r
<1>5. CASE f.kind = "not_submitted"
  <2>1. \/ After(f) = [r EXCEPT !.st = "accepted", !.cert = None, !.known = FALSE, !.retried = TRUE]
        \/ After(f) = [r EXCEPT !.st = "invalidated", !.cert = None, !.known = FALSE]
    BY <1>5 DEF After, r
  <2>2. /\ After(f) \in Records /\ After(f).st \in {"accepted", "invalidated"}
        /\ After(f).cert = None
        /\ After(f).attempt = r.attempt /\ After(f).ord = r.ord
        /\ After(f).target = r.target /\ After(f).gen = r.gen
    <3>1. CASE After(f) = [r EXCEPT !.st = "accepted", !.cert = None, !.known = FALSE, !.retried = TRUE]
      BY <1>1, <3>1 DEF Records, States
    <3>2. CASE After(f) = [r EXCEPT !.st = "invalidated", !.cert = None, !.known = FALSE]
      BY <1>1, <3>2 DEF Records, States
    <3> QED
      BY <2>1, <3>1, <3>2
  <2> QED
    BY <1>1, <1>5, <2>2 DEF SettledStates, r
<1>6. CASE f.kind = "unknown"
  <2>1. After(f) = [r EXCEPT !.st = "reconciliation_required",
                             !.cert = IF r.cert = "submitted" THEN r.cert ELSE "unknown"]
    BY <1>1, <1>6 DEF After, r, Records
  <2> QED
    BY <1>1, <1>6, <2>1 DEF Records, States, SettledStates, None, r
<1>7. CASE f.kind \in {"submitted", "running", "terminal", "acknowledged"}
  <2> DEFINE st == IF f.kind = "submitted" THEN "dispatching" ELSE f.kind
  <2>1. After(f) = [r EXCEPT !.st = st, !.cert = "submitted", !.known = TRUE]
    BY <1>7 DEF After, r
  <2>2. st \in States \ {"absent", "accepted"}
    BY <1>7 DEF States
  <2> HIDE DEF st
  <2>3. /\ After(f) \in Records /\ After(f).st = st /\ After(f).cert = "submitted"
        /\ After(f).attempt = r.attempt /\ After(f).ord = r.ord
        /\ After(f).target = r.target /\ After(f).gen = r.gen
    BY <1>1, <2>1, <2>2 DEF Records
  <2> QED
    BY <1>1, <1>7, <2>2, <2>3 DEF None, r
<1>8. CASE f.kind = "question"
  <2>1. After(f) = r
    BY <1>8 DEF After, r
  <2> QED
    BY <1>1, <1>2, <1>4, <1>8, <2>1 DEF SettledStates, r
<1> QED
  BY <1>1, <1>5, <1>6, <1>7, <1>8 DEF FactKinds

(* Evidence is applied to the open record of its attempt and generation.     *)
LEMMA ApplyFactStep ==
  ASSUME IInv, NEW f \in facts, ApplyFact(f)
  PROVE  Preserved
<1> DEFINE r == After(f)
           c == f.c
<1>1. /\ Applies(f) /\ Unsettled(c) /\ Dispatched(c) /\ f.n = cmd[c].attempt
      /\ sess.status = "active" /\ f.g = sess.gen
  BY DEF ApplyFact, Applies
<1>2. /\ c \in Cmds /\ cmd[c] \in Records
      /\ r \in Records
      /\ r.attempt = cmd[c].attempt /\ r.ord = cmd[c].ord
      /\ r.target = cmd[c].target /\ r.gen = cmd[c].gen
      /\ r.st # "absent"
      /\ r.st = "accepted" => f.kind = "not_submitted" /\ r.cert = None
      /\ r.st \notin SettledStates \cup {"accepted"} => r.cert # None
      /\ f.kind = "question" => r = cmd[c]
  BY <1>1, AfterRecord
<1>3. Typed /\ f \in FactRecords
  BY DEF IInv, CommandInv, Typed
<1>4. /\ facts' = facts \ {f} /\ cmd' = [cmd EXCEPT ![c] = r]
      /\ inter' = [p \in Prompts |->
                     IF p = c /\ f.kind = "question" THEN "pending"
                     ELSE IF p = c /\ r.st \in SettledStates /\ inter[p] = "pending" THEN "unavailable"
                     ELSE inter[p]]
      /\ sess' = [sess EXCEPT !.run = IF f.kind \in {"submitted", "running", "terminal"} /\ c \in Prompts
                                      THEN <<c, f.n>> ELSE @]
      /\ observing' = Follow(f, r.st)
      /\ UNCHANGED <<rt, fence, calls, wire, got>>
  BY DEF ApplyFact
<1>5. f.kind = "not_submitted" => got[c] = {} /\ \A n \in Nat : <<c, n>> \notin wire
  BY <1>1, <1>2 DEF IInv, CommandInv, FactsTrue, ProviderTrue, WireTrue
<1>6. f.kind = "question" => cmd[c].attempt \in got[c]
  BY <1>1 DEF IInv, CommandInv, FactsTrue
<1> HIDE DEF r
<1>7. /\ cmd' \in [Cmds -> Records] /\ cmd'[c] = r
      /\ \A d \in Cmds : d # c => cmd'[d] = cmd[d]
  BY <1>2, <1>3, <1>4, RecordReplaced
<1>8. sess' \in [status : {"active", "recovery_required"}, gen : Gens,
                 run : (Prompts \cup {None}) \X Nat]
      /\ sess'.status = sess.status /\ sess'.gen = sess.gen
  <2> DEFINE run == IF f.kind \in {"submitted", "running", "terminal"} /\ c \in Prompts
                    THEN <<c, f.n>> ELSE sess.run
  <2>1. sess \in [status : {"active", "recovery_required"}, gen : Gens,
                  run : (Prompts \cup {None}) \X Nat] /\ f.n \in Nat
    BY <1>3 DEF Typed, FactRecords
  <2>2. run \in (Prompts \cup {None}) \X Nat
    BY <2>1
  <2>3. sess' = [sess EXCEPT !.run = run]
    BY <1>4, <2>1
  <2> HIDE DEF run
  <2> QED
    BY <2>1, <2>2, <2>3
<1>9. inter' \in [Prompts -> {None, "pending", "answered", "unavailable"}]
  BY <1>3, <1>4 DEF Typed
<1>10. observing' \subseteq Prompts
  BY <1>3, <1>4, FollowsPrompts
<1>11. Typed'
  BY <1>3, <1>4, <1>7, <1>8, <1>9, <1>10 DEF Typed
<1>12. \A d \in Cmds : Keeps(d)
  BY <1>1, <1>2, <1>7 DEF Keeps, Unsettled, Settled
<1>13. \A d \in Cmds : Undispatched(d)' =>
         cmd'[d].cert = None /\ got[d] = {} /\ \A n \in Nat : <<d, n>> \notin wire'
  <2> SUFFICES ASSUME NEW d \in Cmds, Undispatched(d)'
               PROVE  cmd'[d].cert = None /\ got[d] = {} /\ \A n \in Nat : <<d, n>> \notin wire
    BY <1>4
  <2>1. CASE d = c
    BY <1>2, <1>5, <1>7, <2>1 DEF Undispatched
  <2>2. CASE d # c
    BY <1>7, <2>2 DEF IInv, CommandInv, RecordTrue, ProviderTrue, WireTrue, Undispatched
  <2> QED
    BY <2>1, <2>2
<1>14. \A d \in Cmds : Unsettled(d)' /\ ~Accepted(d)' => Dispatched(d)'
  <2> SUFFICES ASSUME NEW d \in Cmds, Unsettled(d)' /\ ~Accepted(d)'
               PROVE  cmd'[d].cert # None
    BY DEF Dispatched
  <2>1. CASE d = c
    BY <1>2, <1>7, <2>1 DEF Unsettled, Accepted
  <2>2. CASE d # c
    BY <1>7, <2>2 DEF IInv, CommandInv, RecordTrue, Unsettled, Accepted, Dispatched
  <2> QED
    BY <2>1, <2>2
<1>15. CommandInv'
  BY <1>4, <1>11, <1>12, <1>13, <1>14, CommandsKept DEF IInv
<1>16. GenerationTrue'
  <2> SUFFICES ASSUME NEW p \in Prompts, Unsettled(p)' /\ Dispatched(p)'
               PROVE  cmd'[p].gen = sess'.gen
    BY DEF GenerationTrue
  <2>1. p \in Cmds
    BY DEF Cmds
  <2>2. CASE p = c
    BY <1>1, <1>2, <1>7, <1>8, <2>1, <2>2 DEF IInv, SessionInv, GenerationTrue
  <2>3. CASE p # c
    BY <1>1, <1>7, <1>8, <2>1, <2>3 DEF IInv, SessionInv, GenerationTrue, Unsettled, Dispatched
  <2> QED
    BY <2>2, <2>3
<1>17. QuestionsTrue'
  <2> SUFFICES ASSUME NEW p \in Prompts, inter'[p] = "pending"
               PROVE  Unsettled(p)' /\ sess'.status = "active" /\ cmd'[p].attempt \in got'[p]
    BY DEF QuestionsTrue
  <2>1. p \in Cmds
    BY DEF Cmds
  <2>2. CASE p = c /\ f.kind = "question"
    BY <1>1, <1>2, <1>4, <1>6, <1>7, <1>8, <2>2 DEF Unsettled
  <2>3. CASE p = c /\ f.kind # "question"
    <3>1. inter[p] = "pending" /\ r.st \notin SettledStates
      BY <1>4, <2>3
    <3>2. cmd[p].attempt \in got[p]
      BY <3>1 DEF IInv, SessionInv, QuestionsTrue
    <3> QED
      BY <1>1, <1>2, <1>4, <1>7, <1>8, <2>3, <3>1, <3>2 DEF Unsettled
  <2>4. CASE p # c
    <3>1. inter[p] = "pending"
      BY <1>4, <2>4
    <3> QED
      BY <1>4, <1>7, <1>8, <2>1, <2>4, <3>1 DEF IInv, SessionInv, QuestionsTrue, Unsettled
  <2> QED
    BY <2>2, <2>3, <2>4
<1>18. FencedQuiet' /\ SuspendedIsQuiet'
  BY <1>1, <1>4 DEF IInv, SessionInv, FencedQuiet, SuspendedIsQuiet
<1> QED
  BY <1>12, <1>15, <1>16, <1>17, <1>18 DEF Preserved, IInv, SessionInv, SettledKept, Keeps

-----------------------------------------------------------------------------
(* Losing and replacing the worker *)

(* What any of the hand-offs makes of a record: the dispatch is kept, what   *)
(* was open and handed over stays so, and nothing goes back into the queue.  *)
Loses(c) ==
  /\ cmd'[c] \in Records
  /\ Keeps(c)
  /\ cmd'[c].cert = cmd[c].cert
  /\ cmd'[c].st = "accepted" => cmd[c].st = "accepted"
  /\ cmd[c].st = "accepted" => cmd'[c].st \in SettledStates \cup {"accepted"}
  /\ Unsettled(c)' => Unsettled(c)

(* A hand-off keeps the invariant: no question stays open, nothing is on its *)
(* way any more, and every new call asks about the last attempt.             *)
LEMMA LossStep ==
  ASSUME IInv, cmd' \in [Cmds -> Records], \A c \in Cmds : Loses(c), inter' = QuestionsVoid,
         sess' \in [status : {"active", "recovery_required"}, gen : Gens,
                    run : (Prompts \cup {None}) \X Nat],
         wire' = {}, UNCHANGED <<got, facts>>, observing' = {},
         calls' \subseteq CallRecords,
         \A k \in calls' : k \in calls \/ k.n = cmd[k.c].attempt,
         GenerationTrue', FencedQuiet', SuspendedIsQuiet'
  PROVE  Preserved
<1>1. inter' \in [Prompts -> {None, "pending", "answered", "unavailable"}]
      /\ \A p \in Prompts : inter'[p] # "pending"
  BY DEF QuestionsVoid, IInv, CommandInv, Typed
<1>2. Typed'
  BY <1>1 DEF Typed, IInv, CommandInv
<1>3. \A c \in Cmds : Undispatched(c)' =>
        cmd'[c].cert = None /\ got[c] = {} /\ \A n \in Nat : <<c, n>> \notin wire'
  BY DEF Loses, Keeps, Undispatched, IInv, CommandInv, RecordTrue, ProviderTrue
<1>4. \A c \in Cmds : Unsettled(c)' /\ ~Accepted(c)' => Dispatched(c)'
  <2> SUFFICES ASSUME NEW c \in Cmds, Unsettled(c)', ~Accepted(c)'
               PROVE  cmd'[c].cert # None
    BY DEF Dispatched
  <2>1. Unsettled(c) /\ cmd'[c].cert = cmd[c].cert
    BY DEF Loses
  <2>2. ~Accepted(c)
    BY DEF Loses, Unsettled, Accepted
  <2> QED
    BY <2>1, <2>2 DEF IInv, CommandInv, RecordTrue, Dispatched
<1>5. \A k \in calls' : k \in calls \/ CallHolds(k)
  BY DEF CallHolds, CallRecords, IInv, CommandInv, Typed, Records
<1>6. CommandInv'
  BY <1>2, <1>3, <1>4, <1>5, CommandsKept DEF IInv, Loses
<1>7. QuestionsTrue'
  BY <1>1 DEF QuestionsTrue
<1> QED
  BY <1>6, <1>7 DEF Preserved, IInv, SessionInv, SettledKept, Loses, Keeps

(* The ordinary hand-off loses records in that sense.                        *)
LEMMA HandedOffRecord ==
  ASSUME IInv, NEW c \in Cmds
  PROVE  /\ HandedOff(c) \in Records
         /\ HandedOff(c).attempt = cmd[c].attempt /\ HandedOff(c).ord = cmd[c].ord
         /\ HandedOff(c).target = cmd[c].target /\ HandedOff(c).cert = cmd[c].cert
         /\ HandedOff(c).gen = cmd[c].gen
         /\ HandedOff(c).st = "absent" <=> cmd[c].st = "absent"
         /\ Settled(c) => HandedOff(c) = cmd[c]
         /\ HandedOff(c).st = "accepted" => cmd[c].st = "accepted"
         /\ cmd[c].st = "accepted" => HandedOff(c).st \in SettledStates \cup {"accepted"}
         /\ HandedOff(c).st \notin SettledStates \cup {"absent"} => Unsettled(c)
         /\ HandedOff(c).st \notin {"dispatching", "running"}
<1> DEFINE r == cmd[c]
<1>1. r \in Records
  BY DEF IInv, CommandInv, Typed
<1>2. Unsettled(c) /\ ~Accepted(c) => Dispatched(c)
  BY DEF IInv, CommandInv, RecordTrue
<1>3. Accepted(c) => ~Dispatched(c)
  BY DEF IInv, CommandInv, RecordTrue, Undispatched, Accepted, Dispatched
<1>4. r.st \in States
  BY <1>1 DEF Records
<1>5. CASE ~Unsettled(c)
  <2>1. HandedOff(c) = r
    BY <1>5 DEF HandedOff
  <2>2. r.st \in SettledStates \cup {"absent"}
    BY <1>5 DEF Unsettled
  <2> QED
    BY <1>1, <1>5, <2>1, <2>2 DEF SettledStates, Settled, r
<1>6. CASE Unsettled(c) /\ Dispatched(c)
  <2>1. HandedOff(c) = [r EXCEPT !.st = "reconciliation_required"]
    BY <1>6 DEF HandedOff, r
  <2>2. /\ r.st \notin SettledStates \cup {"absent", "accepted"}
    BY <1>3, <1>6 DEF Unsettled, Accepted, r
  <2> QED
    BY <1>1, <1>6, <2>1, <2>2 DEF Records, States, SettledStates, Settled, r
<1>7. CASE Unsettled(c) /\ ~Dispatched(c)
  <2>1. r.st = "accepted"
    BY <1>2, <1>7 DEF Accepted, r
  <2>2. CASE c \in Controls
    <3>1. HandedOff(c) = [r EXCEPT !.st = "invalidated"]
      BY <1>7, <2>2 DEF HandedOff, r
    <3> QED
      BY <1>1, <1>7, <2>1, <3>1 DEF Records, States, SettledStates, Settled, r
  <2>3. CASE c \notin Controls
    <3>1. HandedOff(c) = r
      BY <1>7, <2>3 DEF HandedOff, r
    <3> QED
      BY <1>1, <1>7, <2>1, <3>1 DEF SettledStates, Settled, r
  <2> QED
    BY <2>2, <2>3
<1> QED
  BY <1>5, <1>6, <1>7

(* The hand-off of an active session, whatever becomes of its worker.        *)
LEMMA HandOffStep ==
  ASSUME IInv, HandOff, got' = got, facts' = facts, observing' = {}, wire' = {},
         calls' \subseteq calls,
         fence' = "closed" => fence = "closed" /\ (rt' = "live" => rt = "live")
  PROVE  Preserved
<1>1. CASE sess.status # "active"
  <2>1. UNCHANGED durable
    BY <1>1 DEF HandOff
  <2>2. wire' \subseteq wire /\ observing' \subseteq Prompts /\ facts' \subseteq FactRecords
    BY DEF IInv, CommandInv, Typed
  <2> QED
    BY <2>1, <2>2, QuietStep
<1>2. CASE sess.status = "active"
  <2>1. /\ cmd' = [c \in Cmds |-> HandedOff(c)] /\ inter' = QuestionsVoid
        /\ sess' = [sess EXCEPT !.status = "recovery_required"]
    BY <1>2 DEF HandOff
  <2>2. \A c \in Cmds : cmd'[c] = HandedOff(c)
    BY <2>1
  <2>3. cmd' \in [Cmds -> Records]
    <3>1. \A c \in Cmds : HandedOff(c) \in Records
      BY HandedOffRecord
    <3> HIDE DEF Records
    <3> QED
      BY <2>1, <3>1
  <2>4. \A c \in Cmds : Loses(c)
    BY <2>2, HandedOffRecord DEF Loses, Keeps, Unsettled
  <2>5. /\ sess' \in [status : {"active", "recovery_required"}, gen : Gens,
                      run : (Prompts \cup {None}) \X Nat]
        /\ sess'.status = "recovery_required"
    BY <2>1 DEF IInv, CommandInv, Typed
  <2>6. GenerationTrue' /\ FencedQuiet'
    BY <2>5 DEF GenerationTrue, FencedQuiet
  <2>7. SuspendedIsQuiet'
    BY <1>2 DEF SuspendedIsQuiet, IInv, SessionInv, FencedQuiet
  <2>8. calls' \subseteq CallRecords /\ \A k \in calls' : k \in calls \/ k.n = cmd[k.c].attempt
    BY DEF IInv, CommandInv, Typed
  <2> QED
    BY <2>1, <2>3, <2>4, <2>5, <2>6, <2>7, <2>8, LossStep
<1> QED
  BY <1>1, <1>2

(* The loss of a worker, and a resume or a suspension that fails.            *)
LEMMA LossSteps ==
  ASSUME IInv
  PROVE  Unavailable \/ OpenFails \/ SuspendFails => Preserved
<1>0. observing \subseteq Prompts /\ facts \subseteq FactRecords
  BY DEF IInv, CommandInv, Typed
<1>1. ASSUME Isolate, HandOff \/ UNCHANGED durable, got' = got, facts' = facts,
             fence' = "closed" => fence = "closed" /\ (rt' = "live" => rt = "live")
      PROVE  Preserved
  <2>1. wire' = {} /\ observing' = {} /\ calls' \subseteq calls
    BY <1>1 DEF Isolate
  <2>2. CASE HandOff
    BY <1>1, <2>1, <2>2, HandOffStep
  <2>3. CASE UNCHANGED durable
    BY <1>0, <1>1, <2>1, <2>3, QuietStep
  <2> QED
    BY <1>1, <2>2, <2>3
<1>2. ASSUME Unavailable PROVE Preserved
  <2>1. /\ Isolate /\ (HandOff \/ UNCHANGED durable) /\ got' = got /\ facts' = facts
        /\ fence' = fence /\ rt' # "live"
    BY <1>2 DEF Unavailable, HandOffIncomplete
  <2> QED
    BY <1>1, <2>1
<1>3. ASSUME OpenFails PROVE Preserved
  <2>1. /\ Isolate /\ (HandOff \/ UNCHANGED durable) /\ got' = got /\ facts' = facts
        /\ fence' = fence /\ fence = "open"
    BY <1>3 DEF OpenFails, HandOffIncomplete
  <2> QED
    BY <1>1, <2>1
<1>4. ASSUME SuspendFails PROVE Preserved
  <2>1. fence' = "open" /\ got' = got /\ facts' = facts
    BY <1>4 DEF SuspendFails
  <2>2. CASE UNCHANGED <<durable, rt, wire, observing, calls, lost>>
    BY <1>0, <2>1, <2>2, QuietStep
  <2>3. CASE Isolate /\ HandOffIncomplete
    BY <1>1, <2>1, <2>3 DEF HandOffIncomplete
  <2> QED
    BY <1>4, <2>2, <2>3 DEF SuspendFails
<1> QED
  BY <1>2, <1>3, <1>4

(* A restored provider takes the open dispatches over into its generation    *)
(* and is asked about each.                                                  *)
LEMMA OpenStep ==
  ASSUME IInv, Open
  PROVE  Preserved
<1>1. PICK g \in Gens :
        /\ cmd' = [c \in Cmds |-> IF Unsettled(c) /\ Dispatched(c) /\ c \in Prompts
                                  THEN [HandedOff(c) EXCEPT !.gen = g] ELSE HandedOff(c)]
        /\ sess' = [sess EXCEPT !.status = "active", !.gen = g]
        /\ calls' = calls \cup {[kind |-> "reconcile", c |-> c, n |-> cmd[c].attempt, g |-> g] :
                                 c \in {d \in Cmds : Unsettled(d) /\ Dispatched(d)}}
  BY DEF Open
<1>2. /\ fence' # "closed" /\ inter' = QuestionsVoid /\ wire' = {} /\ observing' = {}
      /\ UNCHANGED <<got, facts>>
  BY DEF Open
<1>3. ASSUME NEW c \in Cmds
      PROVE  cmd'[c] \in Records /\ Loses(c)
             /\ (c \in Prompts /\ Unsettled(c) /\ Dispatched(c) => cmd'[c].gen = g)
  <2> DEFINE h == HandedOff(c)
  <2>1. /\ h \in Records
        /\ h.attempt = cmd[c].attempt /\ h.ord = cmd[c].ord
        /\ h.target = cmd[c].target /\ h.cert = cmd[c].cert
        /\ h.st = "absent" <=> cmd[c].st = "absent"
        /\ Settled(c) => h = cmd[c]
        /\ h.st = "accepted" => cmd[c].st = "accepted"
        /\ cmd[c].st = "accepted" => h.st \in SettledStates \cup {"accepted"}
        /\ h.st \notin SettledStates \cup {"absent"} => Unsettled(c)
    BY HandedOffRecord
  <2>2. cmd'[c] = IF Unsettled(c) /\ Dispatched(c) /\ c \in Prompts THEN [h EXCEPT !.gen = g] ELSE h
    BY <1>1
  <2> HIDE DEF h
  <2>3. CASE Unsettled(c) /\ Dispatched(c) /\ c \in Prompts
    <3>1. /\ cmd'[c] \in Records /\ cmd'[c].gen = g /\ cmd'[c].st = h.st
          /\ cmd'[c].attempt = h.attempt /\ cmd'[c].ord = h.ord
          /\ cmd'[c].target = h.target /\ cmd'[c].cert = h.cert
      BY <2>1, <2>2, <2>3 DEF Records
    <3>2. ~Settled(c)
      BY <2>3 DEF Unsettled, Settled
    <3> QED
      BY <2>1, <3>1, <3>2 DEF Loses, Keeps, Unsettled
  <2>4. CASE ~(Unsettled(c) /\ Dispatched(c) /\ c \in Prompts)
    BY <2>1, <2>2, <2>4 DEF Loses, Keeps, Unsettled
  <2> QED
    BY <2>3, <2>4
<1>4. cmd' \in [Cmds -> Records]
  <2>1. \A c \in Cmds : cmd'[c] \in Records
    BY <1>3
  <2> HIDE DEF Records
  <2> QED
    BY <1>1, <2>1
<1>5. /\ sess' \in [status : {"active", "recovery_required"}, gen : Gens,
                    run : (Prompts \cup {None}) \X Nat]
      /\ sess'.gen = g
  BY <1>1 DEF IInv, CommandInv, Typed
<1>6. calls' \subseteq CallRecords /\ \A k \in calls' : k \in calls \/ k.n = cmd[k.c].attempt
  <2>1. \A k \in calls' : k \in calls \/ \E c \in Cmds : k = [kind |-> "reconcile", c |-> c, n |-> cmd[c].attempt, g |-> g]
    BY <1>1
  <2>2. \A c \in Cmds : [kind |-> "reconcile", c |-> c, n |-> cmd[c].attempt, g |-> g] \in CallRecords
    BY DEF CallRecords, IInv, CommandInv, Typed, Records
  <2>3. calls \subseteq CallRecords
    BY DEF IInv, CommandInv, Typed
  <2> QED
    BY <2>1, <2>2, <2>3
<1>7. GenerationTrue'
  <2> SUFFICES ASSUME NEW p \in Prompts, Unsettled(p)', Dispatched(p)'
               PROVE  cmd'[p].gen = sess'.gen
    BY DEF GenerationTrue
  <2>1. p \in Cmds
    BY DEF Cmds
  <2>2. Unsettled(p) /\ Dispatched(p)
    BY <1>3, <2>1 DEF Loses, Dispatched
  <2> QED
    BY <1>3, <1>5, <2>1, <2>2
<1>8. FencedQuiet' /\ SuspendedIsQuiet'
  BY <1>2 DEF FencedQuiet, SuspendedIsQuiet
<1> QED
  BY <1>2, <1>3, <1>4, <1>5, <1>6, <1>7, <1>8, LossStep

(* A suspension cancels what is queued and leaves what was sent uncertain.   *)
LEMMA SuspendStep ==
  ASSUME IInv, SuspendSession
  PROVE  Preserved
<1>1. /\ cmd' = [c \in Cmds |-> Suspended(c)] /\ inter' = QuestionsVoid
      /\ sess' = [sess EXCEPT !.status = "recovery_required"]
      /\ rt' = "none" /\ wire' = {} /\ observing' = {}
      /\ calls' \subseteq calls /\ UNCHANGED <<got, facts>>
  BY DEF SuspendSession
<1>2. ASSUME NEW c \in Cmds
      PROVE  /\ cmd'[c] \in Records /\ Loses(c)
             /\ c \in Prompts => cmd'[c].st \notin {"accepted", "dispatching", "running"}
  <2>1. cmd'[c] = Suspended(c) /\ cmd[c] \in Records
    BY <1>1 DEF IInv, CommandInv, Typed
  <2>2. CASE c \in Prompts /\ Accepted(c)
    <3>1. cmd'[c] = [cmd[c] EXCEPT !.st = "cancelled"]
      BY <2>1, <2>2 DEF Suspended
    <3>2. /\ cmd'[c] \in Records /\ cmd'[c].st = "cancelled"
          /\ cmd'[c].attempt = cmd[c].attempt /\ cmd'[c].ord = cmd[c].ord
          /\ cmd'[c].target = cmd[c].target /\ cmd'[c].cert = cmd[c].cert
      BY <2>1, <3>1 DEF Records, States
    <3> QED
      BY <2>2, <3>2 DEF Loses, Keeps, Unsettled, Settled, Accepted, SettledStates
  <2>3. CASE ~(c \in Prompts /\ Accepted(c))
    <3>1. cmd'[c] = HandedOff(c)
      BY <2>1, <2>3 DEF Suspended
    <3>2. Loses(c) /\ cmd'[c].st \notin {"dispatching", "running"}
      BY <3>1, HandedOffRecord DEF Loses, Keeps, Unsettled
    <3>3. c \in Prompts => cmd'[c].st # "accepted"
      BY <2>3, <3>2 DEF Loses, Accepted
    <3> QED
      BY <3>2, <3>3 DEF Loses
  <2> QED
    BY <2>2, <2>3
<1>3. cmd' \in [Cmds -> Records]
  <2>1. \A c \in Cmds : cmd'[c] \in Records
    BY <1>2
  <2> HIDE DEF Records
  <2> QED
    BY <1>1, <2>1
<1>4. /\ sess' \in [status : {"active", "recovery_required"}, gen : Gens,
                    run : (Prompts \cup {None}) \X Nat]
      /\ sess'.status = "recovery_required"
  BY <1>1 DEF IInv, CommandInv, Typed
<1>5. GenerationTrue' /\ FencedQuiet'
  BY <1>4 DEF GenerationTrue, FencedQuiet
<1>6. SuspendedIsQuiet'
  BY <1>1, <1>2 DEF SuspendedIsQuiet, Cmds
<1>7. calls' \subseteq CallRecords /\ \A k \in calls' : k \in calls \/ k.n = cmd[k.c].attempt
  BY <1>1 DEF IInv, CommandInv, Typed
<1> QED
  BY <1>1, <1>2, <1>3, <1>4, <1>5, <1>6, <1>7, LossStep

-----------------------------------------------------------------------------
(* The invariant *)

(* Nothing is accepted, sent or known at first.                              *)
LEMMA InitHolds == Init => IInv
<1> SUFFICES ASSUME Init PROVE IInv
  OBVIOUS
<1>1. /\ \A c \in Cmds : cmd[c] = NoRecord /\ got[c] = {}
      /\ calls = {} /\ wire = {} /\ facts = {} /\ observing = {} /\ fence = "open"
      /\ \A p \in Prompts : inter[p] = None
  BY DEF Init, Cmds
<1>2. NoRecord \in Records
  BY DEF NoRecord, NoRun, Records, States
<1>3. Typed
  <2>1. cmd \in [Cmds -> Records]
    <3> HIDE DEF Records, NoRecord
    <3> QED
      BY <1>2 DEF Init
  <2>2. sess \in [status : {"active", "recovery_required"}, gen : Gens,
                  run : (Prompts \cup {None}) \X Nat]
    BY LimitsAssumption DEF Init, NoRun
  <2>3. got \in [Cmds -> SUBSET Nat]
    BY DEF Init
  <2> QED
    BY <2>1, <2>2, <2>3 DEF Init, Typed
<1>4. /\ NoRecord.st = "absent" /\ NoRecord.cert = None /\ NoRecord.attempt = 0 /\ NoRecord.ord = 0
  BY DEF NoRecord
<1>5. RecordTrue /\ ProviderTrue /\ WireTrue /\ CallsTrue /\ FactsTrue
  <2>1. RecordTrue
    BY <1>1, <1>4 DEF RecordTrue, Unsettled
  <2> QED
    BY <1>1, <2>1 DEF ProviderTrue, WireTrue, CallsTrue, FactsTrue
<1>6. OrderTrue
  <2>1. Present = {}
    BY <1>1, <1>4 DEF Present
  <2> QED
    BY <1>1, <1>4, <2>1, FS_EmptySet DEF OrderTrue
<1>7. DispatchedInOrder
  BY <1>1, <1>4 DEF DispatchedInOrder, Cmds
<1>8. SessionInv
  <2>1. \A p \in Prompts : p \in Cmds /\ ~Dispatched(p)
    BY <1>1, <1>4 DEF Dispatched, Cmds
  <2> QED
    BY <1>1, <2>1 DEF SessionInv, GenerationTrue, QuestionsTrue, FencedQuiet, SuspendedIsQuiet, None
<1> QED
  BY <1>3, <1>5, <1>6, <1>7, <1>8 DEF IInv, CommandInv

(* Every step keeps the invariant and every settled command.                 *)
LEMMA NextHolds ==
  ASSUME IInv, [Next]_vars
  PROVE  Preserved
<1>1. CASE UNCHANGED vars
  BY <1>1, OuterSteps
<1>2. ASSUME NEW p \in Prompts,
             \/ AcceptPrompt(p) \/ RetryTimer(p) \/ ObserveEnd(p) \/ RetryWindowEnds(p)
             \/ \E kind \in {"running", "question", "terminal"} : Observed(p, kind)
      PROVE  Preserved
  BY <1>2, AcceptSteps, OuterSteps, ObserveSteps
<1>3. ASSUME NEW k \in Cancels, AcceptCancel(k) PROVE Preserved
  BY <1>3, AcceptSteps
<1>4. ASSUME NEW r \in Responds, AcceptRespond(r) PROVE Preserved
  BY <1>4, AcceptSteps
<1>5. ASSUME NEW c \in Cmds,
             Receive(c) \/ Drop(c) \/ AnswerDispatch(c) \/ AnswerReconcile(c) \/ Expires(c)
      PROVE  Preserved
  BY <1>5, ReceiveStep, DropStep, AnswerSteps, OuterSteps
<1>6. ASSUME NEW f \in facts, ApplyFact(f) \/ DropFact(f) PROVE Preserved
  BY <1>6, ApplyFactStep, DropFactStep
<1>7. CASE Schedule
  BY <1>7, IdleSteps, SettlingSteps, DispatchStep DEF Schedule
<1>8. CASE WorkerFails \/ Crash \/ SuspendBegin \/ Activate
  BY <1>8, OuterSteps
<1>9. CASE Unavailable \/ OpenFails \/ SuspendFails
  BY <1>9, LossSteps
<1>10. CASE Open
  BY <1>10, OpenStep
<1>11. CASE SuspendSession
  BY <1>11, SuspendStep
<1> QED
  BY <1>1, <1>2, <1>3, <1>4, <1>5, <1>6, <1>7, <1>8, <1>9, <1>10, <1>11 DEF Next

(* IInv holds in every reachable state of a session.                         *)
THEOREM SessionInvariant == Spec => []IInv
<1>1. Init => IInv
  BY InitHolds
<1>2. IInv /\ [Next]_vars => IInv'
  BY NextHolds DEF Preserved
<1> QED
  BY <1>1, <1>2, PTL DEF Spec

-----------------------------------------------------------------------------
(* What the invariant gives *)

(* The provider carries out a prompt at most once, over all retries, lost    *)
(* answers, worker replacements and crashes (applyFact, reduceHandoff).      *)
THEOREM PromptsRunOnce == Spec => []PromptSubmittedOnce
<1>1. IInv => PromptSubmittedOnce
  <2> SUFFICES ASSUME IInv, NEW p \in Prompts
               PROVE  Cardinality(got[p]) <= 1
    BY DEF PromptSubmittedOnce
  <2>1. PICK n : got[p] \subseteq {n}
    BY DEF IInv, CommandInv, ProviderTrue, Cmds
  <2>2. CASE got[p] = {}
    BY <2>2, FS_EmptySet
  <2>3. CASE got[p] = {n}
    <3>1. Cardinality({n}) = 1
      BY FS_Singleton
    <3> QED
      BY <2>3, <3>1
  <2> QED
    BY <2>1, <2>2, <2>3
<1> QED
  BY <1>1, SessionInvariant, PTL

(* Prompts are handed over in the order of acceptance, each once every       *)
(* earlier one is settled (schedule).                                        *)
THEOREM PromptsKeepTheirOrder == Spec => []DispatchedInOrder
<1>1. IInv => DispatchedInOrder
  BY DEF IInv, CommandInv
<1> QED
  BY <1>1, SessionInvariant, PTL

(* A question can be answered only while the run that asked it is open under *)
(* the current generation (applyFact, reduceHandoff).                        *)
THEOREM QuestionsStayCurrent == Spec => []QuestionsAreCurrent
<1>1. IInv => QuestionsAreCurrent
  <2> SUFFICES ASSUME IInv, NEW p \in Prompts, inter[p] = "pending"
               PROVE  Unsettled(p) /\ sess.status = "active" /\ cmd[p].gen = sess.gen
    BY DEF QuestionsAreCurrent
  <2>1. p \in Cmds
    BY DEF Cmds
  <2>2. Unsettled(p) /\ sess.status = "active" /\ cmd[p].attempt \in got[p]
    BY DEF IInv, SessionInv, QuestionsTrue
  <2>3. ~Undispatched(p)
    BY <2>1, <2>2 DEF IInv, CommandInv, ProviderTrue
  <2>4. Dispatched(p)
    BY <2>1, <2>2, <2>3 DEF IInv, CommandInv, RecordTrue, Undispatched, Accepted
  <2> QED
    BY <2>2, <2>4 DEF IInv, SessionInv, GenerationTrue
<1> QED
  BY <1>1, SessionInvariant, PTL

(* While a caller is suspended nothing of its session is queued or under way *)
(* (suspendCaller).                                                          *)
THEOREM SuspensionsAreQuiet == Spec => []SuspendedIsQuiet
<1>1. IInv => SuspendedIsQuiet
  BY DEF IInv, SessionInv
<1> QED
  BY <1>1, SessionInvariant, PTL

(* A settled command never changes again, whatever still arrives about it    *)
(* (applyFact).                                                              *)
THEOREM SettlementsAreFinal == Spec => SettledIsFinal
<1>1. IInv /\ [Next]_vars => [\A c \in Cmds : Settled(c) => cmd'[c] = cmd[c]]_vars
  BY NextHolds DEF Preserved, SettledKept
<1> QED
  BY <1>1, SessionInvariant, PTL DEF Spec, SettledIsFinal

=============================================================================
