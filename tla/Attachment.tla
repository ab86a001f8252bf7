----------------------------- MODULE Attachment -----------------------------
(***************************************************************************)
(* How one client follows one session: the client's view, restore, detach  *)
(* and resume (packages/ai-client), the access service's pump and its      *)
(* requests (packages/ai-access/src/service.ts) and the Host's bounded     *)
(* subscription (packages/ai-host/src/index.ts, queue.ts).                 *)
(*                                                                         *)
(* Calls of the client overlap: a restore can begin while another waits    *)
(* for any of its answers.  Both directions of the connection keep their   *)
(* order; within the service an attach needs a read of the store, so that  *)
(* a later request can overtake it.  An event is its sequence number, and  *)
(* what the projection makes of it is left out; text deltas are left out.  *)
(* A history has one page or two.                                          *)
(***************************************************************************)
EXTENDS Naturals, Sequences

CONSTANTS Calls,      \* calls of restore(), each with its attachment id
          Resumes,    \* those that are made by resume()
          MaxEvents,  \* bound on the events of the session
          MaxItems,   \* bound of a subscription's buffer and of its backlog
          MaxFaults   \* bound on failures, detach calls and rebinds

None == "none"
Resync == 0
ASSUME CallsAssumption == None \notin Calls /\ Resumes \subseteq Calls

VARIABLES
  log,        \* the session's events: for each the generation, and whether it is a loss
  gen,        \* the session's generation
  pump,       \* the service's pump: attachment, position, buffer, subscribed, over?
  attaching,  \* attach requests that wait for the store
  resuming,   \* the service's resume: its call, the attachment it stopped, was that
              \* told, and the last event when the Host had resumed
  up, down,   \* the connection, in order
  stage,      \* where each call is
  att,        \* the client's current attachment
  view,       \* the client's view
  faults

host == <<log, gen>>
vars == <<host, pump, attaching, resuming, up, down, stage, att, view, faults>>

NewPump(a, after) ==
  [id |-> a, after |-> after, on |-> FALSE, buf |-> << >>, over |-> FALSE]
NoPump == NewPump(None, 0)
NewResume(c, prev) == [call |-> c, prev |-> prev, told |-> FALSE, last |-> 0]
NoResume == NewResume(None, None)
NoView == [cursor |-> 0, gen |-> 0, status |-> None]

Init ==
  /\ log = <<[gen |-> 1, lost |-> FALSE]>> /\ gen = 1
  /\ pump = NoPump /\ attaching = << >> /\ resuming = NoResume
  /\ up = << >> /\ down = << >>
  /\ stage = [c \in Calls |-> "idle"] /\ att = None /\ view = NoView
  /\ faults = 0

Fault == faults < MaxFaults /\ faults' = faults + 1

----------------------------------------------------------------------------
(* The Host: commits and their publication are one job of the mailbox *)

\* publish(): a full buffer is replaced by the demand to start over.
Push(buf, item) == IF Len(buf) < MaxItems THEN Append(buf, item) ELSE <<Resync>>
Published(buf) == IF pump.on THEN [pump EXCEPT !.buf = buf] ELSE pump

\* An event is committed; lost: the provider cannot be reached any more.
Commit(lost) ==
  /\ Len(log) < MaxEvents
  /\ log' = Append(log, [gen |-> gen, lost |-> lost])
  /\ pump' = Published(Push(pump.buf, Len(log) + 1))
  /\ UNCHANGED <<gen, attaching, resuming, up, down, stage, att, view, faults>>

\* open(): a new generation asks every subscriber to start over.
Rebind ==
  /\ Len(log) < MaxEvents /\ Fault
  /\ gen' = gen + 1 /\ log' = Append(log, [gen |-> gen + 1, lost |-> FALSE])
  /\ pump' = Published(Push(Push(pump.buf, Resync), Len(log) + 1))
  /\ UNCHANGED <<attaching, resuming, up, down, stage, att, view>>

\* subscribe(): the listener is registered with the events it has missed.
Backlog(after) ==
  IF Len(log) - after > MaxItems
  THEN <<Resync>>
  ELSE [i \in 1..(Len(log) - after) |-> after + i]

Subscribe ==
  /\ pump.id # None /\ ~pump.on /\ ~pump.over
  /\ \/ pump' = [pump EXCEPT !.on = TRUE, !.buf = Backlog(pump.after)] /\ UNCHANGED faults
     \/ pump' = [pump EXCEPT !.on = TRUE, !.buf = <<Resync>>] /\ Fault
  /\ UNCHANGED <<host, attaching, resuming, up, down, stage, att, view>>

----------------------------------------------------------------------------
(* The access service *)

Update(a, item) == [to |-> a, call |-> None, item |-> item, ok |-> TRUE]
Answer(c, ok, item) == [to |-> None, call |-> c, item |-> item, ok |-> ok]

\* startPump(): in order, once each; a gap or the end demands a new start, and
\* the pump stays the session's until that has been written.
Pump ==
  LET item == Head(pump.buf) IN
  /\ pump.buf # << >>
  /\ IF item = Resync \/ item > pump.after + 1
     THEN /\ pump' = [pump EXCEPT !.on = FALSE, !.buf = << >>, !.over = TRUE]
          /\ down' = Append(down, Update(pump.id, Resync))
     ELSE /\ pump' = [pump EXCEPT !.buf = Tail(@), !.after = IF item > @ THEN item ELSE @]
          /\ down' = IF item > pump.after THEN Append(down, Update(pump.id, item)) ELSE down
  /\ UNCHANGED <<host, attaching, resuming, up, stage, att, view, faults>>

\* finally: unless it was stopped or replaced meanwhile.
PumpLeaves ==
  /\ pump.over /\ pump' = NoPump
  /\ UNCHANGED <<host, attaching, resuming, up, down, stage, att, view, faults>>

\* stopPump(): also withdraws a resume.
StopPump == pump' = NoPump /\ resuming' = NoResume

Request(op) == up # << >> /\ Head(up).op = op /\ up' = Tail(up)

\* Only the pump of its own attachment, or the resume that stopped that one.
HandleDetach ==
  /\ Request("detach")
  /\ IF Head(up).att \in {pump.id, resuming.prev}
     THEN StopPump ELSE UNCHANGED <<pump, resuming>>
  /\ down' = Append(down, Answer(Head(up).call, TRUE, 0))
  /\ UNCHANGED <<host, attaching, stage, att, view, faults>>

\* The first page takes a snapshot; a later one continues it.
Snapshot(r) == IF r.after = 0 THEN Len(log) ELSE r.after

HandleSnapshot ==
  /\ Request("snapshot")
  /\ \/ down' = Append(down, Answer(Head(up).call, TRUE, Snapshot(Head(up)))) /\ UNCHANGED faults
     \/ down' = Append(down, Answer(Head(up).call, FALSE, 0)) /\ Fault
  /\ UNCHANGED <<host, pump, attaching, resuming, stage, att, view>>

HandleAttach ==
  /\ Request("attach")
  /\ attaching' = Append(attaching, Head(up))
  /\ UNCHANGED <<host, pump, resuming, down, stage, att, view, faults>>

\* The session was read: the pump of this attachment replaces any other.
StartPump ==
  /\ attaching # << >> /\ attaching' = Tail(attaching)
  /\ LET r == Head(attaching) IN
     \/ /\ pump' = NewPump(r.att, r.after)
        /\ resuming' = NoResume
        /\ down' = Append(down, Answer(r.call, TRUE, 0)) /\ UNCHANGED faults
     \/ /\ down' = Append(down, Answer(r.call, FALSE, 0)) /\ Fault
        /\ UNCHANGED <<pump, resuming>>
  /\ UNCHANGED <<host, up, stage, att, view>>

HandleResume ==
  /\ Request("resume")
  /\ pump' = NoPump
  /\ resuming' = NewResume(Head(up).call, pump.id)
  /\ UNCHANGED <<host, attaching, down, stage, att, view, faults>>

\* host.resume() is done: the attachment that was stopped is told to start over.
ResumeTold ==
  /\ resuming.prev # None /\ ~resuming.told
  /\ resuming' = [resuming EXCEPT !.told = TRUE, !.last = Len(log)]
  /\ down' = Append(down, Update(resuming.prev, Resync))
  /\ UNCHANGED <<host, pump, attaching, up, stage, att, view, faults>>

\* Once that has been written, it gets a pump again, unless it detached.
Resumed ==
  /\ resuming.call # None /\ (resuming.prev # None => resuming.told)
  /\ pump' = IF resuming.prev # None THEN NewPump(resuming.prev, resuming.last) ELSE pump
  /\ down' = Append(down, Answer(resuming.call, TRUE, 0))
  /\ resuming' = NoResume
  /\ UNCHANGED <<host, attaching, up, stage, att, view, faults>>

\* host.resume() or the notice failed, or the resume was withdrawn meanwhile.
ResumeFails(c) ==
  /\ stage[c] = "resuming" /\ \A i \in 1..Len(up) : up[i].call # c
  /\ \A i \in 1..Len(down) : down[i].call # c
  /\ IF resuming.call = c THEN Fault ELSE UNCHANGED faults
  /\ resuming' = IF resuming.call = c THEN NoResume ELSE resuming
  /\ down' = Append(down, Answer(c, FALSE, 0))
  /\ UNCHANGED <<host, pump, attaching, up, stage, att, view>>

----------------------------------------------------------------------------
(* The client *)

At(c, s) == stage' = [stage EXCEPT ![c] = s]
Send(c, op, after) ==
  up' = Append(up, [op |-> op, call |-> c, att |-> c, after |-> after])
Status(s) == view' = IF view = NoView THEN view ELSE [view EXCEPT !.status = s]

\* detach(): the attachment is forgotten at once, the service told of it.
Detach(c, waiting, next) ==
  /\ att' = None /\ Status("detached")
  /\ IF att = None
     THEN At(c, next) /\ UNCHANGED up
     ELSE /\ At(c, waiting)
          /\ up' = Append(up, [op |-> "detach", call |-> c, att |-> att, after |-> 0])

\* restore() or resume() begins with a detach.
Begin(c) ==
  /\ stage[c] = "idle"
  /\ IF c \in Resumes THEN Detach(c, "leaving", "asking") ELSE Detach(c, "clearing", "ready")
  /\ UNCHANGED <<host, pump, attaching, resuming, down, faults>>

Ask(c) ==
  /\ stage[c] = "asking" /\ At(c, "resuming") /\ Send(c, "resume", 0)
  /\ UNCHANGED <<host, pump, attaching, resuming, down, att, view, faults>>

Page(c) ==
  /\ stage[c] = "ready" /\ At(c, "paging") /\ att' = c /\ Send(c, "snapshot", 0)
  /\ UNCHANGED <<host, pump, attaching, resuming, down, view, faults>>

\* A closed view: detach() by itself.
Leave ==
  /\ att # None /\ Fault
  /\ att' = None /\ Status("detached")
  /\ up' = Append(up, [op |-> "detach", call |-> None, att |-> att, after |-> 0])
  /\ UNCHANGED <<host, pump, attaching, resuming, down, stage>>

\* The continuations of an answer run before the next message is taken.
NextMessage == down # << >> /\ \A c \in Calls : stage[c] \notin {"asking", "ready"}

\* The next message is the answer to this call.
Answered(c, s) ==
  /\ NextMessage /\ Head(down).call = c /\ stage[c] = s
  /\ down' = Tail(down)
  /\ UNCHANGED <<host, pump, attaching, resuming, faults>>

OK == Head(down).ok

\* The catch of restore(): only its own attachment is given up.
GiveUp(c) ==
  /\ At(c, "failed") /\ UNCHANGED up
  /\ att' = IF att = c THEN None ELSE att
  /\ IF att = c THEN Status("resync") ELSE UNCHANGED view

Detached(c) ==
  \/ /\ Answered(c, "leaving") /\ At(c, "asking") /\ UNCHANGED <<up, att, view>>
  \/ /\ Answered(c, "clearing") /\ At(c, "ready") /\ UNCHANGED <<up, att, view>>

\* resume() goes on to restore(), which begins with a detach of its own.
ResumeAnswered(c) ==
  /\ Answered(c, "resuming")
  /\ IF OK THEN Detach(c, "clearing", "ready")
           ELSE At(c, "failed") /\ UNCHANGED <<up, att, view>>

\* Faulty variant: a restore that was superseded goes on.
NeverSuperseded(c) == FALSE

\* Another call, or a detach, took the session's attachment.
Superseded(c) == att # c

\* There is a further page.
TurnPage(c) ==
  /\ Answered(c, "paging") /\ OK /\ ~Superseded(c)
  /\ At(c, "turning") /\ Send(c, "snapshot", Head(down).item)
  /\ UNCHANGED <<att, view>>

\* The whole history has arrived: the view is replaced, then attached.
Paged(c, s) ==
  /\ Answered(c, s)
  /\ IF OK /\ ~Superseded(c)
     THEN LET n == Head(down).item IN
          /\ view' = [cursor |-> n, gen |-> log[n].gen, status |-> "attached"]
          /\ At(c, "attaching") /\ Send(c, "attach", n) /\ UNCHANGED att
     ELSE GiveUp(c)

Attached(c) ==
  /\ Answered(c, "attaching")
  /\ IF OK THEN At(c, "done") /\ UNCHANGED <<up, att, view>> ELSE GiveUp(c)

\* Faulty variant: an event of another generation is passed over.
ApplyKnown(v, n) ==
  CASE n = Resync -> [v EXCEPT !.status = "resync"]
    [] n # Resync /\ (v.status = "resync" \/ log[n].gen # v.gen \/ n <= v.cursor) -> v
    [] OTHER -> IF n # v.cursor + 1 THEN [v EXCEPT !.status = "resync"]
                ELSE [v EXCEPT !.cursor = n, !.status = IF log[n].lost THEN "resync" ELSE @]

\* applyUpdate(): the next event of the view's generation, or a new start.
Apply(v, n) ==
  CASE n = Resync -> [v EXCEPT !.status = "resync"]
    [] n # Resync /\ v.status = "resync" -> v
    [] n # Resync /\ v.status # "resync" /\ log[n].gen # v.gen -> [v EXCEPT !.status = "resync"]
    [] n # Resync /\ v.status # "resync" /\ log[n].gen = v.gen ->
         IF n <= v.cursor THEN v
         ELSE IF n # v.cursor + 1 THEN [v EXCEPT !.status = "resync"]
         ELSE [v EXCEPT !.cursor = n, !.status = IF log[n].lost THEN "resync" ELSE @]

\* A call goes on with its answer.
Continue(c) ==
  \/ Detached(c) \/ ResumeAnswered(c) \/ TurnPage(c) \/ Attached(c)
  \/ \E s \in {"paging", "turning"} : Paged(c, s)

\* update(): only for the current attachment.
Receive ==
  /\ NextMessage /\ Head(down).call = None
  /\ down' = Tail(down)
  /\ view' = IF Head(down).to # None /\ Head(down).to = att /\ view # NoView
             THEN Apply(view, Head(down).item) ELSE view
  /\ UNCHANGED <<host, pump, attaching, resuming, up, stage, att, faults>>

Service ==
  \/ Subscribe \/ Pump \/ PumpLeaves \/ StartPump
  \/ HandleDetach \/ HandleSnapshot \/ HandleAttach \/ HandleResume \/ ResumeTold \/ Resumed
  \/ \E c \in Calls : ResumeFails(c)
Client ==
  \/ Receive
  \/ \E c \in Calls :
       \/ Ask(c) \/ Page(c) \/ Continue(c)

Next ==
  \/ \E lost \in BOOLEAN : Commit(lost)
  \/ Rebind \/ Leave \/ Service \/ Client
  \/ \E c \in Calls : Begin(c)

Spec == Init /\ [][Next]_vars

\* Messages are handled in the end, and each call and the pump go on.
FairSpec ==
  /\ Spec
  /\ WF_vars(Subscribe) /\ WF_vars(Pump) /\ WF_vars(PumpLeaves)
  /\ WF_vars(StartPump) /\ WF_vars(Receive)
  /\ WF_vars(HandleDetach \/ HandleSnapshot \/ HandleAttach \/ HandleResume)
  /\ \A c \in Calls :
       /\ WF_vars(((ResumeTold \/ Resumed) /\ resuming.call = c) \/ ResumeFails(c))
       /\ WF_vars(Ask(c) \/ Page(c) \/ Continue(c))

----------------------------------------------------------------------------
(* Properties *)

\* A view that shows itself attached, and whose attach was answered, is fed by
\* a pump of its own attachment or is about to be told to start over: no
\* overlap of restore(), resume() and detach() with the service's handlers
\* leaves a view that looks live and never changes (startPump, stopPump).
AttachedIsFed ==
  view.status = "attached" /\ att # None /\ stage[att] = "done" =>
    \/ att = pump.id /\ ~pump.over
    \/ att = resuming.prev
    \/ \E i \in 1..Len(down) : down[i].to = att /\ down[i].item = Resync

\* What the user has seen is never taken back: overlapping restores do not
\* replace a view by an older one (restore, applyUpdate).
ViewNeverGoesBack == [][view'.cursor >= view.cursor]_vars

\* An attached view shows every event in the end, or says that it has to
\* start over: with full buffers, gaps, lost providers and new generations
\* (subscribe, Output.push, startPump, applyUpdate).
CatchesUp ==
  \A n \in 1..MaxEvents :
    (Len(log) >= n /\ view.status = "attached")
      ~> (view.cursor >= n \/ view.status # "attached")
=============================================================================
