--------------------------- MODULE ResultDelivery ---------------------------
(***************************************************************************)
(* One backend task from its offer to its release: the association and the *)
(* frozen requests of the communication store (agent-client/delivery.rs),  *)
(* the journal's receipts and confirmations (execution-sqlite/journal.rs)  *)
(* and the owner between them (agent-service/backend/bridge.rs,            *)
(* service.rs).  Each is durable on its own; the owner may stop between    *)
(* any two commits, and commands reach the journal while it waits for an   *)
(* answer.                                                                 *)
(*                                                                         *)
(* A projection is identified by the number of receipts it was made from.  *)
(* Identity, authorization, chunks and the payloads are left out.          *)
(* The owner's rounds begin with a tick of the recovery scan, and a tick   *)
(* that fails also ends the exchange during which it falls due.            *)
(***************************************************************************)
EXTENDS RecoveryScan

CONSTANTS Batch,        \* receipts taken at a time (64)
          MaxReceipts   \* bound on the receipts of the request

ASSUME DeliveryAssumption == Batch \in Nat \ {0} /\ MaxReceipts \in Nat

VARIABLES
  work,       \* what the journal knows of the request
  count,      \* its receipts, numbered from 1
  confirmed,  \* those that the consumer confirmed
  held,       \* the client holds the task
  bound,      \* it is associated with the request
  row,        \* the frozen result request
  projected,  \* the acknowledged projection, or 0
  dropRow,    \* the frozen cancellation: none, frozen or accepted
  expired,    \* the deadline of the preparation has passed
  terminal,   \* the backend request failed or was cancelled
  at,         \* where the owner is
  got,        \* projections that reached the backend
  dropped,    \* did the cancellation of the offer reach it?
  kind,       \* a script or a collection is observed, the rest has an effect
  told        \* did the process leave what project() makes an outcome of?

journal == <<work, count, confirmed, told>>
transport == <<held, bound, row, projected, dropRow>>
backend == <<got, dropped>>
offer == <<expired, terminal, kind>>
owner == <<offer, at>>
vars == <<journal, transport, owner, backend, scan, faults>>

NoRow == [made |-> 0, events |-> {}, accepted |-> FALSE]

Init ==
  /\ ScanInit /\ kind \in {"script", "collection", "effect"}
  /\ work = "none" /\ count = 0 /\ confirmed = {} /\ told = FALSE
  /\ held = TRUE /\ bound = FALSE /\ row = NoRow /\ projected = 0 /\ dropRow = "none"
  /\ expired = FALSE /\ terminal = FALSE /\ at = "idle" /\ got = {} /\ dropped = FALSE

----------------------------------------------------------------------------
(* The journal *)

\* A receipt of the request is committed.
Record(s) ==
  /\ count < MaxReceipts /\ count' = count + 1
  /\ work' = s /\ UNCHANGED <<confirmed, told>>

\* Admission, reports, output, the end, an assessment, a cancellation.
\* A user may also cancel what is over: the request is kept, nothing else.
Moves == {<<"recorded", "cancelled">>, <<"denied", "cancelled">>, <<"begun", "begun">>,
          <<"begun", "never">>, <<"begun", "ended">>, <<"ended", "ended">>,
          <<"ended", "settled">>, <<"never", "never">>, <<"settled", "settled">>}

\* The runner, a reconcile or a command, also while the owner waits.  What is
\* settled by an assessment has left the result that was assessed; a process
\* that ends may leave none.
Proceed ==
  /\ \/ \E m \in Moves : work = m[1] /\ (m = <<"ended", "settled">> => told) /\ Record(m[2])
     \/ /\ work \in {"begun", "ended"} /\ told' = TRUE
        /\ UNCHANGED <<work, count, confirmed>>
  /\ UNCHANGED <<transport, owner, backend, scan, faults>>

\* Denied without an attempt, or never dispatched: the request was refused.
Refused == work \in {"denied", "never"}

Settled == Refused \/ work \in {"settled", "cancelled"}

\* project(): what can be told to the backend.  Of a process only when it left
\* a result: progress of the software, a complete or failed device access, the
\* output of a collection that succeeded.
Projects ==
  \/ work = "cancelled"
  \/ Refused /\ kind # "collection"
  \/ work \in {"begun", "ended", "settled"} /\ told

\* sql_delivery_evidence: the oldest unconfirmed receipts.
Open == (1 .. count) \ confirmed
Oldest == {e \in Open : Cardinality({o \in Open : o < e}) < Batch}

\* Faulty variant: a repeated confirmation is an error.
NotYet(e) == e \notin confirmed

\* sql_confirm: a confirmation may be repeated.
Confirmable(e) == TRUE

\* Events are confirmed one commit at a time; the loop may be cut short.
Confirm(events, done) ==
  \E some \in SUBSET events :
    /\ \A e \in some : Confirmable(e)
    /\ \A e \in some, o \in events : o < e => o \in some
    /\ confirmed' = confirmed \cup some
    /\ IF done THEN some = events ELSE TRUE

----------------------------------------------------------------------------
(* The owner: resume_task *)

Resumes == ready /\ at = "idle" /\ held

\* has_service_execution
Unsubmitted == work = "none"

\* An offer that is over before it is associated, or past its deadline, is
\* not submitted any more.
Submits ==
  /\ ~expired /\ (bound \/ ~terminal)
  /\ work \in {"none", "recorded"}

\* The materials, the start and the permits are asked for.
Prepare ==
  /\ Resumes /\ Submits
  /\ at' = "submit"
  /\ UNCHANGED <<journal, transport, offer, backend, scan, faults>>

\* reserve_association, request_execution: the request is recorded, and
\* unless that is cut short it is admitted or denied.  The deadline is not
\* looked at again, and the submission may fail before it is associated.
Submit ==
  /\ at = "submit" /\ at' = "idle"
  /\ \/ /\ bound' = TRUE
        /\ IF work \in {"none", "recorded"}
             THEN \/ (Record("begun") \/ Record("denied")) /\ UNCHANGED faults
                  \/ Fault /\ (Record("recorded") \/ UNCHANGED journal)
             ELSE UNCHANGED <<journal, faults>>
     \/ UNCHANGED <<bound, journal, faults>>
  /\ UNCHANGED <<held, row, projected, dropRow, offer, backend, scan>>

\* The deadline passes while the work has not begun, or the backend request
\* fails or is cancelled before the offer is associated; later nobody asks.
Expire ==
  /\ \/ ~expired /\ held /\ work \in {"none", "recorded"} /\ expired' = TRUE /\ UNCHANGED terminal
     \/ ~terminal /\ ~bound /\ held /\ terminal' = TRUE /\ UNCHANGED expired
  /\ UNCHANGED <<journal, transport, at, kind, backend, scan, faults>>

\* The cancellation of an offer that is not in the journal is frozen.
FreezeDrop ==
  /\ Resumes /\ Unsubmitted
  /\ dropRow' = IF dropRow = "accepted" THEN dropRow ELSE "frozen"
  /\ UNCHANGED <<held, bound, row, projected>>

NextDrop == at' = IF dropRow = "accepted" THEN "dropped" ELSE "drop"

\* An offer that expired or ended without entering the journal is abandoned.
\* Once it is associated, only its deadline ends it.
Abandon ==
  /\ expired \/ (terminal /\ ~bound)
  /\ FreezeDrop /\ NextDrop
  /\ terminal' = TRUE
  /\ UNCHANGED <<journal, expired, kind, backend, scan, faults>>

\* The backend withdraws an offer: the cancellation is frozen before the
\* request is recorded as cancelled.
Withdraw ==
  /\ ~bound /\ FreezeDrop
  /\ \/ NextDrop /\ terminal' = TRUE /\ UNCHANGED faults
     \/ Fault /\ UNCHANGED <<at, terminal>>
  /\ UNCHANGED <<journal, expired, kind, backend, scan>>

\* One that did enter it is cancelled there.
CancelExpired ==
  /\ Resumes /\ expired /\ work = "recorded"
  /\ Record("cancelled")
  /\ UNCHANGED <<transport, owner, backend, scan, faults>>

Delivers == Resumes /\ bound /\ work \notin {"none", "recorded"}

\* A frozen request is taken up again, whatever happened since.
TakeUp ==
  /\ Delivers /\ row # NoRow
  /\ at' = IF row.accepted THEN "ack" ELSE "send"
  /\ UNCHANGED <<journal, transport, offer, backend, scan, faults>>

\* acknowledged_result
Acknowledged == projected # 0

\* Receipts that came after the acknowledged projection are confirmed only.
ConfirmLater ==
  /\ Delivers /\ row = NoRow /\ Acknowledged /\ Open # {}
  /\ \/ Confirm(Oldest, TRUE) /\ UNCHANGED faults
     \/ Fault /\ Confirm(Oldest, FALSE)
  /\ UNCHANGED <<work, count, told, transport, owner, backend, scan>>

\* freeze_result: one projection with the receipts it stands for.
Freeze ==
  /\ Delivers /\ row = NoRow /\ ~Acknowledged /\ Open # {} /\ Projects
  /\ row' = [made |-> count, events |-> Oldest, accepted |-> FALSE]
  /\ at' = "send"
  /\ UNCHANGED <<journal, held, bound, projected, dropRow, offer, backend, scan, faults>>

\* The answer of the backend and the projection are committed together.
Accepted ==
  /\ row' = [row EXCEPT !.accepted = TRUE] /\ projected' = row.made
  /\ at' = "ack" /\ UNCHANGED <<held, bound, dropRow>>

\* Faulty variant: a timeout is taken for an answer.
LostButAccepted == Accepted

\* Faulty variant: a request without an answer is made anew.
LostForgotten == at' = "idle" /\ row' = NoRow /\ UNCHANGED <<held, bound, projected, dropRow>>

\* send_result without an answer: the request stays as it is.
Lost == at' = "idle" /\ UNCHANGED transport

Send ==
  /\ at = "send"
  /\ \/ got' = got \cup {row.made} /\ Accepted /\ UNCHANGED faults
     \/ Fault /\ got' \in {got, got \cup {row.made}} /\ Lost
  /\ UNCHANGED <<journal, offer, dropped, scan>>

\* finish_delivery: the events of the request, then the request goes.
FinishDelivery ==
  /\ at = "ack" /\ at' = "idle"
  /\ \/ Confirm(row.events, TRUE) /\ row' = NoRow /\ UNCHANGED faults
     \/ Fault /\ Confirm(row.events, FALSE) /\ UNCHANGED row
  /\ UNCHANGED <<work, count, told, held, bound, projected, dropRow, offer, backend, scan>>

\* finish: settled, or an observation whose process is over for good.
Closed == Settled \/ (kind # "effect" /\ work = "ended")

Forget ==
  /\ held' = FALSE /\ bound' = FALSE /\ row' = NoRow /\ projected' = 0 /\ dropRow' = "none"
  /\ at' = "idle"

Release ==
  /\ Delivers /\ Closed /\ Open = {} /\ Acknowledged /\ row = NoRow
  /\ Forget
  /\ UNCHANGED <<journal, offer, backend, scan, faults>>

SendDrop ==
  /\ at = "drop"
  /\ \/ dropped' = TRUE /\ dropRow' = "accepted" /\ at' = "dropped" /\ UNCHANGED faults
     \/ Fault /\ dropped' \in {dropped, TRUE} /\ at' = "idle" /\ UNCHANGED dropRow
  /\ UNCHANGED <<journal, held, bound, row, projected, offer, got, scan>>

\* finish_abandonment: absence is proven once more.
FinishDrop ==
  /\ at = "dropped"
  /\ IF Unsubmitted THEN Forget ELSE at' = "idle" /\ UNCHANGED transport
  /\ UNCHANGED <<journal, offer, backend, scan, faults>>

\* The owner stops; an exchange under way is lost.
Restart ==
  /\ Fault /\ ScanRestart /\ at' = "idle"
  /\ UNCHANGED <<journal, transport, offer, backend>>

Resume ==
  \/ Prepare \/ Submit \/ Abandon \/ Withdraw \/ CancelExpired
  \/ TakeUp \/ ConfirmLater \/ Freeze \/ Send \/ FinishDelivery \/ Release \/ SendDrop \/ FinishDrop

\* A tick fails while an answer is waited for: the exchange ends with it.
CutShort ==
  /\ got' \in IF at = "send" THEN {got, got \cup {row.made}} ELSE {got}
  /\ dropped' \in IF at = "drop" THEN {dropped, TRUE} ELSE {dropped}
  /\ at' = IF at \in {"submit", "send", "drop"} THEN "idle" ELSE at

\* The scan goes on beside the task, at the begin of a round and in its waits.
Scan ==
  \/ /\ (\E r \in Requests : RecordRequest(r) \/ NewFact(r)) \/ Tick
     /\ UNCHANGED <<journal, transport, owner, backend>>
  \/ TickFails /\ CutShort /\ UNCHANGED <<journal, transport, offer>>

Next == Proceed \/ Expire \/ Restart \/ Resume \/ Scan

Spec == Init /\ [][Next]_vars

\* The owner ticks again after an error as after a success, and resumes the
\* tasks of the client every two seconds.
FairSpec ==
  /\ Spec /\ WF_vars(Resume)
  /\ WF_vars(Tick /\ UNCHANGED <<journal, transport, owner, backend>>)

----------------------------------------------------------------------------
(* Properties *)

\* A receipt is confirmed only when a projection has reached the backend,
\* whatever was lost or cut short in between (send_result, sql_confirm).
ConfirmedIsAnswered == confirmed # {} => got # {}

\* The backend is told one outcome of a task: one projection, also when
\* receipts arrive and the service restarts after it was frozen (pending_result,
\* acknowledged_result), or the cancellation of an offer that has not entered
\* the journal and never does (prepare_abandonment).
OneOutcome ==
  /\ \A p, q \in got : p = q
  /\ dropped => got = {} /\ work = "none"

\* Settled, or over before it began and not just being submitted.
Over ==
  \/ Settled
  \/ /\ at # "submit"
     /\ \/ work \in {"none", "recorded"} /\ expired
        \/ work = "none" /\ terminal /\ ~bound

\* A task that is settled, or that expired or was given up before it began, is
\* released in the end and frees its place at the client (resume_task, finish),
\* as long as every failure passes, those of the scan included.  A refused
\* collection, of which nothing can be told, is not released.
SettledIsReleased == (Over /\ ~(kind = "collection" /\ Refused)) ~> ~held
=============================================================================
