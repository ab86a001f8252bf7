---------------------------- MODULE RecoveryScan ----------------------------
(***************************************************************************)
(* The recovery scan of the service: Core::reconcile                       *)
(* (apps/agent-service/src/service.rs) asks for one request after its      *)
(* cursor (service_tasks, sql_service_requests), reconciles it and moves   *)
(* the cursor.  What a reconcile does is the subject of ExecutionApp; here *)
(* a request is due when a reconcile of it would record something.  Every  *)
(* round of the owner and every exchange with the backend ticks the scan;  *)
(* ResultDelivery composes it with the deliveries of such a round.         *)
(***************************************************************************)
EXTENDS Naturals, FiniteSets

CONSTANTS Requests,   \* request ids, in the order the journal sorts them by
          Broken,     \* requests whose reconcile fails every time
          MaxFaults   \* bound on passing failures and restarts

ASSUME RequestsAssumption == Requests \subseteq Nat \ {0} /\ Broken \subseteq Requests

VARIABLES recorded,   \* requests in the journal
          due,        \* those a reconcile would record something about
          cursor,     \* recovery_cursor: the last request of the scan, or 0
          ready,      \* did the last tick end without an error?
          faults      \* passing failures and restarts so far

scan == <<recorded, due, cursor, ready>>

ScanInit ==
  recorded = {} /\ due = {} /\ cursor = 0 /\ ready = FALSE /\ faults = 0

Fault == faults < MaxFaults /\ faults' = faults + 1

\* A request is accepted while the scan is anywhere.
RecordRequest(r) ==
  /\ r \notin recorded
  /\ recorded' = recorded \cup {r} /\ due' = due \cup {r}
  /\ UNCHANGED <<cursor, ready, faults>>

\* Its work starts, ends, fails or is cancelled, any number of times.
NewFact(r) ==
  /\ r \in recorded \ due
  /\ due' = due \cup {r}
  /\ UNCHANGED <<recorded, cursor, ready, faults>>

\* The page of one: the first request after the cursor, if there is one.
Page == {r \in recorded : r > cursor /\ \A s \in recorded : s > cursor => r <= s}

\* Faulty variant: an empty page leaves the cursor where it is.
CursorStays == IF Page = {} THEN cursor ELSE CHOOSE r \in Page : TRUE

\* page.next: the last request of a full page, none after the last page.
NextCursor == IF Page = {} THEN 0 ELSE CHOOSE r \in Page : TRUE

\* A tick that ends without an error; an empty page only resets the cursor.
Tick ==
  /\ Page \cap Broken = {}
  /\ due' = due \ Page /\ cursor' = NextCursor /\ ready' = TRUE
  /\ UNCHANGED <<recorded, faults>>

\* app.reconcile fails and `?` leaves before the cursor moves, with the round or
\* the exchange that the tick belongs to.
TickFails ==
  /\ Page # {} /\ ready' = FALSE
  /\ IF Page \cap Broken = {} THEN Fault ELSE UNCHANGED faults
  /\ UNCHANGED <<recorded, due, cursor>>

\* The service restarts; the cursor is only in memory.
ScanRestart ==
  /\ cursor' = 0 /\ ready' = FALSE
  /\ UNCHANGED <<recorded, due>>

\* As long as every failure of a reconcile passes, whatever is due about a
\* request is recorded in the end, wherever the scan stands when it becomes due
\* and however often the scan starts over (Core::reconcile).  One request that
\* can never be reconciled holds the scan for all the others: the cursor does
\* not move past it.
DueIsReconciled == \A r \in Requests : r \in due ~> r \notin due
=============================================================================
