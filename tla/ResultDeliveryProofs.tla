------------------------ MODULE ResultDeliveryProofs ------------------------
(***************************************************************************)
(* The safety of ResultDelivery for every number of receipts, every batch  *)
(* and every number of failures.  What ties the properties together is     *)
(* that a projection is frozen only while the backend has heard nothing:   *)
(* as long as the client holds a task without a frozen request and without *)
(* an acknowledged projection, nothing of it was ever sent.                *)
(***************************************************************************)
EXTENDS ResultDelivery, TLAPS

Works == {"none", "recorded", "denied", "begun", "never", "ended", "settled", "cancelled"}

Rows == [made: Nat, events: SUBSET Nat, accepted: BOOLEAN]

Typed ==
  /\ work \in Works /\ count \in Nat
  /\ row \in Rows
  /\ at \in {"idle", "submit", "send", "ack", "drop", "dropped"}

\* What the frozen request says about what the backend has heard.
RowTruthful ==
  /\ row # NoRow => row.made # 0 /\ got \subseteq {row.made}
  /\ row.accepted => projected # 0
  /\ projected # 0 => got # {}
  /\ held /\ row = NoRow /\ projected = 0 => got = {}
  /\ work = "none" => row = NoRow /\ projected = 0 /\ got = {}

\* An offer that never entered the journal and that nothing submits any more.
GivenUp == work = "none" /\ at # "submit" /\ (expired \/ (terminal /\ ~bound))

\* Where the owner can be.
OwnerPlaced ==
  /\ ~held => at = "idle"
  /\ at = "submit" => ~dropped
  /\ at = "send" => row # NoRow
  /\ at = "ack" => row.accepted
  /\ at = "drop" => GivenUp

IInv ==
  /\ Typed /\ RowTruthful /\ OwnerPlaced
  /\ \A p, q \in got : p = q
  /\ dropped => GivenUp
  /\ confirmed # {} => got # {}

(* No frozen request.                                                        *)
LEMMA NoRowTyped == NoRow \in Rows /\ ~NoRow.accepted
  BY DEF NoRow, Rows

(* At the start nothing was sent.                                            *)
LEMMA InitIInv == Init => IInv
  BY NoRowTyped DEF Init, IInv, Typed, RowTruthful, OwnerPlaced, GivenUp, offer, Works

(* Receipts change what is known of the work, and never back to nothing.     *)
LEMMA RecordFacts ==
  ASSUME NEW s \in Works \ {"none"}, Typed, Record(s)
  PROVE  count' \in Nat /\ work' = s /\ UNCHANGED <<confirmed, told>>
  BY DEF Record, Typed

(* A batch that is confirmed consists of receipts that exist.                *)
LEMMA OldestTyped == ASSUME Typed PROVE Oldest \subseteq Nat /\ (Open # {} => count # 0)
  BY DEF Typed, Oldest, Open

(* The journal moves on.                                                     *)
LEMMA ProceedKeeps == ASSUME IInv, Proceed PROVE IInv'
<1>1. UNCHANGED <<transport, owner, backend>>
  BY DEF Proceed
<1>2. CASE UNCHANGED <<work, count, confirmed>>
  BY <1>1, <1>2
  DEF IInv, Typed, RowTruthful, OwnerPlaced, GivenUp, NoRow, transport, owner, offer, backend
<1>3. CASE \E m \in Moves : work = m[1] /\ Record(m[2])
  <2>1. PICK m \in Moves : work = m[1] /\ Record(m[2])
    BY <1>3
  <2>2. m[2] \in Works \ {"none"} /\ work # "none"
    BY <2>1 DEF Moves, Works
  <2>3. count' \in Nat /\ work' \in Works \ {"none"} /\ UNCHANGED confirmed
    BY <2>1, <2>2, RecordFacts DEF IInv
  <2> QED
    BY <1>1, <2>2, <2>3
    DEF IInv, Typed, RowTruthful, OwnerPlaced, GivenUp, NoRow, transport, owner, offer, backend
<1> QED
  BY <1>2, <1>3 DEF Proceed

(* An offer that was given up is not submitted any more.                     *)
LEMMA PrepareKeeps == ASSUME IInv, Prepare PROVE IInv'
<1>1. /\ held /\ at = "idle" /\ at' = "submit" /\ ~expired /\ (bound \/ ~terminal)
      /\ UNCHANGED <<journal, transport, offer, backend>>
  BY DEF Prepare, Submits, Resumes
<1>2. ~dropped
  BY <1>1 DEF IInv, GivenUp
<1> QED
  BY <1>1, <1>2
  DEF IInv, Typed, RowTruthful, OwnerPlaced, GivenUp, NoRow, journal, transport, offer, backend

(* An offer enters the journal while its task is held.                       *)
LEMMA SubmitKeeps == ASSUME IInv, Submit PROVE IInv'
<1>1. /\ at = "submit" /\ at' = "idle" /\ held /\ ~dropped
      /\ UNCHANGED <<held, row, projected, dropRow, offer, backend>>
  BY DEF Submit, IInv, OwnerPlaced
<1>2. \/ count' \in Nat /\ work' \in Works \ {"none"} /\ UNCHANGED confirmed
      \/ UNCHANGED journal
  BY RecordFacts DEF Submit, IInv, Works
<1> QED
  BY <1>1, <1>2
  DEF IInv, Typed, RowTruthful, OwnerPlaced, GivenUp, NoRow, offer, backend, journal

(* An offer expires, or its request is over.                                 *)
LEMMA ExpireKeeps == ASSUME IInv, Expire PROVE IInv'
  BY DEF IInv, Typed, RowTruthful, OwnerPlaced, GivenUp, Expire, NoRow, journal, transport, backend

(* Only an offer that never entered the journal is abandoned.                *)
LEMMA AbandonKeeps == ASSUME IInv, Abandon PROVE IInv'
  BY DEF IInv, Typed, RowTruthful, OwnerPlaced, GivenUp, Abandon, FreezeDrop, NextDrop, Resumes,
         Unsubmitted, NoRow, journal, backend

(* The same holds for an offer that the backend withdraws.                   *)
LEMMA WithdrawKeeps == ASSUME IInv, Withdraw PROVE IInv'
  BY DEF IInv, Typed, RowTruthful, OwnerPlaced, GivenUp, Withdraw, FreezeDrop, NextDrop, Resumes,
         Unsubmitted, NoRow, journal, backend

(* An expired offer of the journal is cancelled there.                       *)
LEMMA CancelExpiredKeeps == ASSUME IInv, CancelExpired PROVE IInv'
<1>1. work = "recorded" /\ Record("cancelled") /\ at = "idle" /\ UNCHANGED <<transport, owner, backend>>
  BY DEF CancelExpired, Resumes
<1>2. count' \in Nat /\ work' = "cancelled" /\ UNCHANGED confirmed
  BY <1>1, RecordFacts DEF IInv, Works
<1> QED
  BY <1>1, <1>2
  DEF IInv, Typed, Works, RowTruthful, OwnerPlaced, GivenUp, offer, NoRow, transport, owner, backend

(* A frozen request is taken up again as it is.                              *)
LEMMA TakeUpKeeps == ASSUME IInv, TakeUp PROVE IInv'
  BY DEF IInv, Typed, RowTruthful, OwnerPlaced, GivenUp, offer, TakeUp, Delivers, Resumes, NoRow,
         journal, transport,
         backend

(* An acknowledged projection confirms receipts.                             *)
LEMMA ConfirmLaterKeeps == ASSUME IInv, ConfirmLater PROVE IInv'
<1>1. got # {} /\ UNCHANGED <<work, count, told, transport, owner, backend>>
  BY DEF ConfirmLater, Acknowledged, IInv, RowTruthful
<1> QED
  BY <1>1
  DEF IInv, Typed, RowTruthful, OwnerPlaced, GivenUp, offer, NoRow, transport, owner, backend

(* The only place where a projection is made: nothing was heard so far.      *)
LEMMA FreezeKeeps == ASSUME IInv, Freeze PROVE IInv'
<1>1. /\ held /\ at = "idle" /\ row = NoRow /\ projected = 0 /\ work # "none" /\ got = {}
      /\ row' = [made |-> count, events |-> Oldest, accepted |-> FALSE] /\ at' = "send"
      /\ UNCHANGED <<journal, held, bound, projected, dropRow, offer, backend>>
  BY DEF Freeze, Delivers, Resumes, Acknowledged, IInv, RowTruthful
<1>2. count \in Nat /\ count # 0 /\ Oldest \in SUBSET Nat
  BY OldestTyped DEF Freeze, IInv, Typed
<1>3. Typed'
  <2>1. row' \in Rows
    BY <1>1, <1>2, Zenon DEF Rows
  <2> QED
    BY <1>1, <1>2, <2>1 DEF IInv, Typed, journal, backend
<1>4. row'.made # 0 /\ ~row'.accepted /\ row' # NoRow
  BY <1>1, <1>2 DEF NoRow
<1> QED
  BY <1>1, <1>3, <1>4 DEF IInv, RowTruthful, OwnerPlaced, GivenUp, offer, journal, backend

(* A send tells the backend the frozen projection and no other.              *)
LEMMA SendKeeps == ASSUME IInv, Send PROVE IInv'
<1>1. at = "send" /\ row # NoRow /\ held /\ work # "none" /\ ~dropped
  BY DEF Send, IInv, OwnerPlaced, RowTruthful, GivenUp
<1>2. UNCHANGED <<journal, offer, dropped>>
  BY DEF Send
<1>3. CASE got' = got \cup {row.made} /\ Accepted
  <2>1. row'.made = row.made /\ row'.accepted /\ row'.events = row.events /\ row' # NoRow
    BY <1>3 DEF Accepted, IInv, Typed, Rows, NoRow
  <2>2. projected' = row.made /\ projected' # 0 /\ at' = "ack" /\ held' = held
    BY <1>1, <1>3 DEF Accepted, IInv, RowTruthful
  <2>3. got' = {row.made}
    BY <1>1, <1>3 DEF IInv, RowTruthful
  <2>4. Typed'
    BY <1>2, <1>3, <2>2 DEF IInv, Typed, Rows, Accepted, journal
  <2> QED
    BY <1>1, <1>2, <2>1, <2>2, <2>3, <2>4
    DEF IInv, RowTruthful, OwnerPlaced, GivenUp, offer, journal
<1>4. CASE got' \in {got, got \cup {row.made}} /\ Lost
  <2>1. UNCHANGED transport /\ at' = "idle"
    BY <1>4 DEF Lost
  <2>2. got' \subseteq {row.made} /\ got \subseteq got'
    BY <1>1, <1>4 DEF IInv, RowTruthful
  <2> QED
    BY <1>1, <1>2, <2>1, <2>2
    DEF IInv, Typed, RowTruthful, OwnerPlaced, GivenUp, offer, NoRow, journal, transport
<1> QED
  BY <1>3, <1>4 DEF Send

(* The frozen request ends after its acknowledgement.                        *)
LEMMA FinishDeliveryKeeps == ASSUME IInv, FinishDelivery PROVE IInv'
<1>1. row.accepted /\ projected # 0 /\ got # {} /\ at' = "idle" /\ row' \in {row, NoRow}
  BY DEF FinishDelivery, IInv, OwnerPlaced, RowTruthful
<1>2. UNCHANGED <<work, count, told, held, bound, projected, dropRow, offer, backend>>
  BY DEF FinishDelivery
<1>3. work # "none"
  BY <1>1 DEF IInv, RowTruthful
<1>4. Typed'
  BY <1>1, <1>2, NoRowTyped DEF IInv, Typed, backend
<1> QED
  BY <1>1, <1>2, <1>3, <1>4 DEF IInv, RowTruthful, OwnerPlaced, GivenUp, offer, NoRow, backend

(* A released task leaves nothing behind.                                    *)
LEMMA ForgetKeeps ==
  ASSUME IInv, Forget, UNCHANGED <<journal, offer, backend>>
  PROVE  IInv'
  BY NoRowTyped DEF IInv, Typed, RowTruthful, OwnerPlaced, GivenUp, offer, Forget, journal, backend

(* The end of an abandoned offer is told.                                    *)
LEMMA SendDropKeeps == ASSUME IInv, SendDrop PROVE IInv'
<1>1. at = "drop" /\ GivenUp /\ held /\ at' \in {"dropped", "idle"}
  BY DEF SendDrop, IInv, OwnerPlaced, Typed
<1>2. UNCHANGED <<journal, held, bound, row, projected, offer, got>>
  BY DEF SendDrop
<1>3. GivenUp'
  BY <1>1, <1>2 DEF GivenUp, journal, offer
<1> QED
  BY <1>1, <1>2, <1>3 DEF IInv, Typed, RowTruthful, OwnerPlaced, GivenUp, offer, NoRow, journal

(* An abandoned offer is forgotten once that was answered.                   *)
LEMMA FinishDropKeeps == ASSUME IInv, FinishDrop PROVE IInv'
<1>1. CASE Forget
  BY <1>1, ForgetKeeps DEF FinishDrop
<1>2. CASE at' = "idle" /\ UNCHANGED transport
  BY <1>2
  DEF FinishDrop, IInv, Typed, RowTruthful, OwnerPlaced, GivenUp, offer, NoRow, journal,
      transport, backend
<1> QED
  BY <1>1, <1>2 DEF FinishDrop

(* A restart ends the exchange.                                              *)
LEMMA RestartKeeps == ASSUME IInv, Restart PROVE IInv'
  BY DEF IInv, Typed, RowTruthful, OwnerPlaced, GivenUp, offer, Restart, NoRow, journal,
         transport, backend

(* A tick of the scan that fails may end an exchange, not undo it.           *)
LEMMA ScanKeeps == ASSUME IInv, Scan PROVE IInv'
<1>1. CASE UNCHANGED <<journal, transport, owner, backend>>
  BY <1>1
  DEF IInv, Typed, RowTruthful, OwnerPlaced, GivenUp, offer, NoRow, journal, transport, owner,
      backend
<1>2. CASE CutShort /\ UNCHANGED <<journal, transport, offer>>
  <2>1. at' = at \/ at' = "idle"
    BY <1>2 DEF CutShort
  <2>2. got' = got \/ (at = "send" /\ got' = got \cup {row.made})
    BY <1>2 DEF CutShort
  <2>3. dropped' = dropped \/ (at = "drop" /\ dropped' = TRUE)
    BY <1>2 DEF CutShort
  <2>4. CASE got' = got
    <3>1. dropped' => GivenUp
      BY <2>3 DEF IInv, OwnerPlaced
    <3> QED
      BY <1>2, <2>1, <2>4, <3>1
      DEF IInv, Typed, RowTruthful, OwnerPlaced, GivenUp, NoRow, journal, transport, offer
  <2>5. CASE at = "send" /\ got' = got \cup {row.made}
    <3>1. row # NoRow /\ got' = {row.made} /\ dropped' = dropped /\ held
      BY <2>3, <2>5 DEF IInv, RowTruthful, OwnerPlaced, GivenUp, offer
    <3>2. work # "none" /\ ~dropped
      BY <3>1 DEF IInv, RowTruthful, GivenUp
    <3> QED
      BY <1>2, <2>1, <3>1, <3>2
      DEF IInv, Typed, RowTruthful, OwnerPlaced, GivenUp, offer, NoRow, journal, transport
  <2> QED
    BY <2>2, <2>4, <2>5
<1> QED
  BY <1>1, <1>2 DEF Scan

(* Every step keeps the invariant.                                           *)
LEMMA NextIInv == ASSUME IInv, [Next]_vars PROVE IInv'
<1>1. CASE UNCHANGED vars
  BY <1>1 DEF IInv, Typed, RowTruthful, OwnerPlaced, GivenUp, offer, NoRow, vars,
              journal, transport, owner, backend
<1>2. CASE Release
  BY <1>2, ForgetKeeps DEF Release
<1> QED
  BY <1>1, <1>2, ProceedKeeps, PrepareKeeps, SubmitKeeps, ExpireKeeps, AbandonKeeps, WithdrawKeeps,
     CancelExpiredKeeps, TakeUpKeeps, ConfirmLaterKeeps, FreezeKeeps, SendKeeps,
     FinishDeliveryKeeps, SendDropKeeps, FinishDropKeeps, RestartKeeps, ScanKeeps
  DEF Next, Resume

(* The invariant holds in every reachable state.                             *)
LEMMA IInvAlways == Spec => []IInv
  BY InitIInv, NextIInv, PTL DEF Spec

(* A receipt is confirmed only once a projection has reached the backend     *)
(* (sql_confirm, send_result).                                               *)
THEOREM ConfirmedAreAnswered == Spec => []ConfirmedIsAnswered
<1>1. IInv => ConfirmedIsAnswered
  BY DEF IInv, ConfirmedIsAnswered
<1> QED
  BY <1>1, IInvAlways, PTL

(* The backend is told one projection, or the end of an offer that never     *)
(* entered the journal, whatever is lost, repeated or cut short.             *)
THEOREM OneOutcomeIsTold == Spec => []OneOutcome
<1>1. IInv => OneOutcome
  BY DEF IInv, RowTruthful, GivenUp, OneOutcome
<1> QED
  BY <1>1, IInvAlways, PTL
=============================================================================
