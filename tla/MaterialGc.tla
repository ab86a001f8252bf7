----------------------------- MODULE MaterialGc -----------------------------
(***************************************************************************)
(* Reclamation of execution materials (apps/agent-service/material_gc.rs,  *)
(* execution-runner/staging/root/reclamation.rs) under the journal's proof *)
(* (execution-sqlite/material.rs).                                         *)
(*                                                                         *)
(* A pass of many short steps collects what may be deleted and what must   *)
(* be kept, while requests are accepted, run, settle and are confirmed     *)
(* between its steps.  Files are content-addressed: requests share them.   *)
(* The generations and versions that the code compares only ever grow, so  *)
(* a pass keeps the set of those that moved since its key was taken.       *)
(* The inventory and the verification are one step each; file aliases,     *)
(* directories, pinned images and hashes are left out.                     *)
(***************************************************************************)
EXTENDS Naturals, Sequences, FiniteSets, FiniteSetsExt

CONSTANTS Requests,     \* request ids, in the order of the journal's pages
          Old,          \* those that were settled and confirmed before
          Running,      \* those that an attempt runs for at the beginning
          Observed,     \* scripts and collections: over as soon as their process is
          Files,        \* contents under the material root, in the order of their names
          Refs,         \* the files that a request's frozen input refers to
          Interp,       \* the file with the digest of its interpreter, or 0
          MaxReceipts,  \* bound on the journal's receipts
          MaxFaults     \* bound on restarts, interrupted dispatches, other writers

None == "none"
ASSUME RequestsAssumption ==
  /\ Requests \subseteq Nat \ {0} /\ IsFiniteSet(Requests)
  /\ Old \subseteq Requests /\ Running \subseteq Requests \ Old
  /\ Observed \subseteq Requests
ASSUME FilesAssumption ==
  /\ Files \subseteq Nat \ {0} /\ IsFiniteSet(Files)
  /\ Refs \in [Requests -> SUBSET Files]
  /\ Interp \in [Requests -> Files \cup {0}]

VARIABLES
  exec,        \* the execution of each request
  pending,     \* requests with a result that is not confirmed
  assoc,       \* requests bound to a task that is still communicated
  registered,  \* recipes in the registry
  leased,      \* those that an attempt holds
  files,       \* what is on the disk
  pass,        \* the reclamation in progress
  completed,   \* the associations of the last pass, if it was complete
  since,       \* what moved since the pass took its key
  news,        \* receipts since its checkpoint
  moved,       \* did any part of the key move since a pass began?
  receipts, faults

journal == <<exec, pending, receipts>>
registry == <<registered, leased>>
gc == <<pass, completed, since, news>>
vars == <<journal, assoc, registry, files, gc, moved, faults>>

Nothing == [phase |-> None]
NoPass == pass = Nothing

Fault == faults < MaxFaults /\ faults' = faults + 1

Init ==
  /\ exec = [r \in Requests |-> IF r \in Old THEN "settled"
                                 ELSE IF r \in Running THEN "live" ELSE None]
  /\ pending = {} /\ receipts = 0 /\ assoc \in SUBSET Running
  /\ registered = Running /\ leased = Running
  /\ files = UNION {Refs[r] : r \in Old \cup Running}
  /\ pass = Nothing /\ completed = {} /\ since = {} /\ news = << >> /\ moved = TRUE
  /\ faults = 0

----------------------------------------------------------------------------
(* What the service does between two steps of the reclamation *)

\* A pass sees what moved; without a pass nobody looks.
Touch(kinds) ==
  /\ moved' = TRUE
  /\ since' = IF NoPass THEN since ELSE since \cup kinds

\* A receipt is committed: its result is to be delivered.
Record(r, s) ==
  /\ receipts < MaxReceipts /\ receipts' = receipts + 1
  /\ exec' = [exec EXCEPT ![r] = s]
  /\ pending' = pending \cup {r}
  /\ news' = IF NoPass THEN news ELSE Append(news, r)
  /\ UNCHANGED <<pass, completed>>

\* start(): all but the receipts of a running attempt may weaken a proof.
Weakens(r) == exec[r] # "live"

Safety(r) == IF Weakens(r) THEN {"safety"} ELSE {}

\* The materials are published and registered, the request is recorded; the
\* request of a backend task is bound to it.
Accept(r) ==
  /\ exec[r] = None /\ Record(r, "open")
  /\ files' = files \cup Refs[r] /\ registered' = registered \cup {r}
  /\ assoc' \in {assoc, assoc \cup {r}}
  /\ Touch({"materials"} \cup Safety(r))
  /\ UNCHANGED <<leased, faults>>

\* A local preparation is recorded, but its recipe is not kept.
Stage(r) ==
  /\ exec[r] = None /\ r \notin assoc /\ Record(r, "open")
  /\ files' = files \cup Refs[r]
  /\ Touch({"materials"} \cup Safety(r))
  /\ UNCHANGED <<assoc, registry, faults>>

\* The association is stored, the request could not be.
DispatchCut(r) ==
  /\ r \notin assoc /\ exec[r] = None /\ Fault
  /\ files' = files \cup Refs[r] /\ assoc' = assoc \cup {r}
  /\ Touch({"materials"})
  /\ UNCHANGED <<journal, registry, pass, completed, news>>

Abandon(r) ==
  /\ r \in assoc /\ exec[r] = None
  /\ assoc' = assoc \ {r}
  /\ UNCHANGED <<journal, registry, files, gc, moved, faults>>

\* A submission, or the recovery of unresolved work, registers its recipe again.
Register(r) ==
  /\ r \notin registered /\ exec[r] \in {"open", "live", "ended"}
  /\ registered' = registered \cup {r}
  /\ Touch({"materials"})
  /\ UNCHANGED <<journal, assoc, leased, files, pass, completed, news, faults>>

\* An attempt starts, also a retry of work that had no effect.
Begin(r) ==
  /\ r \in registered /\ Refs[r] \subseteq files
  /\ exec[r] \in {"open", "settled"} /\ Record(r, "live")
  /\ leased' = leased \cup {r}
  /\ Touch(Safety(r))
  /\ UNCHANGED <<assoc, registered, files, faults>>

\* A report, the end, the assessment or refusal, a command that comes late.
Moves == {<<"live", "live">>, <<"live", "ended">>, <<"ended", "settled">>,
          <<"open", "settled">>, <<"settled", "settled">>}

Proceed(r) ==
  /\ \E m \in Moves : exec[r] = m[1] /\ Record(r, m[2])
  /\ Touch(Safety(r))
  /\ UNCHANGED <<assoc, registry, files, faults>>

\* Another connection writes: this one only sees the version of the data.
Outside(r) ==
  /\ Fault /\ exec[r] # None /\ Record(r, exec[r])
  /\ Touch({"external"})
  /\ UNCHANGED <<assoc, registry, files>>

Release(r) ==
  /\ r \in leased /\ exec[r] # "live"
  /\ leased' = leased \ {r}
  /\ UNCHANGED <<journal, assoc, registered, files, gc, moved, faults>>

\* The last open result of the request is confirmed.
Confirm(r) ==
  /\ r \in pending /\ pending' = pending \ {r}
  /\ Touch({})
  /\ UNCHANGED <<exec, receipts, assoc, registry, files, pass, completed, news, faults>>

\* The recipe of r leaves the registry; a later one of r is another object.
Retired(p, r) == IF p = Nothing THEN p ELSE [p EXCEPT !.seen = @ \ {r}]

\* The task is over and its recipe goes, unless an attempt still holds it.
Finish(r) ==
  /\ r \in assoc /\ r \notin pending
  /\ exec[r] = "settled" \/ (r \in Observed /\ exec[r] = "ended")
  /\ assoc' = assoc \ {r}
  /\ IF r \in registered \ leased
     THEN registered' = registered \ {r} /\ pass' = Retired(pass, r) /\ Touch({"materials"})
     ELSE UNCHANGED <<registered, pass, since, moved>>
  /\ UNCHANGED <<journal, leased, files, completed, news, faults>>

Idle == pass' = Nothing /\ since' = {} /\ news' = << >>

Restart ==
  /\ Fault /\ Idle /\ completed' = {} /\ moved' = TRUE
  /\ registered' = {} /\ leased' = {}
  /\ UNCHANGED <<journal, assoc, files>>

----------------------------------------------------------------------------
(* The reclamation: one step each time the owner is free *)

\* material_fact_row: settled, and every result confirmed.
Reclaimable(r) == exec[r] = "settled" /\ r \notin pending

\* The step of a pass: what it has found out and what it has left to do.
NewPass ==
  [phase |-> "proof", resume |-> "files", entries |-> files, left |-> files,
   cursor |-> 0, scanned |-> FALSE, initial |-> assoc, assoc |-> assoc, todo |-> assoc,
   cand |-> {}, retained |-> {}, interp |-> {}, retire |-> {}, retry |-> FALSE,
   walking |-> FALSE, walk |-> {}, seen |-> {}, protected |-> {}, proven |-> {}]

\* A pass begins with the inventory, if the key is not that of a complete one.
BeginPass ==
  /\ NoPass /\ ~(assoc \in completed /\ ~moved)
  /\ pass' = NewPass /\ since' = {} /\ news' = << >> /\ moved' = FALSE
  /\ UNCHANGED <<journal, assoc, registry, files, completed, faults>>

\* Faulty variant: a deletion under way is not suspended.
RecheckedLater(p) ==
  IF since = {} /\ p.assoc = assoc THEN p
  ELSE [p EXCEPT !.phase = IF @ = "files" THEN @ ELSE "proof",
                 !.todo = (@ \cup (assoc \ p.assoc)) \cap assoc,
                 !.walk = IF p.walking THEN @ \cup (registered \ p.seen) ELSE @,
                 !.seen = IF p.walking THEN @ \cup registered ELSE @,
                 !.assoc = assoc]

\* What moved suspends the deletion until it is part of the proof.
Rechecked(p) ==
  IF since = {} /\ p.assoc = assoc THEN p
  ELSE [p EXCEPT !.phase = "proof",
                 !.todo = (@ \cup (assoc \ p.assoc)) \cap assoc,
                 !.walk = IF p.walking THEN @ \cup (registered \ p.seen) ELSE @,
                 !.seen = IF p.walking THEN @ \cup registered ELSE @,
                 !.assoc = assoc]

Now == Rechecked(pass)
Checked == since \ {"materials"}
In(phase) == ~NoPass /\ Now.phase = phase

\* project_material_fact: within a pass, references only get stronger.
Project(p, r) ==
  IF Reclaimable(r) /\ r \notin p.assoc
  THEN [p EXCEPT !.todo = @ \ {r},
                 !.retire = IF r \in registered THEN @ \cup {r} ELSE @,
                 !.cand = @ \cup (Refs[r] \cap p.entries),
                 !.retained = @ \cup (Refs[r] \cap p.entries \cap p.interp)]
  ELSE [p EXCEPT !.todo = @ \ {r}, !.retire = @ \ {r},
                 !.interp = @ \cup {Interp[r]},
                 !.retained = @ \cup Refs[r] \cup (p.cand \cap {Interp[r]})]

\* An error: the pass is dropped and nothing counts as complete.
Drop == Idle /\ completed' = {}

\* Faulty variant: the scan does not get past a request that is still needed.
ScannedAgain(p, r) ==
  IF Reclaimable(r) THEN [Project(p, r) EXCEPT !.cursor = r] ELSE Project(p, r)

\* The scan goes on behind the last request of the page.
Scanned(p, r) == [Project(p, r) EXCEPT !.cursor = r]

ScanPage ==
  LET later == {r \in Requests : r > Now.cursor /\ exec[r] # None} IN
  /\ In("proof") /\ ~Now.scanned
  /\ pass' = IF later = {} THEN [Now EXCEPT !.scanned = TRUE]
             ELSE Scanned(Now, Min(later))
  /\ since' = Checked
  /\ UNCHANGED <<journal, assoc, registry, files, completed, news, moved, faults>>

TakeAssociated ==
  /\ In("proof") /\ Now.scanned /\ Now.todo # {}
  /\ LET r == Min(Now.todo) IN
     IF exec[r] = None THEN Drop
     ELSE /\ pass' = Project(Now, r) /\ since' = Checked
          /\ UNCHANGED <<completed, news>>
  /\ UNCHANGED <<journal, assoc, registry, files, moved, faults>>

Folding == In("proof") /\ Now.scanned /\ Now.todo = {}

\* material_changes: one receipt, or the conflict with another writer.
FoldChange ==
  /\ Folding
  /\ \/ "external" \in since /\ Drop
     \/ /\ "external" \notin since /\ news # << >>
        /\ pass' = Project(Now, Head(news)) /\ news' = Tail(news)
        /\ since' = IF Len(news) = 1 THEN {} ELSE Checked
        /\ UNCHANGED completed
  /\ UNCHANGED <<journal, assoc, registry, files, moved, faults>>

Folded == Folding /\ "external" \notin since /\ news = << >> /\ since' = {}

\* retire(): a recipe that an attempt holds is left to a later pass.
HeldBack(p) == [p EXCEPT !.retry = TRUE]

Retire ==
  /\ Folded /\ Now.retire # {}
  /\ LET r == Min(Now.retire)
         p == [Now EXCEPT !.retire = @ \ {r}] IN
     IF r \in leased
     THEN pass' = HeldBack(p) /\ UNCHANGED <<registered, moved>>
     ELSE /\ pass' = Retired(p, r) /\ registered' = registered \ {r}
          /\ moved' = (moved \/ r \in registered)
  /\ UNCHANGED <<journal, assoc, leased, files, completed, news, faults>>

\* The recipes of the registry are walked, then the proof is attached.
Walked ==
  IF Now.walking THEN Now
  ELSE [Now EXCEPT !.walking = TRUE, !.walk = registered, !.seen = registered]

WalkRecipe ==
  /\ Folded /\ Now.retire = {} /\ Walked.walk # {}
  /\ LET r == Min(Walked.walk) IN
     pass' = [Walked EXCEPT !.walk = @ \ {r},
                            !.retained = @ \cup (IF r \in registered THEN Refs[r] ELSE {})]
  /\ UNCHANGED <<journal, assoc, registry, files, completed, news, moved, faults>>

Prove ==
  /\ Folded /\ Now.retire = {} /\ Walked.walk = {}
  /\ pass' = [Walked EXCEPT !.phase = "verify"]
  /\ UNCHANGED <<journal, assoc, registry, files, completed, news, moved, faults>>

\* What is retained is opened and protected, what is a candidate is hashed.
Verify ==
  /\ In("verify")
  /\ IF Now.retained \ Now.protected \subseteq files
     THEN /\ pass' = [Now EXCEPT !.protected = @ \cup Now.retained,
                                 !.proven = @ \cup (Now.cand \cap files),
                                 !.phase = Now.resume]
          /\ UNCHANGED <<since, news, completed>>
     ELSE Drop
  /\ UNCHANGED <<journal, assoc, registry, files, moved, faults>>

\* files_step, behind the writer fence: the next name is deleted or passed over.
DeleteFile ==
  /\ In("files") /\ Now.left # {}
  /\ LET f == Min(Now.left)
         gone == {f} \cap (Now.proven \ Now.protected) IN
     /\ pass' = [Now EXCEPT !.left = @ \ {f}, !.entries = @ \ gone]
     /\ files' = files \ gone
  /\ UNCHANGED <<journal, assoc, registry, completed, since, news, moved, faults>>

\* Complete for the key that the pass began with, unless it has to be repeated.
Complete ==
  /\ In("files") /\ Now.left = {}
  /\ Idle /\ completed' = IF Now.retry THEN {} ELSE {Now.initial}
  /\ UNCHANGED <<journal, assoc, registry, files, moved, faults>>

Reclaim ==
  \/ BeginPass \/ ScanPage \/ TakeAssociated \/ FoldChange \/ Retire
  \/ WalkRecipe \/ Prove \/ Verify \/ DeleteFile \/ Complete

Next ==
  \/ \E r \in Requests :
       \/ Accept(r) \/ Stage(r) \/ DispatchCut(r) \/ Abandon(r) \/ Register(r) \/ Begin(r)
       \/ Proceed(r) \/ Outside(r) \/ Release(r) \/ Confirm(r) \/ Finish(r)
  \/ Restart \/ Reclaim

Spec == Init /\ [][Next]_vars

\* The owner takes a step at every turn; results are delivered, tasks come to
\* their end, and an attempt that is over lets its recipe go.
FairSpec ==
  /\ Spec /\ WF_vars(Reclaim)
  /\ \A r \in Requests :
       WF_vars(Release(r)) /\ WF_vars(Confirm(r) \/ Finish(r) \/ Abandon(r))

----------------------------------------------------------------------------
(* Properties *)

InUse(r) == exec[r] # None /\ (~Reclaimable(r) \/ r \in assoc)
Needed(f) ==
  \E r \in Requests :
    \/ InUse(r) /\ (f \in Refs[r] \/ f = Interp[r])
    \/ r \in registered /\ f \in Refs[r]

\* No file is deleted that a request still needs at that moment: neither an
\* unsettled one, nor one with an unconfirmed result, nor one whose task is
\* still communicated or whose recipe is registered, however late it came
\* (recheck_proof, material_changes, with_material_proof).
DeletesOnlyUnneeded == [][\A f \in files \ files' : ~Needed(f)]_vars

Garbage(f) ==
  /\ \E r \in Requests : f \in Refs[r] /\ Reclaimable(r)
  /\ \A r \in Requests :
       f \in Refs[r] \/ f = Interp[r] => ~InUse(r) /\ r \notin leased

\* What only settled, confirmed and released requests refer to is deleted in
\* the end: the key of the last complete pass never hides it (reclaim_step).
GarbageIsDeleted ==
  \A f \in Files : (f \in files /\ Garbage(f)) ~> (f \notin files \/ ~Garbage(f))
=============================================================================
