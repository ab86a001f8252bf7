---------------------------- MODULE WorkerFence -----------------------------
(***************************************************************************)
(* The launch fence of one session's provider worker: WorkerPort           *)
(* (packages/ai-host/src/process.ts), the durable fence row                *)
(* (ai-store-sqlite) and the Host's use of both in open(), unavailable()   *)
(* and start() (packages/ai-host/src/index.ts), with the native launcher   *)
(* (crates/native-process) and the worker's bootstrap.                     *)
(*                                                                         *)
(* The Host can stop between any two awaits.  The launcher and the worker  *)
(* run on their own: they live on for a while after the Host is gone, and  *)
(* the launcher makes its process group (or job) some time after it was    *)
(* spawned.                                                                *)
(***************************************************************************)
EXTENDS Naturals, FiniteSets

CONSTANTS Launches,   \* launch ids, each used once
          MaxFaults   \* bound on crashes, failures and stops that time out

None == "none"
ASSUME LaunchesAssumption == None \notin Launches
ASSUME FaultsAssumption == MaxFaults \in Nat

VARIABLES
  unix,      \* the platform: register right after spawn (else after the hello)
  fence,     \* durable: the launch the session's fence is for, or None
  phase,     \* durable: that fence is reserved or registered
  host,      \* the Host process: up or down
  blocked,   \* Host memory: the session waits for proof that a process is gone
  pid,       \* Host memory: the launch of the WorkerPort, or None
  step,      \* Host memory: where the WorkerPort is
  has,       \* Host memory: what the WorkerPort has of its launch
  launcher,  \* of each launch: none, starting, up (its group exists), gone
  worker,    \* of each launch: none, idle, active, gone
  sent,      \* launches whose activate call was written to the pipe
  faults

row == <<fence, phase>>
port == <<pid, step, has>>
vars == <<unix, row, host, blocked, port, launcher, worker, sent, faults>>

Steps == {"reserve", "spawn", "register", "verify", "activate", "running", "closing"}

TypeOK ==
  /\ unix \in BOOLEAN
  /\ fence \in Launches \cup {None} /\ phase \in {"reserved", "registered", None}
  /\ host \in {"up", "down"} /\ blocked \in BOOLEAN
  /\ pid \in Launches \cup {None} /\ step \in Steps \cup {None} /\ (pid = None <=> step = None)
  /\ has \subseteq {"reserved", "child", "scope", "persisted"}
  /\ launcher \in [Launches -> {"none", "starting", "up", "gone"}]
  /\ worker \in [Launches -> {"none", "idle", "active", "gone"}]
  /\ sent \subseteq Launches /\ faults \in 0..MaxFaults

Init ==
  /\ unix \in BOOLEAN
  /\ fence = None /\ phase = None /\ host = "up" /\ blocked = FALSE
  /\ pid = None /\ step = None /\ has = {}
  /\ launcher = [l \in Launches |-> "none"] /\ worker = [l \in Launches |-> "none"]
  /\ sent = {} /\ faults = 0

Fault == faults < MaxFaults /\ faults' = faults + 1

----------------------------------------------------------------------------
(* What the Host can tell of a process *)

\* kill(-group, 0) answers ESRCH, or the job object does not exist.
Absent(l) == launcher[l] # "up" /\ worker[l] \notin {"idle", "active"}
Exited(l) == launcher[l] = "gone"
Living(l) == launcher[l] \in {"starting", "up"} \/ worker[l] \in {"idle", "active"}

\* Faulty variant: only the port that made the launch may clear its fence.
ClearableByPort == phase = "registered" /\ Absent(fence) /\ pid = fence

\* A fence the Host did not set itself is cleared only when it is registered
\* and its scope is absent; a reserved one never is.
Clearable == phase = "registered" /\ Absent(fence)

----------------------------------------------------------------------------
(* Opening a worker *)

NoFence == fence' = None /\ phase' = None   \* releaseLaunch()
Got(what, next) == has' = has \cup what /\ step' = next /\ UNCHANGED pid

\* open(): no port is left, and a blocked session proves its fence absent.
Open(l) ==
  /\ host = "up" /\ pid = None /\ launcher[l] = "none" /\ fence # l
  /\ blocked => fence = None \/ Clearable
  /\ IF blocked THEN NoFence ELSE UNCHANGED row
  /\ blocked' = FALSE
  /\ pid' = l /\ step' = "reserve" /\ has' = {}
  /\ UNCHANGED <<unix, host, launcher, worker, sent, faults>>

\* reserveLaunch(): one fence of a session; a second one is a conflict.
Reserve ==
  /\ step = "reserve"
  /\ IF fence = None
     THEN fence' = pid /\ phase' = "reserved" /\ Got({"reserved"}, "spawn")
     ELSE Got({}, "closing") /\ UNCHANGED row
  /\ UNCHANGED <<unix, host, blocked, launcher, worker, sent, faults>>

\* The launcher is spawned; on Unix its pid is the scope from here on.
Spawn ==
  /\ step = "spawn"
  /\ launcher' = [launcher EXCEPT ![pid] = "starting"]
  /\ IF unix THEN Got({"child", "scope"}, "register") ELSE Got({"child"}, "verify")
  /\ UNCHANGED <<unix, row, host, blocked, worker, sent, faults>>

\* The spawn fails: an exit event, and a port that never learns a scope.
SpawnFails ==
  /\ step = "spawn" /\ Fault
  /\ launcher' = [launcher EXCEPT ![pid] = "gone"]
  /\ Got({"child"}, "closing")
  /\ UNCHANGED <<unix, row, host, blocked, worker, sent>>

\* Faulty variant: the result of registerLaunch() is not awaited.
RegisterLater ==
  /\ step = "register"
  /\ Got({"persisted"}, IF unix THEN "verify" ELSE "activate")
  /\ UNCHANGED <<unix, row, host, blocked, launcher, worker, sent, faults>>

\* registerLaunch(): the scope is durable before the worker may be activated.
Register ==
  /\ step = "register"
  /\ IF fence = pid
     THEN /\ phase' = "registered" /\ UNCHANGED fence
          /\ Got({"persisted"}, IF unix THEN "verify" ELSE "activate")
     ELSE Got({}, "closing") /\ UNCHANGED row
  /\ UNCHANGED <<unix, host, blocked, launcher, worker, sent, faults>>

\* The ready line and the hello prove which processes run.
Verify ==
  /\ step = "verify" /\ launcher[pid] = "up" /\ worker[pid] = "idle"
  /\ Got({"scope"}, IF "persisted" \in has THEN "activate" ELSE "register")
  /\ UNCHANGED <<unix, row, host, blocked, launcher, worker, sent, faults>>

\* The activate call is written; its answer makes the port usable.
Activate ==
  /\ step = "activate"
  /\ sent' = sent \cup {pid}
  /\ Got({}, "running")
  /\ UNCHANGED <<unix, row, host, blocked, launcher, worker, faults>>

\* start() fails, the worker fails or the session is given up: terminate()
\* closes the pipes and kills the group, as far as there is one yet.
Terminate ==
  /\ step \in Steps \ {"reserve", "closing"}
  /\ Fault \/ (Exited(pid) /\ UNCHANGED faults)
  /\ Got({}, "closing")
  /\ UNCHANGED <<unix, row, host, blocked, launcher, worker, sent>>

----------------------------------------------------------------------------
(* Closing a worker *)

\* Faulty variant: the exit of the launcher is taken for the whole scope's.
StoppedWithLauncher == "child" \notin has \/ Exited(pid)

\* stop() waits for the launcher's exit and an absent scope.
Stopped == "child" \notin has \/ ("scope" \in has /\ Exited(pid) /\ Absent(pid))

\* stop() succeeds: the fence is released and the session free again.
Stop ==
  /\ step = "closing" /\ Stopped
  /\ IF "reserved" \in has THEN NoFence ELSE UNCHANGED row
  /\ pid' = None /\ step' = None /\ has' = {} /\ blocked' = FALSE
  /\ UNCHANGED <<unix, host, launcher, worker, sent, faults>>

\* stop() reaches its deadline or the store fails: port and fence stay.
StopFails ==
  /\ step = "closing" /\ Fault
  /\ blocked' = TRUE
  /\ UNCHANGED <<unix, row, host, port, launcher, worker, sent>>

\* The Host process dies: its memory is gone, its pipes close.
Crash ==
  /\ host = "up" /\ Fault
  /\ host' = "down" /\ blocked' = FALSE
  /\ pid' = None /\ step' = None /\ has' = {}
  /\ UNCHANGED <<unix, row, launcher, worker, sent>>

\* start(): the fence is cleared when its scope is absent, else it blocks.
Start ==
  /\ host = "down" /\ host' = "up"
  /\ IF Clearable THEN NoFence ELSE UNCHANGED row
  /\ blocked' = (fence # None /\ ~Clearable)
  /\ UNCHANGED <<unix, port, launcher, worker, sent, faults>>

----------------------------------------------------------------------------
(* The launcher and the worker *)

Mine(l) == pid = l /\ step # "closing"   \* its pipes are open

\* The launcher makes its group or job and starts the bootstrap in it.
LauncherReady(l) ==
  /\ launcher[l] = "starting"
  /\ launcher' = [launcher EXCEPT ![l] = "up"]
  /\ worker' = [worker EXCEPT ![l] = "idle"]
  /\ UNCHANGED <<unix, row, host, blocked, port, sent, faults>>

\* The bootstrap reads the activate call, even one whose Host has gone since.
WorkerActivates(l) ==
  /\ worker[l] = "idle" /\ l \in sent
  /\ worker' = [worker EXCEPT ![l] = "active"]
  /\ UNCHANGED <<unix, row, host, blocked, port, launcher, sent, faults>>

\* The bootstrap ends when its pipes close, or fails.
WorkerExits(l) ==
  /\ worker[l] \in {"idle", "active"}
  /\ Mine(l) => Fault
  /\ ~Mine(l) => UNCHANGED faults
  /\ worker' = [worker EXCEPT ![l] = "gone"]
  /\ UNCHANGED <<unix, row, host, blocked, port, launcher, sent>>

\* The launcher follows its worker, or fails and leaves the worker behind.
LauncherExits(l) ==
  /\ launcher[l] \in {"starting", "up"}
  /\ IF worker[l] = "gone" THEN UNCHANGED faults ELSE Fault
  /\ launcher' = [launcher EXCEPT ![l] = "gone"]
  /\ UNCHANGED <<unix, row, host, blocked, port, worker, sent>>

Next ==
  \/ \E l \in Launches : \/ Open(l) \/ LauncherReady(l) \/ WorkerActivates(l)
                         \/ WorkerExits(l) \/ LauncherExits(l)
  \/ Reserve \/ Spawn \/ SpawnFails \/ Register \/ Verify \/ Activate
  \/ Terminate \/ Stop \/ StopFails \/ Crash \/ Start

\* A stopped Host is started again, the steps of a launch and of a stop go
\* on, processes without pipes end, and a client opens the session again.
Fairness ==
  /\ WF_vars(Start) /\ WF_vars(Stop) /\ WF_vars(\E l \in Launches : Open(l))
  /\ WF_vars(Reserve) /\ WF_vars(Spawn) /\ WF_vars(Register) /\ WF_vars(Verify)
  /\ WF_vars(Activate) /\ WF_vars(Terminate /\ Exited(pid))
  /\ \A l \in Launches : /\ WF_vars(LauncherReady(l))
                         /\ WF_vars(WorkerExits(l) /\ ~Mine(l))
                         /\ WF_vars(LauncherExits(l) /\ worker[l] = "gone")

Spec == Init /\ [][Next]_vars
FairSpec == Spec /\ Fairness

----------------------------------------------------------------------------
(* Properties *)

\* A worker that was given a provider has a registered fence of its own, also
\* when its Host is gone: whoever finds the session again finds the fence
\* (launch, reserveLaunch, start).  Two active workers would need two fences.
ActiveIsRegistered ==
  \A l \in Launches : worker[l] = "active" => fence = l /\ phase = "registered"

\* Where a scope is registered only once it was seen to run, a process that is
\* alive has a fence: no fence is released before the launcher and the worker
\* behind it are gone (stop, open, start).
AliveIsFenced == ~unix => \A l \in Launches : Living(l) => fence = l

\* A registered fence whose processes are gone is released in the end, across
\* crashes and stops that timed out.
RegisteredClears ==
  (phase = "registered" /\ ~Living(fence)) ~> phase # "registered"
=============================================================================
