-------------------------- MODULE WorkerFenceProofs -------------------------
(***************************************************************************)
(* Proofs about the launch fence, for any number of launches and faults.   *)
(***************************************************************************)
EXTENDS WorkerFence, TLAPS

Seen(l) == launcher[l] \in {"up", "gone"} /\ worker[l] \in {"idle", "active", "gone"}

\* The port agrees with the fence: it holds the fence it reserved, has it
\* registered before it activates, and has no child before it says so.
PortOK ==
  /\ pid # None => host = "up"
  /\ "reserved" \in has => fence = pid
  /\ "persisted" \in has => "reserved" \in has /\ phase = "registered"
  /\ step \in {"spawn", "register", "verify", "activate", "running"} => "reserved" \in has
  /\ step \in {"activate", "running"} => "persisted" \in has /\ Seen(pid)
  /\ step = "register" /\ ~unix => Seen(pid)
  /\ step \in {None, "reserve", "spawn"} => "child" \notin has
  /\ step \in {None, "reserve"} => "reserved" \notin has
  /\ pid # None /\ "child" \notin has => launcher[pid] = "none"
  /\ fence = None <=> phase = None

\* The processes agree with the fence: a worker that was sent its activation
\* was seen before, and is fenced as long as it lives.
ProcOK ==
  /\ \A l \in Launches : launcher[l] \in {"none", "starting"} => worker[l] = "none"
  /\ \A l \in Launches : l \in sent => Seen(l)
  /\ \A l \in Launches : l \in sent /\ Living(l) => fence = l /\ phase = "registered"
  /\ \A l \in Launches : worker[l] = "active" => l \in sent

IInv == TypeOK /\ PortOK /\ ProcOK

LEMMA InitIInv == Init => IInv
<1> SUFFICES ASSUME Init PROVE IInv
  OBVIOUS
<1>1. TypeOK
  <2>1. faults \in 0..MaxFaults
    BY FaultsAssumption DEF Init
  <2>2. blocked \in BOOLEAN /\ unix \in BOOLEAN
    BY Zenon DEF Init
  <2>3. /\ launcher \in [Launches -> {"none", "starting", "up", "gone"}]
        /\ worker \in [Launches -> {"none", "idle", "active", "gone"}]
    BY DEF Init
  <2> QED
    BY <2>1, <2>2, <2>3 DEF Init, TypeOK, None
<1>2. PortOK
  BY DEF Init, PortOK, None
<1>3. ProcOK
  BY DEF Init, ProcOK, Living
<1> QED
  BY <1>1, <1>2, <1>3 DEF IInv

LEMMA StepIInv == IInv /\ [Next]_vars => IInv'
<1> SUFFICES ASSUME IInv, [Next]_vars PROVE IInv'
  OBVIOUS
<1> USE LaunchesAssumption, FaultsAssumption
    DEF IInv, TypeOK, PortOK, ProcOK, Living, Seen, Steps, Fault, NoFence, Got, row, port, None
<1>1. ASSUME NEW l \in Launches, Open(l) PROVE IInv'
  BY <1>1 DEF Open, Clearable, Absent
<1>2. CASE Reserve
  <2>1. TypeOK'
    BY <1>2 DEF Reserve
  <2>2. PortOK'
    BY <1>2 DEF Reserve
  <2>3. ProcOK'
    BY <1>2 DEF Reserve
  <2> QED
    BY <2>1, <2>2, <2>3
<1>3. CASE Spawn
  <2>1. TypeOK'
    BY <1>3 DEF Spawn
  <2>2. PortOK'
    BY <1>3 DEF Spawn
  <2>3. ProcOK'
    BY <1>3 DEF Spawn
  <2> QED
    BY <2>1, <2>2, <2>3
<1>4. CASE SpawnFails
  BY <1>4 DEF SpawnFails
<1>5. CASE Register
  BY <1>5 DEF Register
<1>6. CASE Verify
  BY <1>6 DEF Verify
<1>7. CASE Activate
  BY <1>7 DEF Activate
<1>8. CASE Terminate
  BY <1>8 DEF Terminate, Exited
<1>9. CASE Stop
  BY <1>9 DEF Stop, Stopped, Exited, Absent
<1>10. CASE StopFails
  BY <1>10 DEF StopFails
<1>11. CASE Crash
  <2>1. TypeOK'
    <3>1. faults' \in 0..MaxFaults
      BY <1>11 DEF Crash
    <3>2. blocked' \in BOOLEAN /\ unix' \in BOOLEAN
      BY <1>11, Zenon DEF Crash
    <3> QED
      BY <1>11, <3>1, <3>2 DEF Crash
  <2>2. PortOK'
    BY <1>11 DEF Crash
  <2>3. ProcOK'
    BY <1>11 DEF Crash
  <2> QED
    BY <2>1, <2>2, <2>3
<1>12. CASE Start
  BY <1>12 DEF Start, Clearable, Absent
<1>13. ASSUME NEW l \in Launches, LauncherReady(l) PROVE IInv'
  BY <1>13 DEF LauncherReady
<1>14. ASSUME NEW l \in Launches, WorkerActivates(l) PROVE IInv'
  BY <1>14 DEF WorkerActivates
<1>15. ASSUME NEW l \in Launches, WorkerExits(l) PROVE IInv'
  BY <1>15 DEF WorkerExits, Mine
<1>16. ASSUME NEW l \in Launches, LauncherExits(l) PROVE IInv'
  BY <1>16 DEF LauncherExits
<1>17. CASE UNCHANGED vars
  BY <1>17 DEF vars
<1> HIDE DEF IInv
<1> QED
  BY <1>1, <1>2, <1>3, <1>4, <1>5, <1>6, <1>7, <1>8, <1>9, <1>10, <1>11, <1>12,
     <1>13, <1>14, <1>15, <1>16, <1>17 DEF Next

\* The state of the fence, the port and the processes keeps its type.
THEOREM TypeCorrect == Spec => []TypeOK
<1>1. IInv => TypeOK
  BY DEF IInv
<1> QED
  BY InitIInv, StepIInv, <1>1, PTL DEF Spec

\* An active worker has a registered fence of its own (launch, registerLaunch),
\* on both platforms and for any number of launches, crashes and failures.
THEOREM ActiveRegistered == Spec => []ActiveIsRegistered
<1>1. IInv => ActiveIsRegistered
  BY DEF IInv, ProcOK, ActiveIsRegistered, Living
<1> QED
  BY InitIInv, StepIInv, <1>1, PTL DEF Spec

----------------------------------------------------------------------------
(* Where the scope is registered only after the hello, every living process *)
(* is fenced: a registered launch was seen, so an absent scope is final.    *)

FencedInv ==
  ~unix => /\ \A l \in Launches : Living(l) => fence = l
           /\ phase = "registered" => Seen(fence)

LEMMA InitFenced == Init => FencedInv
  BY DEF Init, FencedInv, Living, None

LEMMA StepFenced == IInv /\ FencedInv /\ [Next]_vars => FencedInv'
<1> SUFFICES ASSUME IInv, FencedInv, [Next]_vars PROVE FencedInv'
  OBVIOUS
<1> USE LaunchesAssumption
    DEF IInv, TypeOK, PortOK, ProcOK, FencedInv, Living, Seen, Steps, NoFence, Got,
        row, port, None
<1>1. ASSUME NEW l \in Launches, Open(l) PROVE FencedInv'
  BY <1>1 DEF Open, Clearable, Absent
<1>2. CASE Reserve
  BY <1>2 DEF Reserve
<1>3. CASE Spawn
  BY <1>3 DEF Spawn
<1>4. CASE SpawnFails
  BY <1>4 DEF SpawnFails
<1>5. CASE Register
  BY <1>5 DEF Register
<1>6. CASE Verify \/ Activate \/ Terminate \/ StopFails \/ Crash \/ UNCHANGED vars
  BY <1>6 DEF Verify, Activate, Terminate, StopFails, Crash, vars
<1>7. CASE Stop
  BY <1>7 DEF Stop, Stopped, Exited, Absent
<1>8. CASE Start
  BY <1>8 DEF Start, Clearable, Absent
<1>9. ASSUME NEW l \in Launches, LauncherReady(l) PROVE FencedInv'
  BY <1>9 DEF LauncherReady
<1>10. ASSUME NEW l \in Launches, WorkerActivates(l) PROVE FencedInv'
  BY <1>10 DEF WorkerActivates
<1>11. ASSUME NEW l \in Launches, WorkerExits(l) PROVE FencedInv'
  BY <1>11 DEF WorkerExits
<1>12. ASSUME NEW l \in Launches, LauncherExits(l) PROVE FencedInv'
  BY <1>12 DEF LauncherExits
<1> HIDE DEF IInv, FencedInv
<1> QED
  BY <1>1, <1>2, <1>3, <1>4, <1>5, <1>6, <1>7, <1>8, <1>9, <1>10, <1>11, <1>12 DEF Next

\* Without the early registration of Unix no fence is released (stop, open,
\* start) before the launcher and the worker behind it are gone.
THEOREM AliveFenced == Spec => []AliveIsFenced
<1>1. FencedInv => AliveIsFenced
  BY DEF FencedInv, AliveIsFenced
<1> QED
  BY InitIInv, StepIInv, InitFenced, StepFenced, <1>1, PTL DEF Spec
=============================================================================
