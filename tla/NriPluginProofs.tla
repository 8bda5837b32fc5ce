-------------------------- MODULE NriPluginProofs --------------------------
(***************************************************************************)
(* Theorems about NriPlugin.tla for any sets of pods, sandboxes and claims.*)
(* TypeOK is inductive by itself; the other parts of IInv are each shown   *)
(* to be preserved under the parts they lean on.                           *)
(***************************************************************************)
EXTENDS NriPlugin, TLAPS

(* Adding a typed claim gives a typed store.                               *)
LEMMA AddTyped ==
    ASSUME NEW store \in Store, NEW p \in Pods, NEW claim \in StoredClaim
    PROVE  Add(store, p, claim) \in Store
BY DEF Add, Store

-----------------------------------------------------------------------------
LEMMA InitTyped == Init => TypeOK
BY PluginAssumption DEF Init, TypeOK, NewMemory, Store, Busy

LEMMA NextTyped == TypeOK /\ [Next]_vars => TypeOK'
<1> SUFFICES ASSUME TypeOK, [Next]_vars PROVE TypeOK'
    OBVIOUS
<1> USE PluginAssumption DEF TypeOK, Busy
<1>1. ASSUME NEW entry \in ClaimPool, StoreClaim(entry[1], entry[2])
      PROVE  TypeOK'
  <2>1. entry[1] \in Pods /\ entry[2] \in StoredClaim
      OBVIOUS
  <2>2. podResources' \in Store
      BY <1>1, <2>1, AddTyped DEF StoreClaim
  <2> QED
      BY <1>1, <2>2 DEF StoreClaim, process, removal
<1>2. ASSUME NEW s \in Sandboxes, Handlers(s)
      PROVE  TypeOK'
  <2>1. CASE RunWithoutClaims(s)
      BY <2>1 DEF RunWithoutClaims, process, removal
  <2>2. CASE RunWithoutNamespace(s)
      BY <2>2 DEF RunWithoutNamespace, process, removal
  <2>3. CASE RunPodSandbox(s)
      BY <2>3 DEF RunPodSandbox, Get, Store, removal
  <2>4. CASE RegisterProcess(s)
      BY <2>4 DEF RegisterProcess, removal
  <2>5. CASE StartContainer(s)
    <3>1. CASE StartUntracked(s)
        BY <3>1 DEF StartUntracked, process, removal
    <3>2. CASE StartRefused(s)
        BY <3>2 DEF StartRefused, process, removal
    <3>3. CASE StartConfigured(s)
        BY <3>3 DEF StartConfigured, process, removal
    <3> QED
        BY <2>5, <3>1, <3>2, <3>3 DEF StartContainer
  <2>6. CASE RemoveUntracked(s)
      BY <2>6 DEF RemoveUntracked, process, removal
  <2>7. CASE RemovePodSandbox(s)
      BY <2>7 DEF RemovePodSandbox, TakeCancel
  <2>8. CASE FinishRemoval(s)
      BY <2>8 DEF FinishRemoval, Untrack, process, removal
  <2> QED
      BY <1>2, <2>1, <2>2, <2>3, <2>4, <2>5, <2>6, <2>7, <2>8 DEF Handlers
<1>3. ASSUME NEW s \in Sandboxes, StopPodSandbox(s)
      PROVE  TypeOK'
    BY <1>3 DEF StopPodSandbox, process, removal
<1>4. ASSUME NEW s \in Sandboxes, Goroutine(s)
      PROVE  TypeOK'
  <2>1. CASE BeginRun(s)
      BY <2>1 DEF BeginRun, removal
  <2>2. CASE SkipForeignDevice(s)
      BY <2>2 DEF SkipForeignDevice, NextDevice, removal
  <2>3. CASE RejectDevice(s)
      BY <2>3 DEF RejectDevice, FailClaim, SkipToNextClaim, removal
  <2>4. CASE Configure(s)
      BY <2>4 DEF Configure, removal
  <2>5. CASE ConfigureSucceeds(s)
      BY <2>5 DEF ConfigureSucceeds, NextDevice, removal
  <2>6. CASE ConfigureFails(s)
      BY <2>6 DEF ConfigureFails, FailClaim, SkipToNextClaim, removal
  <2>7. CASE NextClaim(s)
      BY <2>7 DEF NextClaim, SkipToNextClaim, removal
  <2>8. CASE CloseDone(s)
      BY <2>8 DEF CloseDone, removal
  <2>9. CASE ExitRun(s)
      BY <2>9 DEF ExitRun, TakeCancel, removal
  <2> QED
      BY <1>4, <2>1, <2>2, <2>3, <2>4, <2>5, <2>6, <2>7, <2>8, <2>9 DEF Goroutine
<1>5. CASE UNCHANGED vars
    BY <1>5 DEF vars, process, removal
<1> QED
    BY <1>1, <1>2, <1>3, <1>4, <1>5 DEF Next, Quiescent

(* Every reachable state is well typed.                                    *)
THEOREM TypeCorrect == Spec => []TypeOK
BY InitTyped, NextTyped, PTL DEF Spec

-----------------------------------------------------------------------------
(* The four conjuncts about processes, the lock and removals hold together.*)
Control == DoneTellsRun /\ EntriesAreSpawned /\ LockedByRemoval /\ RemovalWaited

LEMMA InitInductive == Init => IInv
<1> SUFFICES ASSUME Init PROVE IInv
    OBVIOUS
<1> USE PluginAssumption DEF Init, Busy
<1>1. TypeOK
    BY InitTyped
<1>2. Control
    BY DEF Control, DoneTellsRun, EntriesAreSpawned, LockedByRemoval, RemovalWaited
<1>3. CursorsLeaveNothing
    BY DEF CursorsLeaveNothing, CursorsOK, BehindCursors, HasClaim
<1> QED
    BY <1>1, <1>2, <1>3 DEF IInv, Control

LEMMA ControlPreserved == TypeOK /\ Control /\ [Next]_vars => Control'
<1> SUFFICES ASSUME TypeOK, Control, [Next]_vars PROVE Control'
    OBVIOUS
<1> USE PluginAssumption
        DEF TypeOK, Busy, Control, DoneTellsRun, EntriesAreSpawned,
            LockedByRemoval, RemovalWaited
<1>1. ASSUME NEW entry \in ClaimPool, StoreClaim(entry[1], entry[2])
      PROVE  Control'
    BY <1>1 DEF StoreClaim, process, removal
<1>2. ASSUME NEW s \in Sandboxes, Handlers(s)
      PROVE  Control'
  <2>1. CASE RunWithoutClaims(s)
      BY <2>1 DEF RunWithoutClaims, MayRun, process, removal
  <2>2. CASE RunWithoutNamespace(s)
      BY <2>2 DEF RunWithoutNamespace, MayRun, process, removal
  <2>3. CASE RunPodSandbox(s)
      BY <2>3 DEF RunPodSandbox, MayRun, removal
  <2>4. CASE RegisterProcess(s)
      BY <2>4 DEF RegisterProcess, removal
  <2>5. CASE StartContainer(s)
    <3>1. CASE StartUntracked(s) \/ StartRefused(s)
        BY <3>1 DEF StartUntracked, StartRefused, process, removal
    <3>2. CASE StartConfigured(s)
        BY <3>2 DEF StartConfigured, process, removal
    <3> QED
        BY <2>5, <3>1, <3>2 DEF StartContainer
  <2>6. CASE RemoveUntracked(s)
      BY <2>6 DEF RemoveUntracked, process, removal
  <2>7. CASE RemovePodSandbox(s)
    <3>1. DoneTellsRun'
        BY <2>7 DEF RemovePodSandbox
    <3>2. EntriesAreSpawned'
        BY <2>7 DEF RemovePodSandbox
    <3>3. LockedByRemoval'
        BY <2>7 DEF RemovePodSandbox
    <3>4. RemovalWaited'
        BY <2>7 DEF RemovePodSandbox
    <3> QED
        BY <3>1, <3>2, <3>3, <3>4
  <2>8. CASE FinishRemoval(s)
    <3>1. DoneTellsRun'
        BY <2>8 DEF FinishRemoval, Untrack, process, removal
    <3>2. EntriesAreSpawned'
        BY <2>8 DEF FinishRemoval, Untrack, process, removal
    <3>3. LockedByRemoval'
        BY <2>8 DEF FinishRemoval, Untrack, process, removal
    <3>4. RemovalWaited'
        BY <2>8 DEF FinishRemoval, Untrack, process, removal
    <3> QED
        BY <3>1, <3>2, <3>3, <3>4
  <2> QED
      BY <1>2, <2>1, <2>2, <2>3, <2>4, <2>5, <2>6, <2>7, <2>8 DEF Handlers
<1>3. ASSUME NEW s \in Sandboxes, StopPodSandbox(s)
      PROVE  Control'
    BY <1>3 DEF StopPodSandbox, process, removal
<1>4. ASSUME NEW s \in Sandboxes, Goroutine(s)
      PROVE  Control'
  <2>1. CASE BeginRun(s)
      BY <2>1 DEF BeginRun, removal
  <2>2. CASE SkipForeignDevice(s)
      BY <2>2 DEF SkipForeignDevice, removal
  <2>3. CASE RejectDevice(s)
      BY <2>3 DEF RejectDevice, removal
  <2>4. CASE Configure(s)
      BY <2>4 DEF Configure, removal
  <2>5. CASE ConfigureSucceeds(s)
      BY <2>5 DEF ConfigureSucceeds, removal
  <2>6. CASE ConfigureFails(s)
      BY <2>6 DEF ConfigureFails, removal
  <2>7. CASE NextClaim(s)
      BY <2>7 DEF NextClaim, removal
  <2>8. CASE CloseDone(s)
      BY <2>8 DEF CloseDone, removal
  <2>9. CASE ExitRun(s)
      BY <2>9 DEF ExitRun, removal
  <2> QED
      BY <1>4, <2>1, <2>2, <2>3, <2>4, <2>5, <2>6, <2>7, <2>8, <2>9 DEF Goroutine
<1>5. CASE UNCHANGED vars
    BY <1>5 DEF vars, process, removal
<1> QED
    BY <1>1, <1>2, <1>3, <1>4, <1>5 DEF Next, Quiescent

-----------------------------------------------------------------------------
(* The loop over claims and devices.                                       *)

(* What the invariant says of a sandbox depends on that sandbox only.      *)
LEMMA CursorsFrame ==
    ASSUME NEW t \in Sandboxes, CursorsOK(t),
           claims'[t] = claims[t], run'[t] = run[t], done'[t] = done[t],
           claimAt'[t] = claimAt[t], deviceAt'[t] = deviceAt[t],
           configured'[t] = configured[t], failed'[t] = failed[t]
    PROVE  CursorsOK(t)'
BY DEF CursorsOK, BehindCursors, Settled, OwnDevices, HasClaim, HasDevice

LEMMA DevicesTyped ==
    ASSUME TypeOK, NEW s \in Sandboxes, NEW k \in DOMAIN claims[s]
    PROVE  claims[s][k].devices \in Seq(DeviceStatuses)
<1>1. claims[s][k] \in StoredClaim
    BY DEF TypeOK
<1> QED
    BY <1>1 DEF StoredClaim

(* Moving on to the next claim is safe when the current one is settled.    *)
LEMMA NextClaimBehind ==
    ASSUME TypeOK, NEW s \in Sandboxes, BehindCursors(s), HasClaim(s),
           SkipToNextClaim(s), claims' = claims,
           configured' = configured, failed[s] \subseteq failed'[s],
           NEW c \in Nat, c = claimAt[s], Settled(s, c)'
    PROVE  BehindCursors(s)'
<1>1. claimAt'[s] = claimAt[s] + 1 /\ deviceAt'[s] = 1 /\ claimAt[s] \in Nat
    BY DEF TypeOK, SkipToNextClaim
<1>2. ASSUME NEW k \in DOMAIN claims'[s], k < claimAt'[s]
      PROVE  Settled(s, k)'
  <2>1. k \in Nat /\ k \in DOMAIN claims[s]
      BY DEF TypeOK
  <2>2. CASE k < claimAt[s]
    <3>1. Settled(s, k)
        BY <2>1, <2>2 DEF BehindCursors
    <3> QED
        BY <3>1 DEF Settled, OwnDevices
  <2>3. CASE ~(k < claimAt[s])
      BY <1>1, <1>2, <2>1, <2>3
  <2> QED
      BY <2>2, <2>3
<1>3. ASSUME HasClaim(s)', NEW j \in OwnDevices(s, claimAt[s])'
      PROVE  ~(j < deviceAt'[s])
  <2>1. claimAt'[s] \in DOMAIN claims[s]
      BY <1>1, <1>3 DEF HasClaim, TypeOK
  <2>2. claims[s][claimAt'[s]].devices \in Seq(DeviceStatuses)
      BY <2>1, DevicesTyped
  <2>3. j \in DOMAIN claims[s][claimAt'[s]].devices
      BY <1>3 DEF OwnDevices
  <2> QED
      BY <1>1, <2>2, <2>3
<1> QED
    BY <1>2, <1>3 DEF BehindCursors

(* Before the first step of the loop nothing is behind the cursors.        *)
LEMMA FreshCursors ==
    ASSUME NEW s \in Sandboxes, run'[s] = "none", done'[s] = "nil",
           claimAt'[s] = 1, deviceAt'[s] = 1, claims'[s] \in Seq(StoredClaim)
    PROVE  CursorsOK(s)'
<1>1. ASSUME HasClaim(s)', NEW j \in OwnDevices(s, claimAt[s])'
      PROVE  ~(j < deviceAt'[s])
  <2>1. claims'[s][1] \in StoredClaim
      BY <1>1 DEF HasClaim
  <2>2. claims'[s][1].devices \in Seq(DeviceStatuses)
      BY <2>1 DEF StoredClaim
  <2> QED
      BY <1>1, <2>2 DEF OwnDevices
<1>2. \A k \in DOMAIN claims'[s] : ~(k < 1)
    OBVIOUS
<1> QED
    BY <1>1, <1>2 DEF CursorsOK, BehindCursors

(* A step of a goroutine disturbs its own sandbox only.                    *)
LEMMA GoroutineFrame ==
    ASSUME TypeOK, NEW s \in Sandboxes, Goroutine(s),
           NEW t \in Sandboxes, t # s, CursorsOK(t)
    PROVE  CursorsOK(t)'
<1>1. /\ claims'[t] = claims[t] /\ run'[t] = run[t] /\ done'[t] = done[t]
      /\ claimAt'[t] = claimAt[t] /\ deviceAt'[t] = deviceAt[t]
      /\ configured'[t] = configured[t] /\ failed'[t] = failed[t]
    BY DEF TypeOK, Goroutine, BeginRun, SkipForeignDevice, RejectDevice,
           Configure, ConfigureSucceeds, ConfigureFails, NextClaim, CloseDone,
           ExitRun, FailClaim, SkipToNextClaim, NextDevice
<1> QED
    BY <1>1, CursorsFrame

LEMMA GoroutineCursors ==
    ASSUME TypeOK, DoneTellsRun, NEW s \in Sandboxes, CursorsOK(s), Goroutine(s)
    PROVE  CursorsOK(s)'
<1> USE DEF TypeOK, Busy, DoneTellsRun, CursorsOK
<1>1. CASE BeginRun(s)
    BY <1>1 DEF BeginRun, BehindCursors, Settled, OwnDevices, HasClaim, HasDevice
<1>2. CASE SkipForeignDevice(s)
    BY <1>2 DEF SkipForeignDevice, NextDevice, Device, BehindCursors, Settled,
                OwnDevices, HasClaim, HasDevice
<1>3. CASE RejectDevice(s)
  <2>1. BehindCursors(s)'
    <3> PICK c \in Nat : c = claimAt[s]
        OBVIOUS
    <3>1. Settled(s, c)'
        BY <1>3 DEF RejectDevice, FailClaim, Settled
    <3>2. /\ BehindCursors(s) /\ HasClaim(s) /\ SkipToNextClaim(s)
          /\ claims' = claims /\ configured' = configured
          /\ failed[s] \subseteq failed'[s]
        BY <1>3 DEF RejectDevice, FailClaim, HasDevice
    <3> QED
        BY <3>1, <3>2, NextClaimBehind
  <2> QED
      BY <1>3, <2>1 DEF RejectDevice, HasClaim, HasDevice
<1>4. CASE Configure(s)
    BY <1>4 DEF Configure, BehindCursors, Settled, OwnDevices, HasClaim, HasDevice
<1>5. CASE ConfigureSucceeds(s)
    BY <1>5 DEF ConfigureSucceeds, NextDevice, BehindCursors, Settled,
                OwnDevices, HasClaim, HasDevice
<1>6. CASE ConfigureFails(s)
  <2>1. BehindCursors(s)'
    <3> PICK c \in Nat : c = claimAt[s]
        OBVIOUS
    <3>1. Settled(s, c)'
        BY <1>6 DEF ConfigureFails, FailClaim, Settled
    <3>2. /\ BehindCursors(s) /\ HasClaim(s) /\ SkipToNextClaim(s)
          /\ claims' = claims /\ configured' = configured
          /\ failed[s] \subseteq failed'[s]
        BY <1>6 DEF ConfigureFails, FailClaim, HasDevice
    <3> QED
        BY <3>1, <3>2, NextClaimBehind
  <2> QED
      BY <1>6, <2>1 DEF ConfigureFails, HasClaim, HasDevice
<1>7. CASE NextClaim(s)
  <2>1. BehindCursors(s)'
    <3> PICK c \in Nat : c = claimAt[s]
        OBVIOUS
    <3>1. c \in DOMAIN claims[s]
        BY <1>7 DEF NextClaim, HasClaim
    <3>2. claims[s][c].devices \in Seq(DeviceStatuses)
        BY <3>1, DevicesTyped
    <3>3. \A j \in OwnDevices(s, c) : j < deviceAt[s]
        BY <1>7, <3>2 DEF NextClaim, HasDevice, OwnDevices
    <3>4. Settled(s, c)
        BY <1>7, <3>3 DEF NextClaim, BehindCursors, Settled
    <3>5. Settled(s, c)'
        BY <1>7, <3>4 DEF NextClaim, Settled, OwnDevices
    <3>6. /\ BehindCursors(s) /\ HasClaim(s) /\ SkipToNextClaim(s)
          /\ claims' = claims /\ configured' = configured
          /\ failed[s] \subseteq failed'[s]
        BY <1>7 DEF NextClaim
    <3> QED
        BY <3>1, <3>5, <3>6, NextClaimBehind
  <2> QED
      BY <1>7, <2>1 DEF NextClaim, HasClaim
<1>8. CASE CloseDone(s)
    BY <1>8 DEF CloseDone, BehindCursors, Settled, OwnDevices, HasClaim, HasDevice
<1>9. CASE ExitRun(s)
    BY <1>9 DEF ExitRun, BehindCursors, Settled, OwnDevices, HasClaim, HasDevice
<1> QED
    BY <1>1, <1>2, <1>3, <1>4, <1>5, <1>6, <1>7, <1>8, <1>9 DEF Goroutine

LEMMA CursorsPreserved ==
    TypeOK /\ DoneTellsRun /\ CursorsLeaveNothing /\ [Next]_vars
        => CursorsLeaveNothing'
<1> SUFFICES ASSUME TypeOK, DoneTellsRun, CursorsLeaveNothing, [Next]_vars,
                    NEW t \in Sandboxes
             PROVE  CursorsOK(t)'
    BY DEF CursorsLeaveNothing
<1>0. CursorsOK(t)
    BY DEF CursorsLeaveNothing
<1>1. ASSUME NEW entry \in ClaimPool, StoreClaim(entry[1], entry[2])
      PROVE  CursorsOK(t)'
    BY <1>0, <1>1, CursorsFrame DEF StoreClaim, process
<1>2. ASSUME NEW s \in Sandboxes, Handlers(s)
      PROVE  CursorsOK(t)'
  <2>1. CASE RunPodSandbox(s)
    <3>1. CASE t = s
      <4>1. /\ run'[s] = "none" /\ done'[s] = "nil"
            /\ claimAt'[s] = 1 /\ deviceAt'[s] = 1
          BY <1>0, <2>1, <3>1 DEF RunPodSandbox, MayRun, TypeOK, DoneTellsRun,
                      CursorsOK
      <4>2. claims'[s] \in Seq(StoredClaim)
          BY <2>1, <3>1, PluginAssumption DEF RunPodSandbox, TypeOK, Get, Store
      <4> QED
          BY <3>1, <4>1, <4>2, FreshCursors
    <3>2. CASE t # s
        BY <1>0, <2>1, <3>2, CursorsFrame DEF RunPodSandbox, TypeOK
    <3> QED
        BY <3>1, <3>2
  <2>2. CASE RegisterProcess(s)
    <3>1. CASE t = s
        BY <1>0, <2>2, <3>1 DEF RegisterProcess, TypeOK, DoneTellsRun, Busy,
                    CursorsOK, BehindCursors, Settled, OwnDevices, HasClaim
    <3>2. CASE t # s
        BY <1>0, <2>2, <3>2, CursorsFrame DEF RegisterProcess, TypeOK
    <3> QED
        BY <3>1, <3>2
  <2>3. CASE RunWithoutClaims(s) \/ RunWithoutNamespace(s) \/ StartContainer(s)
      BY <1>0, <2>3, CursorsFrame DEF RunWithoutClaims, RunWithoutNamespace,
                  StartContainer, StartUntracked, StartRefused, StartConfigured,
                  process
  <2>4. CASE RemoveUntracked(s) \/ RemovePodSandbox(s) \/ FinishRemoval(s)
      BY <1>0, <2>4, CursorsFrame DEF RemoveUntracked, RemovePodSandbox,
                  FinishRemoval, Untrack, process
  <2> QED
      BY <1>2, <2>1, <2>2, <2>3, <2>4 DEF Handlers
<1>3. ASSUME NEW s \in Sandboxes, StopPodSandbox(s)
      PROVE  CursorsOK(t)'
    BY <1>0, <1>3, CursorsFrame DEF StopPodSandbox, process
<1>4. ASSUME NEW s \in Sandboxes, Goroutine(s)
      PROVE  CursorsOK(t)'
    BY <1>0, <1>4, GoroutineFrame, GoroutineCursors
<1>5. CASE UNCHANGED vars
    BY <1>0, <1>5, CursorsFrame DEF vars, process
<1> QED
    BY <1>1, <1>2, <1>3, <1>4, <1>5 DEF Next, Quiescent

-----------------------------------------------------------------------------
LEMMA NextInductive == IInv /\ [Next]_vars => IInv'
BY NextTyped, ControlPreserved, CursorsPreserved DEF IInv, Control

(* The inductive invariant holds in every reachable state.                 *)
THEOREM Inductive == Spec => []IInv
BY InitInductive, NextInductive, PTL DEF Spec

(* A removal that waited leaves a process that has finished.               *)
THEOREM TerminationWaits == Spec => []TerminatedStaysQuiet
<1>1. ASSUME IInv, NEW s \in Sandboxes, phase[s] = "removed", waits[s]
      PROVE  run[victim[s]] \in {"closing", "exited"}
  <2>1. victim[s] \in Sandboxes /\ done[victim[s]] = "closed"
      BY <1>1 DEF IInv, TypeOK, RemovalWaited
  <2> QED
      BY <1>1, <2>1 DEF IInv, TypeOK, Busy, DoneTellsRun
<1>2. IInv => TerminatedStaysQuiet
    BY <1>1 DEF TerminatedStaysQuiet
<1> QED
    BY <1>2, Inductive, PTL

(* A finished process has configured, or logged an error for, every claim. *)
THEOREM EveryClaimHandled == Spec => []NoClaimSkipped
<1>1. IInv => NoClaimSkipped
    BY DEF IInv, TypeOK, CursorsLeaveNothing, CursorsOK, BehindCursors, HasClaim,
           NoClaimSkipped
<1> QED
    BY <1>1, Inductive, PTL

-----------------------------------------------------------------------------
(* The gate: the plugin implements SandboxGate.tla.  Every step is a step  *)
(* of the gate or leaves it as it is, under the refinement mapping of      *)
(* NriPlugin.tla.  The gate's fairness is left to TLC.                     *)

(* Steps that leave the three mapped values alone are stutters.            *)
LEMMA GateFrame ==
    ASSUME UNCHANGED <<processes, mu, run, answer, waits>>
    PROVE  UNCHANGED Gate!vars
BY DEF Gate!vars, GateTracked, GateTask, GateAdmitted, Abandoned, Busy

LEMMA GateInit == Init => Gate!Init
BY DEF Init, Gate!Init, GateTracked, GateTask, GateAdmitted, Abandoned, Busy

(* The lock is free: the map shows what the gate tracks.                   *)
LEMMA Unlocked ==
    ASSUME TypeOK, mu = None
    PROVE  GateTracked = processes
BY DEF TypeOK, GateTracked, Abandoned

(* Tracked work has an open done channel.                                  *)
LEMMA AtWorkIsOpen ==
    ASSUME IInv, NEW p \in Pods, GateTracked[p] # None
    PROVE  Gate!AtWork(p) <=> done[GateTracked[p]] = "open"
<1>1. GateTracked[p] \in Sandboxes
    BY DEF IInv, TypeOK, GateTracked
<1>2. GateTask[GateTracked[p]] = "working" <=> run[GateTracked[p]] \in Busy
    BY <1>1 DEF GateTask, Busy
<1> QED
    BY <1>1, <1>2 DEF IInv, DoneTellsRun, Gate!AtWork

LEMMA RegisterTracks ==
    ASSUME IInv, NEW s \in Sandboxes, RegisterProcess(s)
    PROVE  Gate!Track(s)
<1> USE DEF IInv, TypeOK
<1>1. GateTracked' = [GateTracked EXCEPT ![PodOf[s]] = s]
    BY DEF RegisterProcess, GateTracked, Abandoned
<1>2. GateTask[s] = "absent" /\ GateTask' = [GateTask EXCEPT ![s] = "pending"]
    BY DEF RegisterProcess, DoneTellsRun, GateTask, Busy
<1>3. UNCHANGED GateAdmitted
    BY DEF RegisterProcess, GateAdmitted
<1> QED
    BY <1>1, <1>2, <1>3 DEF Gate!Track

LEMMA StartAdmitsOrRefuses ==
    ASSUME IInv, NEW s \in Sandboxes, StartContainer(s)
    PROVE  Gate!Admit(s) \/ Gate!Refuse(s)
<1> USE PluginAssumption DEF IInv, TypeOK
<1> DEFINE p == PodOf[s]
<1>1. /\ p \in Pods /\ phase[s] = "ready" /\ mu = None /\ mu' = None
      /\ run' = run
    BY DEF StartContainer, StartUntracked, StartRefused, StartConfigured, process
<1>2. GateTracked = processes /\ UNCHANGED GateTask
    BY <1>1, Unlocked DEF GateTask
<1>3. GateTracked' = processes'
    BY <1>1 DEF StartContainer, StartUntracked, StartRefused, StartConfigured,
                GateTracked, Abandoned
<1>4. CASE StartUntracked(s)
  <2>1. ~Gate!AtWork(p)
      BY <1>2, <1>4 DEF StartUntracked, Gate!AtWork
  <2>2. GateTracked' = [GateTracked EXCEPT ![p] = None]
      BY <1>1, <1>2, <1>3, <1>4 DEF StartUntracked
  <2>3. GateAdmitted' = GateAdmitted \cup {s}
      BY <1>4 DEF StartUntracked, GateAdmitted
  <2> QED
      BY <1>2, <2>1, <2>2, <2>3 DEF Gate!Admit
<1>5. CASE StartRefused(s)
  <2>1. Gate!AtWork(p)
      BY <1>1, <1>2, <1>5, AtWorkIsOpen DEF StartRefused, IsDone
  <2>2. UNCHANGED GateTracked
      BY <1>2, <1>3, <1>5 DEF StartRefused
  <2>3. GateAdmitted' = GateAdmitted \ {s}
      BY <1>5 DEF StartRefused, GateAdmitted
  <2> QED
      BY <1>2, <2>1, <2>2, <2>3 DEF Gate!Refuse
<1>6. CASE StartConfigured(s)
  <2>1. ~Gate!AtWork(p)
      BY <1>1, <1>2, <1>6, AtWorkIsOpen DEF StartConfigured, IsDone
  <2>2. GateTracked' = [GateTracked EXCEPT ![p] = None]
      BY <1>2, <1>3, <1>6 DEF StartConfigured
  <2>3. GateAdmitted' = GateAdmitted \cup {s}
      BY <1>6 DEF StartConfigured, GateAdmitted
  <2> QED
      BY <1>2, <2>1, <2>2, <2>3 DEF Gate!Admit
<1> QED
    BY <1>4, <1>5, <1>6 DEF StartContainer

(* A removal stops tracking the pod when it reads that there is nothing to *)
(* wait for, and otherwise when the wait is over.                          *)
LEMMA RemovalRemoves ==
    ASSUME IInv, NEW s \in Sandboxes, RemovePodSandbox(s) \/ FinishRemoval(s)
    PROVE  Gate!Remove(PodOf[s]) \/ UNCHANGED Gate!vars
<1> USE PluginAssumption DEF IInv, TypeOK
<1> DEFINE p == PodOf[s]
<1>0. p \in Pods
    OBVIOUS
<1>1. UNCHANGED <<GateTask, GateAdmitted>>
    BY DEF RemovePodSandbox, FinishRemoval, Untrack, process, GateTask,
           GateAdmitted
<1>2. CASE RemovePodSandbox(s)
  <2>1. /\ GateTracked = processes /\ GateTracked[p] # None
        /\ mu' = s /\ processes' = processes
        /\ waits'[s] <=> done[GateTracked[p]] # "nil"
      BY <1>2, Unlocked DEF RemovePodSandbox
  <2>2. CASE waits'[s]
    <3>1. UNCHANGED GateTracked
        BY <2>1, <2>2 DEF GateTracked, Abandoned
    <3> QED
        BY <1>1, <3>1 DEF Gate!vars
  <2>3. CASE ~waits'[s]
    <3>1. ~Gate!AtWork(p)
        BY <1>0, <2>1, <2>3, AtWorkIsOpen
    <3>2. GateTracked' = [GateTracked EXCEPT ![p] = None]
        BY <2>1, <2>3 DEF GateTracked, Abandoned
    <3> QED
        BY <1>1, <3>1, <3>2 DEF Gate!Remove
  <2> QED
      BY <2>2, <2>3
<1>3. CASE FinishRemoval(s)
  <2>1. /\ mu = s /\ mu' = None /\ processes' = [processes EXCEPT ![p] = None]
        /\ victim[s] = processes[p] /\ victim[s] # None
      BY <1>3 DEF FinishRemoval, Untrack, LockedByRemoval
  <2>2. GateTracked' = processes'
      BY <2>1 DEF GateTracked, Abandoned
  <2>3. CASE waits[s]
    <3>1. GateTracked = processes
        BY <2>1, <2>3 DEF GateTracked, Abandoned
    <3>2. ~Gate!AtWork(p)
        BY <1>0, <1>3, <2>1, <2>3, <3>1, AtWorkIsOpen DEF FinishRemoval
    <3> QED
        BY <1>1, <2>1, <2>2, <3>1, <3>2 DEF Gate!Remove
  <2>4. CASE ~waits[s]
    <3>1. UNCHANGED GateTracked
        BY <2>1, <2>2, <2>4 DEF GateTracked, Abandoned
    <3> QED
        BY <1>1, <3>1 DEF Gate!vars
  <2> QED
      BY <2>3, <2>4
<1> QED
    BY <1>2, <1>3

LEMMA GoroutineWorks ==
    ASSUME IInv, NEW s \in Sandboxes, Goroutine(s)
    PROVE  Gate!Begin(s) \/ Gate!Finish(s) \/ UNCHANGED Gate!vars
<1> USE DEF IInv, TypeOK
<1>1. UNCHANGED <<GateTracked, GateAdmitted>>
    BY DEF Goroutine, BeginRun, SkipForeignDevice, RejectDevice, Configure,
           ConfigureSucceeds, ConfigureFails, NextClaim, CloseDone, ExitRun,
           removal, GateTracked, GateAdmitted, Abandoned
<1>2. CASE BeginRun(s)
  <2>1. GateTask[s] = "pending" /\ GateTask' = [GateTask EXCEPT ![s] = "working"]
      BY <1>2 DEF BeginRun, GateTask, Busy
  <2> QED
      BY <1>1, <2>1 DEF Gate!Begin
<1>3. CASE CloseDone(s)
  <2>1. GateTask[s] = "working" /\ GateTask' = [GateTask EXCEPT ![s] = "finished"]
      BY <1>3 DEF CloseDone, GateTask, Busy
  <2> QED
      BY <1>1, <2>1 DEF Gate!Finish
<1>4. CASE SkipForeignDevice(s) \/ RejectDevice(s) \/ NextClaim(s)
  <2>1. UNCHANGED GateTask
      BY <1>4 DEF SkipForeignDevice, RejectDevice, NextClaim, GateTask
  <2> QED
      BY <1>1, <2>1 DEF Gate!vars
<1>5. CASE Configure(s) \/ ConfigureSucceeds(s) \/ ConfigureFails(s) \/ ExitRun(s)
  <2>1. UNCHANGED GateTask
      BY <1>5 DEF Configure, ConfigureSucceeds, ConfigureFails, ExitRun,
                  GateTask, Busy
  <2> QED
      BY <1>1, <2>1 DEF Gate!vars
<1> QED
    BY <1>2, <1>3, <1>4, <1>5 DEF Goroutine

LEMMA StepRefined == IInv /\ [Next]_vars => [Gate!Next]_Gate!vars
<1> SUFFICES ASSUME IInv, [Next]_vars PROVE [Gate!Next]_Gate!vars
    OBVIOUS
<1>1. ASSUME NEW entry \in ClaimPool, StoreClaim(entry[1], entry[2])
      PROVE  UNCHANGED Gate!vars
    BY <1>1, GateFrame DEF StoreClaim, process, removal
<1>2. ASSUME NEW s \in Sandboxes, Handlers(s)
      PROVE  [Gate!Next]_Gate!vars
  <2>1. CASE RunWithoutClaims(s) \/ RunWithoutNamespace(s) \/ RunPodSandbox(s)
                \/ RemoveUntracked(s)
      BY <2>1, GateFrame DEF RunWithoutClaims, RunWithoutNamespace,
                  RunPodSandbox, RemoveUntracked, process, removal
  <2>2. CASE RegisterProcess(s)
      BY <2>2, RegisterTracks DEF Gate!Next
  <2>3. CASE StartContainer(s)
      BY <2>3, StartAdmitsOrRefuses DEF Gate!Next
  <2>4. CASE RemovePodSandbox(s) \/ FinishRemoval(s)
      BY <2>4, RemovalRemoves, PluginAssumption DEF Gate!Next
  <2> QED
      BY <1>2, <2>1, <2>2, <2>3, <2>4 DEF Handlers
<1>3. ASSUME NEW s \in Sandboxes, StopPodSandbox(s)
      PROVE  UNCHANGED Gate!vars
    BY <1>3, GateFrame DEF StopPodSandbox, process, removal
<1>4. ASSUME NEW s \in Sandboxes, Goroutine(s)
      PROVE  [Gate!Next]_Gate!vars
    BY <1>4, GoroutineWorks DEF Gate!Next
<1>5. CASE UNCHANGED vars
    BY <1>5, GateFrame DEF vars, process, removal
<1> QED
    BY <1>1, <1>2, <1>3, <1>4, <1>5 DEF Next, Quiescent

(* The plugin is a gate: it stops tracking a pod, and lets a container of  *)
(* it start, only when the tracked process is not at work.                 *)
THEOREM GateImplemented == Spec => Gate!SafeSpec
BY Inductive, GateInit, StepRefined, PTL DEF Spec, Gate!SafeSpec
=============================================================================
