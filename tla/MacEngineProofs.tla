--------------------------- MODULE MacEngineProofs ---------------------------
(***************************************************************************)
(* Proofs about MacEngine: for any number of tasks, profiles and runs of   *)
(* the application, and whatever the system and its user do.               *)
(***************************************************************************)
EXTENDS MacEngine, TLAPS

OlcOwned == olcrtc => flag /\ loaded \in OlcProfiles

IInv == TypeOK /\ LockDiscipline /\ TunnelOwned /\ OlcOwned

USE DEF StartPcs, StopPcs, Pcs, Inside, Active
USE DEF statusVars, engineVars, taskVars, tunnelVars, systemVars

\* The states in which the application starts satisfy the invariant.
LEMMA InitIInv == Init => IInv
<1> SUFFICES ASSUME Init PROVE IInv
    OBVIOUS
<1> QED
    BY MacConstants DEF Init, IInv, TypeOK, LockDiscipline, TunnelOwned, OlcOwned

-----------------------------------------------------------------------------
(* The steps of connect.                                                   *)

\* Connect preserves the invariant.
LEMMA ConnectStep ==
    ASSUME IInv, NEW t \in Tasks, NEW p \in Profiles, Connect(t, p)
    PROVE  IInv'
<1> USE DEF Connect, Goto
<1>1. TypeOK'
    BY MacConstants DEF IInv, TypeOK, LockDiscipline
<1>2. LockDiscipline'
    BY MacConstants DEF IInv, TypeOK, LockDiscipline, OlcOwned
<1>3. TunnelOwned'
    BY MacConstants DEF IInv, TypeOK, LockDiscipline, TunnelOwned
<1>4. OlcOwned'
    BY MacConstants DEF IInv, TypeOK, LockDiscipline, OlcOwned
<1> QED
    BY <1>1, <1>2, <1>3, <1>4 DEF IInv

\* StartLock preserves the invariant.
LEMMA StartLockStep ==
    ASSUME IInv, NEW t \in Tasks, StartLock(t)
    PROVE  IInv'
<1> USE DEF StartLock, StartFails, Goto
<1>1. TypeOK'
  <2>1. runtime' \in [Tasks -> BOOLEAN]
      BY DEF IInv, TypeOK
  <2>2. pc' \in [Tasks -> Pcs] /\ arg' \in [Tasks -> Profiles \cup {NoProfile}]
      BY MacConstants DEF IInv, TypeOK
  <2>3. /\ flag' \in BOOLEAN /\ olcrtc' \in BOOLEAN /\ stats' \in BOOLEAN
        /\ installed' \in BOOLEAN /\ late' \in BOOLEAN /\ stray' \in BOOLEAN
      BY DEF IInv, TypeOK
  <2> QED
      BY <2>1, <2>2, <2>3, MacConstants DEF IInv, TypeOK
<1>2. LockDiscipline'
    BY MacConstants DEF IInv, TypeOK, LockDiscipline, OlcOwned
<1>3. TunnelOwned'
    BY MacConstants DEF IInv, TypeOK, LockDiscipline, TunnelOwned
<1>4. OlcOwned'
    BY MacConstants DEF IInv, TypeOK, LockDiscipline, OlcOwned
<1> QED
    BY <1>1, <1>2, <1>3, <1>4 DEF IInv

\* Prepare preserves the invariant.
LEMMA PrepareStep ==
    ASSUME IInv, NEW t \in Tasks, Prepare(t)
    PROVE  IInv'
<1> USE DEF Prepare, StartFails, Goto, SaveOk, SaveFails
<1>1. TypeOK'
  <2>1. runtime' \in [Tasks -> BOOLEAN]
      BY DEF IInv, TypeOK
  <2>2. pc' \in [Tasks -> Pcs] /\ arg' \in [Tasks -> Profiles \cup {NoProfile}]
      BY MacConstants DEF IInv, TypeOK
  <2>3. /\ flag' \in BOOLEAN /\ olcrtc' \in BOOLEAN /\ stats' \in BOOLEAN
        /\ installed' \in BOOLEAN /\ late' \in BOOLEAN /\ stray' \in BOOLEAN
      BY DEF IInv, TypeOK
  <2> QED
      BY <2>1, <2>2, <2>3, MacConstants DEF IInv, TypeOK
<1>2. LockDiscipline'
  <2>1. CASE StartFails(t)
      BY <2>1, MacConstants DEF IInv, TypeOK, LockDiscipline, OlcOwned
  <2>2. CASE pc' = [pc EXCEPT ![t] = "clean"]
      BY <2>2, MacConstants DEF IInv, TypeOK, LockDiscipline, OlcOwned
  <2> QED
      BY <2>1, <2>2
<1>3. TunnelOwned'
    BY MacConstants DEF IInv, TypeOK, LockDiscipline, TunnelOwned
<1>4. OlcOwned'
    BY MacConstants DEF IInv, TypeOK, LockDiscipline, OlcOwned
<1> QED
    BY <1>1, <1>2, <1>3, <1>4 DEF IInv

\* CleanBeforeStart preserves the invariant.
LEMMA CleanBeforeStartStep ==
    ASSUME IInv, NEW t \in Tasks, CleanBeforeStart(t)
    PROVE  IInv'
<1> USE DEF CleanBeforeStart, StartFails, Goto
<1>1. TypeOK'
  <2>1. runtime' \in [Tasks -> BOOLEAN]
      BY DEF IInv, TypeOK
  <2>2. pc' \in [Tasks -> Pcs] /\ arg' \in [Tasks -> Profiles \cup {NoProfile}]
      BY MacConstants DEF IInv, TypeOK
  <2>3. /\ flag' \in BOOLEAN /\ olcrtc' \in BOOLEAN /\ stats' \in BOOLEAN
        /\ installed' \in BOOLEAN /\ late' \in BOOLEAN /\ stray' \in BOOLEAN
      BY DEF IInv, TypeOK
  <2> QED
      BY <2>1, <2>2, <2>3, MacConstants DEF IInv, TypeOK
<1>2. LockDiscipline'
    BY MacConstants DEF IInv, TypeOK, LockDiscipline, OlcOwned
<1>3. TunnelOwned'
    BY MacConstants DEF IInv, TypeOK, LockDiscipline, TunnelOwned
<1>4. OlcOwned'
    BY MacConstants DEF IInv, TypeOK, LockDiscipline, OlcOwned
<1> QED
    BY <1>1, <1>2, <1>3, <1>4 DEF IInv

\* StartOlc preserves the invariant.
LEMMA StartOlcStep ==
    ASSUME IInv, NEW t \in Tasks, StartOlc(t)
    PROVE  IInv'
<1> USE DEF StartOlc, StartFails, Goto
<1>1. TypeOK'
  <2>1. runtime' \in [Tasks -> BOOLEAN]
      BY DEF IInv, TypeOK
  <2>2. pc' \in [Tasks -> Pcs] /\ arg' \in [Tasks -> Profiles \cup {NoProfile}]
      BY MacConstants DEF IInv, TypeOK
  <2>3. /\ flag' \in BOOLEAN /\ olcrtc' \in BOOLEAN /\ stats' \in BOOLEAN
        /\ installed' \in BOOLEAN /\ late' \in BOOLEAN /\ stray' \in BOOLEAN
      BY DEF IInv, TypeOK
  <2> QED
      BY <2>1, <2>2, <2>3, MacConstants DEF IInv, TypeOK
<1>2. LockDiscipline'
    BY MacConstants DEF IInv, TypeOK, LockDiscipline, OlcOwned
<1>3. TunnelOwned'
    BY MacConstants DEF IInv, TypeOK, LockDiscipline, TunnelOwned
<1>4. OlcOwned'
    BY MacConstants DEF IInv, TypeOK, LockDiscipline, OlcOwned
<1> QED
    BY <1>1, <1>2, <1>3, <1>4 DEF IInv

\* SaveProfile preserves the invariant.
LEMMA SaveProfileStep ==
    ASSUME IInv, NEW t \in Tasks, SaveProfile(t)
    PROVE  IInv'
<1> USE DEF SaveProfile, StartFails, Goto, SaveOk, SaveFails
<1>1. TypeOK'
  <2>1. runtime' \in [Tasks -> BOOLEAN]
      BY DEF IInv, TypeOK
  <2>2. pc' \in [Tasks -> Pcs] /\ arg' \in [Tasks -> Profiles \cup {NoProfile}]
      BY MacConstants DEF IInv, TypeOK
  <2>3. /\ flag' \in BOOLEAN /\ olcrtc' \in BOOLEAN /\ stats' \in BOOLEAN
        /\ installed' \in BOOLEAN /\ late' \in BOOLEAN /\ stray' \in BOOLEAN
      BY DEF IInv, TypeOK
  <2> QED
      BY <2>1, <2>2, <2>3, MacConstants DEF IInv, TypeOK
<1>2. LockDiscipline'
  <2>1. UNCHANGED <<slock, flag, olcrtc, arg>> /\ pc[t] = "save" /\ Inside(t) /\ lock = t
      BY DEF IInv, LockDiscipline
  <2>2. CASE StartFails(t)
    <3>1. pc' = [pc EXCEPT ![t] = "failed"] /\ runtime' = [runtime EXCEPT ![t] = FALSE] /\ lock' = NoTask
        BY <2>2
    <3> QED
        BY <2>1, <3>1, MacConstants DEF IInv, TypeOK, LockDiscipline
  <2>3. CASE ~StartFails(t)
    <3>1. pc' = [pc EXCEPT ![t] = "start"] /\ runtime' = runtime /\ lock' = lock
        BY <2>3
    <3> QED
        BY <2>1, <3>1 DEF IInv, TypeOK, LockDiscipline
  <2> QED
      BY <2>2, <2>3
<1>3. TunnelOwned'
    BY MacConstants DEF IInv, TypeOK, LockDiscipline, TunnelOwned
<1>4. OlcOwned'
    BY MacConstants DEF IInv, TypeOK, LockDiscipline, OlcOwned
<1> QED
    BY <1>1, <1>2, <1>3, <1>4 DEF IInv

\* StartVpnProfile preserves the invariant.
LEMMA StartVpnProfileStep ==
    ASSUME IInv, NEW t \in Tasks, StartVpnProfile(t)
    PROVE  IInv'
<1> USE DEF StartVpnProfile, StartFails, Goto, StartTunnel, TunnelBecomes
<1>1. TypeOK'
  <2>1. runtime' \in [Tasks -> BOOLEAN]
      BY DEF IInv, TypeOK
  <2>2. pc' \in [Tasks -> Pcs] /\ arg' \in [Tasks -> Profiles \cup {NoProfile}]
      BY MacConstants DEF IInv, TypeOK
  <2>3. /\ flag' \in BOOLEAN /\ olcrtc' \in BOOLEAN /\ stats' \in BOOLEAN
        /\ installed' \in BOOLEAN /\ late' \in BOOLEAN /\ stray' \in BOOLEAN
      BY DEF IInv, TypeOK
  <2> QED
      BY <2>1, <2>2, <2>3, MacConstants DEF IInv, TypeOK
<1>2. LockDiscipline'
    BY MacConstants DEF IInv, TypeOK, LockDiscipline, OlcOwned
<1>3. TunnelOwned'
    BY MacConstants DEF IInv, TypeOK, LockDiscipline, TunnelOwned
<1>4. OlcOwned'
    BY MacConstants DEF IInv, TypeOK, LockDiscipline, OlcOwned
<1> QED
    BY <1>1, <1>2, <1>3, <1>4 DEF IInv

\* StartSucceeds preserves the invariant.
LEMMA StartSucceedsStep ==
    ASSUME IInv, NEW t \in Tasks, StartSucceeds(t)
    PROVE  IInv'
<1> USE DEF StartSucceeds, Goto
<1>1. TypeOK'
    BY MacConstants DEF IInv, TypeOK, LockDiscipline
<1>2. LockDiscipline'
    BY MacConstants DEF IInv, TypeOK, LockDiscipline, OlcOwned
<1>3. TunnelOwned'
    BY MacConstants DEF IInv, TypeOK, LockDiscipline, TunnelOwned
<1>4. OlcOwned'
    BY MacConstants DEF IInv, TypeOK, LockDiscipline, OlcOwned
<1> QED
    BY <1>1, <1>2, <1>3, <1>4 DEF IInv

\* WaitTimesOut preserves the invariant.
LEMMA WaitTimesOutStep ==
    ASSUME IInv, NEW t \in Tasks, WaitTimesOut(t)
    PROVE  IInv'
<1> USE DEF WaitTimesOut, Goto
<1>1. TypeOK'
    BY MacConstants DEF IInv, TypeOK, LockDiscipline
<1>2. LockDiscipline'
    BY MacConstants DEF IInv, TypeOK, LockDiscipline, OlcOwned
<1>3. TunnelOwned'
    BY MacConstants DEF IInv, TypeOK, LockDiscipline, TunnelOwned
<1>4. OlcOwned'
    BY MacConstants DEF IInv, TypeOK, LockDiscipline, OlcOwned
<1> QED
    BY <1>1, <1>2, <1>3, <1>4 DEF IInv

\* Rollback preserves the invariant.
LEMMA RollbackStep ==
    ASSUME IInv, NEW t \in Tasks, Rollback(t)
    PROVE  IInv'
<1> USE DEF Rollback, StartFails, Goto, StopTunnel, TunnelBecomes
<1>1. TypeOK'
  <2>1. runtime' \in [Tasks -> BOOLEAN]
      BY DEF IInv, TypeOK
  <2>2. pc' \in [Tasks -> Pcs] /\ arg' \in [Tasks -> Profiles \cup {NoProfile}]
      BY MacConstants DEF IInv, TypeOK
  <2>3. stray' \in BOOLEAN
    <3>1. (tunnel \in Active) \in BOOLEAN
        OBVIOUS
    <3> QED
        BY <3>1 DEF IInv, TypeOK
  <2>4. /\ flag' \in BOOLEAN /\ olcrtc' \in BOOLEAN /\ stats' \in BOOLEAN
        /\ installed' \in BOOLEAN /\ late' \in BOOLEAN
      BY DEF IInv, TypeOK
  <2> QED
      BY <2>1, <2>2, <2>3, <2>4, MacConstants DEF IInv, TypeOK
<1>2. LockDiscipline'
    BY MacConstants DEF IInv, TypeOK, LockDiscipline, OlcOwned
<1>3. TunnelOwned'
    BY MacConstants DEF IInv, TypeOK, LockDiscipline, TunnelOwned
<1>4. OlcOwned'
    BY MacConstants DEF IInv, TypeOK, LockDiscipline, OlcOwned
<1> QED
    BY <1>1, <1>2, <1>3, <1>4 DEF IInv

\* TaskEnds preserves the invariant.
LEMMA TaskEndsStep ==
    ASSUME IInv, NEW t \in Tasks, TaskEnds(t)
    PROVE  IInv'
<1> USE DEF TaskEnds, ConnectEnds, DisconnectEnds, Return, Goto
<1>1. TypeOK'
    BY MacConstants DEF IInv, TypeOK, LockDiscipline
<1>2. LockDiscipline'
    BY MacConstants DEF IInv, TypeOK, LockDiscipline, OlcOwned
<1>3. TunnelOwned'
    BY MacConstants DEF IInv, TypeOK, LockDiscipline, TunnelOwned
<1>4. OlcOwned'
    BY MacConstants DEF IInv, TypeOK, LockDiscipline, OlcOwned
<1> QED
    BY <1>1, <1>2, <1>3, <1>4 DEF IInv

-----------------------------------------------------------------------------
(* The steps of disconnect.                                                *)

\* Disconnect preserves the invariant.
LEMMA DisconnectStep ==
    ASSUME IInv, NEW t \in Tasks, Disconnect(t)
    PROVE  IInv'
<1> USE DEF Disconnect, Goto
<1>1. TypeOK'
    BY MacConstants DEF IInv, TypeOK, LockDiscipline
<1>2. LockDiscipline'
    BY MacConstants DEF IInv, TypeOK, LockDiscipline, OlcOwned
<1>3. TunnelOwned'
    BY MacConstants DEF IInv, TypeOK, LockDiscipline, TunnelOwned
<1>4. OlcOwned'
    BY MacConstants DEF IInv, TypeOK, LockDiscipline, OlcOwned
<1> QED
    BY <1>1, <1>2, <1>3, <1>4 DEF IInv

\* StopLock preserves the invariant.
LEMMA StopLockStep ==
    ASSUME IInv, NEW t \in Tasks, StopLock(t)
    PROVE  IInv'
<1> USE DEF StopLock, Goto
<1>1. TypeOK'
  <2>1. runtime' \in [Tasks -> BOOLEAN]
      BY DEF IInv, TypeOK
  <2>2. pc' \in [Tasks -> Pcs] /\ arg' \in [Tasks -> Profiles \cup {NoProfile}]
      BY MacConstants DEF IInv, TypeOK
  <2>3. /\ flag' \in BOOLEAN /\ olcrtc' \in BOOLEAN /\ stats' \in BOOLEAN
        /\ installed' \in BOOLEAN /\ late' \in BOOLEAN /\ stray' \in BOOLEAN
      BY DEF IInv, TypeOK
  <2> QED
      BY <2>1, <2>2, <2>3, MacConstants DEF IInv, TypeOK
<1>2. LockDiscipline'
    BY MacConstants DEF IInv, TypeOK, LockDiscipline, OlcOwned
<1>3. TunnelOwned'
    BY MacConstants DEF IInv, TypeOK, LockDiscipline, TunnelOwned
<1>4. OlcOwned'
    BY MacConstants DEF IInv, TypeOK, LockDiscipline, OlcOwned
<1> QED
    BY <1>1, <1>2, <1>3, <1>4 DEF IInv

\* StopVpnProfile preserves the invariant.
LEMMA StopVpnProfileStep ==
    ASSUME IInv, NEW t \in Tasks, StopVpnProfile(t)
    PROVE  IInv'
<1> USE DEF StopVpnProfile, Return, Goto, StopTunnel, TunnelBecomes
<1>1. TypeOK'
  <2>1. runtime' \in [Tasks -> BOOLEAN]
      BY DEF IInv, TypeOK
  <2>2. pc' \in [Tasks -> Pcs] /\ arg' \in [Tasks -> Profiles \cup {NoProfile}]
      BY MacConstants DEF IInv, TypeOK
  <2>3. /\ flag' \in BOOLEAN /\ olcrtc' \in BOOLEAN /\ stats' \in BOOLEAN
        /\ installed' \in BOOLEAN /\ late' \in BOOLEAN /\ stray' \in BOOLEAN
      BY DEF IInv, TypeOK
  <2> QED
      BY <2>1, <2>2, <2>3, MacConstants DEF IInv, TypeOK
<1>2. LockDiscipline'
    BY MacConstants DEF IInv, TypeOK, LockDiscipline, OlcOwned
<1>3. TunnelOwned'
    BY MacConstants DEF IInv, TypeOK, LockDiscipline, TunnelOwned
<1>4. OlcOwned'
    BY MacConstants DEF IInv, TypeOK, LockDiscipline, OlcOwned
<1> QED
    BY <1>1, <1>2, <1>3, <1>4 DEF IInv

\* CleanAfterStop preserves the invariant.
LEMMA CleanAfterStopStep ==
    ASSUME IInv, NEW t \in Tasks, CleanAfterStop(t)
    PROVE  IInv'
<1> USE DEF CleanAfterStop, Return, Goto
<1>1. TypeOK'
    BY MacConstants DEF IInv, TypeOK, LockDiscipline
<1>2. LockDiscipline'
    BY MacConstants DEF IInv, TypeOK, LockDiscipline, OlcOwned
<1>3. TunnelOwned'
    BY MacConstants DEF IInv, TypeOK, LockDiscipline, TunnelOwned
<1>4. OlcOwned'
    BY MacConstants DEF IInv, TypeOK, LockDiscipline, OlcOwned
<1> QED
    BY <1>1, <1>2, <1>3, <1>4 DEF IInv

-----------------------------------------------------------------------------
(* The steps of status.                                                    *)

\* Status preserves the invariant.
LEMMA StatusBegins ==
    ASSUME IInv, NEW t \in Tasks, Status(t)
    PROVE  IInv'
<1> USE DEF Status, Goto
<1>1. TypeOK'
    BY MacConstants DEF IInv, TypeOK, LockDiscipline
<1>2. LockDiscipline'
    BY MacConstants DEF IInv, TypeOK, LockDiscipline, OlcOwned
<1>3. TunnelOwned'
    BY MacConstants DEF IInv, TypeOK, LockDiscipline, TunnelOwned
<1>4. OlcOwned'
    BY MacConstants DEF IInv, TypeOK, LockDiscipline, OlcOwned
<1> QED
    BY <1>1, <1>2, <1>3, <1>4 DEF IInv

\* StatusStep preserves the invariant.
LEMMA StatusStepStep ==
    ASSUME IInv, NEW t \in Tasks, StatusStep(t)
    PROVE  IInv'
<1> USE DEF StatusStep, StatusAnswered, StatusFails, Reconciled, Return, Goto
<1>1. TypeOK'
    BY MacConstants DEF IInv, TypeOK, LockDiscipline
<1>2. LockDiscipline'
    BY MacConstants DEF IInv, TypeOK, LockDiscipline, OlcOwned
<1>3. TunnelOwned'
    BY MacConstants DEF IInv, TypeOK, LockDiscipline, TunnelOwned
<1>4. OlcOwned'
    BY MacConstants DEF IInv, TypeOK, LockDiscipline, OlcOwned
<1> QED
    BY <1>1, <1>2, <1>3, <1>4 DEF IInv

-----------------------------------------------------------------------------
(* The system, its user and the application.                               *)

\* What the system or its user does to the tunnel preserves the invariant.
LEMMA SystemStepStep ==
    ASSUME IInv, SystemStep
    PROVE  IInv'
<1> USE DEF SystemStep, TunnelChanges, UserStarts, UserRemovesProfile, LateSave,
        TunnelBecomes, SystemOnly
<1>1. TypeOK'
  <2>1. runtime' \in [Tasks -> BOOLEAN]
      BY DEF IInv, TypeOK
  <2>2. pc' \in [Tasks -> Pcs] /\ arg' \in [Tasks -> Profiles \cup {NoProfile}]
      BY MacConstants DEF IInv, TypeOK
  <2>3. /\ flag' \in BOOLEAN /\ olcrtc' \in BOOLEAN /\ stats' \in BOOLEAN
        /\ installed' \in BOOLEAN /\ late' \in BOOLEAN /\ stray' \in BOOLEAN
      BY DEF IInv, TypeOK
  <2> QED
      BY <2>1, <2>2, <2>3, MacConstants DEF IInv, TypeOK
<1>2. LockDiscipline' /\ OlcOwned'
    BY MacConstants DEF IInv, LockDiscipline, OlcOwned
<1>3. TunnelOwned'
    BY MacConstants DEF IInv, TypeOK, TunnelOwned
<1> QED
    BY <1>1, <1>2, <1>3 DEF IInv

\* So does the end of the application and its next start.
LEMMA AppRestartsStep ==
    ASSUME IInv, AppRestarts
    PROVE  IInv'
<1> USE DEF AppRestarts
<1>1. TypeOK'
  <2>1. runtime' \in [Tasks -> BOOLEAN]
      BY DEF IInv, TypeOK
  <2>2. pc' \in [Tasks -> Pcs] /\ arg' \in [Tasks -> Profiles \cup {NoProfile}]
      BY MacConstants DEF IInv, TypeOK
  <2>3. stray' \in BOOLEAN
    <3>1. (tunnel \in Active) \in BOOLEAN
        OBVIOUS
    <3> QED
        BY <3>1 DEF IInv, TypeOK
  <2>4. /\ flag' \in BOOLEAN /\ olcrtc' \in BOOLEAN /\ stats' \in BOOLEAN
        /\ installed' \in BOOLEAN /\ late' \in BOOLEAN
      BY DEF IInv, TypeOK
  <2> QED
      BY <2>1, <2>2, <2>3, <2>4, MacConstants DEF IInv, TypeOK
<1>2. LockDiscipline' /\ OlcOwned'
    BY MacConstants DEF IInv, LockDiscipline, OlcOwned
<1>3. TunnelOwned'
    BY MacConstants DEF IInv, TypeOK, TunnelOwned
<1> QED
    BY <1>1, <1>2, <1>3 DEF IInv

\* Every step preserves the invariant.
LEMMA NextIInv == IInv /\ [Next]_vars => IInv'
<1> SUFFICES ASSUME IInv, [Next]_vars PROVE IInv'
    OBVIOUS
<1>1. CASE UNCHANGED vars
    BY <1>1 DEF vars, IInv, TypeOK, LockDiscipline, TunnelOwned, OlcOwned
<1>2. CASE SystemStep \/ AppRestarts
    BY <1>2, SystemStepStep, AppRestartsStep
<1>3. ASSUME NEW t \in Tasks, Command(t)
      PROVE  IInv'
    BY <1>1, <1>3, ConnectStep, DisconnectStep, StatusBegins DEF Command, ConnectRejected
<1>4. ASSUME NEW t \in Tasks, StartStep(t)
      PROVE  IInv'
    BY <1>4, StartLockStep, PrepareStep, CleanBeforeStartStep, StartOlcStep,
        SaveProfileStep, StartVpnProfileStep, StartSucceedsStep, WaitTimesOutStep,
        RollbackStep DEF StartStep
<1>5. ASSUME NEW t \in Tasks, StopStep(t) \/ TaskEnds(t) \/ StatusStep(t)
      PROVE  IInv'
    BY <1>5, StopLockStep, StopVpnProfileStep, CleanAfterStopStep, TaskEndsStep,
        StatusStepStep DEF StopStep
<1> QED
    BY <1>1, <1>2, <1>3, <1>4, <1>5 DEF Next

\* The invariant holds throughout.
LEMMA SpecIInv == Spec => []IInv
BY InitIInv, NextIInv, PTL DEF Spec

\* The engine's variables and the tunnel's keep their types.
THEOREM MacTypeOK == Spec => []TypeOK
<1>1. IInv => TypeOK
    BY DEF IInv
<1> QED
    BY <1>1, SpecIInv, PTL

\* Between commands, a tunnel that is up is one the engine will stop, or one it
\* has no part in: connect, disconnect and their failures leave none behind.
THEOREM MacNoTunnelLeft == Spec => []NoTunnelLeft
<1>1. IInv => NoTunnelLeft
    BY MacConstants DEF IInv, TypeOK, LockDiscipline, TunnelOwned, NoTunnelLeft
<1> QED
    BY <1>1, SpecIInv, PTL

\* The engine's tunnel runs the profile that was connected last.
THEOREM MacTunnelRunsProfile == Spec => []TunnelRunsProfile
<1>1. IInv => TunnelRunsProfile
    BY MacConstants DEF IInv, TypeOK, LockDiscipline, TunnelOwned, TunnelRunsProfile
<1> QED
    BY <1>1, SpecIInv, PTL

\* An OLC RTC client is kept only beside a connected engine that needs it.
THEOREM MacOlcHasTunnel == Spec => []OlcHasTunnel
<1>1. IInv => OlcHasTunnel
    BY DEF IInv, OlcOwned, OlcHasTunnel
<1> QED
    BY <1>1, SpecIInv, PTL
=============================================================================
