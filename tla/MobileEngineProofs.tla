-------------------------- MODULE MobileEngineProofs --------------------------
(***************************************************************************)
(* Proofs about MobileEngine, for any number of tasks and profiles, any    *)
(* number of commands and restarts, and any length of the native queue.    *)
(***************************************************************************)
EXTENDS MobileEngine, SequenceTheorems, TLAPS

\* The places inside status.
Inside == {"query", "answered", "reconcile"}

\* A connect that may still ask the native side for a tunnel has its profile.
ArgInv == \A t \in Tasks : pc[t] \in {"guard", "invoke"} => arg[t] \in Profiles

MInv == TypeOK /\ ArgInv

\* From its first look at the status to its end nobody else changes the phase
\* under a running status: the native side may take its time to answer
\* (commands.rs:74), and what is reconciled with the answer is not out of date.
StatusAtomic ==
    [][\A t \in Tasks : pc[t] \in Inside /\ phase' # phase => StatusEnds(t) \/ AppRestarts]_vars

-----------------------------------------------------------------------------
(* Types.                                                                  *)

Places == {"idle", "guard", "invoke", "wait", "seen", "ok", "failed", "stop", "invokeStop",
           "stopped", "default", "query", "answered", "reconcile"}

\* The variables of the engine have their types.
EngineTypes ==
    /\ phase \in {"Disconnected", "Connecting", "Connected", "Disconnecting", "Failed"}
    /\ lock \in Tasks \cup {NoTask} /\ connected \in BOOLEAN
    /\ pc \in [Tasks -> Places] /\ arg \in [Tasks -> MaybeProfile] /\ answer \in [Tasks -> BOOLEAN]
    /\ commands \in 0..CommandLimit /\ restarts \in 0..RestartLimit

\* So have those of the native side.
NativeTypes ==
    /\ queue \in Seq(MaybeProfile) /\ Len(queue) <= QueueLimit
    /\ wanted \in MaybeProfile /\ kept \in MaybeProfile
    /\ busy \in BOOLEAN /\ tun \in BOOLEAN

\* The Mutex around the status is held by the task inside status.
LockHeld == \A t \in Tasks : lock = t <=> pc[t] \in Inside

\* The parts of TypeOK.
LEMMA Parts ==
    /\ TypeOK <=> EngineTypes /\ NativeTypes /\ LockHeld
    /\ TypeOK' <=> EngineTypes' /\ NativeTypes' /\ LockHeld'
    BY DEF TypeOK, EngineTypes, NativeTypes, LockHeld, Places, Inside

\* What a step does on the native side.
LEMMA NativeSteps ==
    ASSUME MInv, [Next]_vars
    PROVE  \/ UNCHANGED nativeVars
           \/ Len(queue) < QueueLimit /\ \E r \in MaybeProfile : Native!Ask(r)
           \/ Native!ServiceStep
<1> USE DEF MInv, TypeOK, ArgInv, MaybeProfile
<1>1. ASSUME NEW t \in Tasks, TaskStep(t)
      PROVE  \/ UNCHANGED nativeVars
             \/ Len(queue) < QueueLimit /\ \E r \in MaybeProfile : Native!Ask(r)
  <2>1. CASE StartNativeVpn(t)
      BY <2>1 DEF StartNativeVpn
  <2>2. CASE StopNativeVpn(t)
      BY <2>2 DEF StopNativeVpn
  <2> QED
      BY <1>1, <2>1, <2>2 DEF TaskStep, StartGuard, TunnelSeen, WaitTimesOut, MarkConnected,
          StopRefused, StopAllowed, StopDone, StatusQuery, StatusFails, StatusMark, StatusEnds
<1>2. ASSUME NEW t \in Tasks, TaskEnds(t) \/ Command(t) PROVE UNCHANGED nativeVars
    BY <1>2 DEF TaskEnds, ConnectEnds, DisconnectEnds, Command, ConnectRejected, Disconnect,
        Status, Connect
<1>3. CASE NativeStep
    BY <1>3 DEF NativeStep
<1>4. CASE AppRestarts
    BY <1>4 DEF AppRestarts, Native!ServiceStep
<1>5. CASE UNCHANGED vars
    BY <1>5 DEF vars
<1> QED
    BY <1>1, <1>2, <1>3, <1>4, <1>5 DEF Next

\* The native side keeps its types.
LEMMA NativeTypesStep == MInv /\ [Next]_vars => NativeTypes'
<1> SUFFICES ASSUME MInv, [Next]_vars PROVE NativeTypes'
    OBVIOUS
<1>0. NativeTypes
    BY Parts DEF MInv
<1>1. CASE UNCHANGED nativeVars
    BY <1>0, <1>1 DEF NativeTypes, nativeVars
<1>2. ASSUME NEW r \in MaybeProfile, Len(queue) < QueueLimit, Native!Ask(r) PROVE NativeTypes'
  <2>1. Append(queue, r) \in Seq(MaybeProfile) /\ Len(Append(queue, r)) = Len(queue) + 1
      BY <1>0, <1>2, AppendProperties DEF NativeTypes
  <2>2. Len(queue) \in Nat
      BY <1>0 DEF NativeTypes
  <2> QED
      BY <1>0, <1>2, <2>1, <2>2, MobileConstants DEF NativeTypes, Native!Ask
<1>3. ASSUME wanted' \in MaybeProfile PROVE Native!ServiceStep => NativeTypes'
  <2>1. ASSUME Native!Done PROVE NativeTypes'
    <3>1. Tail(queue) \in Seq(MaybeProfile) /\ Len(Tail(queue)) <= QueueLimit
      <4>1. CASE queue = <<>>
          BY <1>0, <4>1 DEF NativeTypes
      <4>2. CASE queue # <<>>
          BY <1>0, <4>2, HeadTailProperties, MobileConstants DEF NativeTypes
      <4> QED
          BY <4>1, <4>2
    <3> QED
        BY <1>0, <1>3, <2>1, <3>1 DEF NativeTypes, Native!Done, Native!TunnelMayFall
  <2>2. ASSUME Native!Crash PROVE NativeTypes'
    <3>1. PICK i \in 1 .. Len(queue) + 1 : queue' = SubSeq(queue, i, Len(queue))
        BY <2>2 DEF Native!Crash
    <3>2. /\ SubSeq(queue, i, Len(queue)) \in Seq(MaybeProfile)
          /\ Len(SubSeq(queue, i, Len(queue))) <= Len(queue)
      <4>1. Len(queue) \in Nat /\ \A j \in i .. Len(queue) : queue[j] \in MaybeProfile
          BY <1>0 DEF NativeTypes
      <4>2. i \in Int /\ Len(queue) \in Int
          BY <4>1
      <4> QED
          BY <4>1, <4>2, SubSeqProperties
    <3>3. queue' \in Seq(MaybeProfile) /\ Len(queue') <= QueueLimit
      <4>1. Len(queue) \in Nat /\ Len(queue') \in Nat
          BY <1>0, <3>1, <3>2 DEF NativeTypes
      <4>2. Len(queue') <= Len(queue) /\ Len(queue) <= QueueLimit
          BY <1>0, <3>1, <3>2 DEF NativeTypes
      <4>3. QueueLimit \in Nat
          BY MobileConstants
      <4> QED
          BY <3>1, <3>2, <4>1, <4>2, <4>3
    <3> QED
        BY <1>0, <1>3, <2>2, <3>3 DEF NativeTypes, Native!Crash
  <2>3. ASSUME Native!Take \/ Native!Keep \/ Native!TunnelUp \/ Native!TunnelDown PROVE NativeTypes'
      BY <1>0, <1>3, <2>3 DEF NativeTypes, MaybeProfile, Native!Take, Native!Keep, Native!TunnelUp,
          Native!TunnelDown, Native!TunnelMayFall
  <2> QED
      BY <2>1, <2>2, <2>3 DEF Native!ServiceStep
<1>4. ASSUME Native!ServiceStep PROVE wanted' \in MaybeProfile
  <2>1. CASE Native!Take
      BY <1>0, <2>1, HeadTailProperties DEF NativeTypes, Native!Take
  <2>2. CASE Native!Crash
      BY <1>0, <2>2 DEF NativeTypes, Native!Crash
  <2> QED
      BY <1>0, <1>4, <2>1, <2>2 DEF NativeTypes, MaybeProfile, Native!ServiceStep, Native!Done,
          Native!Keep, Native!TunnelUp, Native!TunnelDown, Native!Withdrawn
<1> QED
    BY <1>1, <1>2, <1>3, <1>4, NativeSteps

\* A step of a task leaves the engine's variables within their types, and the
\* Mutex with the task inside status.
LEMMA EngineStep == MInv /\ [Next]_vars => EngineTypes' /\ LockHeld' /\ ArgInv'
<1> SUFFICES ASSUME EngineTypes, NativeTypes, LockHeld, ArgInv, [Next]_vars
             PROVE  EngineTypes' /\ LockHeld' /\ ArgInv'
    BY Parts DEF MInv
<1> USE MobileConstants DEF MaybeProfile
<1>1. ASSUME NEW t \in Tasks, NEW p \in Places, Goto(t, p), pc[t] \in Inside <=> p \in Inside,
             p \in {"guard", "invoke"} => arg'[t] \in Profiles,
             \A u \in Tasks \ {t} : arg'[u] = arg[u], lock' = lock
      PROVE  pc' \in [Tasks -> Places] /\ LockHeld' /\ ArgInv'
    BY <1>1 DEF EngineTypes, LockHeld, ArgInv, Goto
<1>2. ASSUME NEW t \in Tasks, Return(t),
             \/ pc[t] \notin Inside /\ lock' = lock
             \/ pc[t] \in Inside /\ lock' = NoTask
      PROVE  /\ pc' \in [Tasks -> Places] /\ arg' \in [Tasks -> MaybeProfile]
             /\ answer' \in [Tasks -> BOOLEAN]
             /\ LockHeld' /\ ArgInv' /\ lock' \in Tasks \cup {NoTask}
  <2>1. pc' = [pc EXCEPT ![t] = "idle"] /\ arg' = [arg EXCEPT ![t] = NoProfile]
        /\ answer' = [answer EXCEPT ![t] = FALSE]
      BY <1>2 DEF Return, Goto
  <2>2. /\ pc' \in [Tasks -> Places] /\ arg' \in [Tasks -> MaybeProfile]
        /\ answer' \in [Tasks -> BOOLEAN] /\ lock' \in Tasks \cup {NoTask}
      BY <1>2, <2>1 DEF EngineTypes, Places
  <2>3. ArgInv'
      BY <2>1 DEF EngineTypes, ArgInv
  <2>4. LockHeld'
      BY <1>2, <2>1 DEF EngineTypes, LockHeld, Inside
  <2> QED
      BY <2>2, <2>3, <2>4
<1>3. ASSUME NEW t \in Tasks, StartGuard(t) \/ StartNativeVpn(t) PROVE EngineTypes' /\ LockHeld' /\ ArgInv'
  <2>1. PICK p \in {"failed", "invoke", "wait"} : Goto(t, p)
      BY <1>3 DEF StartGuard, StartNativeVpn
  <2>2. pc[t] \in {"guard", "invoke"} /\ UNCHANGED <<statusVars, connected, arg, answer, boundVars>>
      BY <1>3 DEF StartGuard, StartNativeVpn
  <2>3. p \in Places /\ p \notin Inside /\ pc[t] \notin Inside /\ arg'[t] \in Profiles
      BY <2>1, <2>2 DEF Places, Inside, ArgInv
  <2> QED
      BY <1>1, <2>1, <2>2, <2>3 DEF EngineTypes, statusVars, boundVars
<1>4. ASSUME NEW t \in Tasks, TunnelSeen(t) \/ WaitTimesOut(t) \/ MarkConnected(t) \/ StopAllowed(t)
                              \/ StopDone(t)
      PROVE EngineTypes' /\ LockHeld' /\ ArgInv'
  <2>1. PICK p \in {"seen", "failed", "ok", "invokeStop", "default"} : Goto(t, p)
      BY <1>4 DEF TunnelSeen, WaitTimesOut, MarkConnected, StopAllowed, StopDone
  <2>2. /\ pc[t] \in {"wait", "seen", "stop", "stopped"}
        /\ UNCHANGED <<statusVars, arg, answer, boundVars>> /\ connected' \in {connected, TRUE, FALSE}
      BY <1>4 DEF TunnelSeen, WaitTimesOut, MarkConnected, StopAllowed, StopDone
  <2>3. p \in Places /\ p \notin Inside /\ pc[t] \notin Inside /\ p \notin {"guard", "invoke"}
      BY <2>1, <2>2 DEF Places, Inside
  <2> QED
      BY <1>1, <2>1, <2>2, <2>3 DEF EngineTypes, statusVars, boundVars
<1>5. ASSUME NEW t \in Tasks, StatusQuery(t) \/ StatusMark(t)
      PROVE EngineTypes' /\ LockHeld' /\ ArgInv'
  <2>1. PICK p \in {"answered", "reconcile"} : Goto(t, p)
      BY <1>5 DEF StatusQuery, StatusMark
  <2>2. pc[t] \in Inside /\ UNCHANGED <<statusVars, arg, boundVars>>
      BY <1>5 DEF StatusQuery, StatusMark, Inside
  <2>3. p \in Places /\ p \in Inside /\ p \notin {"guard", "invoke"}
      BY <2>1 DEF Places, Inside
  <2>4. pc' \in [Tasks -> Places] /\ LockHeld' /\ ArgInv'
      BY <1>1, <2>1, <2>2, <2>3 DEF statusVars
  <2>5. answer' \in [Tasks -> BOOLEAN] /\ connected' \in BOOLEAN
      BY <1>5 DEF StatusQuery, StatusMark, EngineTypes, NativeTypes
  <2> QED
      BY <2>2, <2>4, <2>5 DEF EngineTypes, statusVars, boundVars
<1>6. ASSUME NEW t \in Tasks, StopRefused(t) \/ (StopNativeVpn(t) /\ Return(t))
      PROVE EngineTypes' /\ LockHeld' /\ ArgInv'
  <2>1. Return(t) /\ pc[t] \notin Inside /\ UNCHANGED <<statusVars, connected, boundVars>>
      BY <1>6 DEF StopRefused, StopNativeVpn, Inside
  <2> QED
      BY <1>2, <2>1 DEF EngineTypes, statusVars, boundVars
<1>7. ASSUME NEW t \in Tasks, StopNativeVpn(t), ~Return(t) PROVE EngineTypes' /\ LockHeld' /\ ArgInv'
  <2>1. /\ Goto(t, "stopped") /\ pc[t] = "invokeStop"
        /\ UNCHANGED <<statusVars, connected, arg, answer, boundVars>>
      BY <1>7 DEF StopNativeVpn
  <2>2. "stopped" \in Places /\ "stopped" \notin Inside /\ pc[t] \notin Inside
      BY <2>1 DEF Places, Inside
  <2> QED
      BY <1>1, <2>1, <2>2 DEF EngineTypes, statusVars, boundVars
<1>8. ASSUME NEW t \in Tasks, StatusFails(t) \/ StatusEnds(t) PROVE EngineTypes' /\ LockHeld' /\ ArgInv'
  <2>1. Return(t) /\ pc[t] \in Inside /\ lock' = NoTask /\ UNCHANGED <<connected, boundVars>>
      BY <1>8 DEF StatusFails, StatusEnds, Inside
  <2>2. phase' \in {phase, "Connected", "Disconnected"}
      BY <1>8 DEF StatusFails, StatusEnds, Reconciled
  <2> QED
      BY <1>2, <2>1, <2>2 DEF EngineTypes, boundVars
<1>9. ASSUME NEW t \in Tasks, ConnectEnds(t) \/ DisconnectEnds(t) \/ ConnectRejected(t)
      PROVE EngineTypes' /\ LockHeld' /\ ArgInv'
  <2>1. /\ Return(t) /\ pc[t] \notin Inside /\ lock' = lock /\ UNCHANGED <<connected, restarts>>
        /\ phase' \in {phase, "Connected", "Failed", "Disconnected"}
        /\ commands' = commands \/ (commands < CommandLimit /\ commands' = commands + 1)
    <3>1. CASE ConnectEnds(t)
        BY <3>1 DEF ConnectEnds, Inside, boundVars
    <3>2. CASE DisconnectEnds(t)
        BY <3>2 DEF DisconnectEnds, Inside, boundVars
    <3>3. CASE ConnectRejected(t)
        BY <3>3 DEF ConnectRejected, Inside, statusVars
    <3> QED
        BY <1>9, <3>1, <3>2, <3>3
  <2> QED
      BY <1>2, <2>1 DEF EngineTypes
<1>10. ASSUME NEW t \in Tasks, NEW p \in Profiles, Connect(t, p) PROVE EngineTypes' /\ LockHeld' /\ ArgInv'
  <2>1. /\ Goto(t, "guard") /\ pc[t] = "idle" /\ arg' = [arg EXCEPT ![t] = p] /\ phase' = "Connecting"
        /\ UNCHANGED <<lock, connected, answer, restarts>>
        /\ commands < CommandLimit /\ commands' = commands + 1
      BY <1>10 DEF Connect
  <2>2. "guard" \in Places /\ "guard" \notin Inside /\ pc[t] \notin Inside
      BY <2>1 DEF Places, Inside
  <2>3. arg' \in [Tasks -> MaybeProfile] /\ arg'[t] \in Profiles /\ \A u \in Tasks \ {t} : arg'[u] = arg[u]
      BY <2>1 DEF EngineTypes
  <2> QED
      BY <1>1, <2>1, <2>2, <2>3 DEF EngineTypes
<1>11. ASSUME NEW t \in Tasks, Disconnect(t) PROVE EngineTypes' /\ LockHeld' /\ ArgInv'
  <2>1. /\ Goto(t, "stop") /\ pc[t] = "idle" /\ phase' = "Disconnecting"
        /\ UNCHANGED <<lock, connected, arg, answer, restarts>>
        /\ commands < CommandLimit /\ commands' = commands + 1
      BY <1>11 DEF Disconnect
  <2>2. "stop" \in Places /\ "stop" \notin Inside /\ pc[t] \notin Inside
      BY <2>1 DEF Places, Inside
  <2> QED
      BY <1>1, <2>1, <2>2 DEF EngineTypes
<1>12. ASSUME NEW t \in Tasks, Status(t) PROVE EngineTypes' /\ LockHeld' /\ ArgInv'
  <2>1. /\ pc' = [pc EXCEPT ![t] = "query"] /\ pc[t] = "idle" /\ lock = NoTask /\ lock' = t
        /\ UNCHANGED <<phase, connected, arg, answer, boundVars>>
      BY <1>12 DEF Status, Goto
  <2> QED
      BY <2>1 DEF EngineTypes, LockHeld, ArgInv, Places, Inside, boundVars
<1>13. CASE NativeStep \/ UNCHANGED vars
    BY <1>13 DEF NativeStep, vars, statusVars, taskVars, boundVars, EngineTypes, LockHeld, ArgInv
<1>14. CASE AppRestarts
  <2>1. /\ phase' = "Disconnected" /\ lock' = NoTask /\ connected' = FALSE
        /\ pc' = [t \in Tasks |-> "idle"] /\ arg' = [t \in Tasks |-> NoProfile]
        /\ answer' = [t \in Tasks |-> FALSE]
        /\ restarts < RestartLimit /\ restarts' = restarts + 1 /\ commands' = commands
      BY <1>14 DEF AppRestarts
  <2>2. EngineTypes'
    <3>1. pc' \in [Tasks -> Places]
        BY <2>1 DEF Places
    <3>2. arg' \in [Tasks -> MaybeProfile] /\ answer' \in [Tasks -> BOOLEAN]
        BY <2>1
    <3>3. commands' \in 0..CommandLimit /\ restarts' \in 0..RestartLimit
        BY <2>1 DEF EngineTypes
    <3> QED
        BY <2>1, <3>1, <3>2, <3>3 DEF EngineTypes
  <2>3. LockHeld' /\ ArgInv'
      BY <2>1 DEF LockHeld, ArgInv, Inside
  <2> QED
      BY <2>2, <2>3
<1> QED
    BY <1>3, <1>4, <1>5, <1>6, <1>7, <1>8, <1>9, <1>10, <1>11, <1>12, <1>13, <1>14
    DEF Next, TaskStep, TaskEnds, Command

\* The application has just been opened.
LEMMA MInit == Init => MInv
<1> SUFFICES ASSUME Init PROVE MInv
    OBVIOUS
<1>1. EngineTypes
  <2>1. pc \in [Tasks -> Places]
      BY DEF Init, Places
  <2>2. arg \in [Tasks -> MaybeProfile] /\ answer \in [Tasks -> BOOLEAN]
      BY DEF Init, MaybeProfile
  <2>3. commands \in 0..CommandLimit /\ restarts \in 0..RestartLimit
      BY MobileConstants DEF Init
  <2> QED
      BY <2>1, <2>2, <2>3 DEF Init, EngineTypes
<1>2. NativeTypes
  <2>1. queue = <<>> /\ busy = FALSE /\ wanted = NoProfile /\ kept = NoProfile /\ tun = FALSE
      BY DEF Init, Native!Init
  <2>2. queue \in Seq(MaybeProfile) /\ Len(queue) = 0
      BY <2>1
  <2>3. Len(queue) <= QueueLimit
      BY <2>2, MobileConstants
  <2> QED
      BY <2>1, <2>2, <2>3 DEF NativeTypes, MaybeProfile
<1>3. LockHeld /\ ArgInv
    BY MobileConstants DEF Init, LockHeld, ArgInv, Inside
<1> QED
    BY <1>1, <1>2, <1>3, Parts DEF MInv

\* The inductive invariant holds in every state.
LEMMA MInvariant == Spec => []MInv
<1>1. MInv /\ [Next]_vars => MInv'
    BY EngineStep, NativeTypesStep, Parts DEF MInv
<1> QED
    BY <1>1, MInit, PTL DEF Spec

-----------------------------------------------------------------------------
(* The theorems.                                                           *)

\* Every variable keeps its type, and at most one task is inside status: the
\* one that holds the Mutex around the status.
THEOREM MobileTypeOK == Spec => []TypeOK
<1>1. MInv => TypeOK
    BY DEF MInv
<1> QED
    BY <1>1, MInvariant, PTL

\* The phase does not change under a status that waits for the native side,
\* whatever commands start, end and time out meanwhile.
THEOREM MobileStatusAtomic == Spec => StatusAtomic
<1>1. MInv /\ [Next]_vars =>
        [\A t \in Tasks : pc[t] \in Inside /\ phase' # phase => StatusEnds(t) \/ AppRestarts]_vars
  <2> SUFFICES ASSUME EngineTypes, LockHeld, [Next]_vars, NEW t \in Tasks,
                      pc[t] \in Inside, phase' # phase
               PROVE  StatusEnds(t) \/ AppRestarts
      BY Parts DEF MInv
  <2>1. lock = t /\ lock # NoTask
      BY MobileConstants DEF LockHeld
  <2>2. ASSUME NEW u \in Tasks, TaskEnds(u) \/ Command(u) PROVE FALSE
      BY <2>1, <2>2 DEF TaskEnds, ConnectEnds, DisconnectEnds, Command, ConnectRejected, Disconnect,
          Status, Connect
  <2>3. ASSUME NEW u \in Tasks, TaskStep(u) PROVE StatusEnds(t)
    <3>1. StatusEnds(u)
        BY <2>3 DEF TaskStep, StartGuard, StartNativeVpn, TunnelSeen, WaitTimesOut, MarkConnected,
            StopRefused, StopAllowed, StopNativeVpn, StopDone, StatusQuery, StatusFails, StatusMark,
            statusVars
    <3>2. u = t
        BY <2>1, <3>1 DEF StatusEnds, LockHeld, Inside
    <3> QED
        BY <3>1, <3>2
  <2>4. CASE NativeStep \/ UNCHANGED vars
      BY <2>4 DEF NativeStep, vars, statusVars
  <2> QED
      BY <2>2, <2>3, <2>4 DEF Next
<1> QED
    BY <1>1, MInvariant, PTL DEF Spec, StatusAtomic
=============================================================================
