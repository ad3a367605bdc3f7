------------------------- MODULE DesktopEngineProofs -------------------------
(***************************************************************************)
(* Proofs about DesktopEngine: for any number of tasks, profiles and       *)
(* processes, on both platforms, with a cleanup that may fail and a        *)
(* sing-box that may crash.                                                *)
(***************************************************************************)
EXTENDS DesktopEngine, TLAPS

IInv ==
    /\ TypeOK
    /\ LockDiscipline
    /\ NoUnownedProcess
    /\ StatsFollowChild
    /\ OlcFollowsProfile
    /\ ConnectingIsOwned

USE DEF StartPcs, StopPcs, ConnectPcs, Pcs

\* The states in which the application starts satisfy the invariant.
LEMMA InitIInv == Init => IInv
<1> SUFFICES ASSUME Init PROVE IInv
    OBVIOUS
<1>1. TypeOK
    BY DesktopConstants DEF Init, TypeOK
<1>2. LockDiscipline
    BY DesktopConstants DEF Init, LockDiscipline, Inside
<1>3. NoUnownedProcess /\ StatsFollowChild /\ OlcFollowsProfile /\ ConnectingIsOwned
    BY DEF Init, NoUnownedProcess, StatsFollowChild, OlcFollowsProfile, ConnectingIsOwned
<1> QED
    BY <1>1, <1>2, <1>3 DEF IInv

\* A kill, by Drop, by a closed job or by the cleanup, changes the table of
\* processes only from running to dying and from exited to reaped.
KillFacts(ps) ==
    /\ KillAll(ps) \in [Procs -> {"free", "starting", "listening", "dying", "exited"}]
    /\ \A p \in Procs : \/ KillAll(ps)[p] = proc[p]
                        \/ Running(p) /\ KillAll(ps)[p] = "dying"
                        \/ proc[p] = "exited" /\ KillAll(ps)[p] = "free"
    /\ \A p \in Procs \cap ps : KillAll(ps)[p] \in {"free", "dying"}

\* KillAll does what KillFacts says.
LEMMA KillAllType ==
    ASSUME TypeOK, NEW ps
    PROVE  KillFacts(ps)
BY DEF TypeOK, KillFacts, KillAll, Killed, Running

-----------------------------------------------------------------------------
(* One lemma per action.                                                   *)

\* ConnectRejected preserves the invariant.
LEMMA ConnectRejectedStep ==
    ASSUME IInv, NEW t \in Tasks, ConnectRejected(t)
    PROVE  IInv'
<1> USE DEF IInv, ConnectRejected, Return, Goto, statusVars, engineVars, taskVars, worldVars
<1>1. TypeOK'
    BY DesktopConstants DEF TypeOK
<1>2. LockDiscipline'
    BY DesktopConstants DEF TypeOK, LockDiscipline, Inside
<1>3. NoUnownedProcess'
    BY DesktopConstants DEF TypeOK, LockDiscipline, Inside, NoUnownedProcess
<1>4. StatsFollowChild' /\ OlcFollowsProfile' /\ ConnectingIsOwned'
    BY DesktopConstants DEF TypeOK, LockDiscipline, Inside, StatsFollowChild,
        OlcFollowsProfile, ConnectingIsOwned
<1> QED
    BY <1>1, <1>2, <1>3, <1>4

\* Connect preserves the invariant.
LEMMA ConnectStep ==
    ASSUME IInv, NEW t \in Tasks, NEW profile \in Profiles, Connect(t, profile)
    PROVE  IInv'
<1> USE DEF IInv, Connect, Goto, statusVars, engineVars, taskVars, worldVars
<1>1. TypeOK'
    BY DesktopConstants DEF TypeOK
<1>2. LockDiscipline'
    BY DesktopConstants DEF TypeOK, LockDiscipline, Inside
<1>3. NoUnownedProcess'
    BY DesktopConstants DEF TypeOK, LockDiscipline, Inside, NoUnownedProcess
<1>4. StatsFollowChild' /\ OlcFollowsProfile' /\ ConnectingIsOwned'
    BY DesktopConstants DEF TypeOK, LockDiscipline, Inside, StatsFollowChild,
        OlcFollowsProfile, ConnectingIsOwned
<1> QED
    BY <1>1, <1>2, <1>3, <1>4

\* StartLock preserves the invariant.
LEMMA StartLockStep ==
    ASSUME IInv, NEW t \in Tasks, StartLock(t)
    PROVE  IInv'
<1> USE DEF IInv, StartLock, StartFails, Goto, statusVars, engineVars, worldVars
<1>1. TypeOK'
    BY DesktopConstants DEF TypeOK
<1>2. LockDiscipline'
  <2>1. CASE child # NoProc
    BY <2>1, DesktopConstants DEF TypeOK, LockDiscipline, Inside
  <2>2. CASE child = NoProc
    <3>1. lock' = t /\ pc' = [pc EXCEPT ![t] = "prepare"] /\ last' = last
        BY <2>2
    <3>2. \A u \in Tasks : ~ Inside(u)
        BY DesktopConstants DEF LockDiscipline
    <3>3. ~ stats
        BY <2>2 DEF StatsFollowChild
    <3> QED
        BY <2>2, <3>1, <3>2, <3>3, DesktopConstants DEF TypeOK, LockDiscipline, Inside
  <2> QED
    BY <2>1, <2>2
<1>3. NoUnownedProcess'
    BY DEF NoUnownedProcess
<1>4. StatsFollowChild' /\ OlcFollowsProfile' /\ ConnectingIsOwned'
    BY DesktopConstants DEF TypeOK, LockDiscipline, Inside, StatsFollowChild,
        OlcFollowsProfile, ConnectingIsOwned
<1> QED
    BY <1>1, <1>2, <1>3, <1>4

\* Prepare preserves the invariant.
LEMMA PrepareStep ==
    ASSUME IInv, NEW t \in Tasks, Prepare(t)
    PROVE  IInv'
<1> USE DEF IInv, Prepare, StartFails, Goto, statusVars, engineVars, taskVars, worldVars
<1>1. TypeOK'
    BY DesktopConstants DEF TypeOK
<1>2. LockDiscipline'
    BY DesktopConstants DEF TypeOK, LockDiscipline, Inside
<1>3. NoUnownedProcess'
    BY DesktopConstants DEF TypeOK, LockDiscipline, Inside, NoUnownedProcess
<1>4. StatsFollowChild' /\ OlcFollowsProfile' /\ ConnectingIsOwned'
    BY DesktopConstants DEF TypeOK, LockDiscipline, Inside, StatsFollowChild,
        OlcFollowsProfile, ConnectingIsOwned
<1> QED
    BY <1>1, <1>2, <1>3, <1>4

\* CleanBeforeStart preserves the invariant.
LEMMA CleanBeforeStartStep ==
    ASSUME IInv, NEW t \in Tasks, CleanBeforeStart(t)
    PROVE  IInv'
<1> USE DEF IInv, CleanBeforeStart, StartFails, Goto, statusVars, engineVars, taskVars, worldVars
<1>k. PICK ps : proc' = KillAll(ps) \/ proc' = proc
    OBVIOUS
<1>k0. KillFacts(ps)
    BY KillAllType
<1>1. TypeOK'
    BY <1>k, <1>k0, DesktopConstants DEF TypeOK, KillFacts, Running
<1>2. LockDiscipline'
    BY <1>k, <1>k0, DesktopConstants DEF TypeOK, LockDiscipline, Inside, KillFacts, Running
<1>3. NoUnownedProcess'
    BY <1>k, <1>k0, DesktopConstants DEF TypeOK, LockDiscipline, Inside, NoUnownedProcess, KillFacts, Running
<1>4. StatsFollowChild' /\ OlcFollowsProfile' /\ ConnectingIsOwned'
    BY DesktopConstants DEF TypeOK, LockDiscipline, Inside, StatsFollowChild,
        OlcFollowsProfile, ConnectingIsOwned
<1> QED
    BY <1>1, <1>2, <1>3, <1>4

\* StartOlc preserves the invariant.
LEMMA StartOlcStep ==
    ASSUME IInv, NEW t \in Tasks, StartOlc(t)
    PROVE  IInv'
<1> USE DEF IInv, StartOlc, StartFails, Goto, statusVars, engineVars, taskVars, worldVars
<1>1. TypeOK'
    BY DesktopConstants, ZenonT(30) DEF TypeOK
<1>2. LockDiscipline'
    BY DesktopConstants DEF TypeOK, LockDiscipline, Inside
<1>3. NoUnownedProcess'
    BY DesktopConstants DEF TypeOK, LockDiscipline, Inside, NoUnownedProcess
<1>4. StatsFollowChild' /\ OlcFollowsProfile' /\ ConnectingIsOwned'
    BY DesktopConstants DEF TypeOK, LockDiscipline, Inside, StatsFollowChild,
        OlcFollowsProfile, ConnectingIsOwned
<1> QED
    BY <1>1, <1>2, <1>3, <1>4

\* SpawnFails preserves the invariant.
LEMMA SpawnFailsStep ==
    ASSUME IInv, NEW t \in Tasks, SpawnFails(t)
    PROVE  IInv'
<1> USE DEF IInv, SpawnFails, StartFails, Goto, DropRuntime, StopRuntime, statusVars, engineVars, taskVars, worldVars
<1>c. closing' \subseteq OlcProfiles
    BY DEF LockDiscipline, TypeOK
<1>1. TypeOK'
    BY <1>c, DesktopConstants, ZenonT(30) DEF TypeOK
<1>2. LockDiscipline'
    BY DesktopConstants DEF TypeOK, LockDiscipline, Inside
<1>3. NoUnownedProcess'
    BY DesktopConstants DEF TypeOK, LockDiscipline, Inside, NoUnownedProcess
<1>4. StatsFollowChild' /\ OlcFollowsProfile' /\ ConnectingIsOwned'
    BY DesktopConstants DEF TypeOK, LockDiscipline, Inside, StatsFollowChild,
        OlcFollowsProfile, ConnectingIsOwned
<1> QED
    BY <1>1, <1>2, <1>3, <1>4

\* Spawn preserves the invariant.
LEMMA SpawnStep ==
    ASSUME IInv, NEW t \in Tasks, Spawn(t)
    PROVE  IInv'
<1> USE DEF IInv, Spawn, Goto, statusVars
<1>1. PICK p \in Procs :
        /\ proc[p] = "free"
        /\ mine' = [mine EXCEPT ![t] = p]
        /\ \/ /\ job' = p /\ proc' = [KillAll({job}) EXCEPT ![p] = "starting"]
              /\ loose' = loose \ {p}
           \/ /\ job' = job /\ proc' = [proc EXCEPT ![p] = "starting"]
              /\ loose' \in {loose, loose \cup {p}}
    OBVIOUS
<1>2. KillFacts({job})
    BY KillAllType
<1>3. /\ proc' \in [Procs -> {"free", "starting", "listening", "dying", "exited"}]
      /\ proc'[p] = "starting"
      /\ \A q \in Procs \ {p} : \/ proc'[q] = proc[q]
                                \/ Running(q) /\ proc'[q] = "dying"
                                \/ proc[q] = "exited" /\ proc'[q] = "free"
  <2>1. CASE proc' = [KillAll({job}) EXCEPT ![p] = "starting"]
      BY <1>2, <2>1 DEF KillFacts
  <2>2. CASE proc' = [proc EXCEPT ![p] = "starting"]
      BY <2>2 DEF TypeOK
  <2> QED
      BY <1>1, <2>1, <2>2
<1>4. TypeOK'
    BY <1>1, <1>3 DEF TypeOK
<1>5. p \notin orphans
    BY <1>1 DEF LockDiscipline
<1>6. LockDiscipline'
    BY <1>1, <1>3, <1>5, DesktopConstants DEF TypeOK, LockDiscipline, Inside, Running
<1>7. NoUnownedProcess'
    BY <1>1, <1>3, DesktopConstants DEF TypeOK, LockDiscipline, NoUnownedProcess, Running
<1>8. StatsFollowChild' /\ OlcFollowsProfile' /\ ConnectingIsOwned'
    BY DEF TypeOK, StatsFollowChild, OlcFollowsProfile, ConnectingIsOwned
<1> QED
    BY <1>4, <1>6, <1>7, <1>8

\* StartSucceeds preserves the invariant.
LEMMA StartSucceedsStep ==
    ASSUME IInv, NEW t \in Tasks, StartSucceeds(t)
    PROVE  IInv'
<1> USE DEF IInv, StartSucceeds, Goto, Running, statusVars, engineVars, taskVars, worldVars
<1>o. /\ Stored(t) = IF arg[t] \in OlcProfiles THEN arg[t] ELSE NoProfile
      /\ closing' \subseteq OlcProfiles
    BY DEF Stored, LockDiscipline, TypeOK
<1>1. TypeOK'
    BY <1>o, DesktopConstants DEF TypeOK
<1>2. LockDiscipline'
    BY DesktopConstants DEF TypeOK, LockDiscipline, Inside
<1>3. NoUnownedProcess'
    BY DesktopConstants DEF TypeOK, LockDiscipline, Inside, NoUnownedProcess
<1>4. StatsFollowChild' /\ OlcFollowsProfile' /\ ConnectingIsOwned'
    BY <1>o, DesktopConstants DEF TypeOK, LockDiscipline, Inside, StatsFollowChild,
        OlcFollowsProfile, ConnectingIsOwned
<1> QED
    BY <1>1, <1>2, <1>3, <1>4

\* ExitsDuringStart preserves the invariant.
LEMMA ExitsDuringStartStep ==
    ASSUME IInv, NEW t \in Tasks, ExitsDuringStart(t)
    PROVE  IInv'
<1> USE DEF IInv
<1>0. /\ pc[t] = "ready" /\ lock' = NoTask /\ job' = NoProc
      /\ pc' = [pc EXCEPT ![t] = "failed"]
      /\ last' = [last EXCEPT ![t] = "error"]
      /\ mine' = [mine EXCEPT ![t] = NoProc]
      /\ runtime' = [runtime EXCEPT ![t] = FALSE]
      /\ UNCHANGED <<phase, active, child, olcrtc, stats, loaded, arg, closing, orphans,
                     loose, runs>>
    BY DEF ExitsDuringStart, StartFails, Goto, StopRuntime, statusVars
<1>1. PICK ps : mine[t] \in ps /\ proc' = KillAll(ps)
    BY DEF ExitsDuringStart
<1>2. KillFacts(ps)
    BY KillAllType
<1>3. mine[t] \in Procs /\ proc'[mine[t]] \in {"free", "dying"}
    BY <1>0, <1>1, <1>2, DesktopConstants DEF TypeOK, LockDiscipline, KillFacts
<1>4. TypeOK'
    BY <1>0, <1>1, <1>2, DesktopConstants DEF TypeOK, KillFacts
<1>5. LockDiscipline'
  <2>1. lock = t /\ \A u \in Tasks \ {t} : ~ Inside(u) /\ pc[u] \notin {"ready", "kill"}
      BY <1>0 DEF TypeOK, LockDiscipline, Inside
  <2>2. \A u \in Tasks : Inside(u)' <=> lock' = u
      BY <1>0, <2>1, DesktopConstants DEF TypeOK, Inside
  <2>3. \A u \in Tasks : ~ Inside(u)'
      BY <1>0, <2>1 DEF TypeOK, Inside
  <2>4. \A p \in orphans' : proc'[p] \in {"starting", "listening", "dying"}
      BY <1>0, <1>1, <1>2 DEF TypeOK, LockDiscipline, KillFacts, Running
  <2> QED
      BY <1>0, <2>1, <2>2, <2>3, <2>4, DesktopConstants DEF TypeOK, LockDiscipline, Inside
<1>6. NoUnownedProcess'
    BY <1>0, <1>1, <1>2, <1>3, DesktopConstants
       DEF TypeOK, LockDiscipline, NoUnownedProcess, KillFacts, Running
<1>7. StatsFollowChild' /\ OlcFollowsProfile' /\ ConnectingIsOwned'
    BY <1>0, DesktopConstants DEF TypeOK, LockDiscipline, Inside, StatsFollowChild,
        OlcFollowsProfile, ConnectingIsOwned
<1> QED
    BY <1>4, <1>5, <1>6, <1>7

\* StartTimesOut preserves the invariant.
LEMMA StartTimesOutStep ==
    ASSUME IInv, NEW t \in Tasks, StartTimesOut(t)
    PROVE  IInv'
<1> USE DEF IInv, StartTimesOut, StartFails, Goto, DropRuntime, statusVars, engineVars
<1>1. KillFacts({mine[t]})
    BY KillAllType
<1>m. mine[t] \in Procs
    BY DesktopConstants DEF TypeOK, LockDiscipline
<1>2. proc'[mine[t]] \in {"free", "dying"}
    BY <1>1, <1>m DEF KillFacts
<1>c. closing' \subseteq OlcProfiles
    BY DEF LockDiscipline, TypeOK
<1>3. TypeOK'
    BY <1>1, <1>c, DesktopConstants DEF TypeOK, KillFacts
<1>4. LockDiscipline'
  <2>1. lock = t /\ \A u \in Tasks \ {t} : ~ Inside(u) /\ pc[u] \notin {"ready", "kill"}
      BY DEF TypeOK, LockDiscipline, Inside
  <2>2. \A u \in Tasks : Inside(u)' <=> lock' = u
      BY <2>1, DesktopConstants DEF TypeOK, Inside
  <2>3. \A u \in Tasks : ~ Inside(u)'
      BY <2>1 DEF TypeOK, Inside
  <2>4. \A p \in orphans' : proc'[p] \in {"starting", "listening", "dying"}
      BY <1>1 DEF TypeOK, LockDiscipline, KillFacts, Running
  <2> QED
      BY <2>1, <2>2, <2>3, <2>4, DesktopConstants, SMTT(30) DEF TypeOK, LockDiscipline, Inside
<1>5. NoUnownedProcess'
  <2>1. \A u \in Tasks : u # t => mine'[u] = mine[u]
      BY DEF TypeOK
  <2>2. \A p \in Procs \ {mine[t]} :
            proc'[p] \in {"starting", "listening", "exited"} => proc'[p] = proc[p]
      BY <1>1 DEF KillFacts
  <2>3. child' = child /\ orphans' = orphans /\ NoUnownedProcess
      OBVIOUS
  <2> HIDE DEF IInv, StartTimesOut
  <2> QED
      BY <1>2, <2>1, <2>2, <2>3 DEF NoUnownedProcess
<1>6. StatsFollowChild' /\ OlcFollowsProfile' /\ ConnectingIsOwned'
    BY DesktopConstants DEF TypeOK, LockDiscipline, Inside, StatsFollowChild,
        OlcFollowsProfile, ConnectingIsOwned
<1> QED
    BY <1>3, <1>4, <1>5, <1>6

\* ConnectEnds preserves the invariant.
LEMMA ConnectEndsStep ==
    ASSUME IInv, NEW t \in Tasks, ConnectEnds(t)
    PROVE  IInv'
<1> USE DEF IInv, ConnectEnds, Return, Goto, statusVars, engineVars, taskVars, worldVars
<1>1. TypeOK'
    BY DesktopConstants DEF TypeOK
<1>2. LockDiscipline'
    BY DesktopConstants DEF TypeOK, LockDiscipline, Inside
<1>3. NoUnownedProcess'
    BY DesktopConstants DEF TypeOK, LockDiscipline, Inside, NoUnownedProcess
<1>4. StatsFollowChild' /\ OlcFollowsProfile' /\ ConnectingIsOwned'
    BY DesktopConstants DEF TypeOK, LockDiscipline, Inside, StatsFollowChild,
        OlcFollowsProfile, ConnectingIsOwned
<1> QED
    BY <1>1, <1>2, <1>3, <1>4

\* Disconnect preserves the invariant.
LEMMA DisconnectStep ==
    ASSUME IInv, NEW t \in Tasks, Disconnect(t)
    PROVE  IInv'
<1> USE DEF IInv, Disconnect, Goto, statusVars, engineVars, taskVars, worldVars
<1>1. TypeOK'
    BY DesktopConstants DEF TypeOK
<1>2. LockDiscipline'
    BY DesktopConstants DEF TypeOK, LockDiscipline, Inside
<1>3. NoUnownedProcess'
    BY DesktopConstants DEF TypeOK, LockDiscipline, Inside, NoUnownedProcess
<1>4. StatsFollowChild' /\ OlcFollowsProfile' /\ ConnectingIsOwned'
    BY DesktopConstants DEF TypeOK, LockDiscipline, Inside, StatsFollowChild,
        OlcFollowsProfile, ConnectingIsOwned
<1> QED
    BY <1>1, <1>2, <1>3, <1>4

\* StopLock preserves the invariant.
LEMMA StopLockStep ==
    ASSUME IInv, NEW t \in Tasks, StopLock(t)
    PROVE  IInv'
<1> USE DEF IInv, StopLock, Goto, statusVars
<1>1. \A u \in Tasks : ~ Inside(u) /\ mine[u] = NoProc /\ ~ runtime[u]
    BY DesktopConstants DEF TypeOK, LockDiscipline, Inside
<1>2. CASE child = NoProc
  <2>1. KillFacts({job})
      BY KillAllType
  <2>2. /\ job' = NoProc /\ proc' = KillAll({job}) /\ child' = child
        /\ last' = [last EXCEPT ![t] = "NotRunning"]
        /\ pc' = [pc EXCEPT ![t] = "stopClean"]
        /\ loaded' = loaded /\ mine' = mine
      BY <1>2
  <2>3. TypeOK'
      BY <2>1, <2>2, DesktopConstants DEF TypeOK, KillFacts
  <2>4. LockDiscipline'
      BY <1>1, <1>2, <2>1, <2>2, DesktopConstants
         DEF TypeOK, LockDiscipline, Inside, KillFacts, Running
  <2>5. NoUnownedProcess'
    <3>1. orphans' = orphans
        OBVIOUS
    <3>2. \A p \in Procs : proc'[p] \in {"starting", "listening", "exited"}
                             => proc'[p] = proc[p]
        BY <2>1, <2>2 DEF KillFacts
    <3>3. NoUnownedProcess
        OBVIOUS
    <3> HIDE DEF StopLock, IInv, Goto
    <3> QED
        BY <2>2, <3>1, <3>2, <3>3 DEF NoUnownedProcess
  <2> QED
      BY <2>2, <2>3, <2>4, <2>5, DesktopConstants
         DEF TypeOK, StatsFollowChild, OlcFollowsProfile, ConnectingIsOwned
<1>3. CASE child # NoProc
  <2>1. KillFacts({child}) /\ child \in Procs
      BY <1>3, KillAllType DEF TypeOK
  <2>2. /\ child' = NoProc /\ loaded' = NoProfile
        /\ mine' = [mine EXCEPT ![t] = child]
        /\ proc' = KillAll({child})
        /\ pc' = [pc EXCEPT ![t] = "kill"]
        /\ job' = job /\ last' = last
      BY <1>3
  <2>3. proc'[child] \in {"free", "dying"}
      BY <2>1, <2>2 DEF KillFacts
  <2>4. TypeOK'
      BY <2>1, <2>2, DesktopConstants DEF TypeOK, KillFacts
  <2>5. LockDiscipline'
    <3>1. \A u \in Tasks : Inside(u)' <=> u = t
        BY <1>1, <2>2 DEF TypeOK, Inside
    <3>2. \A u \in Tasks : u # t => mine'[u] = NoProc /\ pc'[u] = pc[u]
        BY <1>1, <2>2 DEF TypeOK
    <3>3. /\ mine'[t] = child /\ child # NoProc /\ pc'[t] = "kill"
          /\ lock' = t /\ ~ stats' /\ runtime' = runtime /\ arg' = arg
        BY <1>3, <2>2 DEF TypeOK
    <3>4. \A p \in orphans' : proc'[p] \in {"starting", "listening", "dying"}
        BY <2>1, <2>2 DEF TypeOK, LockDiscipline, KillFacts, Running
    <3>5. \A u \in Tasks : u # t => pc[u] \notin {"olc", "spawn", "ready", "kill"}
        BY <1>1 DEF Inside
    <3> HIDE DEF StopLock, IInv, Goto
    <3> QED
        BY <1>1, <2>2, <2>3, <3>1, <3>2, <3>3, <3>4, <3>5 DEF LockDiscipline
  <2>6. NoUnownedProcess'
    <3>1. orphans' = orphans
        OBVIOUS
    <3>2. \A p \in Procs : proc'[p] \in {"starting", "listening", "exited"}
                             => proc'[p] = proc[p] /\ p # child
        BY <2>1, <2>2, <2>3 DEF KillFacts
    <3>3. NoUnownedProcess /\ \A u \in Tasks : mine[u] \notin Procs
        BY <1>1, DesktopConstants DEF TypeOK
    <3> HIDE DEF StopLock, IInv, Goto
    <3> QED
        BY <2>2, <3>1, <3>2, <3>3 DEF NoUnownedProcess
  <2> QED
      BY <2>2, <2>4, <2>5, <2>6, DesktopConstants
         DEF TypeOK, StatsFollowChild, OlcFollowsProfile, ConnectingIsOwned
<1> QED
    BY <1>2, <1>3

\* KillReturns preserves the invariant.
LEMMA KillReturnsStep ==
    ASSUME IInv, NEW t \in Tasks, KillReturns(t)
    PROVE  IInv'
<1> USE DEF IInv, KillReturns, Goto, statusVars, engineVars, taskVars, worldVars
<1>k0. KillFacts({job})
    BY KillAllType
<1>t. last' = last \/ last' = [last EXCEPT ![t] = "error"]
    OBVIOUS
<1>l. last' \in [Tasks -> {"none", "ok", "error", "AlreadyRunning", "NotRunning"}]
    BY <1>t DEF TypeOK
<1>1. TypeOK'
    BY <1>k0, <1>l, DesktopConstants DEF TypeOK, KillFacts
<1>2. LockDiscipline'
  <2>1. /\ pc[t] = "kill" /\ pc' = [pc EXCEPT ![t] = "stopClean"]
        /\ mine' = [mine EXCEPT ![t] = NoProc]
        /\ lock' = lock /\ child' = child /\ stats' = stats
        /\ arg' = arg /\ runtime' = runtime /\ orphans' = orphans
      OBVIOUS
  <2>2. \A u \in Tasks : u # t => pc'[u] = pc[u] /\ mine'[u] = mine[u]
      BY <2>1 DEF TypeOK
  <2>3. pc'[t] = "stopClean" /\ mine'[t] = NoProc
      BY <2>1 DEF TypeOK
  <2>4. \A u \in Tasks : Inside(u)' <=> Inside(u)
      BY <2>1, <2>2, <2>3 DEF Inside
  <2>5. \A p \in orphans : proc'[p] \in {"starting", "listening", "dying"}
      BY <1>k0 DEF TypeOK, LockDiscipline, KillFacts, Running
  <2>6. \A u \in Tasks : u # t => pc[u] # "kill"
      BY <2>1 DEF LockDiscipline, Inside
  <2>7. LockDiscipline
      OBVIOUS
  <2> HIDE DEF KillReturns, IInv, Goto
  <2> QED
      BY <2>1, <2>2, <2>3, <2>4, <2>5, <2>6, <2>7 DEF LockDiscipline
<1>3. NoUnownedProcess'
    BY <1>k0, DesktopConstants DEF TypeOK, LockDiscipline, Inside, NoUnownedProcess, KillFacts, Running
<1>4. StatsFollowChild' /\ OlcFollowsProfile' /\ ConnectingIsOwned'
    BY DesktopConstants DEF TypeOK, LockDiscipline, Inside, StatsFollowChild,
        OlcFollowsProfile, ConnectingIsOwned
<1> QED
    BY <1>1, <1>2, <1>3, <1>4

\* KillTimesOut preserves the invariant.
LEMMA KillTimesOutStep ==
    ASSUME IInv, NEW t \in Tasks, KillTimesOut(t)
    PROVE  IInv'
<1> USE DEF IInv, KillTimesOut, Return, Goto, statusVars, engineVars, taskVars, worldVars
<1>1. TypeOK'
    BY DesktopConstants DEF TypeOK
<1>2. LockDiscipline'
    BY DesktopConstants DEF TypeOK, LockDiscipline, Inside
<1>3. NoUnownedProcess'
    BY DesktopConstants DEF TypeOK, LockDiscipline, Inside, NoUnownedProcess
<1>4. StatsFollowChild' /\ OlcFollowsProfile' /\ ConnectingIsOwned'
    BY DesktopConstants DEF TypeOK, LockDiscipline, Inside, StatsFollowChild,
        OlcFollowsProfile, ConnectingIsOwned
<1> QED
    BY <1>1, <1>2, <1>3, <1>4

\* CleanAfterStop preserves the invariant.
LEMMA CleanAfterStopStep ==
    ASSUME IInv, NEW t \in Tasks, CleanAfterStop(t)
    PROVE  IInv'
<1> USE DEF IInv, CleanAfterStop, Return, Goto, statusVars, engineVars, taskVars, worldVars
<1>k. PICK ps : proc' = KillAll(ps) \/ proc' = proc
    OBVIOUS
<1>k0. KillFacts(ps)
    BY KillAllType
<1>1. TypeOK'
    BY <1>k, <1>k0, DesktopConstants DEF TypeOK, KillFacts, Running
<1>2. LockDiscipline'
    BY <1>k, <1>k0, DesktopConstants DEF TypeOK, LockDiscipline, Inside, KillFacts, Running
<1>3. NoUnownedProcess'
    BY <1>k, <1>k0, DesktopConstants DEF TypeOK, LockDiscipline, Inside, NoUnownedProcess, KillFacts, Running
<1>4. StatsFollowChild' /\ OlcFollowsProfile' /\ ConnectingIsOwned'
    BY DesktopConstants DEF TypeOK, LockDiscipline, Inside, StatsFollowChild,
        OlcFollowsProfile, ConnectingIsOwned
<1> QED
    BY <1>1, <1>2, <1>3, <1>4

\* DisconnectEnds preserves the invariant.
LEMMA DisconnectEndsStep ==
    ASSUME IInv, NEW t \in Tasks, DisconnectEnds(t)
    PROVE  IInv'
<1> USE DEF IInv, DisconnectEnds, Return, Goto, statusVars, engineVars, taskVars, worldVars
<1>1. TypeOK'
    BY DesktopConstants DEF TypeOK
<1>2. LockDiscipline'
    BY DesktopConstants DEF TypeOK, LockDiscipline, Inside
<1>3. NoUnownedProcess'
    BY DesktopConstants DEF TypeOK, LockDiscipline, Inside, NoUnownedProcess
<1>4. StatsFollowChild' /\ OlcFollowsProfile' /\ ConnectingIsOwned'
    BY DesktopConstants DEF TypeOK, LockDiscipline, Inside, StatsFollowChild,
        OlcFollowsProfile, ConnectingIsOwned
<1> QED
    BY <1>1, <1>2, <1>3, <1>4

\* Listens preserves the invariant.
LEMMA ListensStep ==
    ASSUME IInv, NEW p \in Procs, Listens(p)
    PROVE  IInv'
<1> USE DEF IInv, Listens, statusVars, engineVars, taskVars, worldVars
<1>1. TypeOK'
    BY DesktopConstants DEF TypeOK
<1>2. LockDiscipline'
    BY DesktopConstants DEF TypeOK, LockDiscipline, Inside
<1>3. NoUnownedProcess'
    BY DesktopConstants DEF TypeOK, LockDiscipline, Inside, NoUnownedProcess
<1>4. StatsFollowChild' /\ OlcFollowsProfile' /\ ConnectingIsOwned'
    BY DesktopConstants DEF TypeOK, LockDiscipline, Inside, StatsFollowChild,
        OlcFollowsProfile, ConnectingIsOwned
<1> QED
    BY <1>1, <1>2, <1>3, <1>4

\* Crashes preserves the invariant.
LEMMA CrashesStep ==
    ASSUME IInv, NEW p \in Procs, Crashes(p)
    PROVE  IInv'
<1> USE DEF IInv, Crashes, Running, statusVars, engineVars, taskVars, worldVars
<1>1. TypeOK'
    BY DesktopConstants DEF TypeOK
<1>2. LockDiscipline'
    BY DesktopConstants DEF TypeOK, LockDiscipline, Inside
<1>3. NoUnownedProcess'
    BY DesktopConstants DEF TypeOK, LockDiscipline, Inside, NoUnownedProcess
<1>4. StatsFollowChild' /\ OlcFollowsProfile' /\ ConnectingIsOwned'
    BY DesktopConstants DEF TypeOK, LockDiscipline, Inside, StatsFollowChild,
        OlcFollowsProfile, ConnectingIsOwned
<1> QED
    BY <1>1, <1>2, <1>3, <1>4

\* Dies preserves the invariant.
LEMMA DiesStep ==
    ASSUME IInv, NEW p \in Procs, Dies(p)
    PROVE  IInv'
<1> USE DEF IInv, Dies, statusVars, engineVars, taskVars, worldVars
<1>1. TypeOK'
    BY DesktopConstants DEF TypeOK
<1>2. LockDiscipline'
    BY DesktopConstants DEF TypeOK, LockDiscipline, Inside
<1>3. NoUnownedProcess'
    BY DesktopConstants DEF TypeOK, LockDiscipline, Inside, NoUnownedProcess
<1>4. StatsFollowChild' /\ OlcFollowsProfile' /\ ConnectingIsOwned'
    BY DesktopConstants DEF TypeOK, LockDiscipline, Inside, StatsFollowChild,
        OlcFollowsProfile, ConnectingIsOwned
<1> QED
    BY <1>1, <1>2, <1>3, <1>4

\* ListenerCloses preserves the invariant.
LEMMA ListenerClosesStep ==
    ASSUME IInv, ListenerCloses
    PROVE  IInv'
<1> USE DEF IInv, ListenerCloses, statusVars, engineVars, taskVars, worldVars
<1>1. TypeOK'
    BY DesktopConstants DEF TypeOK
<1>2. LockDiscipline'
    BY DesktopConstants DEF TypeOK, LockDiscipline, Inside
<1>3. NoUnownedProcess'
    BY DesktopConstants DEF TypeOK, LockDiscipline, Inside, NoUnownedProcess
<1>4. StatsFollowChild' /\ OlcFollowsProfile' /\ ConnectingIsOwned'
    BY DesktopConstants DEF TypeOK, LockDiscipline, Inside, StatsFollowChild,
        OlcFollowsProfile, ConnectingIsOwned
<1> QED
    BY <1>1, <1>2, <1>3, <1>4

\* AppRestarts preserves the invariant: nothing of the old run is left but
\* processes, which are orphans if they still run.
LEMMA AppRestartsStep ==
    ASSUME IInv, NEW orderly \in BOOLEAN, AppRestarts(orderly)
    PROVE  IInv'
<1> USE DEF IInv, AppRestarts
<1>1. PICK ps : /\ proc' = [p \in Procs |-> IF KillAll(ps)[p] = "exited" THEN "free"
                                                                        ELSE KillAll(ps)[p]]
                /\ orphans' = {p \in Procs : proc'[p] \in {"starting", "listening"}}
    OBVIOUS
<1>2. KillFacts(ps)
    BY KillAllType
<1>3. proc' \in [Procs -> {"free", "starting", "listening", "dying"}]
    BY <1>1, <1>2 DEF KillFacts
<1>a. orphans' \subseteq Procs /\ loose' \subseteq Procs
    BY <1>1 DEF TypeOK
<1>b. runs' \in Nat
    BY DEF TypeOK
<1>4. TypeOK'
  <2>1. /\ phase' = "Disconnected" /\ active' = NoProfile /\ lock' = NoTask
        /\ child' = NoProc /\ olcrtc' = NoProfile /\ stats' = FALSE /\ closing' = {}
        /\ job' = NoProc /\ loaded' = NoProfile
      OBVIOUS
  <2>2. /\ pc' \in [Tasks -> Pcs]
        /\ arg' \in [Tasks -> Profiles \cup {NoProfile}]
        /\ mine' \in [Tasks -> Procs \cup {NoProc}]
        /\ runtime' \in [Tasks -> BOOLEAN]
        /\ last' \in [Tasks -> {"none", "ok", "error", "AlreadyRunning", "NotRunning"}]
      BY DEF Pcs
  <2>3. proc' \in [Procs -> {"free", "starting", "listening", "dying", "exited"}]
      BY <1>3
  <2> HIDE DEF AppRestarts, IInv
  <2> QED
      BY <1>a, <1>b, <2>1, <2>2, <2>3 DEF TypeOK
<1>5. LockDiscipline'
    BY <1>1, <1>3, DesktopConstants DEF LockDiscipline, Inside
<1>6. NoUnownedProcess'
    BY <1>1, <1>3 DEF NoUnownedProcess
<1>7. StatsFollowChild' /\ OlcFollowsProfile' /\ ConnectingIsOwned'
    BY DEF StatsFollowChild, OlcFollowsProfile, ConnectingIsOwned
<1> QED
    BY <1>4, <1>5, <1>6, <1>7

-----------------------------------------------------------------------------
(* The theorems.                                                           *)

\* Every step of the system preserves the invariant.
LEMMA NextIInv == IInv /\ [Next]_vars => IInv'
<1> SUFFICES ASSUME IInv, [Next]_vars PROVE IInv'
    OBVIOUS
<1>1. CASE \E t \in Tasks : \/ ConnectRejected(t) \/ Disconnect(t)
                            \/ \E profile \in Profiles : Connect(t, profile)
    BY <1>1, ConnectRejectedStep, DisconnectStep, ConnectStep
<1>2. CASE \E t \in Tasks : StartStep(t)
    BY <1>2, StartLockStep, PrepareStep, CleanBeforeStartStep, StartOlcStep,
       SpawnFailsStep, SpawnStep, StartSucceedsStep, ExitsDuringStartStep,
       StartTimesOutStep, ConnectEndsStep DEF StartStep
<1>3. CASE \E t \in Tasks : StopStep(t)
    BY <1>3, StopLockStep, KillReturnsStep, KillTimesOutStep, CleanAfterStopStep,
       DisconnectEndsStep DEF StopStep
<1>4. CASE \E p \in Procs : Listens(p) \/ Crashes(p) \/ Dies(p)
    BY <1>4, ListensStep, CrashesStep, DiesStep
<1>5. CASE ListenerCloses
    BY <1>5, ListenerClosesStep
<1>6. CASE \E orderly \in BOOLEAN : AppRestarts(orderly)
    BY <1>6, AppRestartsStep
<1>7. CASE UNCHANGED vars
    BY <1>7 DEF vars, statusVars, engineVars, taskVars, worldVars, IInv, TypeOK,
        LockDiscipline, Inside, NoUnownedProcess, StatsFollowChild, OlcFollowsProfile,
        ConnectingIsOwned
<1> QED
    BY <1>1, <1>2, <1>3, <1>4, <1>5, <1>6, <1>7 DEF Next

\* Every behaviour of the engine satisfies the inductive invariant.
LEMMA SpecIInv == Spec => []IInv
BY InitIInv, NextIInv, PTL DEF Spec

\* The engine's variables keep their types.
THEOREM EngineTypeOK == Spec => []TypeOK
<1>1. IInv => TypeOK
    BY DEF IInv
<1> QED
    BY <1>1, SpecIInv, PTL

\* No error path of start_desktop or stop_desktop loses a sing-box.
THEOREM EngineNoUnownedProcess == Spec => []NoUnownedProcess
<1>1. IInv => NoUnownedProcess
    BY DEF IInv
<1> QED
    BY <1>1, SpecIInv, PTL

\* At most one sing-box of this run of the application is not being killed:
\* each is the engine's child or in the hands of the one task that has the lock.
THEOREM EngineOneEngine == Spec => []OneEngine
<1>1. IInv => OneEngine
  <2> SUFFICES ASSUME IInv, NEW p \in Procs \ orphans, NEW q \in Procs \ orphans,
                      Running(p), Running(q)
               PROVE  p = q
      BY DEF OneEngine
  <2>1. \/ child = p
        \/ \E t \in Tasks : mine[t] = p /\ lock = t /\ child = NoProc
      BY DesktopConstants
         DEF IInv, NoUnownedProcess, Running, LockDiscipline, Inside
  <2>2. \/ child = q
        \/ \E t \in Tasks : mine[t] = q /\ lock = t /\ child = NoProc
      BY DesktopConstants
         DEF IInv, NoUnownedProcess, Running, LockDiscipline, Inside
  <2> QED
      BY <2>1, <2>2, DesktopConstants
<1> QED
    BY <1>1, SpecIInv, PTL

\* Between start_desktop and stop_desktop the statistics follow the child.
THEOREM EngineStatsFollowChild == Spec => []StatsFollowChild
<1>1. IInv => StatsFollowChild
    BY DEF IInv
<1> QED
    BY <1>1, SpecIInv, PTL

\* A running engine has the OLC RTC client its profile needs, and no other.
THEOREM EngineOlcFollowsProfile == Spec => []OlcFollowsProfile
<1>1. IInv => OlcFollowsProfile
    BY DEF IInv
<1> QED
    BY <1>1, SpecIInv, PTL

\* The phase Connecting always has a connect command behind it.
THEOREM EngineConnectingIsOwned == Spec => []ConnectingIsOwned
<1>1. IInv => ConnectingIsOwned
    BY DEF IInv
<1> QED
    BY <1>1, SpecIInv, PTL

-----------------------------------------------------------------------------
(* stop_desktop.                                                           *)

\* A stop that found an engine and has come as far as its cleanup has taken the
\* OLC RTC client out.
StopTookOlc ==
    \A t \in Tasks : pc[t] = "stopClean" /\ last[t] # "NotRunning" => olcrtc = NoProfile

\* The client is only stored by the task that has the lock, and stop_desktop
\* reaches its cleanup only past the place that stops it, or without a child.
LEMMA StopTookOlcStep == IInv /\ StopTookOlc /\ [Next]_vars => StopTookOlc'
<1> SUFFICES ASSUME IInv, StopTookOlc, [Next]_vars PROVE StopTookOlc'
    OBVIOUS
<1> USE DEF StopTookOlc, IInv, TypeOK, LockDiscipline, Inside, Goto, Return, StartFails,
        statusVars, engineVars, taskVars, worldVars
<1>1. CASE \E t \in Tasks : ConnectRejected(t) \/ Disconnect(t)
    BY <1>1 DEF ConnectRejected, Disconnect
<1>2. CASE \E t \in Tasks, profile \in Profiles : Connect(t, profile)
    BY <1>2 DEF Connect
<1>3. CASE \E t \in Tasks : StartLock(t) \/ Prepare(t) \/ CleanBeforeStart(t) \/ StartOlc(t)
    BY <1>3 DEF StartLock, Prepare, CleanBeforeStart, StartOlc
<1>4. CASE \E t \in Tasks : SpawnFails(t) \/ Spawn(t) \/ ExitsDuringStart(t) \/ StartTimesOut(t)
    BY <1>4 DEF SpawnFails, Spawn, ExitsDuringStart, StartTimesOut, DropRuntime, StopRuntime
<1>5. CASE \E t \in Tasks : StartSucceeds(t) \/ ConnectEnds(t)
    BY <1>5 DEF StartSucceeds, ConnectEnds
<1>6. CASE \E t \in Tasks : StopLock(t) \/ DisconnectEnds(t)
    BY <1>6 DEF StopLock, DisconnectEnds
<1>7. CASE \E t \in Tasks : KillReturns(t) \/ KillTimesOut(t) \/ CleanAfterStop(t)
    BY <1>7 DEF KillReturns, KillTimesOut, CleanAfterStop
<1>8. CASE \E p \in Procs : Listens(p) \/ Crashes(p) \/ Dies(p)
    BY <1>8 DEF Listens, Crashes, Dies
<1>9. CASE ListenerCloses \/ \E orderly \in BOOLEAN : AppRestarts(orderly)
    BY <1>9 DEF ListenerCloses, AppRestarts
<1>10. CASE UNCHANGED vars
    BY <1>10 DEF vars
<1> QED
    BY <1>1, <1>2, <1>3, <1>4, <1>5, <1>6, <1>7, <1>8, <1>9, <1>10
       DEF Next, StartStep, StopStep

\* The only ways out of stop_desktop are a kill that times out, its cleanup and
\* the end of the application.
LEMMA LeavesStop ==
    ASSUME IInv, [Next]_vars, NEW t \in Tasks, pc[t] \in StopPcs, pc'[t] \notin StopPcs
    PROVE  \/ KillTimesOut(t) \/ CleanAfterStop(t)
           \/ \E orderly \in BOOLEAN : AppRestarts(orderly)
<1> USE DEF IInv, TypeOK, Goto, Return, StartFails
<1>1. ASSUME NEW u \in Tasks,
             \/ ConnectRejected(u) \/ Disconnect(u)
             \/ \E profile \in Profiles : Connect(u, profile)
      PROVE  FALSE
    BY <1>1 DEF ConnectRejected, Disconnect, Connect
<1>2. ASSUME NEW u \in Tasks, StartStep(u) PROVE FALSE
    BY <1>2 DEF StartStep, StartLock, Prepare, CleanBeforeStart, StartOlc, SpawnFails, Spawn,
        ExitsDuringStart, StartTimesOut, StartSucceeds, ConnectEnds
<1>3. ASSUME NEW u \in Tasks, StopStep(u)
      PROVE  u = t /\ (KillTimesOut(u) \/ CleanAfterStop(u))
    BY <1>3 DEF StopStep, StopLock, KillReturns, KillTimesOut, CleanAfterStop, DisconnectEnds
<1>4. ASSUME \/ ListenerCloses \/ UNCHANGED vars
             \/ \E p \in Procs : Listens(p) \/ Crashes(p) \/ Dies(p)
      PROVE  FALSE
    BY <1>4 DEF ListenerCloses, Listens, Crashes, Dies, vars, taskVars
<1> QED
    BY <1>1, <1>2, <1>3, <1>4 DEF Next

\* However stop_desktop ends, no sing-box of this run is left running: it had
\* the lock, so the child it took was the only one, and that one it has killed.
\* Past the kill the OLC RTC client is gone too, if there was an engine.
THEOREM EngineStopLeavesNoEngine == Spec => StopLeavesNoEngine
<1> DEFINE Ended(t) ==
        /\ \A p \in Procs \ orphans' : proc'[p] \notin {"starting", "listening"}
        /\ child' = NoProc /\ ~ stats'
        /\ pc[t] = "stopClean" /\ last[t] # "NotRunning" => olcrtc' = NoProfile
<1> DEFINE StopStepOK ==
        \A t \in Tasks : pc[t] \in StopPcs /\ pc'[t] \notin StopPcs => Ended(t)
<1>1. Init => StopTookOlc
    BY DEF Init, StopTookOlc
<1>2. ASSUME IInv, IInv', StopTookOlc, [Next]_vars PROVE StopStepOK
  <2> SUFFICES ASSUME NEW t \in Tasks, pc[t] \in StopPcs, pc'[t] \notin StopPcs
               PROVE  Ended(t)
      OBVIOUS
  <2>1. /\ child = NoProc /\ ~ stats /\ lock = t
        /\ \A u \in Tasks \ {t} : mine[u] = NoProc
        /\ pc[t] = "stopClean" => mine[t] = NoProc
      BY <1>2 DEF IInv, TypeOK, LockDiscipline, Inside
  <2>2. CASE CleanAfterStop(t) \/ KillTimesOut(t)
    <3>1. UNCHANGED <<child, stats, olcrtc>> /\ \A u \in Tasks : mine'[u] = NoProc
        BY <1>2, <2>1, <2>2 DEF CleanAfterStop, KillTimesOut, engineVars, IInv, TypeOK
    <3>2. \A p \in Procs \ orphans' : proc'[p] \notin {"starting", "listening"}
        BY <1>2, <2>1, <3>1, DesktopConstants DEF IInv, NoUnownedProcess
    <3> QED
        BY <1>2, <2>1, <3>1, <3>2 DEF StopTookOlc
  <2>3. CASE \E orderly \in BOOLEAN : AppRestarts(orderly)
      BY <2>3 DEF AppRestarts
  <2> QED
      BY <1>2, <2>2, <2>3, LeavesStop
<1>3. StopTookOlc /\ IInv /\ IInv' /\ [Next]_vars => [StopStepOK]_vars
    BY <1>2
<1> QED
    BY <1>1, <1>3, SpecIInv, StopTookOlcStep, PTL DEF Spec, StopLeavesNoEngine

-----------------------------------------------------------------------------
(* Processes of an earlier run of the application.                         *)

\* On Windows a sing-box that runs is in the engine's job or could not be
\* attached, and one that an earlier run left could not be attached.
JobInv ==
    Platform = "windows" =>
        /\ \A p \in Procs : Running(p) => p = job \/ p \in loose
        /\ \A p \in orphans : Running(p) => p \in loose

\* Whoever lets go of a job kills the process in it.
LEMMA JobStep == IInv /\ JobInv /\ [Next]_vars => JobInv'
<1> SUFFICES ASSUME IInv, JobInv, [Next]_vars, Platform = "windows" PROVE JobInv'
    BY DEF JobInv
<1>a. ASSUME NEW ps PROVE \A p \in Procs : KillAll(ps)[p] \in {"starting", "listening"} =>
                              KillAll(ps)[p] = proc[p] /\ p \notin ps
    BY KillAllType DEF IInv, KillFacts, Running
<1>b. ASSUME NEW ps, \/ job' = job /\ proc' = KillAll(ps)
                     \/ job \in ps /\ proc' = KillAll(ps)
                     \/ job' = job /\ proc' = proc,
             orphans' = orphans, loose' = loose
      PROVE  JobInv'
    BY <1>a, <1>b DEF JobInv, Running, IInv, TypeOK
<1> USE DEF Goto, Return, StartFails, statusVars, engineVars, taskVars, worldVars
<1>1. CASE \E t \in Tasks : \/ ConnectRejected(t) \/ Disconnect(t)
                            \/ \E profile \in Profiles : Connect(t, profile)
    BY <1>1, <1>b DEF ConnectRejected, Disconnect, Connect
<1>2. CASE \E t \in Tasks : StartLock(t) \/ Prepare(t) \/ StartOlc(t) \/ StartSucceeds(t)
    BY <1>2, <1>b DEF StartLock, Prepare, StartOlc, StartSucceeds
<1>3. CASE \E t \in Tasks : CleanBeforeStart(t) \/ CleanAfterStop(t)
    BY <1>3, <1>b DEF CleanBeforeStart, CleanAfterStop
<1>4. CASE \E t \in Tasks : SpawnFails(t) \/ StartTimesOut(t)
    BY <1>4, <1>b DEF SpawnFails, StartTimesOut, DropRuntime, StopRuntime
<1>5. ASSUME NEW t \in Tasks, Spawn(t) PROVE JobInv'
  <2>1. PICK p \in Procs :
          /\ proc[p] = "free"
          /\ \/ /\ job' = p /\ loose' = loose \ {p}
                /\ proc' = [KillAll({job}) EXCEPT ![p] = "starting"]
             \/ /\ job' = job /\ loose' = loose \cup {p}
                /\ proc' = [proc EXCEPT ![p] = "starting"]
      BY <1>5 DEF Spawn
  <2>2. p \notin orphans /\ orphans' = orphans /\ orphans \subseteq Procs
      BY <1>5, <2>1 DEF Spawn, IInv, LockDiscipline, TypeOK
  <2>3. CASE /\ job' = p /\ loose' = loose \ {p}
             /\ proc' = [KillAll({job}) EXCEPT ![p] = "starting"]
    <3>1. \A q \in Procs \ {p} : Running(q)' => Running(q) /\ q # job
        BY <2>3, <1>a DEF KillAll, Running
    <3> QED
        BY <2>2, <2>3, <3>1 DEF JobInv
  <2>4. CASE /\ job' = job /\ loose' = loose \cup {p}
             /\ proc' = [proc EXCEPT ![p] = "starting"]
    <3>1. \A q \in Procs \ {p} : Running(q)' => Running(q)
        BY <2>4 DEF Running, IInv, TypeOK
    <3> QED
        BY <2>2, <2>4, <3>1 DEF JobInv
  <2> QED
      BY <2>1, <2>3, <2>4
<1>6. CASE \E t \in Tasks : ExitsDuringStart(t)
  <2>1. PICK ps : job \in ps /\ proc' = KillAll(ps)
      BY <1>6 DEF ExitsDuringStart
  <2> QED
      BY <1>6, <2>1, <1>b DEF ExitsDuringStart
<1>7. CASE \E t \in Tasks : ConnectEnds(t) \/ DisconnectEnds(t) \/ KillTimesOut(t)
    BY <1>7, <1>b DEF ConnectEnds, DisconnectEnds, KillTimesOut
<1>8. CASE \E t \in Tasks : StopLock(t) \/ KillReturns(t)
    BY <1>8, <1>b DEF StopLock, KillReturns
<1>9. CASE \E p \in Procs : Listens(p) \/ Crashes(p) \/ Dies(p)
    BY <1>9 DEF Listens, Crashes, Dies, JobInv, Running, IInv, TypeOK
<1>10. CASE ListenerCloses \/ UNCHANGED vars
    BY <1>10, <1>b DEF ListenerCloses, vars
<1>11. ASSUME NEW orderly \in BOOLEAN, AppRestarts(orderly) PROVE JobInv'
  <2>1. PICK ps : /\ job \in ps
                  /\ proc' = [p \in Procs |-> IF KillAll(ps)[p] = "exited" THEN "free"
                                                                          ELSE KillAll(ps)[p]]
      BY <1>11 DEF AppRestarts, ExitKills
  <2>2. \A p \in Procs : Running(p)' => Running(p) /\ p # job
      BY <2>1, <1>a DEF Running
  <2> QED
      BY <1>11, <2>2 DEF AppRestarts, JobInv
<1> QED
    BY <1>1, <1>2, <1>3, <1>4, <1>5, <1>6, <1>7, <1>8, <1>9, <1>10, <1>11
       DEF Next, StartStep, StopStep

\* On Windows an engine runs beside no other sing-box but one that an earlier
\* run could not attach to its job, whatever the cleanups do: a process of this
\* run is the child, and one of an earlier run was in no job.
THEOREM WindowsEngineAlone == Spec => []EngineAlone
<1>1. Init => JobInv
    BY DEF Init, JobInv, Running
<1>2. IInv /\ JobInv => EngineAlone
  <2> SUFFICES ASSUME IInv, JobInv, Platform = "windows", child # NoProc,
                      NEW p \in Procs, Running(p)
               PROVE  p = child \/ p \in orphans \cap loose
      BY DEF EngineAlone
  <2>1. CASE p \in orphans
      BY <2>1 DEF JobInv
  <2>2. CASE p \notin orphans
      BY <2>2, DesktopConstants
         DEF IInv, NoUnownedProcess, LockDiscipline, Inside, Running
  <2> QED
      BY <2>1, <2>2
<1> QED
    BY <1>1, <1>2, SpecIInv, JobStep, PTL DEF Spec

-----------------------------------------------------------------------------
(* The status.                                                             *)

\* What the status says of the engine at each place of a command that runs
\* with no other beside it.
StatusInv ==
    /\ StatusAgrees
    /\ \A t \in Tasks :
          /\ pc[t] \in StartPcs \cup {"startLock", "failed"} => child = NoProc
          /\ pc[t] \in StartPcs \cup {"startLock"} => active = arg[t]
          /\ pc[t] = "connected" => child # NoProc /\ active = loaded
          /\ pc[t] \in StopPcs \cup {"stopLock", "stopped"} => phase # "Connected"
          /\ pc[t] \in StopPcs \cup {"stopped"} => child = NoProc

\* While one command runs at a time, each step keeps the status in line.
LEMMA StatusStep ==
    IInv /\ StatusInv /\ OneAtATime /\ [Next]_vars /\ OneAtATime' => StatusInv'
<1> SUFFICES ASSUME IInv, StatusInv, OneAtATime, [Next]_vars, OneAtATime' PROVE StatusInv'
    OBVIOUS
<1> USE DesktopConstants DEF StatusInv, StatusAgrees, OneAtATime, IInv, TypeOK,
        LockDiscipline, Inside, Goto, Return, StartFails,
        statusVars, engineVars, taskVars, worldVars
<1>1. CASE \E t \in Tasks : ConnectRejected(t) \/ Disconnect(t)
    BY <1>1 DEF ConnectRejected, Disconnect
<1>2. CASE \E t \in Tasks, profile \in Profiles : Connect(t, profile)
    BY <1>2 DEF Connect
<1>3. CASE \E t \in Tasks : StartLock(t) \/ Prepare(t) \/ StartOlc(t) \/ CleanBeforeStart(t)
    BY <1>3 DEF StartLock, Prepare, StartOlc, CleanBeforeStart
<1>4. CASE \E t \in Tasks : SpawnFails(t) \/ Spawn(t) \/ ExitsDuringStart(t) \/ StartTimesOut(t)
    BY <1>4 DEF SpawnFails, Spawn, ExitsDuringStart, StartTimesOut, DropRuntime, StopRuntime
<1>5. CASE \E t \in Tasks : StartSucceeds(t) \/ ConnectEnds(t)
    BY <1>5 DEF StartSucceeds, ConnectEnds
<1>6. CASE \E t \in Tasks : StopLock(t) \/ DisconnectEnds(t)
    BY <1>6 DEF StopLock, DisconnectEnds
<1>7. CASE \E t \in Tasks : KillReturns(t) \/ KillTimesOut(t) \/ CleanAfterStop(t)
    BY <1>7 DEF KillReturns, KillTimesOut, CleanAfterStop
<1>8. CASE \E p \in Procs : Listens(p) \/ Crashes(p) \/ Dies(p)
    BY <1>8 DEF Listens, Crashes, Dies
<1>9. CASE ListenerCloses \/ \E orderly \in BOOLEAN : AppRestarts(orderly)
    BY <1>9 DEF ListenerCloses, AppRestarts
<1>10. CASE UNCHANGED vars
    BY <1>10 DEF vars
<1> QED
    BY <1>1, <1>2, <1>3, <1>4, <1>5, <1>6, <1>7, <1>8, <1>9, <1>10
       DEF Next, StartStep, StopStep

\* If the user interface waits for each command before it issues the next, the
\* status tells between commands whether there is an engine and for whom.
THEOREM EngineStatusTellsEngine == Spec => StatusTellsEngine
<1>1. Init => StatusInv
    BY DEF Init, StatusInv, StatusAgrees
<1>2. StatusInv => StatusAgrees
    BY DEF StatusInv
<1> QED
    BY <1>1, <1>2, SpecIInv, StatusStep, PTL DEF Spec, StatusTellsEngine

=============================================================================
