---------------------------- MODULE DesktopEngine ----------------------------
(***************************************************************************)
(* The commands connect and disconnect (src/commands.rs) and the desktop   *)
(* engine behind them (start_desktop and stop_desktop of src/engine.rs) as *)
(* built for Linux and Windows, with the sing-box processes they manage.   *)
(*                                                                         *)
(* Each command runs in a task.  The status is behind one Mutex, taken for *)
(* single assignments; the child process is behind another, `lock', which  *)
(* start_desktop and stop_desktop keep from beginning to end.  Everything   *)
(* the two do between awaits is one action.                                *)
(***************************************************************************)
EXTENDS Integers, FiniteSets

CONSTANTS
    Tasks,              \* tasks that run commands; a task runs one at a time
    Profiles, OlcProfiles,  \* profiles, and those of protocol OlcRtc
    LocalPort,          \* the port the OLC RTC client of each of them listens on
    Procs,              \* identities of sing-box processes
    Platform,           \* "linux" or "windows"
    CleanupReliable,    \* lsof (Linux) or powershell (Windows) always works
    MayCrash,           \* sing-box may exit by itself
    MaxRuns,            \* bound: runs of the application
    NoTask, NoProc, NoProfile

ASSUME DesktopConstants ==
    /\ OlcProfiles \subseteq Profiles /\ DOMAIN LocalPort = OlcProfiles
    /\ Platform \in {"linux", "windows"}
    /\ CleanupReliable \in BOOLEAN /\ MayCrash \in BOOLEAN
    /\ MaxRuns \in Nat
    /\ NoTask \notin Tasks /\ NoProc \notin Procs /\ NoProfile \notin Profiles

VARIABLES
    phase, active,  \* status.phase and status.active_profile_id
    lock,           \* holder of the Mutex around child
    child,          \* SingBoxEngine.child
    olcrtc,         \* the profile of the runtime in SingBoxEngine.olcrtc, or none
    stats,          \* SingBoxEngine.stats_task holds a task
    job,            \* the process in SingBoxEngine.windows_job
    pc, arg,        \* where each task is, and the profile it connects
    mine,           \* the Child each task holds in a local variable
    runtime,        \* the task holds an OlcRtcRuntime in a local variable
    last,           \* the result of each task's command, or its error so far
    closing,        \* profiles of dropped OlcRtcRuntimes that still hold their port
    proc,           \* the state of each process
    orphans,        \* history: processes that outlived the application
    loose,          \* history: processes that Windows failed to attach to a job
    loaded,         \* history: the profile child was started with
    runs

statusVars == <<phase, active>>
engineVars == <<child, olcrtc, stats, job, loaded>>
taskVars   == <<pc, arg, mine, runtime, last>>
worldVars  == <<closing, proc, orphans, loose, runs>>
vars == <<statusVars, lock, engineVars, taskVars, worldVars>>

Running(p) == proc[p] \in {"starting", "listening"}

Init ==
    /\ phase = "Disconnected" /\ active = NoProfile
    /\ lock = NoTask
    /\ child = NoProc /\ olcrtc = NoProfile /\ stats = FALSE /\ job = NoProc
    /\ loaded = NoProfile
    /\ pc = [t \in Tasks |-> "idle"]
    /\ arg = [t \in Tasks |-> NoProfile]
    /\ mine = [t \in Tasks |-> NoProc]
    /\ runtime = [t \in Tasks |-> FALSE]
    /\ last = [t \in Tasks |-> "none"]
    /\ closing = {}
    /\ proc = [p \in Procs |-> "free"]
    /\ orphans = {} /\ loose = {}
    /\ runs = 1

-----------------------------------------------------------------------------
(* Processes.  A killed process is "dying" until the system reports its    *)
(* exit; one that ended by itself is "exited" until its owner reaps it.    *)

Killed(state) ==
    CASE state \in {"starting", "listening"} -> "dying"
      [] state = "exited" -> "free"
      [] OTHER -> state

\* Drop of a Child spawned with kill_on_drop(true); NoProc stands for None.
\* Drop of a WindowsJob closes its handle, which kills the process in it.
KillAll(ps) == [p \in Procs |-> IF p \in ps THEN Killed(proc[p]) ELSE proc[p]]

\* cleanup_desktop_artifacts: both platforms find the sing-box that listens on
\* port 2080.  Windows looks for the path of the configuration in the command
\* lines too, but for the canonical form of it (\\?\C:\..), which is not the
\* one sing-box was started with.
CleanupTargets == {p \in Procs : proc[p] = "listening"}

\* What a cleanup may kill and answer.  Nothing that lsof, kill, Get-... or
\* Stop-Process fails to find or to end is an error; only powershell itself is.
Cleanups ==
    IF CleanupReliable THEN {[kills |-> CleanupTargets, ok |-> TRUE]}
    ELSE [kills : SUBSET CleanupTargets, ok : {TRUE} \cup {Platform = "linux"}]

-----------------------------------------------------------------------------
(* connect.                                                                *)

Goto(t, p) == pc' = [pc EXCEPT ![t] = p]
Return(t, result) == Goto(t, "idle") /\ last' = [last EXCEPT ![t] = result]

ConnectRejected(t) ==
    /\ pc[t] = "idle" /\ phase \in {"Connected", "Connecting"}
    /\ Return(t, "AlreadyRunning")
    /\ UNCHANGED <<statusVars, lock, engineVars, arg, mine, runtime, worldVars>>

Connect(t, profile) ==
    /\ pc[t] = "idle" /\ phase \notin {"Connected", "Connecting"}
    /\ phase' = "Connecting" /\ active' = profile
    /\ Goto(t, "startLock")
    /\ arg' = [arg EXCEPT ![t] = profile]
    /\ last' = [last EXCEPT ![t] = "none"]
    /\ UNCHANGED <<lock, engineVars, mine, runtime, worldVars>>

\* An error of start_desktop: the guard is dropped on the way out.
StartFails(t, result) ==
    /\ lock' = NoTask
    /\ Goto(t, "failed")
    /\ last' = [last EXCEPT ![t] = result]

\* Mutant: no look at child.
StartLockUnchecked(t) ==
    /\ pc[t] = "startLock" /\ lock = NoTask
    /\ lock' = t /\ Goto(t, "prepare")
    /\ UNCHANGED <<statusVars, engineVars, arg, mine, runtime, last, worldVars>>

StartLock(t) ==
    /\ pc[t] = "startLock" /\ lock = NoTask
    /\ \/ child # NoProc /\ StartFails(t, "AlreadyRunning")
       \/ child = NoProc /\ lock' = t /\ Goto(t, "prepare") /\ UNCHANGED last
    /\ UNCHANGED <<statusVars, engineVars, arg, mine, runtime, worldVars>>

\* Platform check, configuration, resolve_core_binary, permissions and
\* `sing-box check': each may fail, and none changes the engine.
Prepare(t) ==
    /\ pc[t] = "prepare"
    /\ \/ StartFails(t, "error")
       \/ Goto(t, "clean") /\ UNCHANGED <<lock, last>>
    /\ UNCHANGED <<statusVars, engineVars, arg, mine, runtime, worldVars>>

CleanBeforeStart(t) ==
    /\ pc[t] = "clean"
    /\ \E cleanup \in Cleanups :
          /\ proc' = KillAll(cleanup.kills)
          /\ IF cleanup.ok
               THEN Goto(t, IF arg[t] \in OlcProfiles THEN "olc" ELSE "spawn")
                    /\ UNCHANGED <<lock, last>>
               ELSE StartFails(t, "error")
    /\ UNCHANGED <<statusVars, engineVars, arg, mine, runtime, closing, orphans, loose, runs>>

\* No runtime is bound to the local port of this profile.
PortFree(profile) ==
    \A other \in OlcProfiles \cap ({olcrtc} \cup closing) :
        LocalPort[other] # LocalPort[profile]

\* Mutant: try again, for as long as it fails.
StartOlcRetries(t) ==
    /\ pc[t] = "olc"
    /\ \/ /\ Goto(t, "prepare")
          /\ UNCHANGED runtime
       \/ /\ PortFree(arg[t])
          /\ runtime' = [runtime EXCEPT ![t] = TRUE]
          /\ Goto(t, "spawn")
    /\ UNCHANGED <<statusVars, lock, engineVars, arg, mine, last, worldVars>>

\* OlcRtcRuntime::start; it cannot bind the port while another one holds it.
StartOlc(t) ==
    /\ pc[t] = "olc"
    /\ \/ /\ StartFails(t, "error")
          /\ UNCHANGED runtime
       \/ /\ PortFree(arg[t])
          /\ runtime' = [runtime EXCEPT ![t] = TRUE]
          /\ Goto(t, "spawn")
          /\ UNCHANGED <<lock, last>>
    /\ UNCHANGED <<statusVars, engineVars, arg, mine, worldVars>>

\* The runtime of the task goes out of scope; without stop() its accept loop
\* ends only when it is next polled.
DropRuntime(t) ==
    /\ runtime' = [runtime EXCEPT ![t] = FALSE]
    /\ closing' = IF runtime[t] THEN closing \cup {arg[t]} ELSE closing
StopRuntime(t) ==
    /\ runtime' = [runtime EXCEPT ![t] = FALSE]
    /\ UNCHANGED closing

SpawnFails(t) ==
    /\ pc[t] = "spawn"
    /\ StartFails(t, "error")
    /\ DropRuntime(t) \/ StopRuntime(t)     \* resolve_core_binary()?, spawn()
    /\ UNCHANGED <<statusVars, engineVars, arg, mine, proc, orphans, loose, runs>>

\* command.spawn(), and on Windows the job, which replaces an older one; if the
\* process cannot be attached, the start goes on without.
Spawn(t) ==
    /\ pc[t] = "spawn"
    /\ \E p \in Procs :
          /\ proc[p] = "free"
          /\ mine' = [mine EXCEPT ![t] = p]
          /\ \/ /\ Platform = "windows"
                /\ job' = p /\ loose' = loose \ {p}
                /\ proc' = [KillAll({job}) EXCEPT ![p] = "starting"]
             \/ /\ proc' = [proc EXCEPT ![p] = "starting"]
                /\ loose' = IF Platform = "windows" THEN loose \cup {p} ELSE loose
                /\ UNCHANGED job
    /\ Goto(t, "ready")
    /\ UNCHANGED <<statusVars, lock, child, olcrtc, stats, loaded, arg, runtime, last,
                   closing, orphans, runs>>

\* The runtime of a start that has succeeded.
Stored(t) == IF runtime[t] THEN arg[t] ELSE NoProfile

\* Mutant: the runtime is stored only if there is one.
StartSucceedsKeepsOld(t) ==
    /\ pc[t] = "ready" /\ Running(mine[t])
    /\ child' = mine[t] /\ loaded' = arg[t]
    /\ olcrtc' = IF runtime[t] THEN Stored(t) ELSE olcrtc
    /\ runtime' = [runtime EXCEPT ![t] = FALSE]
    /\ mine' = [mine EXCEPT ![t] = NoProc]
    /\ stats' = TRUE
    /\ lock' = NoTask
    /\ Goto(t, "connected")
    /\ UNCHANGED <<statusVars, job, arg, last, worldVars>>

\* wait_for_desktop_readiness: a port answered and, 700 ms later, the process
\* is still there.  The probe is content with whoever answers: this process,
\* one that is dying, or any other program that has the port.
StartSucceeds(t) ==
    /\ pc[t] = "ready" /\ Running(mine[t])
    /\ child' = mine[t] /\ loaded' = arg[t]
    /\ olcrtc' = Stored(t)
    /\ closing' = closing \cup ({olcrtc} \ {NoProfile})     \* the old value is dropped
    /\ runtime' = [runtime EXCEPT ![t] = FALSE]
    /\ mine' = [mine EXCEPT ![t] = NoProc]
    /\ stats' = TRUE
    /\ lock' = NoTask
    /\ Goto(t, "connected")
    /\ UNCHANGED <<statusVars, job, arg, last, proc, orphans, loose, runs>>

\* Ok(Some(status)): the process ended while it was waited for.
ExitsDuringStart(t) ==
    /\ pc[t] = "ready" /\ proc[mine[t]] = "exited"
    /\ StopRuntime(t)
    /\ job' = NoProc
    /\ \E cleanup \in Cleanups : proc' = KillAll({mine[t], job} \cup cleanup.kills)
    /\ mine' = [mine EXCEPT ![t] = NoProc]
    /\ StartFails(t, "error")
    /\ UNCHANGED <<statusVars, child, olcrtc, stats, loaded, arg, orphans, loose, runs>>

\* Mutant: no kill_on_drop.
StartTimesOutNoKill(t) ==
    /\ pc[t] = "ready"
    /\ DropRuntime(t)
    /\ mine' = [mine EXCEPT ![t] = NoProc]
    /\ StartFails(t, "error")
    /\ UNCHANGED <<statusVars, engineVars, arg, proc, orphans, loose, runs>>

\* The `?' after wait_for_desktop_readiness: no port opened in time, or
\* try_wait failed.  Child and runtime are dropped, the job is kept.
StartTimesOut(t) ==
    /\ pc[t] = "ready"
    /\ DropRuntime(t)
    /\ proc' = KillAll({mine[t]})
    /\ mine' = [mine EXCEPT ![t] = NoProc]
    /\ StartFails(t, "error")
    /\ UNCHANGED <<statusVars, engineVars, arg, orphans, loose, runs>>

\* The second half of connect, once engine.start has returned.
ConnectEnds(t) ==
    /\ \/ pc[t] = "connected" /\ phase' = "Connected" /\ Return(t, "ok")
       \/ pc[t] = "failed" /\ phase' = "Failed" /\ Return(t, last[t])
    /\ UNCHANGED <<active, lock, engineVars, arg, mine, runtime, worldVars>>

-----------------------------------------------------------------------------
(* disconnect.                                                             *)

\* Mutant: the phase is left as it is until the engine has stopped.
DisconnectQuietly(t) ==
    /\ pc[t] = "idle"
    /\ Goto(t, "stopLock")
    /\ last' = [last EXCEPT ![t] = "none"]
    /\ UNCHANGED <<statusVars, lock, engineVars, arg, mine, runtime, worldVars>>

Disconnect(t) ==
    /\ pc[t] = "idle"
    /\ phase' = "Disconnecting"
    /\ Goto(t, "stopLock")
    /\ last' = [last EXCEPT ![t] = "none"]
    /\ UNCHANGED <<active, lock, engineVars, arg, mine, runtime, worldVars>>

\* stop_stats_polling, guard.take(), and the kill request if there is a child.
StopLock(t) ==
    /\ pc[t] = "stopLock" /\ lock = NoTask
    /\ lock' = t /\ stats' = FALSE
    /\ \/ /\ child = NoProc
          /\ job' = NoProc
          /\ proc' = KillAll({job})
          /\ last' = [last EXCEPT ![t] = "NotRunning"]
          /\ Goto(t, "stopClean")
          /\ UNCHANGED <<child, loaded, mine>>
       \/ /\ child # NoProc
          /\ child' = NoProc /\ loaded' = NoProfile
          /\ mine' = [mine EXCEPT ![t] = child]
          /\ proc' = KillAll({child})
          /\ Goto(t, "kill")
          /\ UNCHANGED <<job, last>>
    /\ UNCHANGED <<statusVars, olcrtc, arg, runtime, closing, orphans, loose, runs>>

\* Mutant: the OLC RTC client is not stopped.
KillReturnsKeepsOlc(t) ==
    /\ pc[t] = "kill"
    /\ proc[mine[t]] = "free"
    /\ job' = NoProc
    /\ proc' = KillAll({job})
    /\ mine' = [mine EXCEPT ![t] = NoProc]
    /\ Goto(t, "stopClean")
    /\ UNCHANGED <<statusVars, lock, child, olcrtc, stats, loaded, arg, runtime, last,
                   closing, orphans, loose, runs>>

\* child.kill() has returned Ok, or, if the wait failed, Err: the runtime and
\* the job go, then the cleanup.
KillReturns(t) ==
    /\ pc[t] = "kill"
    /\ \/ proc[mine[t]] = "free" /\ UNCHANGED last
       \/ last' = [last EXCEPT ![t] = "error"]
    /\ olcrtc' = NoProfile
    /\ job' = NoProc
    /\ proc' = KillAll({job})
    /\ mine' = [mine EXCEPT ![t] = NoProc]
    /\ Goto(t, "stopClean")
    /\ UNCHANGED <<statusVars, lock, child, stats, loaded, arg, runtime, closing,
                   orphans, loose, runs>>

\* DESKTOP_STOP_TIMEOUT: the error leaves with runtime and job in place.
KillTimesOut(t) ==
    /\ pc[t] = "kill"
    /\ mine' = [mine EXCEPT ![t] = NoProc]
    /\ lock' = NoTask
    /\ Return(t, "error")
    /\ UNCHANGED <<statusVars, engineVars, arg, runtime, worldVars>>

\* cleanup_desktop_artifacts(&runtime_config_path(app)?).await?: the path may
\* be unavailable.  Only an Ok lets disconnect go on to set the status, an
\* error returns from the command as it is.
CleanAfterStop(t) ==
    /\ pc[t] = "stopClean"
    /\ lock' = NoTask
    /\ \E path \in BOOLEAN, cleanup \in Cleanups :
          LET ok == path /\ cleanup.ok IN
          /\ proc' = IF path THEN KillAll(cleanup.kills) ELSE proc
          /\ IF last[t] = "none" /\ ok
               THEN Goto(t, "stopped") /\ UNCHANGED last
               ELSE Return(t, IF last[t] = "NotRunning" /\ ok THEN "NotRunning"
                                                              ELSE "error")
    /\ UNCHANGED <<statusVars, engineVars, arg, mine, runtime, closing, orphans, loose, runs>>

DisconnectEnds(t) ==
    /\ pc[t] = "stopped"
    /\ phase' = "Disconnected" /\ active' = NoProfile
    /\ Return(t, "ok")
    /\ UNCHANGED <<lock, engineVars, arg, mine, runtime, worldVars>>

-----------------------------------------------------------------------------
(* sing-box, the runtime and the application.                              *)

Listens(p) ==
    /\ proc[p] = "starting"
    /\ proc' = [proc EXCEPT ![p] = "listening"]
    /\ UNCHANGED <<statusVars, lock, engineVars, taskVars, closing, orphans, loose, runs>>

Crashes(p) ==
    /\ MayCrash /\ Running(p)
    /\ proc' = [proc EXCEPT ![p] = IF p \in orphans THEN "free" ELSE "exited"]
    /\ job' = IF job = p THEN NoProc ELSE job
    /\ orphans' = orphans \ {p}
    /\ UNCHANGED <<statusVars, lock, child, olcrtc, stats, loaded, taskVars, closing,
                   loose, runs>>

Dies(p) ==
    /\ proc[p] = "dying"
    /\ proc' = [proc EXCEPT ![p] = "free"]
    /\ job' = IF job = p THEN NoProc ELSE job
    /\ orphans' = orphans \ {p}
    /\ UNCHANGED <<statusVars, lock, child, olcrtc, stats, loaded, taskVars, closing,
                   loose, runs>>

ListenerCloses ==
    /\ \E profile \in closing : closing' = closing \ {profile}
    /\ UNCHANGED <<statusVars, lock, engineVars, taskVars, proc, orphans, loose, runs>>

\* Mutant: the job has no JOB_OBJECT_LIMIT_KILL_ON_JOB_CLOSE.
ExitKillsNotJob(orderly, kills) == IF orderly THEN kills ELSE {}

\* What ends with the application: Windows closes the job with its last
\* handle, and on an orderly exit on_event cleans up first.  A Child is not
\* dropped, so its process is not killed.
ExitKills(orderly, kills) == {job} \cup IF orderly THEN kills ELSE {}

\* The application ends and is started again.
AppRestarts(orderly) ==
    /\ runs < MaxRuns /\ runs' = runs + 1
    /\ \E cleanup \in Cleanups :
          LET killed == KillAll(ExitKills(orderly, cleanup.kills)) IN
          proc' = [p \in Procs |-> IF killed[p] = "exited" THEN "free" ELSE killed[p]]
    /\ orphans' = {p \in Procs : proc'[p] \in {"starting", "listening"}}
    /\ UNCHANGED loose
    /\ phase' = "Disconnected" /\ active' = NoProfile
    /\ lock' = NoTask
    /\ child' = NoProc /\ olcrtc' = NoProfile /\ stats' = FALSE /\ job' = NoProc
    /\ loaded' = NoProfile /\ closing' = {}
    /\ pc' = [t \in Tasks |-> "idle"]
    /\ arg' = [t \in Tasks |-> NoProfile]
    /\ mine' = [t \in Tasks |-> NoProc]
    /\ runtime' = [t \in Tasks |-> FALSE]
    /\ last' = [t \in Tasks |-> "none"]

StartStep(t) ==
    \/ StartLock(t) \/ Prepare(t) \/ CleanBeforeStart(t) \/ StartOlc(t)
    \/ SpawnFails(t) \/ Spawn(t) \/ StartSucceeds(t) \/ ExitsDuringStart(t)
    \/ StartTimesOut(t) \/ ConnectEnds(t)

StopStep(t) ==
    \/ StopLock(t) \/ KillReturns(t) \/ KillTimesOut(t) \/ CleanAfterStop(t)
    \/ DisconnectEnds(t)

Next ==
    \/ \E t \in Tasks :
          \/ ConnectRejected(t) \/ Disconnect(t)
          \/ \E profile \in Profiles : Connect(t, profile)
          \/ StartStep(t) \/ StopStep(t)
    \/ \E p \in Procs : Listens(p) \/ Crashes(p) \/ Dies(p)
    \/ ListenerCloses
    \/ \E orderly \in BOOLEAN : AppRestarts(orderly)

Spec == Init /\ [][Next]_vars

\* Commands run on, and the tokio Mutex is fair.  Every wait for sing-box ends
\* by a timeout at the latest, so nothing is assumed of sing-box; lsof,
\* powershell and the calls to LiveKit, which have no timeout here, are assumed
\* to return.  A task is at one place at a time, so one condition covers all.
FairSpec == Spec /\ \A t \in Tasks : SF_vars(StartStep(t) \/ StopStep(t))

-----------------------------------------------------------------------------
(* Properties.                                                             *)

StartPcs == {"prepare", "clean", "olc", "spawn", "ready"}
StopPcs  == {"kill", "stopClean"}
ConnectPcs == StartPcs \cup {"startLock", "connected", "failed"}
Pcs == ConnectPcs \cup StopPcs \cup {"idle", "stopLock", "stopped"}

\* Every variable keeps its type.
TypeOK ==
    /\ phase \in {"Disconnected", "Connecting", "Connected", "Disconnecting", "Failed"}
    /\ active \in Profiles \cup {NoProfile}
    /\ lock \in Tasks \cup {NoTask}
    /\ child \in Procs \cup {NoProc}
    /\ olcrtc \in OlcProfiles \cup {NoProfile} /\ closing \subseteq OlcProfiles
    /\ stats \in BOOLEAN
    /\ job \in Procs \cup {NoProc}
    /\ loaded \in Profiles \cup {NoProfile}
    /\ pc \in [Tasks -> Pcs]
    /\ arg \in [Tasks -> Profiles \cup {NoProfile}]
    /\ mine \in [Tasks -> Procs \cup {NoProc}]
    /\ runtime \in [Tasks -> BOOLEAN]
    /\ last \in [Tasks -> {"none", "ok", "error", "AlreadyRunning", "NotRunning"}]
    /\ proc \in [Procs -> {"free", "starting", "listening", "dying", "exited"}]
    /\ orphans \subseteq Procs /\ loose \subseteq Procs
    /\ runs \in Nat

\* No error path of start_desktop or stop_desktop loses a sing-box that is not
\* being killed: the engine or a command still holds its Child.
NoUnownedProcess ==
    \A p \in Procs \ orphans :
        proc[p] \in {"starting", "listening", "exited"} =>
            child = p \/ \E t \in Tasks : mine[t] = p

\* However commands overlap, this run of the application has at most one
\* sing-box that is not being killed: two would fight over the TUN interface,
\* the routes and the local ports.
OneEngine ==
    \A p, q \in Procs \ orphans : Running(p) /\ Running(q) => p = q

\* With nobody inside start_desktop or stop_desktop, statistics are polled
\* exactly while the engine has a child.
StatsFollowChild == lock = NoTask => (stats <=> child # NoProc)

\* With nobody inside, a running engine has the OLC RTC client of its own
\* profile, or none if that needs none: never one left over from an earlier
\* connection, be it of another profile with a port of its own.
OlcFollowsProfile ==
    lock = NoTask /\ child # NoProc =>
        olcrtc = IF loaded \in OlcProfiles THEN loaded ELSE NoProfile

\* The phase Connecting, which makes connect refuse to run, never outlives the
\* commands: somebody is still going to replace it.
ConnectingIsOwned ==
    phase = "Connecting" => \E t \in Tasks : pc[t] \in ConnectPcs

\* What makes the three above inductive: who is inside has the lock and the
\* child, and what each place in the two functions says of the task's locals.
Inside(t) == pc[t] \in StartPcs \cup StopPcs
LockDiscipline ==
    /\ \A t \in Tasks : Inside(t) <=> lock = t
    /\ \A t \in Tasks : Inside(t) => child = NoProc /\ ~ stats
    /\ \A t \in Tasks : mine[t] # NoProc <=> pc[t] \in {"ready", "kill"}
    /\ \A t \in Tasks : pc[t] = "kill" => proc[mine[t]] \in {"dying", "free"}
    /\ \A t \in Tasks : pc[t] = "olc" => arg[t] \in OlcProfiles
    /\ \A t \in Tasks : pc[t] \in {"spawn", "ready"} =>
                            (runtime[t] <=> arg[t] \in OlcProfiles)
    /\ \A t \in Tasks : runtime[t] => pc[t] \in {"spawn", "ready"}
    /\ \A p \in orphans : proc[p] \in {"starting", "listening", "dying"}

\* If the user interface waits for each command before it issues the next, the
\* status tells between commands whether there is an engine, and for which
\* profile (commands.rs:29, commands.rs:61): failed, refused and timed-out
\* commands and restarts of the application leave nothing behind that
\* contradicts it.
OneAtATime == \A t, u \in Tasks : pc[t] # "idle" /\ pc[u] # "idle" => t = u
StatusAgrees ==
    (\A t \in Tasks : pc[t] = "idle") =>
        /\ phase = "Connected" <=> child # NoProc
        /\ phase = "Connected" => active = loaded
StatusTellsEngine == []OneAtATime => []StatusAgrees

\* On Windows an engine runs beside no other sing-box but one that an earlier
\* run of the application could not attach to its job: however the application
\* ended and whatever the cleanups missed, the jobs leave nothing else behind
\* (time-outs keep the job of a process that is given up, a new job replaces
\* an old one, a failed attachment keeps it).
EngineAlone ==
    Platform = "windows" /\ child # NoProc =>
        \A p \in Procs : Running(p) => p = child \/ p \in orphans \cap loose

\* However stop_desktop ends, with Ok, NotRunning, a failed cleanup or a kill
\* that times out, no sing-box of this run is left that is not being killed, and
\* neither child nor statistics.  The OLC RTC client is gone as well, unless
\* the kill timed out (engine.rs:401 leaves before the client is stopped) or there
\* was no engine, so that a client such a stop has left stays.
StopLeavesNoEngine ==
    [][\A t \in Tasks : pc[t] \in StopPcs /\ pc'[t] \notin StopPcs =>
          /\ \A p \in Procs \ orphans' : proc'[p] \notin {"starting", "listening"}
          /\ child' = NoProc /\ ~ stats'
          /\ pc[t] = "stopClean" /\ last[t] # "NotRunning" => olcrtc' = NoProfile]_vars

\* Every command returns, whatever sing-box does and however commands overlap:
\* no path leaves the child's Mutex locked or waits for a process for good.
CommandsReturn ==
    \A t \in Tasks : pc[t] # "idle" ~> pc[t] = "idle"
=============================================================================
