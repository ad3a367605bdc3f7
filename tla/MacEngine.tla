------------------------------ MODULE MacEngine ------------------------------
(***************************************************************************)
(* The commands connect, disconnect and status (src/commands.rs) and the   *)
(* engine behind them as built for macOS: start_desktop and stop_desktop   *)
(* of src/engine.rs, and src/macos_vpn.rs, which asks the system's         *)
(* NetworkExtension service for a tunnel.  There is no sing-box process:   *)
(* the tunnel belongs to the system, outlives the application and can be   *)
(* switched in System Settings.                                            *)
(*                                                                         *)
(* Two Mutexes: `lock', around the child, is held by start_desktop and     *)
(* stop_desktop from beginning to end; `slock', around the status, is held *)
(* by status while it waits for the system, and taken by connect and       *)
(* disconnect for single assignments.  Every call of macos_vpn.rs waits at *)
(* most 30 seconds for the system's answer: it may succeed, fail, or be    *)
(* given up, in which case what was asked for may still happen.            *)
(*                                                                         *)
(* privileged_pid is never set and start_macos_privileged_sing_box never   *)
(* called, so the branches of the administrator's process are left out.    *)
(***************************************************************************)
EXTENDS Integers

CONSTANTS
    Tasks,                  \* tasks that run commands; a task runs one at a time
    Profiles, OlcProfiles,  \* profiles, and those of protocol OlcRtc
    MaxRuns,                \* bound: runs of the application
    NoTask, NoProfile

ASSUME MacConstants ==
    /\ OlcProfiles \subseteq Profiles
    /\ MaxRuns \in Nat
    /\ NoTask \notin Tasks /\ NoProfile \notin Profiles

VARIABLES
    phase,          \* status.phase; the rest of the status is not modelled
    slock,          \* holder of the Mutex around the status
    lock,           \* holder of the Mutex around child
    flag,           \* SingBoxEngine.macos_system_connected
    olcrtc,         \* SingBoxEngine.olcrtc holds a runtime
    stats,          \* SingBoxEngine.stats_task holds a task
    loaded,         \* history: the profile of the connect that set the flag
    pc, arg,        \* where each task is, and the profile it connects
    runtime,        \* the task holds an OlcRtcRuntime in a local variable
    installed,      \* System Settings has a profile named KOSTRA VPN
    late,           \* a save that its caller gave up waiting for is still open
    tunnel,         \* what the system makes of that profile
    running,        \* the profile whose configuration it was started with
    stray,          \* history: the tunnel is up for a reason of its own
    runs

statusVars == <<phase, slock>>
engineVars == <<flag, olcrtc, stats, loaded>>
taskVars   == <<pc, arg, runtime>>
tunnelVars == <<tunnel, running, stray>>
systemVars == <<installed, late, tunnelVars>>
vars == <<statusVars, lock, engineVars, taskVars, systemVars, runs>>

Active == {"starting", "up"}

Init ==
    /\ phase = "Disconnected" /\ slock = NoTask
    /\ lock = NoTask
    /\ flag = FALSE /\ olcrtc = FALSE /\ stats = FALSE /\ loaded = NoProfile
    /\ pc = [t \in Tasks |-> "idle"]
    /\ arg = [t \in Tasks |-> NoProfile]
    /\ runtime = [t \in Tasks |-> FALSE]
    /\ installed \in BOOLEAN /\ late = FALSE
    /\ tunnel = "down" /\ running = NoProfile /\ stray = FALSE
    /\ runs = 1

Goto(t, p) == pc' = [pc EXCEPT ![t] = p]

\* The command returns; its locals are gone.
Return(t) ==
    /\ Goto(t, "idle")
    /\ arg' = [arg EXCEPT ![t] = NoProfile]

-----------------------------------------------------------------------------
(* NetworkExtension, as macos_vpn.rs uses it.                              *)

\* The state of the tunnel changes; whoever wanted it up has no part in a
\* tunnel that is not.
TunnelBecomes(state) ==
    /\ tunnel' = state
    /\ stray' = (stray /\ state \in Active)

\* save_vpn_profile: the profile is found or made, and saved.  A call that is
\* given up after 30 seconds leaves the save open: it waits for the user, who
\* is asked to allow the profile.
SaveOk == installed' = TRUE /\ UNCHANGED late
SaveFails == UNCHANGED installed /\ late' \in {late, TRUE}

\* startTunnelWithOptions: a session that is up or coming up is told nothing
\* new or starts over; one that is going down may not listen.
StartTunnel(p) ==
    \/ /\ tunnel \in {"down", "stopping"}
       /\ TunnelBecomes("starting") /\ running' = p
    \/ /\ tunnel \in {"starting", "up", "stopping"}
       /\ UNCHANGED tunnelVars
    \/ /\ tunnel \in Active
       /\ TunnelBecomes("starting") /\ running' = p

\* stopVPNTunnel, on the profile load_manager has found.
StopTunnel ==
    /\ installed
    /\ TunnelBecomes(IF tunnel \in Active THEN "stopping" ELSE tunnel)
    /\ UNCHANGED running

-----------------------------------------------------------------------------
(* connect.                                                                *)

ConnectRejected(t) ==
    /\ pc[t] = "idle" /\ slock = NoTask
    /\ phase \in {"Connected", "Connecting"}
    /\ UNCHANGED vars

Connect(t, p) ==
    /\ pc[t] = "idle" /\ slock = NoTask
    /\ phase \notin {"Connected", "Connecting"}
    /\ phase' = "Connecting"
    /\ arg' = [arg EXCEPT ![t] = p]
    /\ Goto(t, "startLock")
    /\ UNCHANGED <<slock, lock, engineVars, runtime, systemVars, runs>>

\* An error of start_desktop: the guard is dropped on the way out, and every
\* path that has a runtime stops it first.
StartFails(t) ==
    /\ lock' = NoTask
    /\ runtime' = [runtime EXCEPT ![t] = FALSE]
    /\ Goto(t, "failed")

\* Mutant: no look at macos_system_connected.
StartLockUnchecked(t) ==
    /\ pc[t] = "startLock" /\ lock = NoTask
    /\ lock' = t /\ Goto(t, "prepare")
    /\ UNCHANGED <<statusVars, engineVars, arg, runtime, systemVars, runs>>

StartLock(t) ==
    /\ pc[t] = "startLock" /\ lock = NoTask
    /\ \/ flag /\ StartFails(t)
       \/ ~flag /\ lock' = t /\ Goto(t, "prepare") /\ UNCHANGED runtime
    /\ UNCHANGED <<statusVars, engineVars, arg, systemVars, runs>>

\* The configuration is generated and written, then install_vpn_profile.
Prepare(t) ==
    /\ pc[t] = "prepare"
    /\ \/ StartFails(t) /\ SaveFails
       \/ Goto(t, "clean") /\ SaveOk /\ UNCHANGED <<lock, runtime>>
    /\ UNCHANGED <<statusVars, engineVars, arg, tunnelVars, runs>>

\* cleanup_desktop_artifacts: if the sing-box of another installation listens
\* on port 2080, the administrator is asked to let it be killed; he may refuse,
\* the script may fail or take 300 seconds.
CleanBeforeStart(t) ==
    /\ pc[t] = "clean"
    /\ \/ StartFails(t)
       \/ /\ Goto(t, IF arg[t] \in OlcProfiles THEN "olc" ELSE "save")
          /\ UNCHANGED <<lock, runtime>>
    /\ UNCHANGED <<statusVars, engineVars, arg, systemVars, runs>>

\* OlcRtcRuntime::start.
StartOlc(t) ==
    /\ pc[t] = "olc"
    /\ \/ StartFails(t)
       \/ /\ runtime' = [runtime EXCEPT ![t] = TRUE]
          /\ Goto(t, "save")
          /\ UNCHANGED lock
    /\ UNCHANGED <<statusVars, engineVars, arg, systemVars, runs>>

\* start_vpn_profile: the profile is saved again, with the id of the profile;
\* then load_manager finds it, or the user has just removed it, and the tunnel
\* is started.
SaveProfile(t) ==
    /\ pc[t] = "save"
    /\ \/ StartFails(t) /\ SaveFails
       \/ Goto(t, "start") /\ SaveOk /\ UNCHANGED <<lock, runtime>>
    /\ UNCHANGED <<statusVars, engineVars, arg, tunnelVars, runs>>

StartVpnProfile(t) ==
    /\ pc[t] = "start"
    /\ \/ StartFails(t) /\ UNCHANGED tunnelVars
       \/ /\ installed /\ StartTunnel(arg[t])
          /\ Goto(t, "wait")
          /\ UNCHANGED <<lock, runtime>>
    /\ UNCHANGED <<statusVars, engineVars, arg, installed, late, runs>>

\* wait_for_macos_system_tunnel: a poll sees the tunnel up, and the engine
\* notes what it has; or 20 seconds pass.
StartSucceeds(t) ==
    /\ pc[t] = "wait" /\ installed /\ tunnel = "up"
    /\ flag' = TRUE /\ loaded' = arg[t]
    /\ olcrtc' = runtime[t] /\ runtime' = [runtime EXCEPT ![t] = FALSE]
    /\ stats' = TRUE
    /\ lock' = NoTask
    /\ Goto(t, "connected")
    /\ UNCHANGED <<statusVars, arg, systemVars, runs>>

\* Mutant: no deadline; the tunnel is polled until it is up.
WaitGoesOn(t) ==
    /\ pc[t] = "wait"
    /\ UNCHANGED vars

WaitTimesOut(t) ==
    /\ pc[t] = "wait"
    /\ Goto(t, "rollback")
    /\ UNCHANGED <<statusVars, lock, engineVars, arg, runtime, systemVars, runs>>

\* Mutant: the tunnel is left to itself.
RollbackKeepsTunnel(t) ==
    /\ pc[t] = "rollback"
    /\ StartFails(t)
    /\ UNCHANGED <<statusVars, engineVars, arg, systemVars, runs>>

\* The runtime is stopped, then the tunnel; whether that worked is not asked.
Rollback(t) ==
    /\ pc[t] = "rollback"
    /\ StartFails(t)
    /\ \/ StopTunnel
       \/ stray' = (tunnel \in Active) /\ UNCHANGED <<tunnel, running>>
    /\ UNCHANGED <<statusVars, engineVars, arg, installed, late, runs>>

\* The second half of connect, once engine.start has returned.
ConnectEnds(t) ==
    /\ pc[t] \in {"connected", "failed"} /\ slock = NoTask
    /\ phase' = IF pc[t] = "connected" THEN "Connected" ELSE "Failed"
    /\ Return(t)
    /\ UNCHANGED <<slock, lock, engineVars, runtime, systemVars, runs>>

-----------------------------------------------------------------------------
(* disconnect.                                                             *)

Disconnect(t) ==
    /\ pc[t] = "idle" /\ slock = NoTask
    /\ phase' = "Disconnecting"
    /\ Goto(t, "stopLock")
    /\ UNCHANGED <<slock, lock, engineVars, arg, runtime, systemVars, runs>>

\* Mutant: the OLC RTC client is not taken.
StopLockKeepsOlc(t) ==
    /\ pc[t] = "stopLock" /\ lock = NoTask
    /\ lock' = t /\ stats' = FALSE
    /\ Goto(t, IF flag THEN "stopVpn" ELSE "refuse")
    /\ UNCHANGED <<statusVars, flag, olcrtc, loaded, arg, runtime, systemVars, runs>>

\* stop_stats_polling; a connected engine stops its runtime first.
StopLock(t) ==
    /\ pc[t] = "stopLock" /\ lock = NoTask
    /\ lock' = t /\ stats' = FALSE
    /\ \/ flag /\ olcrtc' = FALSE /\ Goto(t, "stopVpn")
       \/ ~flag /\ UNCHANGED olcrtc /\ Goto(t, "refuse")
    /\ UNCHANGED <<statusVars, flag, loaded, arg, runtime, systemVars, runs>>

\* stop_vpn_profile()?: an error leaves the flag set, so that disconnect can be
\* tried again; the runtime is gone.
StopVpnProfile(t) ==
    /\ pc[t] = "stopVpn"
    /\ \/ /\ StopTunnel
          /\ flag' = FALSE /\ loaded' = NoProfile
          /\ Goto(t, "stopClean")
          /\ UNCHANGED <<lock, arg>>
       \/ /\ lock' = NoTask /\ Return(t)
          /\ UNCHANGED <<flag, loaded, tunnelVars>>
    /\ UNCHANGED <<statusVars, olcrtc, stats, runtime, installed, late, runs>>

\* cleanup_desktop_artifacts(&runtime_config_path(app)?).await?: only an Ok of
\* an engine that was connected lets disconnect go on; the others return an
\* error, NotRunning among them.
CleanAfterStop(t) ==
    /\ pc[t] \in {"stopClean", "refuse"}
    /\ lock' = NoTask
    /\ \/ pc[t] = "stopClean" /\ Goto(t, "stopped") /\ UNCHANGED arg
       \/ Return(t)
    /\ UNCHANGED <<statusVars, engineVars, runtime, systemVars, runs>>

DisconnectEnds(t) ==
    /\ pc[t] = "stopped" /\ slock = NoTask
    /\ phase' = "Disconnected"
    /\ Return(t)
    /\ UNCHANGED <<slock, lock, engineVars, runtime, systemVars, runs>>

-----------------------------------------------------------------------------
(* status.                                                                 *)

Status(t) ==
    /\ pc[t] = "idle" /\ slock = NoTask
    /\ slock' = t /\ Goto(t, "query")
    /\ UNCHANGED <<phase, lock, engineVars, arg, runtime, systemVars, runs>>

\* Mutant: a tunnel that is gone is not noticed.
ReconciledUpOnly(p, up) == IF up /\ p = "Disconnected" THEN "Connected" ELSE p

\* The two arms that change the phase; the flag is left as it is.
Reconciled(p, up) ==
    CASE up /\ p = "Disconnected" -> "Connected"
      [] ~up /\ p \in {"Connected", "Connecting"} -> "Disconnected"
      [] OTHER -> p

\* is_vpn_profile_connected answers; it fails or is given up.
StatusAnswered(t) ==
    /\ pc[t] = "query" /\ installed
    /\ phase' = Reconciled(phase, tunnel = "up")
    /\ slock' = NoTask /\ Return(t)
    /\ UNCHANGED <<lock, engineVars, runtime, systemVars, runs>>

StatusFails(t) ==
    /\ pc[t] = "query"
    /\ slock' = NoTask /\ Return(t)
    /\ UNCHANGED <<phase, lock, engineVars, runtime, systemVars, runs>>

-----------------------------------------------------------------------------
(* The system, its user and the application.                               *)

SystemOnly == UNCHANGED <<statusVars, lock, engineVars, taskVars>>

\* The tunnel comes up, or stops as it was told; it ends by itself, or because
\* the user switches it off.
TunnelChanges ==
    /\ \/ tunnel = "starting" /\ TunnelBecomes("up")
       \/ tunnel # "down" /\ TunnelBecomes("down")
    /\ SystemOnly /\ UNCHANGED <<installed, late, running, runs>>

\* The user switches the profile on in System Settings: no configuration is
\* handed over.
UserStarts ==
    /\ installed /\ tunnel = "down"
    /\ tunnel' = "starting" /\ running' = NoProfile /\ stray' = TRUE
    /\ SystemOnly /\ UNCHANGED <<installed, late, runs>>

UserRemovesProfile ==
    /\ installed /\ installed' = FALSE
    /\ TunnelBecomes("down")
    /\ SystemOnly /\ UNCHANGED <<late, running, runs>>

\* A save is allowed after its caller has given up.
LateSave ==
    /\ late /\ late' = FALSE
    /\ installed' = TRUE
    /\ SystemOnly /\ UNCHANGED <<tunnelVars, runs>>

\* The application ends and is started again.  on_event looks for the sing-box of
\* another installation only: the tunnel stays.
AppRestarts ==
    /\ runs < MaxRuns /\ runs' = runs + 1
    /\ phase' = "Disconnected" /\ slock' = NoTask
    /\ lock' = NoTask
    /\ flag' = FALSE /\ olcrtc' = FALSE /\ stats' = FALSE /\ loaded' = NoProfile
    /\ pc' = [t \in Tasks |-> "idle"]
    /\ arg' = [t \in Tasks |-> NoProfile]
    /\ runtime' = [t \in Tasks |-> FALSE]
    /\ stray' = (tunnel \in Active)
    /\ UNCHANGED <<installed, late, tunnel, running>>

-----------------------------------------------------------------------------
StartStep(t) ==
    \/ StartLock(t) \/ Prepare(t) \/ CleanBeforeStart(t) \/ StartOlc(t)
    \/ SaveProfile(t) \/ StartVpnProfile(t) \/ StartSucceeds(t)
    \/ WaitTimesOut(t) \/ Rollback(t)

StopStep(t) == StopLock(t) \/ StopVpnProfile(t) \/ CleanAfterStop(t)

\* The steps that wait for the status's Mutex.
TaskEnds(t) == ConnectEnds(t) \/ DisconnectEnds(t)

StatusStep(t) == StatusAnswered(t) \/ StatusFails(t)

Command(t) ==
    \/ ConnectRejected(t) \/ Disconnect(t) \/ Status(t)
    \/ \E p \in Profiles : Connect(t, p)

SystemStep == TunnelChanges \/ UserStarts \/ UserRemovesProfile \/ LateSave

Next ==
    \/ \E t \in Tasks :
          Command(t) \/ StartStep(t) \/ StopStep(t) \/ TaskEnds(t) \/ StatusStep(t)
    \/ SystemStep \/ AppRestarts

Spec == Init /\ [][Next]_vars

\* Commands run on and the tokio Mutexes are fair.  Every wait for the system
\* or the administrator ends by a timeout, so nothing is assumed of them; the
\* calls to LiveKit and lsof, which have none here, are assumed to return.  A
\* task is at one place at a time, so one condition covers all of them.
FairSpec ==
    /\ Spec
    /\ \A t \in Tasks :
          SF_vars(StartStep(t) \/ StopStep(t) \/ TaskEnds(t) \/ StatusStep(t))

-----------------------------------------------------------------------------
(* Properties.                                                             *)

StartPcs == {"prepare", "clean", "olc", "save", "start", "wait", "rollback"}
StopPcs  == {"stopVpn", "stopClean", "refuse"}
Pcs == StartPcs \cup StopPcs
         \cup {"idle", "startLock", "connected", "failed", "stopLock", "stopped", "query"}
Inside(t) == pc[t] \in StartPcs \cup StopPcs

\* Every variable keeps its type.
TypeOK ==
    /\ phase \in {"Disconnected", "Connecting", "Connected", "Disconnecting", "Failed"}
    /\ slock \in Tasks \cup {NoTask} /\ lock \in Tasks \cup {NoTask}
    /\ flag \in BOOLEAN /\ olcrtc \in BOOLEAN /\ stats \in BOOLEAN
    /\ loaded \in Profiles \cup {NoProfile}
    /\ pc \in [Tasks -> Pcs]
    /\ arg \in [Tasks -> Profiles \cup {NoProfile}]
    /\ runtime \in [Tasks -> BOOLEAN]
    /\ installed \in BOOLEAN /\ late \in BOOLEAN
    /\ tunnel \in {"down", "starting", "up", "stopping"}
    /\ running \in Profiles \cup {NoProfile}
    /\ stray \in BOOLEAN
    /\ runs \in Nat

\* Who is inside start_desktop or stop_desktop has the child's Mutex, who is
\* inside status the status's; and what each place says of flag and runtime.
LockDiscipline ==
    \A t \in Tasks :
        /\ Inside(t) <=> lock = t
        /\ pc[t] = "query" <=> slock = t
        /\ pc[t] \in StartPcs \cup {"startLock"} => arg[t] \in Profiles
        /\ pc[t] \in StartPcs => ~flag
        /\ pc[t] \in {"stopClean", "refuse"} => ~flag
        /\ pc[t] = "stopVpn" => flag /\ ~olcrtc
        /\ pc[t] = "olc" => arg[t] \in OlcProfiles
        /\ runtime[t] => pc[t] \in StartPcs /\ arg[t] \in OlcProfiles

\* An active tunnel that is nobody else's belongs to the engine, or to the
\* connect that has just asked for it.
TunnelOwned ==
    tunnel \in Active /\ ~stray =>
        \/ flag /\ running = loaded
        \/ \E t \in Tasks : pc[t] \in {"wait", "rollback"} /\ running = arg[t]

\* With nobody inside start_desktop or stop_desktop, a tunnel that is up or
\* coming up is one that disconnect will stop (engine.rs:377): no failed
\* connect, failed disconnect or overlap of the two leaves one behind that the
\* engine has forgotten.  The exceptions are stray tunnels: one the user
\* switched on, one that outlived the application, and one whose stop after a
\* timed-out connect failed, which the code does not look at (engine.rs:176).
NoTunnelLeft == lock = NoTask /\ tunnel \in Active /\ ~flag => stray

\* Such a tunnel runs the profile of the connect that said it succeeded, also
\* when a status query has meanwhile let another connect in (commands.rs:97).
TunnelRunsProfile ==
    lock = NoTask /\ flag /\ tunnel \in Active /\ ~stray => running = loaded

\* An OLC RTC client is kept only beside a connected engine whose profile needs
\* it: every other path has stopped it, so none is left holding the local port.
OlcHasTunnel == lock = NoTask /\ olcrtc => flag /\ loaded \in OlcProfiles

\* Every command returns, whatever the system and the user do, also while
\* status holds the status's Mutex (commands.rs:74, macos_vpn.rs:165).
CommandsReturn == \A t \in Tasks : pc[t] # "idle" ~> pc[t] = "idle"

StatusGoesOn == []<><<\E t \in Tasks : StatusAnswered(t)>>_vars

\* If the application goes on asking for the status and is answered, a status
\* that was overtaken by what happened to the tunnel meanwhile does not last:
\* Connected does not stay beside a tunnel that is down for good, nor
\* Disconnected beside one that is up (commands.rs:107).  This is said of the
\* phase alone: no query corrects macos_system_connected, which makes
\* start_desktop refuse (engine.rs:132).
StatusHeals ==
    StatusGoesOn =>
        /\ <>[](tunnel = "down") => <>[](phase # "Connected")
        /\ <>[](tunnel = "up") => <>[](phase # "Disconnected")
=============================================================================
