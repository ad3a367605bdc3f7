-------------------------- MODULE AndroidService --------------------------
(***************************************************************************)
(* The Android side of the plugin: KostraVpnService (KostraVpnService.kt)  *)
(* and the requests VpnPlugin.kt sends to it.                              *)
(*                                                                         *)
(* The service object runs on the main thread of the application's         *)
(* process, which handles one message after another: the intents of        *)
(* onStartCommand and the system's onDestroy.  Three other kinds of thread *)
(* touch the same fields: the health watchdogs, the thread on which the    *)
(* system calls onRevoke or libbox calls serviceStop ("the side thread"),  *)
(* and the plugin, which reads and resets the static fields.  What         *)
(* lifecycleLock protects is one lifecycle section of a service object;    *)
(* tunEstablished and lastStartError are static and belong to the process. *)
(*                                                                         *)
(* A configuration is identified with the profile it was generated from.   *)
(* The preferences live in memory and reach the disk later (apply()); the  *)
(* process may be killed in between, by the system or by the watchdog's    *)
(* own killProcess, and then only the disk, the pending alarm and what the *)
(* activity manager remembers are left.                                    *)
(*                                                                         *)
(* Left out: the notification, traffic counters and their client, the      *)
(* default-interface monitor, and a blank configuration, which start_mobile*)
(* never sends.                                                            *)
(***************************************************************************)
EXTENDS Integers, Sequences, FiniteSetsExt

CONSTANTS
    Profiles,       \* the profiles a user may connect to
    NoConfig,       \* no saved configuration, no running core
    Instances,      \* numbers for the service objects alive at one time
    Watchdogs,      \* numbers for the watchdog threads alive at one time
    RequestLimit,   \* bound: requests the plugin sends
    KillLimit,      \* bound: times the system kills the process
    InboxLimit      \* bound: intents waiting for the main thread

ASSUME AndroidAssumption ==
    /\ NoConfig \notin Profiles
    /\ Instances \subseteq Nat \ {0}
    /\ Watchdogs \subseteq Nat \ {0}
    /\ RequestLimit \in Nat /\ KillLimit \in Nat /\ InboxLimit \in Nat

VARIABLES
    \* what outlives the process
    disk,       \* the preferences file
    started,    \* the activity manager holds the service as started
    alarm,      \* the RESTART alarm is set
    permitted,  \* VpnService.prepare() returns null
    inbox,      \* messages the activity manager has for the main thread
    \* what the process holds
    up,         \* the process runs
    prefs,      \* SharedPreferences in memory
    tun,        \* tunEstablished
    err,        \* lastStartError != null
    cur,        \* the service object that was created and not destroyed
    server,     \* commandServer of that object
    main,       \* the main thread: where it is, the message, its configuration
    side,       \* the side thread: where it is, the object it was called on
    watch,      \* per object: healthCheckStop, consecutiveHealthFailures, healthCheckThread
    wd,         \* per thread: where it is, its object, its interrupt flag
    \* bookkeeping
    requests, kills

disks == <<disk, started, alarm, permitted>>
bounds == <<requests, kills>>
vars == <<disk, started, alarm, permitted, inbox, up, prefs, tun, err, cur,
          server, main, side, watch, wd, requests, kills>>

NoInstance == 0   \* no service object
NoThread == 0     \* healthCheckThread == null

Configs == Profiles \cup {NoConfig}
Prefs == [config : Configs, profile : Configs]
Empty == [config |-> NoConfig, profile |-> NoConfig]

Intent(act) == [act |-> act, config |-> NoConfig]
Intents == [act : {"start"}, config : Profiles]
           \cup [act : {"stop", "restart", "sticky"}, config : {NoConfig}]
Messages == Intents \cup {Intent("destroy")}

\* HEALTH_CHECK_FAILURES_BEFORE_RESTART.
FailuresBeforeRestart == 2

Fresh == [stop |-> FALSE, failures |-> 0, thread |-> NoThread]
Dead == [pc |-> "dead", inst |-> NoInstance, intr |-> FALSE]
MainIdle == [pc |-> "idle", msg |-> Intent("stop"), config |-> NoConfig]
SideIdle == [pc |-> "idle", inst |-> NoInstance]

\* Nothing was ever connected; the application has just been opened.
Init ==
    /\ disk = Empty /\ prefs = Empty
    /\ started = FALSE /\ alarm = FALSE /\ permitted = FALSE
    /\ inbox = <<>>
    /\ up = TRUE
    /\ tun = FALSE /\ err = FALSE
    /\ cur = NoInstance /\ server = NoConfig
    /\ main = MainIdle /\ side = SideIdle
    /\ watch = [g \in Instances |-> Fresh]
    /\ wd = [t \in Watchdogs |-> Dead]
    /\ requests = 0 /\ kills = 0

----------------------------------------------------------------------------
(* The activity manager.                                                   *)

\* startService and startForegroundService: the intent is queued and the
\* service counts as started.
StartService(intent) ==
    /\ Len(inbox) < InboxLimit
    /\ inbox' = Append(inbox, intent)
    /\ started' = TRUE

IsDestroy(m) == m.act = "destroy"

\* The service object has been told to stop: onDestroy is on its way or runs.
Doomed ==
    \/ main.pc # "idle" /\ IsDestroy(main.msg)
    \/ \E i \in DOMAIN inbox : IsDestroy(inbox[i])

\* stopSelf() without a start id: intents that were already handed to the
\* process are still handled by the old object, then onDestroy; for an object
\* that is being destroyed the call does nothing.
StopSelf(g) ==
    IF g = cur /\ ~Doomed
    THEN started' = FALSE /\ inbox' = Append(inbox, Intent("destroy"))
    ELSE UNCHANGED <<started, inbox>>

\* The messages a dead process leaves behind: those of an object that was to be
\* destroyed are dropped, the others are delivered again, the one being handled
\* included; a started service without any is created again with a null intent.
Redelivered ==
    LET unfinished == (IF main.pc = "idle" THEN <<>> ELSE <<main.msg>>) \o inbox
        doom == {i \in DOMAIN unfinished : IsDestroy(unfinished[i])}
        kept == IF doom = {} THEN unfinished
                ELSE SubSeq(unfinished, Max(doom) + 1, Len(unfinished))
    IN  CASE ~started -> <<>>
          [] started /\ kept = <<>> -> <<Intent("sticky")>>
          [] OTHER -> kept

\* The process dies: everything in memory is gone.
Dies ==
    /\ up' = FALSE
    /\ inbox' = Redelivered
    /\ prefs' = Empty /\ tun' = FALSE /\ err' = FALSE
    /\ cur' = NoInstance /\ server' = NoConfig
    /\ main' = MainIdle /\ side' = SideIdle
    /\ watch' = [g \in Instances |-> Fresh]
    /\ wd' = [t \in Watchdogs |-> Dead]
    /\ UNCHANGED <<disk, started, permitted>>

\* The system kills the process (memory pressure, a crash of the application).
SystemKills ==
    /\ up /\ kills < KillLimit
    /\ kills' = kills + 1
    /\ Dies
    /\ UNCHANGED <<alarm, requests>>

\* The process is started, to deliver a message or because the user opens the
\* application; the preferences are read from the disk.
ProcessStarts ==
    /\ ~up
    /\ up' = TRUE
    /\ prefs' = disk
    /\ UNCHANGED <<disk, started, alarm, permitted, inbox, tun, err, cur, server,
                   main, side, watch, wd, bounds>>

\* The alarm of scheduleServiceRestart goes off.
AlarmFires ==
    /\ alarm
    /\ alarm' = FALSE
    /\ StartService(Intent("restart"))
    /\ UNCHANGED <<disk, permitted, up, prefs, tun, err, cur, server, main, side,
                   watch, wd, bounds>>

\* apply(): the preferences reach the disk.
FlushPrefs ==
    /\ up /\ disk # prefs
    /\ disk' = prefs
    /\ UNCHANGED <<started, alarm, permitted, inbox, up, prefs, tun, err, cur,
                   server, main, side, watch, wd, bounds>>

----------------------------------------------------------------------------
(* VpnPlugin.                                                              *)

\* startNativeVpn, the permission dialog and startVpn.  A user who refuses the
\* permission leaves everything as it was.
StartVpn(p) ==
    /\ permitted' = TRUE
    /\ IF tun
       THEN UNCHANGED <<started, inbox, err>>
       ELSE /\ err' = FALSE
            /\ StartService([act |-> "start", config |-> p])

\* stopNativeVpn: resolved before the service has seen the intent.
StopNativeVpn == StartService(Intent("stop"))

RequestStart(p) ==
    /\ up /\ requests < RequestLimit
    /\ requests' = requests + 1
    /\ StartVpn(p)
    /\ UNCHANGED <<disk, alarm, up, prefs, tun, cur, server, main, side, watch,
                   wd, kills>>

RequestStop ==
    /\ up /\ requests < RequestLimit
    /\ requests' = requests + 1
    /\ StopNativeVpn
    /\ UNCHANGED <<disk, alarm, permitted, up, prefs, tun, err, cur, server, main,
                   side, watch, wd, kills>>

----------------------------------------------------------------------------
(* The service's main thread.                                              *)

\* The main thread is inside a synchronized section of the current object.
MainInLock == main.pc \in {"core", "open", "rebuild", "reopen", "close"}
SideInLock(g) == side.pc = "close" /\ side.inst = g

\* Numbers no thread of an earlier object uses any more, and those of threads
\* that have ended; a new object or thread takes the lowest.
FreeInstances ==
    {g \in Instances : side.inst # g /\ \A t \in Watchdogs : wd[t].inst # g}
FreeWatchdogs ==
    {t \in Watchdogs : wd[t].pc = "dead" /\ \A g \in Instances : watch[g].thread # t}
Lowest(S, x) == x \in S /\ \A y \in S : x <= y

\* The next message is for object g, which onCreate has just made if there was
\* none.
Receives(g) ==
    /\ up /\ main.pc = "idle" /\ inbox # <<>>
    /\ inbox' = Tail(inbox)
    /\ cur' = g
    /\ IF cur = NoInstance
       THEN Lowest(FreeInstances, g) /\ watch' = [watch EXCEPT ![g] = Fresh]
       ELSE g = cur /\ UNCHANGED watch

\* A message is done with: the activity thread waits until the preferences are
\* on the disk.
Finish == main' = MainIdle /\ disk' = prefs

\* onStartCommand, ACTION_START: the configuration is saved first.
OnStart(g) ==
    /\ Receives(g) /\ Head(inbox).act = "start"
    /\ LET p == Head(inbox).config IN
       /\ prefs' = [config |-> p, profile |-> p]
       /\ main' = [pc |-> "start", msg |-> Head(inbox), config |-> p]
    /\ UNCHANGED <<disks, up, tun, err, server, side, wd, bounds>>

\* A fault: ACTION_STOP leaves the saved configuration alone.
OnStopKeepsConfig(g) ==
    /\ Receives(g) /\ Head(inbox).act = "stop"
    /\ main' = [pc |-> "stop", msg |-> Head(inbox), config |-> NoConfig]
    /\ UNCHANGED <<disks, up, prefs, tun, err, server, side, wd, bounds>>

\* onStartCommand, ACTION_STOP: the configuration is forgotten first.
OnStop(g) ==
    /\ Receives(g) /\ Head(inbox).act = "stop"
    /\ prefs' = Empty
    /\ main' = [pc |-> "stop", msg |-> Head(inbox), config |-> NoConfig]
    /\ UNCHANGED <<disks, up, tun, err, server, side, wd, bounds>>

\* A fault: a restart never starts.
OnRestartNever(g) ==
    /\ Receives(g) /\ Head(inbox).act \in {"restart", "sticky"}
    /\ main' = [pc |-> "leave", msg |-> Head(inbox), config |-> prefs.config]
    /\ UNCHANGED <<disks, up, prefs, tun, err, server, side, wd, bounds>>

\* onStartCommand, ACTION_RESTART and the null intent of a sticky restart.
OnRestart(g) ==
    /\ Receives(g) /\ Head(inbox).act \in {"restart", "sticky"}
    /\ main' = [pc |-> IF prefs.config = NoConfig THEN "leave" ELSE "start",
                msg |-> Head(inbox), config |-> prefs.config]
    /\ UNCHANGED <<disks, up, prefs, tun, err, server, side, wd, bounds>>

\* onDestroy.
OnDestroy ==
    /\ up /\ main.pc = "idle" /\ inbox # <<>> /\ IsDestroy(Head(inbox))
    /\ inbox' = Tail(inbox)
    /\ main' = [pc |-> "stop", msg |-> Head(inbox), config |-> NoConfig]
    /\ UNCHANGED <<disks, up, prefs, tun, err, cur, server, side, watch, wd,
                   bounds>>

\* Nothing to restart: stopSelf().
Leave ==
    /\ main.pc = "leave"
    /\ StopSelf(cur)
    /\ Finish
    /\ UNCHANGED <<alarm, permitted, up, prefs, tun, err, cur, server, side,
                   watch, wd, bounds>>

\* start(): takes lifecycleLock and returns, tears a core without TUN down, or
\* goes on to startCoreLocked.
StartLock ==
    /\ main.pc = "start" /\ ~SideInLock(cur)
    /\ IF server # NoConfig /\ tun
       THEN Finish /\ err' = FALSE /\ UNCHANGED <<server, tun>>
       ELSE /\ main' = [main EXCEPT !.pc = IF server = NoConfig THEN "core" ELSE "rebuild"]
            /\ server' = NoConfig
            /\ tun' = IF server = NoConfig THEN tun ELSE FALSE
            /\ UNCHANGED <<disk, err>>
    /\ UNCHANGED <<started, alarm, permitted, inbox, up, prefs, cur, side, watch,
                   wd, bounds>>

\* openTun, which libbox calls while it starts the service.
OpenTun ==
    /\ main.pc \in {"core", "rebuild"} /\ permitted
    /\ main' = [main EXCEPT !.pc = IF main.pc = "core" THEN "open" ELSE "reopen"]
    /\ tun' = TRUE /\ err' = FALSE
    /\ UNCHANGED <<disks, inbox, up, prefs, cur, server, side, watch, wd, bounds>>

\* startHealthWatchdog, on what startCoreLocked leaves of w.
StartHealthWatchdog(g) ==
    LET w == [watch[g] EXCEPT !.failures = 0] IN
    IF w.thread # NoThread /\ wd[w.thread].pc # "dead"
    THEN watch' = [watch EXCEPT ![g] = w] /\ UNCHANGED wd
    ELSE \E t \in Watchdogs :
           /\ Lowest(FreeWatchdogs, t)
           /\ watch' = [watch EXCEPT ![g] = [w EXCEPT !.stop = FALSE, !.thread = t]]
           /\ wd' = [wd EXCEPT ![t] = [pc |-> "sleep", inst |-> g, intr |-> FALSE]]

\* A fault: the reference to the old thread stays.
StopHealthWatchdogKeepsThread(g) ==
    /\ watch' = [watch EXCEPT ![g].stop = TRUE, ![g].failures = 0]
    /\ wd' = [t \in Watchdogs |->
                IF t = watch[g].thread THEN [wd[t] EXCEPT !.intr = TRUE] ELSE wd[t]]

\* stopHealthWatchdog.
StopHealthWatchdog(g) ==
    /\ watch' = [watch EXCEPT ![g] = [stop |-> TRUE, failures |-> 0, thread |-> NoThread]]
    /\ wd' = [t \in Watchdogs |->
                IF t = watch[g].thread THEN [wd[t] EXCEPT !.intr = TRUE] ELSE wd[t]]

\* startCoreLocked returns, with the TUN the generated configuration asks for.
CoreStarts ==
    /\ main.pc \in {"open", "reopen"}
    /\ server' = main.config
    /\ StartHealthWatchdog(cur)
    /\ Finish
    /\ UNCHANGED <<started, alarm, permitted, inbox, up, prefs, tun, err, cur,
                   side, bounds>>

\* startCoreLocked throws, before or after the TUN was opened; caught: stop().
CoreFails ==
    /\ main.pc \in {"core", "open"}
    /\ err' = TRUE
    /\ StopHealthWatchdog(cur)
    /\ main' = [main EXCEPT !.pc = "close"]
    /\ UNCHANGED <<disks, inbox, up, prefs, tun, cur, server, side, bounds>>

\* The same while a core without TUN is replaced: nothing catches it and the
\* process crashes.
CoreCrashes ==
    /\ main.pc \in {"rebuild", "reopen"}
    /\ Dies
    /\ UNCHANGED <<alarm, bounds>>

\* stop(), from ACTION_STOP or onDestroy: takes lifecycleLock.
StopLock ==
    /\ main.pc = "stop" /\ ~SideInLock(cur)
    /\ StopHealthWatchdog(cur)
    /\ main' = [main EXCEPT !.pc = "close"]
    /\ UNCHANGED <<disks, inbox, up, prefs, tun, err, cur, server, side, bounds>>

\* A fault: stopCoreLocked forgets tunEstablished.
StopEndsKeepsTun ==
    /\ main.pc = "close"
    /\ server' = NoConfig
    /\ StopSelf(cur)
    /\ Finish
    /\ cur' = IF IsDestroy(main.msg) THEN NoInstance ELSE cur
    /\ UNCHANGED <<alarm, permitted, up, prefs, tun, err, side, watch, wd, bounds>>

\* stopCoreLocked, stopSelf and the end of the handler.
StopEnds ==
    /\ main.pc = "close"
    /\ server' = NoConfig /\ tun' = FALSE
    /\ StopSelf(cur)
    /\ Finish
    /\ cur' = IF IsDestroy(main.msg) THEN NoInstance ELSE cur
    /\ UNCHANGED <<alarm, permitted, up, prefs, err, side, watch, wd, bounds>>

----------------------------------------------------------------------------
(* The side thread.                                                        *)

CoreRuns == server # NoConfig \/ main.pc \in {"open", "reopen"}

\* onRevoke: another VPN took over, or the user withdrew the permission.
OnRevoke ==
    /\ up /\ side.pc = "idle" /\ CoreRuns /\ permitted
    /\ permitted' = FALSE
    /\ prefs' = [prefs EXCEPT !.config = NoConfig]
    /\ side' = [pc |-> "stop", inst |-> cur]
    /\ UNCHANGED <<disk, started, alarm, inbox, up, tun, err, cur, server, main,
                   watch, wd, bounds>>

\* serviceStop, which libbox calls when a command client closes the service.
ServiceStop ==
    /\ up /\ side.pc = "idle" /\ server # NoConfig
    /\ side' = [pc |-> "stop", inst |-> cur]
    /\ UNCHANGED <<disks, inbox, up, prefs, tun, err, cur, server, main, watch,
                   wd, bounds>>

\* stop() on the side thread: takes the lifecycleLock of its own object.
SideLock ==
    /\ side.pc = "stop" /\ ~(side.inst = cur /\ MainInLock)
    /\ StopHealthWatchdog(side.inst)
    /\ side' = [side EXCEPT !.pc = "close"]
    /\ UNCHANGED <<disks, inbox, up, prefs, tun, err, cur, server, main, bounds>>

\* stopCoreLocked and stopSelf there; the flag it clears is the process's.
SideEnds ==
    /\ side.pc = "close"
    /\ server' = IF side.inst = cur THEN NoConfig ELSE server
    /\ tun' = FALSE
    /\ StopSelf(side.inst)
    /\ side' = SideIdle
    /\ UNCHANGED <<disk, alarm, permitted, up, prefs, err, cur, main, watch, wd,
                   bounds>>

----------------------------------------------------------------------------
(* A watchdog thread.                                                      *)

\* The head of the loop: leave it when healthCheckStop is set.
Loops(t) ==
    IF watch[wd[t].inst].stop THEN Dead ELSE [wd[t] EXCEPT !.pc = "sleep"]

Goes(t, w) == wd' = [wd EXCEPT ![t] = w]

WdRest == <<disk, started, permitted, inbox, up, prefs, tun, err, cur, server,
            main, side, bounds>>

\* Thread.sleep is interrupted, or returns.
WdInterrupted(t) ==
    /\ wd[t].pc = "sleep" /\ wd[t].intr
    /\ Goes(t, IF watch[wd[t].inst].stop THEN Dead ELSE [wd[t] EXCEPT !.intr = FALSE])
    /\ UNCHANGED <<alarm, watch, WdRest>>

WdWakes(t) ==
    /\ wd[t].pc = "sleep" /\ ~wd[t].intr
    /\ Goes(t, IF watch[wd[t].inst].stop \/ ~tun \/ wd[t].inst # cur \/ server = NoConfig
               THEN Loops(t) ELSE [wd[t] EXCEPT !.pc = "probe"])
    /\ UNCHANGED <<alarm, watch, WdRest>>

\* probeVpnConnectivity succeeds; it fails.
WdProbeOk(t) ==
    /\ wd[t].pc = "probe"
    /\ watch' = [watch EXCEPT ![wd[t].inst].failures = 0]
    /\ Goes(t, Loops(t))
    /\ UNCHANGED <<alarm, WdRest>>

\* (The counter stops at the threshold it is compared with.)
WdProbeFails(t) ==
    /\ wd[t].pc = "probe"
    /\ LET g == wd[t].inst
           n == watch[g].failures + 1
       IN  IF n >= FailuresBeforeRestart
           THEN /\ watch' = [watch EXCEPT ![g].failures = FailuresBeforeRestart]
                /\ Goes(t, [wd[t] EXCEPT !.pc = "restart"])
           ELSE /\ watch' = [watch EXCEPT ![g].failures = n]
                /\ Goes(t, Loops(t))
    /\ UNCHANGED <<alarm, WdRest>>

\* restartCoreFromWatchdog up to its sleep, and killProcess after it (or the
\* InterruptedException of the sleep, which ends the process as well).
RestartCoreFromWatchdog(t) ==
    /\ wd[t].pc = "restart"
    /\ IF prefs.config = NoConfig
       THEN Goes(t, Loops(t)) /\ UNCHANGED alarm
       ELSE alarm' = TRUE /\ Goes(t, [wd[t] EXCEPT !.pc = "kill"])
    /\ UNCHANGED <<watch, WdRest>>

KillProcess(t) ==
    /\ wd[t].pc = "kill"
    /\ Dies
    /\ UNCHANGED <<alarm, bounds>>

----------------------------------------------------------------------------
Deliver ==
    \/ \E g \in Instances : OnStart(g) \/ OnStop(g) \/ OnRestart(g)
    \/ OnDestroy

MainStep ==
    Deliver \/ Leave \/ StartLock \/ OpenTun \/ CoreStarts \/ CoreFails
    \/ CoreCrashes \/ StopLock \/ StopEnds

SideStep == SideLock \/ SideEnds

WdStep(t) ==
    \/ WdInterrupted(t) \/ WdWakes(t) \/ WdProbeOk(t) \/ WdProbeFails(t)
    \/ RestartCoreFromWatchdog(t) \/ KillProcess(t)

Request == RequestStop \/ \E p \in Profiles : RequestStart(p)

SystemStep == SystemKills \/ ProcessStarts \/ AlarmFires \/ FlushPrefs
              \/ OnRevoke \/ ServiceStop

ServiceNext == MainStep \/ SideStep \/ SystemStep \/ \E t \in Watchdogs : WdStep(t)

Next == ServiceNext \/ Request

Spec == Init /\ [][Next]_vars

\* Threads that can run do run, libbox and the probe return, and Android starts
\* the process when it holds a message for it and fires the alarm.  Nothing is
\* assumed of the user, of revocation or of serviceStop.
AndroidFairness ==
    /\ WF_vars(MainStep)
    /\ WF_vars(SideStep)
    /\ WF_vars(ProcessStarts /\ inbox # <<>>)
    /\ WF_vars(AlarmFires)
    /\ \A t \in Watchdogs : WF_vars(WdStep(t))

LiveSpec == Spec /\ AndroidFairness

----------------------------------------------------------------------------
(* Properties.                                                             *)

\* Every variable keeps its type, the failure counter its bound, and a start
\* (KostraVpnService.kt:144) is only under way with a configuration in hand.
TypeOK ==
    /\ disk \in Prefs /\ prefs \in Prefs
    /\ started \in BOOLEAN /\ alarm \in BOOLEAN /\ permitted \in BOOLEAN
    /\ inbox \in Seq(Messages)
    /\ up \in BOOLEAN /\ tun \in BOOLEAN /\ err \in BOOLEAN
    /\ cur \in Instances \cup {NoInstance} /\ server \in Configs
    /\ main \in [pc : {"idle", "leave", "start", "core", "open", "rebuild",
                       "reopen", "stop", "close"},
                 msg : Messages, config : Configs]
    /\ main.pc \in {"start", "core", "open", "rebuild", "reopen"} => main.config \in Profiles
    /\ side \in [pc : {"idle", "stop", "close"}, inst : Instances \cup {NoInstance}]
    /\ watch \in [Instances -> [stop : BOOLEAN, failures : 0..FailuresBeforeRestart,
                                thread : Watchdogs \cup {NoThread}]]
    /\ wd \in [Watchdogs -> [pc : {"dead", "sleep", "probe", "restart", "kill"},
                             inst : Instances \cup {NoInstance}, intr : BOOLEAN]]
    /\ requests \in 0..RequestLimit /\ kills \in 0..KillLimit

Quiet == main.pc = "idle" /\ side.pc = "idle"

\* Requests of the plugin, and what is wanted: the configuration of a start
\* that is under way, else the saved one.
IsRequest(m) == m.act \in {"start", "stop"}
InHand == IF main.pc = "idle" THEN <<>> ELSE <<main.msg>>
Asked(msgs) ==
    LET asked[n \in 0..Len(msgs)] ==     \* by the first n
            IF n = 0 THEN <<>>
            ELSE IF IsRequest(msgs[n]) THEN Append(asked[n - 1], msgs[n].config)
                                       ELSE asked[n - 1]
    IN  asked[Len(msgs)]
Native == INSTANCE NativeVpn WITH
    NoProfile <- NoConfig,
    queue  <- Asked(InHand \o inbox),
    busy   <- main.pc # "idle" /\ IsRequest(main.msg),
    wanted <- CASE main.pc \in {"start", "core", "rebuild"} -> main.config
                [] up /\ main.pc \notin {"start", "core", "rebuild"} -> prefs.config
                [] OTHER -> disk.config,
    kept   <- disk.config

\* The service keeps the promises of NativeVpn.  In particular, once it has
\* carried out a STOP (KostraVpnService.kt:103), nothing but a later START
\* brings the tunnel back: not the alarm a watchdog set before, not the sticky
\* restart of a killed process, not an intent delivered again.  A kill while
\* the STOP is carried out may bring it back only if the preferences the STOP
\* cleared were not on the disk yet.
ImplementsNativeVpn == Native!Spec

\* Whenever no start or stop is under way, a running core has a watchdog thread
\* of its own that is alive and not told to stop (KostraVpnService.kt:306): a
\* stop followed at once by a start does not leave the new core unwatched.
CoreIsWatched ==
    Quiet /\ server # NoConfig =>
        LET t == watch[cur].thread IN
        /\ t # NoThread /\ wd[t].pc # "dead" /\ wd[t].inst = cur
        /\ ~watch[cur].stop

\* Whenever no start or stop is under way, the static flag that the plugin and
\* the engine read (KostraVpnService.kt:763) claims a tunnel only if the current
\* object runs a core, whichever objects and threads wrote it last.  The
\* converse does not hold: the stop of an old object may clear the flag under a
\* new core (KostraVpnService.kt:203), until the next START rebuilds that core.
FlagTellsCore == Quiet /\ tun => server # NoConfig

StopQueued == \E i \in DOMAIN inbox : inbox[i].act = "stop"

\* The last STOP has been carried out: nothing runs, and nothing is left that a
\* restart could bring back.
StopDone ==
    /\ ~StopQueued /\ main.pc = "idle"
    /\ server = NoConfig /\ ~tun /\ disk.config = NoConfig

\* A STOP waits or is carried out while the object is to be destroyed for
\* another reason: serviceStop, onRevoke or a start that failed.
StopOvertaken ==
    Doomed /\ (StopQueued \/ (main.msg = Intent("stop") /\ main.pc # "idle"))

\* The process has died, and no STOP will be delivered again.
StopLost == ~up /\ ~StopQueued

\* A STOP the plugin has sent, and already reported to the user as done, takes
\* the tunnel down for good in the end (VpnPlugin.kt:135), also when a watchdog
\* or the system kills the process before it is delivered or while it is carried
\* out.  One exception is the code's: a STOP that meets an object already on its
\* way to onDestroy is lost if the process dies before it is done, and the alarm
\* of a watchdog may then bring the tunnel back.
StopTakesEffect ==
    /\ StopQueued ~> (StopDone \/ StopLost)
    /\ StopQueued ~> (StopDone \/ StopOvertaken)

\* After a watchdog has killed the process, a start with the saved configuration
\* is attempted: the tunnel comes up, or the failure is recorded, unless the
\* user or the system withdrew the start (KostraVpnService.kt:207).
KillIsRecovered ==
    (~up /\ alarm /\ disk.config # NoConfig)
        ~> (tun \/ err \/ (up /\ prefs.config = NoConfig))
=============================================================================
