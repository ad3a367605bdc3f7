# TAURI-VPN-PLUGIN in TLA+

A verification project for the VPN plugin: TLA+ modules translated from its
source, TLC runs over small instances, and TLAPS proofs for every value of the
constants. Paths are relative to the repository (`src/commands.rs` is the Rust
file; `PROJECT.json` counts from the directory above and says
`src/src/commands.rs`).

## The system

The plugin gives a Tauri application six commands. `import_server`,
`validate_profile` and `list_protocols` are pure. `connect`, `disconnect` and
`status` drive an engine:

    application --connect/disconnect/status--> commands.rs --> engine.rs
        Linux, Windows: engine.rs --> sing-box child process (config.rs writes its JSON)
        macOS:          engine.rs --> macos_vpn.rs --> NetworkExtension service
           \-> on all three, OlcRtcRuntime (SOCKS5 proxy) -> mux -> WB Stream room
        Android, iOS:   engine.rs --plugin calls--> VpnPlugin --intents--> KostraVpnService
                                                       --> libbox (sing-box core)

| Component | State it keeps | Operations | Hard behaviour | What makes it correct |
|---|---|---|---|---|
| Multiplexer `olcrtc/mux.rs` | stream table behind a Mutex, `next_id`, `Notify` per stream | open, send, wait, read, close; `handle_frame`, reset | lossy link, lock released between check and wait, u16/u32 wrap, foreign clients in the room | data in order, no lost wakeup, streams not shared, bounded window |
| SOCKS5 sessions `olcrtc/client.rs` | a task per session, two pumps under `select!` | accept, greeting, tunnel set-up with timeout, relay | cancelled futures, hang-ups, closed room | no gap in what is relayed, success only if acknowledged, sessions end |
| Client runtime and peer `olcrtc/client.rs`, `olcrtc/wbstream.rs` | five tasks tied by the ends of channels, `closed`, bounded send queue | start, stop, drop; publish, receive | a start that fails half-way, a full queue without a reader, tasks that wait for each other's senders | reset before data, sends return, stop releases port, room and tasks |
| Commands and desktop engine `commands.rs`, `engine.rs`, `lib.rs` | status (one Mutex), child process (another), OLC RTC client, statistics task, Windows job | connect, disconnect, exit handler | overlapping commands, crashes and time-outs of the child, processes left by a killed application | one engine, none unowned, client fits profile, commands return |
| macOS engine (same files, `macos_vpn.rs`) | status, `macos_system_connected`, the system's profile and tunnel | connect, disconnect, status | calls given up after 30 s that still take effect, the user's switch, a tunnel that outlives the application | no forgotten tunnel, the tunnel runs the right profile, status heals |
| Mobile engine (same files) | status, `mobile_connected` | connect, disconnect, status | native side acts later or not at all, stale answers, Mutex held across calls | status heals stale views, commands return |
| Android service and plugin (`KostraVpnService.kt`, `VpnPlugin.kt`) | core, TUN flag, preferences, watchdog threads, alarm | START, STOP, RESTART intents, revoke, destroy, watchdog | threads, process death, asynchronous preferences, sticky restarts | a stop is final, a core is watched, a killed process comes back |
| Import, validation, configuration (`import.rs`, `protocols.rs`, `config.rs`, `olcrtc/mod.rs`) | none | link -> profile -> JSON | three places decide where a credential or a TLS option lives; first-match routing | they agree; nothing leaks; no DNS loop |
| iOS plugin and tunnel, cipher, JavaScript bindings, build files | | | | not modelled (below) |

`PROJECT.json` lists every component with its status, and under `hazards` what
is hard to test, each at its line with the properties that would catch it.

## The modules

How they fit together (`=>` is a refinement, checked and proved, `--` a use):

    OlcRuntime     => OlcLink   (ImplementsLink)       OlcClient    -- OlcMux, OlcLink
    AndroidService => NativeVpn (ImplementsNativeVpn)  MobileEngine -- NativeVpn

**OlcMux** (mux.rs). `streams`, `next_id` are the struct's fields; `opener` is the
caller that holds the Mutex inside `open_stream`'s loop; `permits` the permits
stored in `Notify` objects; `handler` the `Notify` that `handle_frame` has cloned
under the lock and signals after it. Each section under the lock is one action.
The link is no variable: any frame may be handled at any time, any number of times
or never, which is loss, repetition, delay and reordering at once. A chunk is
`<<client, n>>`, and only `n % SeqMod` is on the wire.

**OlcClient** EXTENDS OlcMux (client.rs): a caller of the mux becomes a session with
a program counter for `handle_socks5` and one for each pump. Each of its steps is a step of OlcMux or
leaves the multiplexer alone, so OlcMux's theorems hold of the multiplexer inside the
client (a lemma of its proofs). What may happen to its link
are the three ends of **OlcLink**.

**OlcLink** is the abstract runtime: accepting, sending and receiving end, each for
good, and a send fails only if sending has ended. **OlcRuntime** (client.rs,
wbstream.rs) is the detailed one: the stages of `OlcRtcRuntime::start` with the
requests of `room_token`, the accept, receive, event and send tasks, the send queue
with its bound, `stop` and `drop`. A task ends when the other end of its channel is
gone, as in the code, so who owns what decides how it all comes to an end.

**DesktopEngine** (commands.rs, engine.rs for Linux and Windows, lib.rs). One program counter
per task; `lock` is the Mutex around the child, held from the first line of
`start_desktop` / `stop_desktop` to the return; sing-box processes are separate
(`starting`, `listening`, `dying`, `exited`, `free`) with `orphans` of earlier
runs and `loose` those that Windows failed to attach to a job object. A cleanup finds
what listens on port 2080 and nothing else (`CleanupTargets`): on Windows the path it
looks for in the command lines is the canonical one, which sing-box was not started with.
A cleanup that misses a process still succeeds, and the start goes on. `CleanupReliable`
says whether it ends all it looks for, `MayCrash` whether sing-box may exit by itself,
`LocalPort` which port an OLC RTC profile names; `closing` are dropped clients that still
hold theirs.

**MacEngine** (the same for macOS, macos_vpn.rs). There is no child: `tunnel`,
`running`, `installed` are the system's, `flag` is `macos_system_connected`. Every
call of macos_vpn.rs succeeds, fails or is given up, and a call given up leaves what
it asked for open (`late`). The user switches the tunnel or removes its profile; the
application restarts. `stray` marks a tunnel that is up for a reason the engine has
no part in, `loaded` what connect last promised; both serve the properties only.
`slock`, the status's Mutex, is held by `status` while it waits for the system.

**MobileEngine** (the commands built for Android and iOS) runs on **NativeVpn**, an abstract
service that takes requests in order, brings up only a tunnel that is wanted, and may
crash and fall back on what it has kept. `answer` is what `getNativeVpnStatus` told
a task, applied later.

**AndroidService** (KostraVpnService.kt, VpnPlugin.kt). What dies with the process (`prefs`, `tun`,
`server`, the threads) and what does not (`disk`, `alarm`, `started`, `inbox`) are
separate variables. `main` is the main thread, `side` the thread of `onRevoke` or
`serviceStop`, `wd` the watchdog threads, of which old ones may outlive a stop. Its
refinement mapping reads NativeVpn's queue from the main thread and its inbox, what
is wanted from the preferences (or the START in hand), what is kept from the disk.

**SingBoxConfig** (import.rs, protocols.rs, config.rs, olcrtc/mod.rs). Operators for
the pure functions; `ImportServer`, `FromApplication` and `Generate` apply them.
Texts are abstracted to what the code tells apart, TLS and transport options to
their presence. A credential is followed from the part of the link it stands in through
the field of the profile to the outbound (`ImportedAuth`, `OutboundAuth`), so that one
that is lost or put elsewhere shows. `Route` is sing-box's first-match rule and external.

The modules named **\*Proofs** hold the theorems about the module they are named for; **MC\*** modules add symmetry sets and bounded inputs, and MCOlcMux the order in which new `Notify` objects
are taken, which does the work of a symmetry set where liveness is checked. Operators named
like an action with a suffix, placed before it (`StartTimesOutNoKill`), are
plausible bugs; each is used once to see that a property notices it.

## Runs

| Run | Bounds | Shows |
|---|---|---|
| mux_room | 1 caller, 2 client ids, 4 chunks, window 2, 2 usable ids, 1 chunk sent by the caller | InOrder, WindowAhead, ReadOnce, OpenReturns, DataWakes in a room with a foreign client and resets that remove entries in use |
| client_sessions | 2 sessions, one refused by the server, 2 usable ids (so `next_id` wraps) | SidExclusive, NoLostWakeup, SuccessIsAcknowledged |
| client_live | 1 session after another, 2 usable ids, 3 chunks | RelayContiguous, HangUpEndsSession, CloseEndsSession, DataIsTaken |
| olc_runtime | 2 sessions, send queue of 2, 2 payloads waiting | ResetFirst, SendsReturn, StopReleases, ImplementsLink |
| engine_linux | 2 tasks, 2 profiles, 2 processes, crashes, cleanups that miss processes, 1 restart of the application | NoUnownedProcess, OneEngine, StatusTellsEngine, CommandsReturn |
| engine_windows | the same on Windows with 3 profiles, of which 2 are OLC RTC on ports of their own | OlcFollowsProfile, StopLeavesNoEngine, EngineAlone: whatever the cleanups miss, the jobs leave no sing-box beside the engine but one that was never attached |
| mac | 2 tasks, 2 profiles, 1 restart; the user and the system do what they like | NoTunnelLeft, TunnelRunsProfile, OlcHasTunnel, CommandsReturn, StatusHeals |
| mobile_live | 2 tasks, 3 commands, any number of status calls, 1 restart | CommandsReturn, TunnelCanBeStopped, TunnelCanBeStarted |
| mobile_not_running | 1 task | **violated**: NotRunningHonest |
| android | 1 profile, 2 service objects, 2 watchdogs, 2 requests, 1 kill by the system | CoreIsWatched, FlagTellsCore, ImplementsNativeVpn, StopTakesEffect, KillIsRecovered |
| config | all credentials and all wire options of a link, all profiles over the abstract fields, all packets, a desktop and a mobile platform, 2 DNS lists, 2 bypass lists | ValidConnects, LinkConnects, DnsUsable, DirectAsExempted |
| config_transport_bypassed | one DNS list, all platforms | **violated**: TransportBypassed |

Why the bounds suffice: a hazard here needs two actors that overlap (two callers,
sessions, tasks, service objects, watchdogs), a counter that wraps once and meets both taken
and free ids (two usable stream ids, with resets that free one), a gap of two frames with
one repeated (four chunks, window 2), a queue that is full with a second sender behind it
(2 and 2), one process or tunnel left by an earlier run (one restart), one more request than
it takes to start and stop (three in mobile_live; the Android service sees a start, a stop
and whatever alarms and sticky restarts repeat of them). One Android profile is enough
because the service never compares two configurations. `SentLimit` keeps the chunks a caller
sends in the mux run to one, since no property there is about them. In the configuration run
credentials and wire options vary one after the other, because no function of the code
reads both. Every safety property that holds is proved for all bounds as well; the runs'
bounds matter for liveness.

Deadlock is checked in the mux, engine, mac and mobile runs. It is off in the client
runs (after `stop` nothing is accepted any more), the Android run (the request
bound is used up and nothing runs) and the configuration runs (functions end).
Symmetry is used over `Notify` identities, callers, tasks and processes, never in
a run with a liveness property.

### What the violated runs show

* **mobile_not_running**: `connect` gives up waiting but does not withdraw the
  start. The tunnel comes up, `disconnect` answers "engine is not running". A
  `status` call heals it (`TunnelCanBeStopped`).
* **config_transport_bypassed**: the direct rules for the OLC RTC transport come
  after the rule that sends all TCP and UDP to the proxy. The test of these rules
  looks for them anywhere in the list. `DirectAsExempted` allows the transport either way,
  so it would stay true if the rules were moved forward.

Disagreements that need no run. README.md says that generated configs use an
IPv4-only TUN address and force `ipv4_only`, but on iOS `tun_address` adds an IPv6
address and `dns_strategy` is `prefer_ipv4` (`TunAddress`, `DnsStrategy`).
`list_protocols` offers `wireguard` and `wg` links, but no importer fills in the WireGuard
options, so `validate` refuses every such link (`Carries` in `LinkConnects`); it offers
`https` links, which are imported as plain `http` without TLS.
The host of a WebSocket link is imported but never written to the outbound
(`OutboundTransport`, and the exception in `WireKept`).
A Trojan, Hysteria, Hysteria2 or TUIC link loses its password part, because the user part
becomes the password, and TUIC's uuid is read from the query only: `tuic://uuid:password`
connects with the uuid as its password and no uuid (`AuthKept`).
The STOP of an Android service object that is already on its way to `onDestroy` is lost if
the process dies before it is done, and a watchdog's alarm may then bring the tunnel back;
`StopTakesEffect` names this one exception. The flag `tunEstablished` may be down under a
running core until the next START (the converse of `FlagTellsCore`).
A session whose entry a reset has removed waits on a fresh one until its application hangs
up: `CloseEndsSession` is checked without such resets, with which it would not hold.
The repository's README says that the cleanup at startup removes old `sing-box` instances
that used the same config path. On Windows the path is canonicalized first (engine.rs:971),
to a form that is in no command line, so only what listens on port 2080 is found
(`CleanupTargets`). `EngineAlone` shows that the jobs take care of all old instances but
those that could not be attached to one.
`connect` writes Connected after the engine's Mutex is free: a `disconnect` that fits in
between has its Disconnected overwritten, and `connect` answers "engine is already running"
with no engine until the next `disconnect`. Commands issued one at a time are free of this
(`StatusTellsEngine`).
On macOS, when the system or its user ends the tunnel, `status` corrects the phase
(`StatusHeals`) but nothing corrects `macos_system_connected`, so `connect` is refused in
the same words until the next `disconnect`.
A kill of sing-box that times out leaves the OLC RTC client in the engine
(`StopLeavesNoEngine` excepts it).
On macOS, `start_desktop` does not look at whether the stop after a timed-out start
worked; what that can leave behind is the third kind of `stray` tunnel.

## Fairness

* OlcMux: the receive loop's signal, a woken waiter and the loop of `open_stream`
  get their turn (weak: the tokio runtime polls ready tasks); a waiter that needs
  the table's Mutex gets it although others take it in between (strong: tokio's
  Mutex is first come, first served). No fairness of frames: nothing has to arrive.
* OlcClient: the same for the steps of a session; what the application or the
  server does is not fair, except that a set-up waits at most its timeout. Two
  calls without a time limit are assumed to return: `peer.send`, which `SendsReturn`
  of the olc_runtime run backs, and `write_all` to a connected application.
* OlcRuntime: weak for the steps of each task; strong for a sender that waits for
  room in the queue (tokio's channel serves waiting senders in order). LiveKit's
  `publish_data` and `close` are assumed to return, well or badly. Nothing has to be received.
* DesktopEngine, MacEngine, MobileEngine: strong fairness of the steps of each task, one
  condition per task, since a task is at one place at a time: it takes a Mutex it waits for
  (first come, first served), and what it calls returns. A readiness probe ends after
  20 attempts, a kill and each call of macos_vpn.rs after its timeout, which are steps.
  `lsof`, `powershell`, the calls to LiveKit and plugin calls, which have no time limit
  here, are assumed to return. Nothing is assumed of sing-box, of the system or the user
  on macOS, or of the native service. The healing properties (TunnelCanBeStopped,
  TunnelCanBeStarted, StatusHeals) assume in their own statement that `status` goes on being
  called and answered.
* AndroidService: the main thread handles its messages, threads run, an alarm that is set
  fires, a process with a message for it is started. Kills by the system are not fair and
  bounded; KillIsRecovered is about a process whose alarm is set, because the system
  owes nothing to a service it kills.

## Proofs

Every safety property and every refinement the passing runs check is also a theorem,
for all values of the constants. The theorems follow from the named assumptions on
constants, which only say that the special values are distinct, that bounds are
numbers, and what kind of data a configuration has.

| Module | Inductive invariant | Theorems |
|---|---|---|
| DesktopEngineProofs | `IInv`, then `StopTookOlc`, `JobInv`, `StatusInv` on top of it | EngineTypeOK, EngineNoUnownedProcess, EngineOneEngine, EngineStatsFollowChild, EngineOlcFollowsProfile, EngineConnectingIsOwned, EngineStopLeavesNoEngine, WindowsEngineAlone, EngineStatusTellsEngine |
| MacEngineProofs | `IInv` | MacTypeOK, MacNoTunnelLeft, MacTunnelRunsProfile, MacOlcHasTunnel |
| MobileEngineProofs | `MInv` | MobileTypeOK, MobileStatusAtomic |
| AndroidServiceProofs | `AInv`, then `StopInv` | AndroidTypeOK, AndroidCoreIsWatched, AndroidFlagTellsCore, AndroidImplementsNativeVpn, AndroidStopHolds |
| OlcMuxProofs | `TableInv`, `CallersInv` | MuxTypeOK, MuxInOrder, MuxWindowAhead, MuxWindowBounded, MuxReadOnce, MuxNoLostWakeup, MuxSidExclusive, MuxSendSeqTracksCaller |
| OlcClientProofs | `SessionsInv` with those of the mux | ClientSidExclusive, ClientNoLostWakeup, ClientTypes, ClientSuccessIsAcknowledged, ClientRelayContiguous |
| OlcRuntimeProofs | `IInv` | RuntimeResetFirst, RuntimeImplementsLink |
| SingBoxConfigProofs | `ConfigInv` | ConfigValidConnects, ConfigLinkConnects, ConfigDnsUsable, ConfigDirectAsExempted |

* **DesktopEngineProofs**: `IInv` is the conjunction of TypeOK, the four invariants NoUnownedProcess,
  StatsFollowChild, OlcFollowsProfile, ConnectingIsOwned and `LockDiscipline`. The
  latter is what they lack to be inductive: exactly the task inside
  `start_desktop`/`stop_desktop` holds the lock, finds no child and no statistics
  task, has a child of its own only while it waits for readiness or kills, and has
  a runtime only between starting and storing it. One lemma per action, then
  `NextIInv`. OneEngine follows from NoUnownedProcess and LockDiscipline. `StopTookOlc`
  carries what a stop did before its cleanup to the step that ends it. `LeavesStop` lists the ways
  out of a stop, of which the kill that times out is the one that keeps the OLC RTC client.
  `JobInv` says that on Windows a running sing-box is in the engine's job or could not be
  attached; it needs nothing of the cleanups. EngineStatusTellsEngine is conditional
  (`[]OneAtATime => []StatusAgrees`): `StatusInv`, what the status says at each place of a
  command, is inductive relative to the condition.
* **MacEngineProofs**: `IInv` is TypeOK, `LockDiscipline` (who is inside which Mutex, and what
  each place knows of the flag and of its local runtime), `TunnelOwned` (an active tunnel
  that is not stray is the engine's, with the profile promised, or belongs to the connect
  that has just asked for it) and its counterpart for the OLC RTC client.
  NoTunnelLeft, TunnelRunsProfile and OlcHasTunnel are what is left of it when
  nobody is inside.
* **MobileEngineProofs**: `MInv` is TypeOK, with the task inside `status` as the one holder of
  the Mutex, and `ArgInv` (a connect that may still ask has its profile). MobileStatusAtomic:
  the phase that `status` brings in line with the native answer is the one it found when
  it began to wait for that answer. `mobile_connected`, with a Mutex of its own, has no such property.
* **AndroidServiceProofs**: `AInv` is TypeOK with five facts. `DeadInv`: a dead process holds
  nothing. `ObjectInv`: what threads refer to is a service object, which is told to end at
  most once (without it `onDestroy` could run twice for one object). `HandInv`: where the main
  thread can be with which message, and that the configuration of a start in hand is the
  saved one or was withdrawn. `LockInv`: main and side thread are not both inside
  `lifecycleLock`, a core is started only where there is none. `WatchInv`: the thread an
  object refers to is alive and its own, and a core that nobody is stopping has one; this
  gives CoreIsWatched, and `LockInv` gives FlagTellsCore. AndroidImplementsNativeVpn maps every step: a death of the process is
  a crash that keeps an end of the requests (`RedeliveredEnd`), the end of a message is
  `Done` or, if it was no request, `Keep`, and so on. AndroidStopHolds states the promise
  in the service's own terms (`StopHolds`): a STOP that is carried out leaves no tunnel and no configuration in
  hand, in memory or on the disk, and only `OnStart` leads out of that. `StopHolds` and
  `StatusAtomic` are stated in the proof modules.
* **OlcMuxProofs**, in two layers. `TableInv`: every stream in the table is `StreamOK`
  (types, order, window ahead of the gap and within its limit). Its core is
  `AppendOK`: taking the chunk that is due and draining the run behind it keeps
  order; the drain is defined by the length of the run, so no induction over data
  is needed. `CallersInv` adds, when only the server's frames are in the room (`ServerTraffic`), that every
  stream belongs to the server and has a `Notify` of its own, that a caller waits on
  the `Notify` of the stream it was given and the opener has none yet
  (`CallerDiscipline`); with it SidExclusive, SendSeqTracksCaller and NoLostWakeup
  are inductive. Without that condition none of the three holds: a foreign client's frame
  replaces a stream with its send numbers and its `Notify` (mux.rs:163). MuxReadOnce needs
  TableInv only.
* **OlcClientProofs** first shows that every step of the client is a step of OlcMux or
  leaves its variables alone (`ClientUsesMux`, a lemma: the client is built that way), and
  so inherits its theorems. `SessionsInv` says what each place of a session knows
  (`Stage`) and that what was written, what is in the pump's hand and what is still
  in `recv_buf` are consecutive chunks of the session's own stream (`Given`).
* **OlcRuntimeProofs**: `StartedFirst` (nothing of a session exists before the start has
  succeeded) and `ResetAhead` (until something has been published the reset is in the
  sender's hand, at the head of the queue, or lost with the sender) make ResetFirst
  inductive. `RuntimeImplementsLink` is a refinement proof: every step of OlcRuntime is a
  step of OlcLink or a stutter under the mapping of ImplementsLink.
* **SingBoxConfigProofs**: the state machine is small (`ConfigInv`: types, and an imported profile is its link's); the work
  is in lemmas about the operators, above all what the first matching rule of a list is
  (`RouteFirst`, `RouteCat`), and that each credential of a link reaches its place in the
  outbound (`AuthOfLink`).

Four operators compute over lists or sets of any length: `KeptServers`, `Asked`, and the
library's `Min` and `Max`. An induction theorem that takes a predicate cannot be
instantiated by the provers, so these proofs do induction over a *set* of
numbers (the `UpTo` lemma of AndroidServiceProofs, or a least counterexample in SingBoxConfigProofs), which
needs only that `<` is well-founded.

Only model-checked: liveness (HangUpEndsSession, CloseEndsSession, DataIsTaken, OpenReturns,
DataWakes, SendsReturn, StopReleases, CommandsReturn, StatusHeals, TunnelCanBeStopped, TunnelCanBeStarted,
StopTakesEffect, KillIsRecovered), which is outside the prover's reach.

## Not modelled

* The Swift plugin and packet tunnel. MobileEngine is checked against every service of
  the kind NativeVpn describes; that the Swift code is of that kind is not shown.
* The cipher: a pure function of bytes from a library; a frame it rejects is a lost frame.
* Android's traffic statistics client and default-interface monitor, which write nothing
  the other parts read; the notification.
* `privileged_pid` and `start_macos_privileged_sing_box` in engine.rs: the first is never
  set and the second never called.
* The transfer rate loop of the statistics task (only whether the task exists matters),
  `is_elevated` and the platform tables, MTU, stack, alpn, obfuscation and the fields that
  are copied into the JSON as they are.
* Percent decoding and base64 in import.rs: they are about characters; what can go wrong
  there is listed under `hazards`.
* Texts and logs, the JavaScript bindings and build files.

## Plan

Order of work: multiplexer, client on top of it, client runtime, desktop engine, macOS
engine, mobile engine on the abstract service, Android service, configuration; done with
the theorems above, which cover every safety property of the runs. Next:

1. The composition of MobileEngine with AndroidService as one specification, so that what
   TLC checks of the engine over NativeVpn is stated of the Android application.
2. The iOS packet tunnel provider against NativeVpn.
3. A run past the wrap of the sequence numbers.
