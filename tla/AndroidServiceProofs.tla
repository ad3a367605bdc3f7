------------------------- MODULE AndroidServiceProofs -------------------------
(***************************************************************************)
(* Proofs about AndroidService, for any number of profiles, service        *)
(* objects, watchdog threads and requests, and any number of kills.        *)
(***************************************************************************)
EXTENDS AndroidService, WellFoundedInduction, SequenceTheorems, TLAPS

-----------------------------------------------------------------------------
(* The inductive invariant.                                                *)

\* A dead process holds nothing.
DeadInv ==
    ~up => /\ main.pc = "idle" /\ side.pc = "idle" /\ cur = NoInstance
           /\ server = NoConfig /\ ~tun
           /\ \A t \in Watchdogs : wd[t].pc = "dead"

\* There is a service object when a message is being handled or a core runs; it
\* is told to end at most once, and what threads refer to are objects.
ObjectInv ==
    /\ (server # NoConfig \/ main.pc # "idle") => cur # NoInstance
    /\ \A i, j \in DOMAIN inbox : IsDestroy(inbox[i]) /\ IsDestroy(inbox[j]) => i = j
    /\ \A i \in DOMAIN inbox : IsDestroy(inbox[i]) =>
          cur # NoInstance /\ ~(main.pc # "idle" /\ IsDestroy(main.msg))
    /\ side.pc # "idle" => side.inst # NoInstance
    /\ \A t \in Watchdogs : wd[t].pc # "dead" => wd[t].inst # NoInstance

\* The message in hand and where the main thread can be with it; a start goes
\* on with the saved configuration unless that was withdrawn meanwhile.
HandInv ==
    /\ main.pc \in {"start", "core", "open", "rebuild", "reopen"} =>
          prefs.config \in {main.config, NoConfig}
    /\ main.pc = "leave" => main.msg.act \in {"restart", "sticky"}
    /\ main.pc # "idle" /\ main.msg.act = "stop" => main.pc \in {"stop", "close"}

\* lifecycleLock: main and side thread are not both inside for one object, and
\* a core is only started where there is none; the tunnel belongs to a core.
LockInv ==
    /\ ~(MainInLock /\ SideInLock(cur))
    /\ main.pc \in {"core", "open", "rebuild", "reopen"} => server = NoConfig
    /\ tun => server # NoConfig \/ main.pc \in {"open", "reopen", "close"}

\* The thread an object refers to is alive and its own, and a core that nobody
\* is stopping has one.
WatchInv ==
    /\ \A g \in Instances : watch[g].thread # NoThread =>
          /\ ~watch[g].stop
          /\ wd[watch[g].thread].pc # "dead" /\ wd[watch[g].thread].inst = g
    /\ server # NoConfig /\ ~SideInLock(cur) /\ main.pc # "close" =>
          watch[cur].thread # NoThread

AInv == TypeOK /\ DeadInv /\ ObjectInv /\ HandInv /\ LockInv /\ WatchInv

-----------------------------------------------------------------------------
(* Messages.                                                               *)

\* A set of numbers up to n that is not empty has a greatest element, its Max.
LEMMA MaxExists ==
    ASSUME NEW n \in Nat, NEW S \in SUBSET (1..n), S # {}
    PROVE  Max(S) \in S /\ \A y \in S : y <= Max(S)
<1> DEFINE R == OpToRel(<, Nat)
           T == {n - x : x \in S}
<1>1. R = {ss \in Nat \X Nat : ss[1] < ss[2]}
    BY DEF OpToRel
<1>2. IsWellFoundedOn(R, Nat)
    BY NatLessThanWellFounded
<1> HIDE DEF R
<1>3. T \in SUBSET Nat /\ T # {}
  <2>1. PICK x : x \in S
      OBVIOUS
  <2>2. n - x \in T
      BY <2>1
  <2>3. \A y \in S : n - y \in Nat
      OBVIOUS
  <2> QED
      BY <2>2, <2>3
<1>4. PICK z \in T : \A y \in T : ~ (<<y, z>> \in R)
  <2> HIDE DEF T
  <2> QED
      BY <1>2, <1>3, WFMin
<1>5. \A y \in T : z <= y
  <2>1. ASSUME NEW y \in T, y < z PROVE FALSE
    <3>1. <<y, z>> \in Nat \X Nat /\ <<y, z>>[1] = y /\ <<y, z>>[2] = z
        BY <1>3
    <3>2. <<y, z>> \in R
        BY <1>1, <2>1, <3>1, Zenon
    <3> QED
        BY <1>4, <3>2
  <2> QED
      BY <1>3, <2>1
<1>6. PICK x \in S : z = n - x
    BY <1>4
<1>7. \A y \in S : y <= x
  <2> SUFFICES ASSUME NEW y \in S PROVE y <= x
      OBVIOUS
  <2>1. z <= n - y
      BY <1>5
  <2> QED
      BY <1>6, <2>1
<1> QED
    BY <1>7 DEF Max

\* The messages there are.
LEMMA MessageTypes ==
    /\ Intent("stop") \in Messages /\ Intent("restart") \in Messages
    /\ Intent("sticky") \in Messages /\ Intent("destroy") \in Messages
    /\ \A p \in Profiles : [act |-> "start", config |-> p] \in Messages
    /\ \A m \in Messages : /\ m.act \in {"start", "stop", "restart", "sticky", "destroy"}
                           /\ m.config \in Configs
                           /\ m.act = "start" => m.config \in Profiles
                           /\ m.act # "start" => m.config = NoConfig
    BY DEF Messages, Intents, Intent, Configs

\* A queue of messages stays one.
LEMMA InboxTypes ==
    ASSUME NEW q \in Seq(Messages)
    PROVE  /\ <<>> \in Seq(Messages)
           /\ \A m \in Messages : Append(q, m) \in Seq(Messages)
           /\ q # <<>> => Tail(q) \in Seq(Messages) /\ Head(q) \in Messages
    OBVIOUS

\* What is delivered again after the process died, with nothing left that ends
\* a service object.
LEMMA RedeliveredKept ==
    ASSUME TypeOK
    PROVE  /\ Redelivered \in Seq(Messages)
           /\ \A i \in DOMAIN Redelivered : ~IsDestroy(Redelivered[i])
<1> DEFINE hand == IF main.pc = "idle" THEN <<>> ELSE <<main.msg>>
           unfinished == hand \o inbox
           doom == {i \in DOMAIN unfinished : IsDestroy(unfinished[i])}
           kept == IF doom = {} THEN unfinished
                   ELSE SubSeq(unfinished, Max(doom) + 1, Len(unfinished))
<1>1. unfinished \in Seq(Messages)
  <2>1. inbox \in Seq(Messages) /\ main.msg \in Messages
      BY DEF TypeOK
  <2> QED
      BY <2>1
<1>2. Redelivered = CASE ~started -> <<>>
                      [] started /\ kept = <<>> -> <<Intent("sticky")>>
                      [] OTHER -> kept
    BY DEF Redelivered
<1> HIDE DEF unfinished
<1>3. kept \in Seq(Messages) /\ \A i \in DOMAIN kept : ~IsDestroy(kept[i])
  <2>1. CASE doom = {}
      BY <1>1, <2>1
  <2>2. CASE doom # {}
    <3>1. Len(unfinished) \in Nat /\ DOMAIN unfinished = 1..Len(unfinished)
        BY <1>1
    <3>2. Max(doom) \in doom /\ \A y \in doom : y <= Max(doom)
      <4>1. doom \in SUBSET (1..Len(unfinished))
          BY <3>1
      <4> HIDE DEF doom
      <4> QED
          BY <2>2, <3>1, <4>1, MaxExists
    <3> DEFINE last == Max(doom)
               m    == last + 1
    <3>4. kept = SubSeq(unfinished, m, Len(unfinished))
        BY <2>2
    <3>a. last \in DOMAIN unfinished /\ \A y \in doom : y <= last
        BY <3>2
    <3> HIDE DEF last, doom
    <3>3. m \in 1..(Len(unfinished) + 1) /\ \A i \in DOMAIN unfinished : m <= i => i \notin doom
        BY <3>1, <3>a
    <3> HIDE DEF m
    <3>5. /\ kept \in Seq(Messages)
          /\ Len(kept) = IF m <= Len(unfinished) THEN Len(unfinished) - m + 1 ELSE 0
          /\ \A i \in 1..(Len(unfinished) - m + 1) : kept[i] = unfinished[m + i - 1]
      <4>1. m \in Int /\ Len(unfinished) \in Int
          BY <3>1, <3>3
      <4>2. \A i \in m .. Len(unfinished) : unfinished[i] \in Messages
          BY <1>1, <3>1, <3>3
      <4> DEFINE n == Len(unfinished)
      <4> HIDE DEF kept, n
      <4>3. kept = SubSeq(unfinished, m, n) /\ n \in Int
          BY <3>4, <4>1 DEF n
      <4>4. \A i \in m .. n : unfinished[i] \in Messages
          BY <4>2 DEF n
      <4>5. /\ SubSeq(unfinished, m, n) \in Seq(Messages)
            /\ Len(SubSeq(unfinished, m, n)) = IF m <= n THEN n - m + 1 ELSE 0
            /\ \A i \in 1 .. n - m + 1 : SubSeq(unfinished, m, n)[i] = unfinished[m + i - 1]
          BY ONLY <4>1, <4>3, <4>4, SubSeqProperties
      <4> QED
          BY <4>3, <4>5 DEF n
    <3>6. ASSUME NEW i \in DOMAIN kept PROVE ~IsDestroy(kept[i])
      <4> HIDE DEF kept
      <4>1. i \in 1..(Len(unfinished) - m + 1)
          BY <3>1, <3>3, <3>5, <3>6
      <4>2. m + i - 1 \in DOMAIN unfinished /\ m <= m + i - 1
          BY <3>1, <3>3, <4>1
      <4> QED
          BY <3>3, <3>5, <4>1, <4>2 DEF doom
    <3> QED
        BY <3>5, <3>6
  <2> QED
      BY <2>1, <2>2
<1>4. /\ <<Intent("sticky")>> \in Seq(Messages)
      /\ \A i \in DOMAIN <<Intent("sticky")>> : ~IsDestroy(<<Intent("sticky")>>[i])
  <2>1. Intent("sticky") \in Messages /\ ~IsDestroy(Intent("sticky"))
      BY MessageTypes DEF IsDestroy, Intent
  <2> QED
      BY <2>1
<1> HIDE DEF kept
<1>5. <<>> \in Seq(Messages) /\ DOMAIN <<>> = {}
    OBVIOUS
<1> QED
    BY <1>2, <1>3, <1>4, <1>5

-----------------------------------------------------------------------------
(* Types.                                                                  *)

\* stopSelf at most adds the message that ends the object.
LEMMA StopSelfType ==
    ASSUME TypeOK, NEW g, StopSelf(g)
    PROVE  inbox' \in Seq(Messages) /\ started' \in BOOLEAN
<1>1. CASE g = cur /\ ~Doomed
  <2>1. inbox' = Append(inbox, Intent("destroy")) /\ started' = FALSE
      BY <1>1 DEF StopSelf
  <2>2. inbox \in Seq(Messages)
      BY DEF TypeOK
  <2> QED
      BY <2>1, <2>2, MessageTypes, InboxTypes
<1>2. CASE ~(g = cur /\ ~Doomed)
    BY <1>2 DEF TypeOK, StopSelf
<1> QED
    BY <1>1, <1>2

\* startService adds the intent to the queue.
LEMMA StartServiceType ==
    ASSUME TypeOK, NEW m \in Messages, StartService(m)
    PROVE  inbox' \in Seq(Messages) /\ started' \in BOOLEAN
    BY InboxTypes DEF TypeOK, StartService

MainType == [pc : {"idle", "leave", "start", "core", "open", "rebuild", "reopen", "stop", "close"},
             msg : Messages, config : Configs]
SideType == [pc : {"idle", "stop", "close"}, inst : Instances \cup {NoInstance}]
WatchType == [stop : BOOLEAN, failures : 0..2, thread : Watchdogs \cup {NoThread}]
WdType == [pc : {"dead", "sleep", "probe", "restart", "kill"},
           inst : Instances \cup {NoInstance}, intr : BOOLEAN]

\* TypeOK with its record types named.
Typed ==
    /\ disk \in Prefs /\ prefs \in Prefs
    /\ started \in BOOLEAN /\ alarm \in BOOLEAN /\ permitted \in BOOLEAN
    /\ inbox \in Seq(Messages)
    /\ up \in BOOLEAN /\ tun \in BOOLEAN /\ err \in BOOLEAN
    /\ cur \in Instances \cup {NoInstance} /\ server \in Configs
    /\ main \in MainType
    /\ main.pc \in {"start", "core", "open", "rebuild", "reopen"} => main.config \in Profiles
    /\ side \in SideType
    /\ watch \in [Instances -> WatchType] /\ wd \in [Watchdogs -> WdType]
    /\ requests \in 0..RequestLimit /\ kills \in 0..KillLimit

\* The two statements of the types agree.
LEMMA TypeOKTyped == (TypeOK <=> Typed) /\ (TypeOK' <=> Typed')
    BY DEF TypeOK, Typed, MainType, SideType, WatchType, WdType, FailuresBeforeRestart

\* The values of a process that has just been started.
LEMMA FreshTypes ==
    /\ Empty \in Prefs /\ MainIdle \in MainType /\ MainIdle.pc = "idle" /\ SideIdle \in SideType
    /\ Fresh \in WatchType /\ Dead \in WdType /\ NoConfig \in Configs
<1>1. Empty \in Prefs
    BY DEF Empty, Prefs, Configs
<1>2. MainIdle \in MainType /\ MainIdle.pc = "idle"
    BY MessageTypes DEF MainIdle, MainType, Configs
<1>3. SideIdle \in SideType /\ Dead \in WdType
    BY DEF SideIdle, SideType, Dead, WdType
<1>4. Fresh \in WatchType
    BY DEF Fresh, WatchType
<1> QED
    BY <1>1, <1>2, <1>3, <1>4 DEF Configs

\* A process that dies leaves everything within its type.
LEMMA DiesType ==
    ASSUME TypeOK, Dies, UNCHANGED <<alarm, requests>>, kills' \in 0..KillLimit
    PROVE  TypeOK'
<1>1. inbox' \in Seq(Messages)
    BY RedeliveredKept DEF Dies
<1>2. /\ disk' = disk /\ started' = started /\ permitted' = permitted /\ up' = FALSE
      /\ prefs' = Empty /\ tun' = FALSE /\ err' = FALSE /\ cur' = NoInstance
      /\ server' = NoConfig /\ main' = MainIdle /\ side' = SideIdle
      /\ watch' \in [Instances -> WatchType] /\ wd' \in [Watchdogs -> WdType]
    BY FreshTypes DEF Dies
<1> QED
    BY <1>1, <1>2, FreshTypes, TypeOKTyped DEF Typed

\* What the operations on the watchdog leave.
LEMMA WatchdogTypes ==
    ASSUME Typed, NEW g \in Instances
    PROVE  (StopHealthWatchdog(g) \/ StartHealthWatchdog(g)) =>
               watch' \in [Instances -> WatchType] /\ wd' \in [Watchdogs -> WdType]
<1>1. ASSUME StopHealthWatchdog(g)
      PROVE  watch' \in [Instances -> WatchType] /\ wd' \in [Watchdogs -> WdType]
  <2>1. [stop |-> TRUE, failures |-> 0, thread |-> NoThread] \in WatchType
      BY DEF WatchType
  <2>2. \A t \in Watchdogs : [wd[t] EXCEPT !.intr = TRUE] \in WdType
      BY DEF Typed, WdType
  <2> QED
      BY <1>1, <2>1, <2>2 DEF StopHealthWatchdog, Typed
<1>2. ASSUME StartHealthWatchdog(g)
      PROVE  watch' \in [Instances -> WatchType] /\ wd' \in [Watchdogs -> WdType]
  <2> DEFINE w == [watch[g] EXCEPT !.failures = 0]
  <2>1. w \in WatchType
      BY <1>2 DEF Typed, WatchType
  <2>2. CASE w.thread # NoThread /\ wd[w.thread].pc # "dead"
    <3>1. watch' = [watch EXCEPT ![g] = w] /\ wd' = wd
        BY <1>2, <2>2 DEF StartHealthWatchdog
    <3> QED
        BY <2>1, <3>1 DEF Typed
  <2>3. CASE ~(w.thread # NoThread /\ wd[w.thread].pc # "dead")
    <3>1. PICK t \in Watchdogs :
             /\ watch' = [watch EXCEPT ![g] = [w EXCEPT !.stop = FALSE, !.thread = t]]
             /\ wd' = [wd EXCEPT ![t] = [pc |-> "sleep", inst |-> g, intr |-> FALSE]]
        BY <1>2, <2>3 DEF StartHealthWatchdog
    <3>2. [w EXCEPT !.stop = FALSE, !.thread = t] \in WatchType
        BY <2>1 DEF WatchType
    <3>3. [pc |-> "sleep", inst |-> g, intr |-> FALSE] \in WdType
        BY <1>2 DEF WdType
    <3> QED
        BY <3>1, <3>2, <3>3 DEF Typed
  <2> QED
      BY <2>2, <2>3
<1> QED
    BY <1>1, <1>2

\* The object the main thread works for.
LEMMA Current ==
    ASSUME Typed, ObjectInv, main.pc # "idle" \/ server # NoConfig
    PROVE  cur \in Instances
    BY DEF Typed, ObjectInv

\* The main thread's next position.
LEMMA MainTypes ==
    ASSUME Typed
    PROVE  /\ \A pc \in {"core", "open", "rebuild", "reopen", "close"} :
                 [main EXCEPT !.pc = pc] \in MainType
           /\ \A pc \in {"leave", "start", "stop"}, m \in Messages, c \in Configs :
                 [pc |-> pc, msg |-> m, config |-> c] \in MainType
    BY DEF Typed, MainType

\* What the main thread does keeps the types.
LEMMA DeliverTypes ==
    ASSUME Typed, NEW g \in Instances \cup {NoInstance},
           OnStart(g) \/ OnStop(g) \/ OnRestart(g) \/ OnDestroy
    PROVE  Typed'
<1>1. inbox # <<>> /\ inbox' = Tail(inbox)
    BY DEF OnStart, OnStop, OnRestart, OnDestroy, Receives
<1>2. Head(inbox) \in Messages /\ inbox' \in Seq(Messages)
    BY <1>1, InboxTypes DEF Typed
<1>3. watch' \in [Instances -> WatchType] /\ cur' \in Instances \cup {NoInstance}
    BY FreshTypes DEF Typed, OnStart, OnStop, OnRestart, OnDestroy, Receives
<1>4. CASE OnStart(g)
  <2>1. Head(inbox).config \in Profiles
      BY <1>2, <1>4, MessageTypes DEF OnStart
  <2>2. prefs' = [config |-> Head(inbox).config, profile |-> Head(inbox).config]
        /\ main' = [pc |-> "start", msg |-> Head(inbox), config |-> Head(inbox).config]
      BY <1>4 DEF OnStart
  <2>3. prefs' \in Prefs /\ main' \in MainType /\ main'.config \in Profiles
      BY <1>2, <2>1, <2>2, MainTypes DEF Prefs, Configs
  <2> QED
      BY <1>2, <1>3, <1>4, <2>3 DEF Typed, OnStart, disks, bounds
<1>5. CASE OnStop(g)
  <2>1. main' = [pc |-> "stop", msg |-> Head(inbox), config |-> NoConfig]
      BY <1>5 DEF OnStop
  <2>2. main' \in MainType /\ main'.pc = "stop"
      BY <1>2, <2>1, MainTypes, FreshTypes
  <2> QED
      BY <1>2, <1>3, <1>5, <2>2, FreshTypes DEF Typed, OnStop, disks, bounds
<1>6. CASE OnRestart(g)
  <2>1. main' = [pc |-> IF prefs.config = NoConfig THEN "leave" ELSE "start",
                 msg |-> Head(inbox), config |-> prefs.config]
      BY <1>6 DEF OnRestart
  <2>2. prefs.config \in Configs
      BY DEF Typed, Prefs
  <2>3. main' \in MainType /\ (main'.pc = "leave" \/ main'.config \in Profiles)
      BY <1>2, <2>1, <2>2, MainTypes DEF Configs
  <2>4. main'.pc \in {"leave", "start"}
      BY <2>1
  <2> QED
      BY <1>2, <1>3, <1>6, <2>3, <2>4 DEF Typed, OnRestart, disks, bounds
<1>7. CASE OnDestroy
  <2>1. main' = [pc |-> "stop", msg |-> Head(inbox), config |-> NoConfig]
      BY <1>7 DEF OnDestroy
  <2>2. main' \in MainType /\ main'.pc = "stop"
      BY <1>2, <2>1, MainTypes, FreshTypes
  <2> QED
      BY <1>2, <1>3, <1>7, <2>2 DEF Typed, OnDestroy, disks, bounds
<1> QED
    BY <1>4, <1>5, <1>6, <1>7

\* A step of the main thread keeps the types.
LEMMA MainTypesStep ==
    ASSUME TypeOK, Typed, ObjectInv,
           \/ Leave \/ StartLock \/ OpenTun \/ CoreStarts \/ CoreFails \/ CoreCrashes
           \/ StopLock \/ StopEnds
    PROVE  Typed'
<1> USE DEF disks, bounds
<1>1. CASE Leave \/ StopEnds
  <2>1. inbox' \in Seq(Messages) /\ started' \in BOOLEAN
      BY <1>1, StopSelfType DEF Leave, StopEnds
  <2>2. main' = MainIdle /\ disk' = prefs
      BY <1>1 DEF Leave, StopEnds, Finish
  <2>3. cur' \in {cur, NoInstance} /\ server' \in {server, NoConfig} /\ tun' \in {tun, FALSE}
      BY <1>1 DEF Leave, StopEnds
  <2>4. UNCHANGED <<alarm, permitted, up, prefs, err, side, watch, wd, bounds>>
      BY <1>1 DEF Leave, StopEnds
  <2> QED
      BY <2>1, <2>2, <2>3, <2>4, FreshTypes DEF Typed
<1>2. CASE StartLock
  <2>1. main' = MainIdle \/ \E pc \in {"core", "rebuild"} : main' = [main EXCEPT !.pc = pc]
      BY <1>2 DEF StartLock, Finish
  <2>2. main' \in MainType /\ (main'.pc = "idle" \/ main'.config = main.config)
      BY <2>1, MainTypes, FreshTypes DEF Typed, MainType
  <2>3. main.config \in Profiles
      BY <1>2 DEF StartLock, Typed
  <2>4. /\ disk' \in {disk, prefs} /\ err' \in {err, FALSE} /\ server' \in {server, NoConfig}
        /\ tun' \in {tun, FALSE}
        /\ UNCHANGED <<started, alarm, permitted, inbox, up, prefs, cur, side, watch, wd, bounds>>
      BY <1>2 DEF StartLock, Finish
  <2> QED
      BY <2>2, <2>3, <2>4, FreshTypes DEF Typed
<1>3. CASE OpenTun
  <2>1. \E pc \in {"open", "reopen"} : main' = [main EXCEPT !.pc = pc]
      BY <1>3 DEF OpenTun
  <2>2. main' \in MainType /\ main'.config = main.config /\ main.config \in Profiles
      BY <1>3, <2>1, MainTypes DEF Typed, MainType, OpenTun
  <2> QED
      BY <1>3, <2>2 DEF Typed, OpenTun
<1>4. CASE CoreStarts
  <2>1. cur \in Instances
      BY <1>4, Current DEF CoreStarts
  <2>2. watch' \in [Instances -> WatchType] /\ wd' \in [Watchdogs -> WdType]
      BY <1>4, <2>1, WatchdogTypes DEF CoreStarts
  <2>3. main' = MainIdle /\ disk' = prefs /\ server' \in Configs
      BY <1>4 DEF CoreStarts, Finish, Typed, MainType
  <2> QED
      BY <1>4, <2>2, <2>3, FreshTypes DEF Typed, CoreStarts
<1>5. CASE CoreFails \/ StopLock
  <2>1. cur \in Instances
      BY <1>5, Current DEF CoreFails, StopLock
  <2>2. watch' \in [Instances -> WatchType] /\ wd' \in [Watchdogs -> WdType]
      BY <1>5, <2>1, WatchdogTypes DEF CoreFails, StopLock
  <2>3. main' \in MainType /\ main'.pc = "close"
      BY <1>5, MainTypes DEF CoreFails, StopLock, Typed, MainType
  <2>4. err' \in {err, TRUE} /\ UNCHANGED <<disks, inbox, up, prefs, tun, cur, server, side, bounds>>
      BY <1>5 DEF CoreFails, StopLock
  <2> QED
      BY <2>2, <2>3, <2>4 DEF Typed
<1>6. CASE CoreCrashes
    BY <1>6, DiesType, TypeOKTyped DEF CoreCrashes, Typed
<1> QED
    BY <1>1, <1>2, <1>3, <1>4, <1>5, <1>6

\* So does what the side thread does, and the watchdog threads.
LEMMA SideTypesStep ==
    ASSUME TypeOK, Typed, ObjectInv, SideStep \/ OnRevoke \/ ServiceStop
    PROVE  Typed'
<1> USE DEF disks, bounds
<1>1. CASE SideLock
  <2>1. side.inst \in Instances
      BY <1>1 DEF SideLock, ObjectInv, Typed, SideType
  <2>2. watch' \in [Instances -> WatchType] /\ wd' \in [Watchdogs -> WdType]
      BY <1>1, <2>1, WatchdogTypes DEF SideLock
  <2>3. side' \in SideType
      BY <1>1 DEF SideLock, Typed, SideType
  <2> QED
      BY <1>1, <2>2, <2>3 DEF Typed, SideLock
<1>2. CASE SideEnds
  <2>1. inbox' \in Seq(Messages) /\ started' \in BOOLEAN
      BY <1>2, StopSelfType DEF SideEnds
  <2> QED
      BY <1>2, <2>1, FreshTypes DEF Typed, SideEnds
<1>3. CASE OnRevoke
  <2>1. side' \in SideType
      BY <1>3 DEF OnRevoke, Typed, SideType
  <2>2. prefs' \in Prefs
      BY <1>3 DEF OnRevoke, Typed, Prefs, Configs
  <2> QED
      BY <1>3, <2>1, <2>2 DEF Typed, OnRevoke
<1>4. CASE ServiceStop
  <2>1. side' \in SideType
      BY <1>4 DEF ServiceStop, Typed, SideType
  <2> QED
      BY <1>4, <2>1 DEF Typed, ServiceStop
<1> QED
    BY <1>1, <1>2, <1>3, <1>4 DEF SideStep

\* A step of a watchdog keeps the types.
LEMMA WdTypesStep ==
    ASSUME TypeOK, Typed, ObjectInv, NEW t \in Watchdogs, WdStep(t)
    PROVE  Typed'
<1>1. /\ Loops(t) \in WdType
      /\ \A pc \in {"probe", "restart", "kill"} : [wd[t] EXCEPT !.pc = pc] \in WdType
      /\ [wd[t] EXCEPT !.intr = FALSE] \in WdType
    BY FreshTypes DEF Loops, Typed, WdType
<1>2. CASE WdInterrupted(t) \/ WdWakes(t) \/ RestartCoreFromWatchdog(t)
  <2>1. wd' \in [Watchdogs -> WdType]
      BY <1>1, <1>2, FreshTypes DEF WdInterrupted, WdWakes, RestartCoreFromWatchdog, Goes, Typed
  <2> QED
      BY <1>2, <2>1 DEF WdInterrupted, WdWakes, RestartCoreFromWatchdog, WdRest, bounds, Typed
<1>3. CASE WdProbeOk(t) \/ WdProbeFails(t)
  <2>1. wd[t].inst \in Instances
      BY <1>3 DEF WdProbeOk, WdProbeFails, ObjectInv, Typed, WdType
  <2>2. watch[wd[t].inst] \in WatchType
      BY <2>1 DEF Typed
  <2>3. wd' \in [Watchdogs -> WdType]
      BY <1>1, <1>3 DEF WdProbeOk, WdProbeFails, Goes, Typed
  <2>4. \E n \in 0..2 : watch' = [watch EXCEPT ![wd[t].inst].failures = n]
    <3>1. CASE WdProbeOk(t)
        BY <3>1 DEF WdProbeOk
    <3>2. CASE WdProbeFails(t)
      <4>1. watch[wd[t].inst].failures \in 0..2
          BY <2>2 DEF WatchType
      <4> QED
          BY <3>2, <4>1 DEF WdProbeFails, FailuresBeforeRestart
    <3> QED
        BY <1>3, <3>1, <3>2
  <2>5. watch' \in [Instances -> WatchType]
      BY <2>2, <2>4 DEF Typed, WatchType
  <2> QED
      BY <1>3, <2>3, <2>5 DEF WdProbeOk, WdProbeFails, WdRest, bounds, Typed
<1>4. CASE KillProcess(t)
    BY <1>4, DiesType, TypeOKTyped DEF KillProcess, bounds, Typed
<1> QED
    BY <1>2, <1>3, <1>4 DEF WdStep

\* And the system and the plugin.
LEMMA SystemTypesStep ==
    ASSUME TypeOK, Typed, SystemKills \/ ProcessStarts \/ AlarmFires \/ FlushPrefs \/ Request
    PROVE  Typed'
<1> USE DEF disks, bounds
<1>1. CASE SystemKills
  <2>1. kills' \in 0..KillLimit
      BY <1>1, AndroidAssumption DEF SystemKills, Typed
  <2> QED
      BY <1>1, <2>1, DiesType, TypeOKTyped DEF SystemKills
<1>2. CASE ProcessStarts \/ FlushPrefs
    BY <1>2 DEF ProcessStarts, FlushPrefs, Typed
<1>3. CASE AlarmFires
  <2>1. inbox' \in Seq(Messages) /\ started' \in BOOLEAN
      BY <1>3, MessageTypes, StartServiceType DEF AlarmFires
  <2> QED
      BY <1>3, <2>1 DEF AlarmFires, Typed
<1>4. CASE Request
  <2>1. inbox' \in Seq(Messages) /\ started' \in BOOLEAN
    <3>1. CASE RequestStop
        BY <3>1, MessageTypes, StartServiceType DEF RequestStop, StopNativeVpn
    <3>2. ASSUME NEW p \in Profiles, RequestStart(p)
          PROVE  inbox' \in Seq(Messages) /\ started' \in BOOLEAN
        BY <3>2, MessageTypes, StartServiceType DEF RequestStart, StartVpn, Typed
    <3> QED
        BY <1>4, <3>1, <3>2 DEF Request
  <2>2. requests' \in 0..RequestLimit
      BY <1>4, AndroidAssumption DEF Request, RequestStop, RequestStart, Typed
  <2> QED
      BY <1>4, <2>1, <2>2 DEF Request, RequestStop, RequestStart, StartVpn, Typed
<1> QED
    BY <1>1, <1>2, <1>3, <1>4

\* Every step keeps the types.
LEMMA TypesStep == TypeOK /\ ObjectInv /\ [Next]_vars => TypeOK'
<1> SUFFICES ASSUME TypeOK, Typed, ObjectInv, [Next]_vars PROVE Typed'
    BY TypeOKTyped
<1>1. CASE MainStep
    BY <1>1, DeliverTypes, MainTypesStep DEF MainStep, Deliver
<1>2. CASE UNCHANGED vars
    BY <1>2 DEF vars, Typed
<1> QED
    BY <1>1, <1>2, SideTypesStep, WdTypesStep, SystemTypesStep
    DEF Next, ServiceNext, SystemStep

-----------------------------------------------------------------------------
(* A dead process.                                                         *)

\* A process that does not run holds nothing: it is only started empty-handed.
LEMMA DeadStep == TypeOK /\ DeadInv /\ [Next]_vars => DeadInv'
<1> SUFFICES ASSUME TypeOK, DeadInv, [Next]_vars PROVE DeadInv'
    OBVIOUS
<1>1. ASSUME Dies PROVE DeadInv'
    BY <1>1 DEF Dies, DeadInv, MainIdle, SideIdle, Dead
<1>2. ASSUME UNCHANGED vars PROVE DeadInv'
    BY <1>2 DEF vars, DeadInv
<1>3. CASE up
  <2>1. ASSUME NEW g \in Instances, OnStart(g) \/ OnStop(g) \/ OnRestart(g) PROVE up'
      BY <1>3, <2>1 DEF OnStart, OnStop, OnRestart
  <2>2. CASE OnDestroy \/ Leave \/ StartLock \/ OpenTun \/ CoreStarts
      BY <1>3, <2>2 DEF DeadInv, OnDestroy, Leave, StartLock, OpenTun, CoreStarts
  <2>3. CASE CoreFails \/ StopLock \/ StopEnds \/ SideStep
      BY <1>3, <2>3 DEF DeadInv, CoreFails, StopLock, StopEnds, SideStep, SideLock, SideEnds
  <2>4. CASE CoreCrashes \/ SystemKills \/ \E t \in Watchdogs : KillProcess(t)
      BY <1>1, <2>4 DEF CoreCrashes, SystemKills, KillProcess
  <2>5. CASE ProcessStarts \/ AlarmFires \/ FlushPrefs \/ OnRevoke \/ ServiceStop \/ Request
      BY <1>3, <2>5 DEF DeadInv, ProcessStarts, AlarmFires, FlushPrefs, OnRevoke, ServiceStop,
          Request, RequestStop, RequestStart
  <2>6. ASSUME NEW t \in Watchdogs, WdStep(t), ~KillProcess(t) PROVE up'
      BY <1>3, <2>6 DEF WdStep, WdInterrupted, WdWakes, WdProbeOk, WdProbeFails,
          RestartCoreFromWatchdog, WdRest
  <2> QED
      BY <1>2, <2>1, <2>2, <2>3, <2>4, <2>5, <2>6
      DEF DeadInv, Next, ServiceNext, MainStep, Deliver, SystemStep
<1>4. CASE ~up
  <2>1. main.pc = "idle" /\ side.pc = "idle" /\ \A t \in Watchdogs : wd[t].pc = "dead"
      BY <1>4 DEF DeadInv
  <2>2. ~MainStep
      BY <1>4, <2>1 DEF MainStep, Deliver, OnStart, OnStop, OnRestart, OnDestroy, Receives, Leave,
          StartLock, OpenTun, CoreStarts, CoreFails, CoreCrashes, StopLock, StopEnds
  <2>3. ~SideStep /\ ~Request /\ \A t \in Watchdogs : ~WdStep(t)
      BY <1>4, <2>1 DEF SideStep, SideLock, SideEnds, Request, RequestStop, RequestStart, WdStep,
          WdInterrupted, WdWakes, WdProbeOk, WdProbeFails, RestartCoreFromWatchdog, KillProcess
  <2>4. CASE SystemStep
      BY <1>4, <2>4 DEF SystemStep, SystemKills, ProcessStarts, AlarmFires, FlushPrefs, OnRevoke,
          ServiceStop, DeadInv
  <2> QED
      BY <1>2, <2>2, <2>3, <2>4 DEF Next, ServiceNext
<1> QED
    BY <1>3, <1>4

-----------------------------------------------------------------------------
(* The message in hand.                                                    *)

\* Whatever happens on other threads, the message in hand keeps its place and
\* the configuration of a start stays the saved one or is withdrawn.
LEMMA HandStep == TypeOK /\ DeadInv /\ HandInv /\ [Next]_vars => HandInv'
<1> SUFFICES ASSUME TypeOK, DeadInv, HandInv, [Next]_vars PROVE HandInv'
    OBVIOUS
<1>t. main \in MainType /\ prefs \in Prefs
    BY TypeOKTyped DEF Typed
<1>1. ASSUME main' = MainIdle PROVE HandInv'
    BY <1>1 DEF HandInv, MainIdle
<1>2. ASSUME UNCHANGED main, prefs'.config \in {prefs.config, NoConfig} PROVE HandInv'
    BY <1>2 DEF HandInv
<1>3. ASSUME NEW pc \in {"core", "open", "rebuild", "reopen"}, UNCHANGED prefs,
             main.pc \in {"start", "core", "open", "rebuild", "reopen"},
             main' = [main EXCEPT !.pc = pc]
      PROVE  HandInv'
  <2>1. main'.pc = pc /\ main'.config = main.config /\ main'.msg = main.msg
      BY <1>t, <1>3 DEF MainType
  <2> QED
      BY <1>3, <2>1 DEF HandInv
<1>4. ASSUME main' = [main EXCEPT !.pc = "close"] PROVE HandInv'
    BY <1>t, <1>4 DEF HandInv, MainType
<1>5. ASSUME NEW g \in Instances, OnStart(g) PROVE HandInv'
    BY <1>5 DEF OnStart, HandInv
<1>6. ASSUME NEW g \in Instances, OnStop(g) PROVE HandInv'
    BY <1>6 DEF OnStop, HandInv
<1>7. ASSUME NEW g \in Instances, OnRestart(g) PROVE HandInv'
    BY <1>7 DEF OnRestart, HandInv
<1>8. CASE OnDestroy
    BY <1>8 DEF OnDestroy, HandInv
<1>9. CASE Leave \/ CoreStarts \/ StopEnds \/ CoreCrashes \/ SystemKills
    BY <1>1, <1>9 DEF Leave, CoreStarts, StopEnds, CoreCrashes, SystemKills, Finish, Dies
<1>10. CASE StartLock
  <2>1. main.pc = "start" /\ UNCHANGED prefs
      BY <1>10 DEF StartLock
  <2>2. main' = MainIdle \/ main' = [main EXCEPT !.pc = "core"] \/ main' = [main EXCEPT !.pc = "rebuild"]
      BY <1>10 DEF StartLock, Finish
  <2> QED
      BY <1>1, <1>3, <2>1, <2>2
<1>11. CASE OpenTun
    BY <1>3, <1>11 DEF OpenTun
<1>12. CASE CoreFails \/ StopLock
    BY <1>4, <1>12 DEF CoreFails, StopLock
<1>13. CASE SideStep \/ ServiceStop \/ AlarmFires \/ FlushPrefs \/ Request
    BY <1>2, <1>13 DEF SideStep, SideLock, SideEnds, ServiceStop, AlarmFires, FlushPrefs, Request,
        RequestStop, RequestStart
<1>14. CASE OnRevoke
    BY <1>2, <1>14, <1>t DEF OnRevoke, Prefs
<1>15. ASSUME NEW t \in Watchdogs, WdStep(t) PROVE HandInv'
    BY <1>1, <1>2, <1>15 DEF WdStep, WdInterrupted, WdWakes, WdProbeOk, WdProbeFails,
        RestartCoreFromWatchdog, WdRest, KillProcess, Dies
<1>16. CASE UNCHANGED vars
    BY <1>2, <1>16 DEF vars
<1>17. CASE ProcessStarts
    BY <1>17 DEF ProcessStarts, DeadInv, HandInv
<1> QED
    BY <1>5, <1>6, <1>7, <1>8, <1>9, <1>10, <1>11, <1>12, <1>13, <1>14, <1>15, <1>16, <1>17
    DEF Next, ServiceNext, MainStep, Deliver, SystemStep

-----------------------------------------------------------------------------
(* The service object.                                                     *)

\* The object is told to end at most once.
EndsOnce ==
    /\ \A i, j \in DOMAIN inbox : IsDestroy(inbox[i]) /\ IsDestroy(inbox[j]) => i = j
    /\ \A i \in DOMAIN inbox : IsDestroy(inbox[i]) =>
          cur # NoInstance /\ ~(main.pc # "idle" /\ IsDestroy(main.msg))

\* The first message is taken for an object.
LEMMA TakeEndsOnce ==
    ASSUME TypeOK, EndsOnce, inbox # <<>>, inbox' = Tail(inbox), cur' # NoInstance,
           main'.msg = Head(inbox)
    PROVE  EndsOnce'
<1>1. inbox \in Seq(Messages)
    BY DEF TypeOK
<1>2. /\ 1 \in DOMAIN inbox /\ Head(inbox) = inbox[1]
      /\ \A i \in DOMAIN Tail(inbox) : i \in Nat \ {0} /\ i + 1 \in DOMAIN inbox
                                       /\ Tail(inbox)[i] = inbox[i + 1]
    BY <1>1
<1>3. \A i \in DOMAIN inbox' : i \in Nat \ {0} /\ i + 1 \in DOMAIN inbox /\ inbox'[i] = inbox[i + 1]
    BY <1>2
<1>4. \A i, j \in DOMAIN inbox' : IsDestroy(inbox'[i]) /\ IsDestroy(inbox'[j]) => i = j
  <2> SUFFICES ASSUME NEW i \in DOMAIN inbox', NEW j \in DOMAIN inbox',
                      IsDestroy(inbox'[i]), IsDestroy(inbox'[j])
               PROVE  i = j
      OBVIOUS
  <2>1. i + 1 = j + 1
      BY <1>3 DEF EndsOnce
  <2> QED
      BY <1>3, <2>1
<1>5. ASSUME NEW i \in DOMAIN inbox', IsDestroy(inbox'[i]) PROVE ~IsDestroy(main'.msg)
  <2>1. i + 1 \in DOMAIN inbox /\ IsDestroy(inbox[i + 1]) /\ i + 1 # 1
      BY <1>3, <1>5
  <2> QED
      BY <1>2, <2>1 DEF EndsOnce
<1> QED
    BY <1>4, <1>5 DEF EndsOnce

\* A message is added: one that ends the object only if it was not told before.
LEMMA AddEndsOnce ==
    ASSUME TypeOK, EndsOnce, NEW m, inbox' = Append(inbox, m),
           cur' = cur \/ (cur' = NoInstance /\ \A i \in DOMAIN inbox' : ~IsDestroy(inbox'[i])),
           main' = main \/ main'.pc = "idle",
           IsDestroy(m) => cur' # NoInstance /\ ~Doomed
    PROVE  EndsOnce'
<1>1. inbox \in Seq(Messages)
    BY DEF TypeOK
<1>2. \A i \in DOMAIN inbox' : \/ i \in DOMAIN inbox /\ inbox'[i] = inbox[i]
                               \/ i = Len(inbox) + 1 /\ inbox'[i] = m
    BY <1>1
<1>3. CASE IsDestroy(m)
  <2>1. \A i \in DOMAIN inbox' : IsDestroy(inbox'[i]) => i = Len(inbox) + 1
      BY <1>2, <1>3 DEF Doomed
  <2>2. ~(main.pc # "idle" /\ IsDestroy(main.msg))
      BY <1>3 DEF Doomed
  <2> QED
      BY <1>3, <2>1, <2>2 DEF EndsOnce
<1>4. CASE ~IsDestroy(m)
  <2>1. \A i \in DOMAIN inbox' : IsDestroy(inbox'[i]) => i \in DOMAIN inbox /\ IsDestroy(inbox[i])
      BY <1>2, <1>4
  <2> QED
      BY <2>1 DEF EndsOnce
<1> QED
    BY <1>3, <1>4

\* Nothing happens to the queue.
LEMMA KeepEndsOnce ==
    ASSUME EndsOnce, UNCHANGED inbox, main' = main \/ main'.pc = "idle",
           cur' = cur \/ (main.pc # "idle" /\ IsDestroy(main.msg))
    PROVE  EndsOnce'
    BY DEF EndsOnce

\* stopSelf tells an object to end that was not told before.
LEMMA StopSelfEndsOnce ==
    ASSUME TypeOK, EndsOnce, NEW g, g # NoInstance, StopSelf(g), main' = main \/ main'.pc = "idle",
           cur' = IF main.pc # "idle" /\ main'.pc = "idle" /\ IsDestroy(main.msg)
                    THEN NoInstance ELSE cur
    PROVE  EndsOnce'
<1>1. CASE g = cur /\ ~Doomed
  <2>1. inbox' = Append(inbox, Intent("destroy")) /\ ~(main.pc # "idle" /\ IsDestroy(main.msg))
      BY <1>1 DEF StopSelf, Doomed
  <2>2. cur' = cur /\ cur # NoInstance
      BY <1>1, <2>1
  <2> QED
      BY <1>1, <2>1, <2>2, AddEndsOnce
<1>2. CASE ~(g = cur /\ ~Doomed)
  <2>1. UNCHANGED inbox
      BY <1>2 DEF StopSelf
  <2>2. cur' = cur \/ (main.pc # "idle" /\ IsDestroy(main.msg))
      OBVIOUS
  <2> QED
      BY <2>1, <2>2, KeepEndsOnce
<1> QED
    BY <1>1, <1>2

\* An intent of the plugin or of the alarm ends no object.
LEMMA StartServiceEndsOnce ==
    ASSUME TypeOK, EndsOnce, NEW m, m.act # "destroy", StartService(m), UNCHANGED <<main, cur>>
    PROVE  EndsOnce'
    BY AddEndsOnce DEF StartService, IsDestroy

\* What refers to an object.
RefersToObjects ==
    /\ (server # NoConfig \/ main.pc # "idle") => cur # NoInstance
    /\ side.pc # "idle" => side.inst # NoInstance
    /\ \A t \in Watchdogs : wd[t].pc # "dead" => wd[t].inst # NoInstance

\* EndsOnce is the part of ObjectInv about the messages that end an object.
LEMMA ObjectParts ==
    /\ ObjectInv <=> RefersToObjects /\ EndsOnce
    /\ ObjectInv' <=> RefersToObjects' /\ EndsOnce'
    BY DEF ObjectInv, RefersToObjects, EndsOnce

\* No step tells an object to end twice.
LEMMA EndsOnceStep == TypeOK /\ ObjectInv /\ HandInv /\ [Next]_vars => EndsOnce'
<1> SUFFICES ASSUME TypeOK, ObjectInv, HandInv, EndsOnce, RefersToObjects, [Next]_vars
             PROVE  EndsOnce'
    BY ObjectParts
<1>1. ASSUME NEW g \in Instances, OnStart(g) \/ OnStop(g) \/ OnRestart(g) PROVE EndsOnce'
  <2>1. inbox # <<>> /\ inbox' = Tail(inbox) /\ cur' = g /\ main'.msg = Head(inbox)
      BY <1>1 DEF OnStart, OnStop, OnRestart, Receives
  <2>2. g # NoInstance
      BY AndroidAssumption DEF NoInstance
  <2> QED
      BY <2>1, <2>2, TakeEndsOnce
<1>2. CASE OnDestroy
  <2>1. inbox # <<>> /\ inbox' = Tail(inbox) /\ cur' = cur /\ main'.msg = Head(inbox)
      BY <1>2 DEF OnDestroy
  <2>2. cur # NoInstance
    <3>1. inbox \in Seq(Messages)
        BY DEF TypeOK
    <3>2. 1 \in DOMAIN inbox /\ Head(inbox) = inbox[1]
        BY <2>1, <3>1
    <3> QED
        BY <1>2, <3>2 DEF OnDestroy, EndsOnce
  <2> QED
      BY <2>1, <2>2, TakeEndsOnce
<1>3. CASE Leave \/ StopEnds
  <2>1. cur # NoInstance /\ StopSelf(cur) /\ main'.pc = "idle" /\ main.pc # "idle"
      BY <1>3 DEF RefersToObjects, Leave, StopEnds, Finish, MainIdle
  <2>2. cur' = IF IsDestroy(main.msg) THEN NoInstance ELSE cur
      BY <1>3 DEF Leave, StopEnds, HandInv, IsDestroy
  <2> QED
      BY <2>1, <2>2, StopSelfEndsOnce
<1>4. CASE SideEnds
    BY <1>4, StopSelfEndsOnce DEF SideEnds, RefersToObjects
<1>5. ASSUME Dies PROVE EndsOnce'
  <2>1. inbox' = Redelivered
      BY <1>5 DEF Dies
  <2>2. \A i \in DOMAIN inbox' : ~IsDestroy(inbox'[i])
      BY <2>1, RedeliveredKept
  <2> QED
      BY <2>2 DEF EndsOnce
<1>6. CASE AlarmFires \/ RequestStop
    BY <1>6, StartServiceEndsOnce DEF AlarmFires, RequestStop, StopNativeVpn, Intent
<1>7. ASSUME NEW p \in Profiles, RequestStart(p) PROVE EndsOnce'
    BY <1>7, StartServiceEndsOnce, KeepEndsOnce DEF RequestStart, StartVpn
<1>8. CASE StartLock \/ OpenTun \/ CoreStarts \/ CoreFails \/ StopLock
  <2>1. UNCHANGED <<inbox, cur>>
      BY <1>8 DEF StartLock, OpenTun, CoreStarts, CoreFails, StopLock
  <2>2. main'.pc = "idle" \/ main'.msg = main.msg
    <3>1. main \in MainType
        BY TypeOKTyped DEF Typed
    <3>2. main' = MainIdle \/ \E pc : main' = [main EXCEPT !.pc = pc]
      <4>1. CASE StartLock
          BY <4>1 DEF StartLock, Finish
      <4>2. CASE OpenTun
          BY <4>2 DEF OpenTun
      <4>3. CASE CoreStarts \/ CoreFails \/ StopLock
          BY <4>3 DEF CoreStarts, CoreFails, StopLock, Finish
      <4> QED
          BY <1>8, <4>1, <4>2, <4>3
    <3> QED
        BY <3>1, <3>2 DEF MainIdle, MainType
  <2>3. main.pc # "idle"
      BY <1>8 DEF StartLock, OpenTun, CoreStarts, CoreFails, StopLock
  <2> QED
      BY <2>1, <2>2, <2>3 DEF EndsOnce
<1>9. CASE SideLock \/ ProcessStarts \/ FlushPrefs \/ OnRevoke \/ ServiceStop \/ UNCHANGED vars
    BY <1>9, KeepEndsOnce DEF SideLock, ProcessStarts, FlushPrefs, OnRevoke, ServiceStop, vars
<1>10. ASSUME NEW t \in Watchdogs, WdStep(t) PROVE EndsOnce'
    BY <1>5, <1>10, KeepEndsOnce DEF WdStep, WdInterrupted, WdWakes, WdProbeOk, WdProbeFails,
        RestartCoreFromWatchdog, WdRest, KillProcess
<1> QED
    BY <1>1, <1>2, <1>3, <1>4, <1>5, <1>6, <1>7, <1>8, <1>9, <1>10
    DEF Next, ServiceNext, MainStep, SideStep, Deliver, SystemStep, CoreCrashes, SystemKills, Request

\* Every step keeps the references to service objects.
LEMMA ObjectStep == TypeOK /\ DeadInv /\ ObjectInv /\ HandInv /\ [Next]_vars => ObjectInv'
<1> SUFFICES ASSUME TypeOK, Typed, DeadInv, RefersToObjects, EndsOnce, EndsOnce', [Next]_vars
             PROVE  RefersToObjects'
    BY ObjectParts, EndsOnceStep, TypeOKTyped
<1>1. ASSUME NEW g \in Instances, OnStart(g) \/ OnStop(g) \/ OnRestart(g) PROVE RefersToObjects'
  <2>1. cur' = g /\ g # NoInstance /\ UNCHANGED <<side, wd>>
      BY <1>1, AndroidAssumption DEF OnStart, OnStop, OnRestart, Receives, NoInstance
  <2> QED
      BY <2>1 DEF RefersToObjects
<1>2. CASE OnDestroy
  <2>1. 1 \in DOMAIN inbox /\ Head(inbox) = inbox[1]
      BY <1>2 DEF OnDestroy, Typed
  <2>2. cur # NoInstance
      BY <1>2, <2>1 DEF OnDestroy, EndsOnce
  <2> QED
      BY <1>2, <2>2 DEF OnDestroy, RefersToObjects
<1>3. CASE Leave \/ StopEnds
    BY <1>3 DEF Leave, StopEnds, Finish, MainIdle, RefersToObjects
<1>4. CASE StartLock \/ OpenTun
    BY <1>4 DEF StartLock, OpenTun, disks, RefersToObjects
<1>5. ASSUME NEW g, StopHealthWatchdog(g)
      PROVE  \A t \in Watchdogs : wd'[t].pc # "dead" => wd[t].pc # "dead" /\ wd'[t].inst = wd[t].inst
    BY <1>5 DEF StopHealthWatchdog, Typed, WdType
<1>6. CASE CoreFails \/ StopLock
  <2>1. cur' = cur /\ server' = server /\ side' = side /\ main.pc # "idle" /\ StopHealthWatchdog(cur)
      BY <1>6 DEF CoreFails, StopLock
  <2> QED
      BY <1>5, <2>1 DEF RefersToObjects
<1>7. CASE SideLock
  <2>1. /\ cur' = cur /\ server' = server /\ main' = main /\ side'.inst = side.inst
        /\ side.pc # "idle" /\ StopHealthWatchdog(side.inst)
      BY <1>7 DEF SideLock, Typed, SideType
  <2> QED
      BY <1>5, <2>1 DEF RefersToObjects
<1>8. CASE SideEnds
    BY <1>8 DEF SideEnds, SideIdle, RefersToObjects
<1>9. CASE CoreStarts
  <2>1. cur # NoInstance /\ cur' = cur /\ side' = side /\ StartHealthWatchdog(cur)
      BY <1>9 DEF CoreStarts, RefersToObjects
  <2>2. wd' = wd \/ \E t \in Watchdogs :
                       wd' = [wd EXCEPT ![t] = [pc |-> "sleep", inst |-> cur, intr |-> FALSE]]
    <3> DEFINE w == [watch[cur] EXCEPT !.failures = 0]
    <3>1. CASE w.thread # NoThread /\ wd[w.thread].pc # "dead"
        BY <2>1, <3>1 DEF StartHealthWatchdog
    <3>2. CASE ~(w.thread # NoThread /\ wd[w.thread].pc # "dead")
        BY <2>1, <3>2 DEF StartHealthWatchdog
    <3> QED
        BY <3>1, <3>2
  <2> QED
      BY <2>1, <2>2 DEF RefersToObjects, Typed
<1>10. ASSUME Dies PROVE RefersToObjects'
    BY <1>10 DEF Dies, MainIdle, SideIdle, Dead, RefersToObjects
<1>11. CASE ProcessStarts \/ AlarmFires \/ FlushPrefs \/ Request \/ UNCHANGED vars
    BY <1>11 DEF ProcessStarts, AlarmFires, FlushPrefs, Request, RequestStop, RequestStart, vars,
        RefersToObjects
<1>12. CASE OnRevoke \/ ServiceStop
    BY <1>12 DEF OnRevoke, ServiceStop, CoreRuns, disks, RefersToObjects
<1>13. ASSUME NEW t \in Watchdogs, WdStep(t), ~KillProcess(t) PROVE RefersToObjects'
  <2>1. UNCHANGED <<cur, server, main, side>> /\ wd[t].pc # "dead"
      BY <1>13 DEF WdStep, WdInterrupted, WdWakes, WdProbeOk, WdProbeFails,
          RestartCoreFromWatchdog, WdRest
  <2>2. \E w : wd' = [wd EXCEPT ![t] = w] /\ (w = Dead \/ w.inst = wd[t].inst)
      BY <1>13 DEF WdStep, WdInterrupted, WdWakes, WdProbeOk, WdProbeFails, Goes, Loops,
          RestartCoreFromWatchdog, Typed, WdType
  <2> QED
      BY <2>1, <2>2 DEF RefersToObjects, Typed, Dead
<1> QED
    BY <1>1, <1>2, <1>3, <1>4, <1>6, <1>7, <1>8, <1>9, <1>10, <1>11, <1>12, <1>13
    DEF Next, ServiceNext, MainStep, SideStep, Deliver, SystemStep, CoreCrashes, SystemKills,
        WdStep, KillProcess

-----------------------------------------------------------------------------
(* The lock.                                                               *)

\* Where the main thread goes, and what becomes of core and tunnel.
LEMMA LockStep == TypeOK /\ DeadInv /\ ObjectInv /\ LockInv /\ [Next]_vars => LockInv'
<1> SUFFICES ASSUME Typed, DeadInv, ObjectInv, LockInv, [Next]_vars PROVE LockInv'
    BY TypeOKTyped
<1> USE DEF MainInLock, SideInLock
<1>m. ASSUME NEW pc, main' = [main EXCEPT !.pc = pc]
      PROVE  main'.pc = pc /\ main'.config = main.config
    BY <1>m DEF Typed, MainType
<1>1. ASSUME NEW g \in Instances, OnStart(g) \/ OnStop(g) \/ OnRestart(g) PROVE LockInv'
  <2>1. main.pc = "idle" /\ main'.pc \in {"start", "stop", "leave"} /\ UNCHANGED <<server, tun>>
      BY <1>1 DEF OnStart, OnStop, OnRestart, Receives
  <2> QED
      BY <2>1 DEF LockInv
<1>2. CASE OnDestroy
  <2>1. main.pc = "idle" /\ main'.pc = "stop" /\ UNCHANGED <<server, tun>>
      BY <1>2 DEF OnDestroy
  <2> QED
      BY <2>1 DEF LockInv
<1>3. CASE Leave \/ StopEnds
  <2>1. main'.pc = "idle" /\ (~tun' \/ (main.pc = "leave" /\ UNCHANGED <<server, tun>>))
      BY <1>3 DEF Leave, StopEnds, Finish, MainIdle
  <2> QED
      BY <2>1 DEF LockInv
<1>4. CASE StartLock
  <2>1. CASE server # NoConfig /\ tun
    <3>1. main'.pc = "idle" /\ UNCHANGED <<server, tun>>
        BY <1>4, <2>1 DEF StartLock, Finish, MainIdle
    <3> QED
        BY <2>1, <3>1 DEF LockInv
  <2>2. CASE ~(server # NoConfig /\ tun)
    <3>1. main'.pc \in {"core", "rebuild"} /\ server' = NoConfig /\ main.pc = "start"
        BY <1>4, <1>m, <2>2 DEF StartLock
    <3>2. ~tun'
        BY <1>4, <2>2, <3>1 DEF StartLock, LockInv
    <3>3. ~SideInLock(cur) /\ cur' = cur /\ side' = side
        BY <1>4 DEF StartLock
    <3> QED
        BY <3>1, <3>2, <3>3 DEF LockInv
  <2> QED
      BY <2>1, <2>2
<1>5. CASE OpenTun
  <2>1. main.pc \in {"core", "rebuild"} /\ main'.pc \in {"open", "reopen"}
        /\ UNCHANGED <<cur, side, server>>
      BY <1>5, <1>m DEF OpenTun
  <2> QED
      BY <2>1 DEF LockInv
<1>6. CASE CoreStarts
  <2>1. main'.pc = "idle" /\ server' \in Profiles
      BY <1>6 DEF CoreStarts, Finish, MainIdle, Typed
  <2> QED
      BY <2>1, AndroidAssumption DEF LockInv
<1>7. CASE CoreFails \/ StopLock
  <2>1. main'.pc = "close" /\ UNCHANGED <<cur, side>>
        /\ ~(SideInLock(cur))
      BY <1>7, <1>m DEF CoreFails, StopLock, LockInv
  <2> QED
      BY <2>1 DEF LockInv
<1>8. CASE SideLock
  <2>1. /\ ~(side.inst = cur /\ MainInLock) /\ UNCHANGED <<cur, main, server, tun>>
        /\ side'.inst = side.inst
      BY <1>8 DEF SideLock, Typed, SideType
  <2> QED
      BY <2>1 DEF LockInv
<1>9. CASE SideEnds
    BY <1>9 DEF SideEnds, SideIdle, LockInv
<1>10. ASSUME Dies PROVE LockInv'
    BY <1>10 DEF Dies, MainIdle, LockInv
<1>11. CASE AlarmFires \/ FlushPrefs \/ Request \/ UNCHANGED vars
    BY <1>11 DEF AlarmFires, FlushPrefs, Request, RequestStop, RequestStart, vars, LockInv
<1>12. CASE ProcessStarts
    BY <1>12 DEF ProcessStarts, DeadInv, LockInv
<1>13. CASE OnRevoke \/ ServiceStop
  <2>1. side'.pc = "stop" /\ UNCHANGED <<cur, main, server, tun>>
      BY <1>13 DEF OnRevoke, ServiceStop
  <2> QED
      BY <2>1 DEF LockInv
<1>14. ASSUME NEW t \in Watchdogs, WdStep(t), ~KillProcess(t) PROVE LockInv'
    BY <1>14 DEF WdStep, WdInterrupted, WdWakes, WdProbeOk, WdProbeFails,
        RestartCoreFromWatchdog, WdRest, LockInv
<1> QED
    BY <1>1, <1>2, <1>3, <1>4, <1>5, <1>6, <1>7, <1>8, <1>9, <1>10, <1>11, <1>12, <1>13, <1>14
    DEF Next, ServiceNext, MainStep, SideStep, Deliver, SystemStep, CoreCrashes, SystemKills,
        WdStep, KillProcess

-----------------------------------------------------------------------------
(* The watchdog.                                                           *)

\* The thread an object refers to is alive and its own.
ThreadsOwn ==
    \A g \in Instances : watch[g].thread # NoThread =>
        /\ ~watch[g].stop
        /\ wd[watch[g].thread].pc # "dead" /\ wd[watch[g].thread].inst = g

\* Telling a watchdog to stop leaves the others alone.
LEMMA StopThreadsOwn ==
    ASSUME Typed, ThreadsOwn, NEW g \in Instances, StopHealthWatchdog(g)
    PROVE  ThreadsOwn' /\ \A h \in Instances \ {g} : watch'[h] = watch[h]
<1>1. /\ watch'[g].thread = NoThread
      /\ \A h \in Instances \ {g} : watch'[h] = watch[h]
    BY DEF StopHealthWatchdog, Typed
<1>2. \A t \in Watchdogs : wd'[t].pc = wd[t].pc /\ wd'[t].inst = wd[t].inst
    BY DEF StopHealthWatchdog, Typed, WdType
<1>3. \A h \in Instances : watch[h].thread \in Watchdogs \cup {NoThread}
    BY DEF Typed, WatchType
<1> QED
    BY <1>1, <1>2, <1>3 DEF ThreadsOwn

\* After starting one the object has a thread.
LEMMA StartThreadsOwn ==
    ASSUME Typed, ThreadsOwn, NEW g \in Instances, StartHealthWatchdog(g)
    PROVE  ThreadsOwn' /\ watch'[g].thread # NoThread
<1> DEFINE w == [watch[g] EXCEPT !.failures = 0]
<1>1. /\ w.stop = watch[g].stop /\ w.thread = watch[g].thread /\ w \in WatchType
      /\ watch[g] \in WatchType
    BY DEF Typed, WatchType
<1>2. CASE w.thread # NoThread /\ wd[w.thread].pc # "dead"
  <2>1. watch' = [watch EXCEPT ![g] = w] /\ wd' = wd
      BY <1>2 DEF StartHealthWatchdog
  <2> HIDE DEF w
  <2> QED
      BY <1>1, <1>2, <2>1 DEF ThreadsOwn, Typed
<1>3. CASE ~(w.thread # NoThread /\ wd[w.thread].pc # "dead")
  <2>1. PICK t \in Watchdogs :
           /\ Lowest(FreeWatchdogs, t)
           /\ watch' = [watch EXCEPT ![g] = [w EXCEPT !.stop = FALSE, !.thread = t]]
           /\ wd' = [wd EXCEPT ![t] = [pc |-> "sleep", inst |-> g, intr |-> FALSE]]
      BY <1>3 DEF StartHealthWatchdog
  <2>2. \A h \in Instances : watch[h].thread # t
      BY <2>1 DEF Lowest, FreeWatchdogs
  <2> DEFINE n == [w EXCEPT !.stop = FALSE, !.thread = t]
  <2>3. n.stop = FALSE /\ n.thread = t
      BY <1>1 DEF WatchType
  <2>4. watch' = [watch EXCEPT ![g] = n]
      BY <2>1
  <2> HIDE DEF n, w
  <2>5. watch'[g] = n /\ \A h \in Instances \ {g} : watch'[h] = watch[h]
      BY <2>4 DEF Typed
  <2>6. /\ wd'[t].pc = "sleep" /\ wd'[t].inst = g
        /\ \A u \in Watchdogs \ {t} : wd'[u] = wd[u]
      BY <2>1 DEF Typed
  <2>7. t # NoThread
      BY AndroidAssumption DEF NoThread
  <2>8. \A h \in Instances : watch[h].thread \in Watchdogs \cup {NoThread}
      BY DEF Typed, WatchType
  <2> QED
      BY <2>2, <2>3, <2>5, <2>6, <2>7, <2>8 DEF ThreadsOwn
<1> QED
    BY <1>2, <1>3

\* A core that nobody is stopping has one.
CoreHasThread ==
    server # NoConfig /\ ~SideInLock(cur) /\ main.pc # "close" =>
        watch[cur].thread # NoThread

\* WatchInv is about the threads objects refer to and about running cores.
LEMMA WatchParts ==
    /\ WatchInv <=> ThreadsOwn /\ CoreHasThread
    /\ WatchInv' <=> ThreadsOwn' /\ CoreHasThread'
    BY DEF WatchInv, ThreadsOwn, CoreHasThread

\* No step leaves a running core without its watchdog thread.
LEMMA WatchStep == TypeOK /\ DeadInv /\ ObjectInv /\ LockInv /\ WatchInv /\ [Next]_vars => WatchInv'
<1> SUFFICES ASSUME Typed, DeadInv, ObjectInv, LockInv, ThreadsOwn, CoreHasThread, [Next]_vars
             PROVE  ThreadsOwn' /\ CoreHasThread'
    BY TypeOKTyped, WatchParts
<1> USE DEF MainInLock, SideInLock
<1>1. ASSUME UNCHANGED <<watch, wd>> PROVE ThreadsOwn'
    BY <1>1 DEF ThreadsOwn
<1>2. ASSUME NEW g \in Instances, OnStart(g) \/ OnStop(g) \/ OnRestart(g)
      PROVE  ThreadsOwn' /\ CoreHasThread'
  <2>1. /\ main.pc = "idle" /\ main'.pc # "close" /\ cur' = g /\ UNCHANGED <<wd, server, side>>
        /\ IF cur = NoInstance THEN watch' = [watch EXCEPT ![g] = Fresh]
                               ELSE g = cur /\ UNCHANGED watch
      BY <1>2 DEF OnStart, OnStop, OnRestart, Receives
  <2>2. CASE cur = NoInstance
    <3>1. server' = NoConfig
        BY <2>1, <2>2 DEF ObjectInv
    <3>2. watch'[g].thread = NoThread /\ \A h \in Instances \ {g} : watch'[h] = watch[h]
        BY <2>1, <2>2 DEF Typed, Fresh
    <3> QED
        BY <2>1, <3>1, <3>2 DEF ThreadsOwn, CoreHasThread
  <2>3. CASE cur # NoInstance
      BY <2>1, <2>3 DEF ThreadsOwn, CoreHasThread
  <2> QED
      BY <2>2, <2>3
<1>3. CASE OnDestroy \/ Leave
  <2>1. main.pc # "close" /\ UNCHANGED <<watch, wd, server, side, cur>>
      BY <1>3 DEF OnDestroy, Leave
  <2> QED
      BY <1>1, <2>1 DEF CoreHasThread
<1>4. CASE StartLock \/ OpenTun
  <2>1. main.pc # "close" /\ server' \in {server, NoConfig} /\ UNCHANGED <<watch, wd, side, cur>>
      BY <1>4 DEF StartLock, OpenTun
  <2> QED
      BY <1>1, <2>1 DEF CoreHasThread
<1>5. CASE CoreStarts
  <2>1. cur \in Instances /\ cur' = cur /\ StartHealthWatchdog(cur)
      BY <1>5, Current DEF CoreStarts
  <2> QED
      BY <2>1, StartThreadsOwn DEF CoreHasThread
<1>6. CASE CoreFails \/ StopLock
  <2>1. cur \in Instances /\ StopHealthWatchdog(cur) /\ main' = [main EXCEPT !.pc = "close"]
      BY <1>6, Current DEF CoreFails, StopLock
  <2>2. main'.pc = "close"
      BY <2>1 DEF Typed, MainType
  <2> QED
      BY <2>1, <2>2, StopThreadsOwn DEF CoreHasThread
<1>7. CASE StopEnds
    BY <1>1, <1>7 DEF StopEnds, CoreHasThread
<1>8. CASE SideLock
  <2>1. /\ side.inst \in Instances /\ StopHealthWatchdog(side.inst)
        /\ side'.inst = side.inst /\ side'.pc = "close" /\ UNCHANGED <<cur, server, main>>
        /\ side.pc = "stop"
      BY <1>8 DEF SideLock, ObjectInv, Typed, SideType
  <2>2. ThreadsOwn' /\ \A h \in Instances \ {side.inst} : watch'[h] = watch[h]
      BY <2>1, StopThreadsOwn
  <2>3. server # NoConfig => cur \in Instances
      BY Current
  <2> QED
      BY <2>1, <2>2, <2>3 DEF CoreHasThread
<1>9. CASE SideEnds
  <2>1. /\ server' = IF side.inst = cur THEN NoConfig ELSE server
        /\ UNCHANGED <<watch, wd, cur, main>>
      BY <1>9 DEF SideEnds
  <2> QED
      BY <1>1, <2>1 DEF CoreHasThread
<1>10. CASE OnRevoke \/ ServiceStop
  <2>1. side.pc = "idle" /\ UNCHANGED <<watch, wd, cur, main, server>>
      BY <1>10 DEF OnRevoke, ServiceStop
  <2> QED
      BY <1>1, <2>1 DEF CoreHasThread
<1>11. ASSUME Dies PROVE ThreadsOwn' /\ CoreHasThread'
    BY <1>11 DEF Dies, Fresh, ThreadsOwn, CoreHasThread
<1>12. CASE ProcessStarts \/ AlarmFires \/ FlushPrefs \/ Request \/ UNCHANGED vars
  <2>1. UNCHANGED <<watch, wd, cur, main, server, side>>
      BY <1>12 DEF ProcessStarts, AlarmFires, FlushPrefs, Request, RequestStop, RequestStart, vars
  <2> QED
      BY <1>1, <2>1 DEF CoreHasThread
<1>13. ASSUME NEW t \in Watchdogs, WdStep(t), ~KillProcess(t) PROVE ThreadsOwn' /\ CoreHasThread'
  <2> DEFINE g == wd[t].inst
  <2>1. UNCHANGED <<cur, server, main, side>> /\ wd[t].pc # "dead" /\ g \in Instances
      BY <1>13 DEF WdStep, WdInterrupted, WdWakes, WdProbeOk, WdProbeFails, RestartCoreFromWatchdog,
          WdRest, ObjectInv, Typed, WdType
  <2>2. \A h \in Instances : watch'[h].stop = watch[h].stop /\ watch'[h].thread = watch[h].thread
    <3>1. UNCHANGED watch \/ \E n : watch' = [watch EXCEPT ![g].failures = n]
      <4>1. CASE WdProbeOk(t)
          BY <4>1 DEF WdProbeOk
      <4>2. CASE WdProbeFails(t)
          BY <4>2 DEF WdProbeFails
      <4> QED
          BY <1>13, <4>1, <4>2 DEF WdStep, WdInterrupted, WdWakes, RestartCoreFromWatchdog
    <3>2. CASE UNCHANGED watch
        BY <3>2
    <3>3. ASSUME NEW n, watch' = [watch EXCEPT ![g].failures = n], NEW h \in Instances
          PROVE  watch'[h].stop = watch[h].stop /\ watch'[h].thread = watch[h].thread
      <4>1. watch \in [Instances -> WatchType] /\ watch[h] \in WatchType
          BY DEF Typed
      <4>2. watch'[h] = IF h = g THEN [watch[h] EXCEPT !.failures = n] ELSE watch[h]
          BY <3>3, <4>1
      <4> QED
          BY <4>1, <4>2 DEF WatchType
    <3> QED
        BY <3>1, <3>2, <3>3
  <2>3. \E w : /\ wd' = [wd EXCEPT ![t] = w]
               /\ (w = Dead /\ watch[g].stop) \/ (w.inst = g /\ w.pc # "dead")
    <3> DEFINE OK(w) == (w = Dead /\ watch[g].stop) \/ (w.inst = g /\ w.pc # "dead")
    <3>2. /\ \A pc \in {"probe", "restart", "kill"} : OK([wd[t] EXCEPT !.pc = pc])
          /\ OK([wd[t] EXCEPT !.intr = FALSE])
        BY <2>1 DEF Typed, WdType
    <3>3. OK(Loops(t))
        BY <2>1 DEF Loops, Typed, WdType
    <3>4. \E w : wd' = [wd EXCEPT ![t] = w] /\ OK(w)
      <4> HIDE DEF OK
      <4>1. CASE WdInterrupted(t)
        <5>1. OK(Dead) \/ ~watch[g].stop
            BY <2>1 DEF OK
        <5> QED
            BY <3>2, <4>1, <5>1 DEF WdInterrupted, Goes
      <4>2. CASE WdWakes(t) \/ WdProbeOk(t)
          BY <3>2, <3>3, <4>2 DEF WdWakes, WdProbeOk, Goes
      <4>3. CASE WdProbeFails(t) \/ RestartCoreFromWatchdog(t)
          BY <3>2, <3>3, <4>3 DEF WdProbeFails, RestartCoreFromWatchdog, Goes
      <4> QED
          BY <1>13, <4>1, <4>2, <4>3 DEF WdStep
    <3> QED
        BY <3>4
  <2>4. \A h \in Instances : watch[h].thread \in Watchdogs \cup {NoThread}
      BY DEF Typed, WatchType
  <2>5. ThreadsOwn'
      BY <2>2, <2>3, <2>4 DEF ThreadsOwn, Typed, Dead
  <2>6. CoreHasThread'
    <3>1. server # NoConfig => cur \in Instances
        BY Current
    <3> QED
        BY <2>1, <2>2, <3>1 DEF CoreHasThread
  <2> QED
      BY <2>5, <2>6
<1> QED
    BY <1>2, <1>3, <1>4, <1>5, <1>6, <1>7, <1>8, <1>9, <1>10, <1>11, <1>12, <1>13
    DEF Next, ServiceNext, MainStep, SideStep, Deliver, SystemStep, CoreCrashes, SystemKills,
        WdStep, KillProcess

-----------------------------------------------------------------------------
(* The theorems.                                                           *)

\* The application has just been opened.
LEMMA AInit == Init => AInv
<1> SUFFICES ASSUME Init PROVE AInv
    OBVIOUS
<1>1. Typed
  <2>1. /\ disk \in Prefs /\ prefs \in Prefs /\ server \in Configs /\ main \in MainType
        /\ main.pc = "idle" /\ side \in SideType
      BY FreshTypes DEF Init
  <2>2. inbox \in Seq(Messages) /\ requests \in 0..RequestLimit /\ kills \in 0..KillLimit
      BY AndroidAssumption DEF Init
  <2>3. watch \in [Instances -> WatchType] /\ wd \in [Watchdogs -> WdType]
      BY FreshTypes DEF Init
  <2> QED
      BY <2>1, <2>2, <2>3 DEF Init, Typed
<1>2. DeadInv /\ ObjectInv /\ HandInv /\ LockInv /\ WatchInv
    BY DEF Init, DeadInv, ObjectInv, HandInv, LockInv, WatchInv, MainIdle, SideIdle, Fresh, Dead,
        MainInLock
<1> QED
    BY <1>1, <1>2, TypeOKTyped DEF AInv

\* The inductive invariant holds in every state.
LEMMA AInvariant == Spec => []AInv
<1>1. AInv /\ [Next]_vars => AInv'
    BY TypesStep, DeadStep, ObjectStep, HandStep, LockStep, WatchStep DEF AInv
<1> QED
    BY <1>1, AInit, PTL DEF Spec

\* Every variable keeps its type, however the threads interleave and whenever
\* the process is killed.
THEOREM AndroidTypeOK == Spec => []TypeOK
<1>1. AInv => TypeOK
    BY DEF AInv
<1> QED
    BY <1>1, AInvariant, PTL

\* A running core has a live watchdog of its own, whatever stops and starts
\* came before and on whatever threads.
THEOREM AndroidCoreIsWatched == Spec => []CoreIsWatched
<1>1. ASSUME AInv PROVE CoreIsWatched
  <2> SUFFICES ASSUME Quiet, server # NoConfig
               PROVE  LET t == watch[cur].thread IN
                      /\ t # NoThread /\ wd[t].pc # "dead" /\ wd[t].inst = cur
                      /\ ~watch[cur].stop
      BY DEF CoreIsWatched
  <2>1. cur \in Instances
      BY <1>1, TypeOKTyped, Current DEF AInv
  <2> QED
      BY <1>1, <2>1 DEF AInv, WatchInv, Quiet, SideInLock
<1> QED
    BY <1>1, AInvariant, PTL

\* Between starts and stops the static flag never claims a tunnel that no core
\* of the current object keeps, whichever thread or object wrote it last.
THEOREM AndroidFlagTellsCore == Spec => []FlagTellsCore
<1>1. AInv => FlagTellsCore
    BY DEF AInv, LockInv, FlagTellsCore, Quiet
<1> QED
    BY <1>1, AInvariant, PTL

-----------------------------------------------------------------------------
(* The requests among some messages.                                       *)

\* Induction up to n over a set of numbers.
LEMMA UpTo ==
    ASSUME NEW n \in Nat, NEW T, 0 \in T, \A m \in 0..(n - 1) : m \in T => m + 1 \in T
    PROVE  \A m \in 0..n : m \in T
<1> DEFINE R     == OpToRel(<, Nat)
           Wrong == {m \in 0..n : m \notin T}
<1>1. R = {ss \in Nat \X Nat : ss[1] < ss[2]}
    BY DEF OpToRel
<1>2. IsWellFoundedOn(R, Nat)
    BY NatLessThanWellFounded
<1> HIDE DEF R
<1>3. ASSUME Wrong # {} PROVE FALSE
  <2>1. Wrong \in SUBSET Nat
      OBVIOUS
  <2>2. PICK x \in Wrong : \A y \in Wrong : ~ (<<y, x>> \in R)
    <3> HIDE DEF Wrong
    <3> QED
        BY <1>2, <1>3, <2>1, WFMin
  <2>3. x \in 1..n /\ x - 1 \in 0..(n - 1) /\ (x - 1) + 1 = x
      BY <2>2
  <2>4. x - 1 \in Wrong
      BY <2>2, <2>3
  <2>5. <<x - 1, x>> \in Nat \X Nat /\ <<x - 1, x>>[1] < <<x - 1, x>>[2]
      BY <2>3
  <2>6. <<x - 1, x>> \in R
      BY <1>1, <2>5, Zenon
  <2> QED
      BY <2>2, <2>4, <2>6
<1> QED
    BY <1>3

\* f holds what the first m messages ask for, for every m up to n.
IsAsked(f, msgs, n) ==
    /\ f \in [0..n -> Seq(Configs)]
    /\ f[0] = <<>>
    /\ \A m \in 1..n : f[m] = IF IsRequest(msgs[m]) THEN Append(f[m - 1], msgs[m].config)
                                                   ELSE f[m - 1]

\* There is such a function.
LEMMA AskedExists ==
    ASSUME NEW msgs \in Seq(Messages)
    PROVE  \E f : IsAsked(f, msgs, Len(msgs))
<1> DEFINE n == Len(msgs)
           T == {m \in 0..n : \E f : IsAsked(f, msgs, m)}
<1>1. n \in Nat
    OBVIOUS
<1>2. 0 \in T
  <2>1. IsAsked([m \in 0..0 |-> <<>>], msgs, 0)
      BY DEF IsAsked
  <2> QED
      BY <1>1, <2>1
<1>3. ASSUME NEW m \in 0..(n - 1), m \in T PROVE m + 1 \in T
  <2>1. PICK f : IsAsked(f, msgs, m)
      BY <1>3
  <2> DEFINE k    == m + 1
             next == IF IsRequest(msgs[k]) THEN Append(f[m], msgs[k].config) ELSE f[m]
             g    == [j \in 0..k |-> IF j = k THEN next ELSE f[j]]
  <2>2. k \in 1..n /\ k - 1 = m
      BY <1>1, <1>3
  <2>3. msgs[k] \in Messages
      BY <2>2
  <2>4. f[m] \in Seq(Configs) /\ msgs[k].config \in Configs
      BY <1>3, <2>1, <2>3, MessageTypes DEF IsAsked
  <2>5. next \in Seq(Configs)
      BY <2>4
  <2>6. g \in [0..k -> Seq(Configs)] /\ g[0] = <<>>
    <3> HIDE DEF next
    <3>1. \A j \in 0..k : j # k => j \in 0..m
        BY <1>3, <2>2
    <3>2. 0 # k
        BY <1>3
    <3> QED
        BY <1>1, <1>3, <2>1, <2>5, <3>1, <3>2 DEF IsAsked
  <2>7. ASSUME NEW j \in 1..k
        PROVE  g[j] = IF IsRequest(msgs[j]) THEN Append(g[j - 1], msgs[j].config) ELSE g[j - 1]
    <3>1. CASE j = k
      <4>1. g[k] = next /\ g[k - 1] = f[m]
          BY <1>3, <2>2
      <4> QED
          BY <2>2, <3>1, <4>1
    <3>2. CASE j # k
      <4>1. j \in 1..m /\ j - 1 \in 0..m /\ j - 1 # k
          BY <1>3, <3>2
      <4>2. g[j] = f[j] /\ g[j - 1] = f[j - 1]
          BY <1>3, <3>2, <4>1
      <4> HIDE DEF g
      <4> QED
          BY <2>1, <4>1, <4>2 DEF IsAsked
    <3> QED
        BY <3>1, <3>2
  <2>8. IsAsked(g, msgs, k)
    <3> HIDE DEF g
    <3> QED
        BY <2>6, <2>7 DEF IsAsked
  <2> QED
      BY <1>1, <1>3, <2>2, <2>8
<1> HIDE DEF n, T
<1>4. \A m \in 0..n : m \in T
    BY <1>1, <1>2, <1>3, UpTo
<1> QED
    BY <1>1, <1>4 DEF n, T

\* What Asked computes.
LEMMA AskedIs ==
    ASSUME NEW msgs \in Seq(Messages)
    PROVE  \E f : IsAsked(f, msgs, Len(msgs)) /\ Asked(msgs) = f[Len(msgs)]
<1> DEFINE n == Len(msgs)
           body(h) == [m \in 0..Len(msgs) |->
                          IF m = 0 THEN <<>>
                          ELSE IF IsRequest(msgs[m]) THEN Append(h[m - 1], msgs[m].config)
                                                     ELSE h[m - 1]]
           asked == CHOOSE h : h = body(h)
<1>1. n \in Nat
    OBVIOUS
<1>2. PICK f : IsAsked(f, msgs, n)
    BY AskedExists
<1>3. f = body(f)
  <2>1. f = [m \in 0..n |-> f[m]]
      BY <1>2 DEF IsAsked
  <2>2. ASSUME NEW m \in 0..n PROVE f[m] = body(f)[m]
    <3>1. CASE m = 0
        BY <1>2, <3>1 DEF IsAsked
    <3>2. CASE m # 0
      <4>1. m \in 1..n
          BY <1>1, <3>2
      <4> QED
          BY <1>2, <3>2, <4>1 DEF IsAsked
    <3> QED
        BY <3>1, <3>2
  <2>3. body(f) = [m \in 0..n |-> body(f)[m]]
      OBVIOUS
  <2> HIDE DEF body
  <2> QED
      BY <2>1, <2>2, <2>3
<1>4. asked = body(asked)
    BY <1>3
<1>5. Asked(msgs) = asked[n]
    BY DEF Asked
<1>6. /\ asked[0] = <<>>
      /\ \A m \in 1..n : asked[m] = IF IsRequest(msgs[m]) THEN Append(asked[m - 1], msgs[m].config)
                                                          ELSE asked[m - 1]
  <2>1. \A h : \A m \in 0..n :
            body(h)[m] = IF m = 0 THEN <<>>
                         ELSE IF IsRequest(msgs[m]) THEN Append(h[m - 1], msgs[m].config)
                                                    ELSE h[m - 1]
      OBVIOUS
  <2> HIDE DEF asked, body
  <2>2. \A m \in 0..n :
            asked[m] = IF m = 0 THEN <<>>
                       ELSE IF IsRequest(msgs[m]) THEN Append(asked[m - 1], msgs[m].config)
                                                  ELSE asked[m - 1]
      BY <1>4, <2>1, Zenon
  <2> QED
      BY <1>1, <2>2
<1> DEFINE T == {m \in 0..n : asked[m] = f[m]}
<1> HIDE DEF asked, body, n
<1>7. 0 \in T /\ \A m \in 0..(n - 1) : m \in T => m + 1 \in T
  <2>1. 0 \in T
      BY <1>1, <1>2, <1>6 DEF IsAsked, n
  <2>2. ASSUME NEW m \in 0..(n - 1), m \in T PROVE m + 1 \in T
    <3>1. m + 1 \in 1..n /\ (m + 1) - 1 = m /\ asked[m] = f[m] /\ m + 1 \in 0..n
        BY <1>1, <2>2
    <3> QED
        BY <1>2, <1>6, <3>1 DEF IsAsked
  <2> QED
      BY <2>1, <2>2
<1>8. n \in T
  <2> HIDE DEF T
  <2>1. \A m \in 0..n : m \in T
      BY <1>1, <1>7, UpTo
  <2> QED
      BY <1>1, <2>1
<1> QED
    BY <1>2, <1>5, <1>8 DEF n

\* Requests are profiles or stops.
LEMMA AskedType ==
    ASSUME NEW msgs \in Seq(Messages)
    PROVE  Asked(msgs) \in Seq(Configs)
    BY AskedIs DEF IsAsked

\* Messages one after the other ask for one thing after the other.
LEMMA AskedCat ==
    ASSUME NEW a \in Seq(Messages), NEW b \in Seq(Messages)
    PROVE  Asked(a \o b) = Asked(a) \o Asked(b)
<1> DEFINE ab == a \o b
           na == Len(a)
           nb == Len(b)
<1>1. /\ na \in Nat /\ nb \in Nat /\ ab \in Seq(Messages) /\ Len(ab) = na + nb
      /\ \A i \in 1..na : ab[i] = a[i]
      /\ \A i \in 1..nb : ab[na + i] = b[i]
    OBVIOUS
<1>2. PICK f : IsAsked(f, a, na) /\ Asked(a) = f[na]
    BY AskedIs
<1>3. PICK g : IsAsked(g, b, nb) /\ Asked(b) = g[nb]
    BY AskedIs
<1>4. PICK h : IsAsked(h, ab, na + nb) /\ Asked(ab) = h[na + nb]
    BY <1>1, AskedIs
<1> DEFINE A == {m \in 0..na : h[m] = f[m]}
           B == {m \in 0..nb : h[na + m] = f[na] \o g[m]}
<1> HIDE DEF ab, na, nb
<1>5. na \in A
  <2>1. 0 \in A
      BY <1>1, <1>2, <1>4 DEF IsAsked
  <2>2. ASSUME NEW m \in 0..(na - 1), m \in A PROVE m + 1 \in A
    <3>1. /\ m + 1 \in 1..na /\ m + 1 \in 1..(na + nb) /\ (m + 1) - 1 = m /\ h[m] = f[m]
          /\ m + 1 \in 0..na /\ ab[m + 1] = a[m + 1]
        BY <1>1, <2>2
    <3> QED
        BY <1>2, <1>4, <3>1 DEF IsAsked
  <2> HIDE DEF A
  <2>3. \A m \in 0..na : m \in A
      BY <1>1, <2>1, <2>2, UpTo
  <2> QED
      BY <1>1, <2>3
<1>6. nb \in B
  <2>1. 0 \in B
    <3>1. h[na + 0] = f[na] /\ g[0] = <<>> /\ f[na] \in Seq(Configs)
        BY <1>1, <1>2, <1>3, <1>5 DEF IsAsked
    <3>2. f[na] \o g[0] = f[na]
        BY <3>1
    <3>3. h[na + 0] = f[na] \o g[0] /\ 0 \in 0..nb
        BY <1>1, <3>1, <3>2
    <3> QED
        BY <3>3
  <2>2. ASSUME NEW m \in 0..(nb - 1), m \in B PROVE m + 1 \in B
    <3> DEFINE k == na + (m + 1)
    <3>0. /\ m + 1 \in 1..nb /\ (m + 1) - 1 = m /\ m \in 0..nb /\ m + 1 \in 0..nb
          /\ k \in 1..(na + nb) /\ k - 1 = na + m
        BY <1>1, <2>2
    <3>1. /\ m + 1 \in 1..nb /\ (m + 1) - 1 = m /\ m \in 0..nb /\ m + 1 \in 0..nb
          /\ k \in 1..(na + nb) /\ k - 1 = na + m
          /\ ab[k] = b[m + 1] /\ h[na + m] = f[na] \o g[m]
        BY <1>1, <2>2, <3>0
    <3>2. b[m + 1] \in Messages /\ b[m + 1].config \in Configs
        BY <3>1, MessageTypes DEF nb
    <3>3. f[na] \in Seq(Configs) /\ g[m] \in Seq(Configs)
        BY <1>1, <1>2, <1>3, <3>1 DEF IsAsked
    <3>4. h[k] = IF IsRequest(ab[k]) THEN Append(h[k - 1], ab[k].config) ELSE h[k - 1]
        BY <1>4, <3>1 DEF IsAsked
    <3>5. g[m + 1] = IF IsRequest(b[m + 1]) THEN Append(g[m], b[m + 1].config) ELSE g[m]
        BY <1>3, <3>1 DEF IsAsked
    <3>6. \A c \in Configs : Append(f[na] \o g[m], c) = f[na] \o Append(g[m], c)
      <4> DEFINE x == f[na]
                 y == g[m]
      <4>1. x \in Seq(Configs) /\ y \in Seq(Configs)
          BY <3>3
      <4> HIDE DEF x, y
      <4>2. ASSUME NEW c \in Configs PROVE Append(x \o y, c) = x \o Append(y, c)
        <5>1. x \o y \in Seq(Configs) /\ <<c>> \in Seq(Configs)
            BY <4>1
        <5>2. Append(x \o y, c) = (x \o y) \o <<c>> /\ Append(y, c) = y \o <<c>>
            BY <4>1, <5>1, AppendIsConcat
        <5> QED
            BY <4>1, <5>1, <5>2, ConcatAssociative
      <4> QED
          BY <4>2 DEF x, y
    <3> HIDE DEF k
    <3>7. h[k] = f[na] \o g[m + 1]
        BY <3>1, <3>2, <3>4, <3>5, <3>6
    <3> QED
        BY <3>1, <3>7 DEF k
  <2> HIDE DEF B
  <2>3. \A m \in 0..nb : m \in B
      BY <1>1, <2>1, <2>2, UpTo
  <2> QED
      BY <1>1, <2>3
<1> QED
    BY <1>2, <1>3, <1>4, <1>6 DEF ab

\* One message asks for one thing or for nothing.
LEMMA AskedOne ==
    ASSUME NEW m \in Messages
    PROVE  /\ Asked(<<>>) = <<>>
           /\ Asked(<<m>>) = IF IsRequest(m) THEN <<m.config>> ELSE <<>>
<1>1. <<>> \in Seq(Messages) /\ Len(<<>>) = 0
    OBVIOUS
<1>2. Asked(<<>>) = <<>>
    BY <1>1, AskedIs DEF IsAsked
<1>3. <<m>> \in Seq(Messages) /\ Len(<<m>>) = 1 /\ <<m>>[1] = m
    OBVIOUS
<1>4. PICK f : IsAsked(f, <<m>>, 1) /\ Asked(<<m>>) = f[1]
    BY <1>3, AskedIs
<1>5. f[1] = IF IsRequest(m) THEN Append(<<>>, m.config) ELSE <<>>
    BY <1>3, <1>4 DEF IsAsked
<1> QED
    BY <1>2, <1>4, <1>5

-----------------------------------------------------------------------------
(* The refinement of NativeVpn: what its variables stand for, and what a   *)
(* step of the service has to do to them to be one of its steps.           *)

Queue == Asked(InHand \o inbox)
Waiting == Asked(inbox)
Busy == main.pc # "idle" /\ IsRequest(main.msg)
Wanted == CASE main.pc \in {"start", "core", "rebuild"} -> main.config
            [] up /\ main.pc \notin {"start", "core", "rebuild"} -> prefs.config
            [] OTHER -> disk.config
Kept == disk.config

NativeStep == [Native!Next]_(Native!nativeVars)

\* Nothing NativeVpn speaks about changes.
LEMMA NativeStutter ==
    ASSUME Queue' = Queue, Busy' = Busy, Wanted' = Wanted, Kept' = Kept, tun' = tun
    PROVE  NativeStep
    BY DEF NativeStep, Native!nativeVars, Queue, Busy, Wanted, Kept

\* A request is asked for.
LEMMA NativeAsk ==
    ASSUME NEW r \in Configs, Queue' = Append(Queue, r),
           Busy' = Busy, Wanted' = Wanted, Kept' = Kept, tun' = tun
    PROVE  NativeStep
<1>1. Native!Ask(r)
    BY DEF Native!Ask, Queue, Busy, Wanted, Kept
<1> QED
    BY <1>1 DEF NativeStep, Native!Next, Native!Requests, Configs

\* The first request is taken.
LEMMA NativeTake ==
    ASSUME ~Busy, Busy', Queue # <<>>, Queue' = Queue, Wanted' = Head(Queue),
           Kept' = Kept, tun' = tun
    PROVE  NativeStep
<1>1. Native!Take
    BY DEF Native!Take, Queue, Busy, Wanted, Kept
<1> QED
    BY <1>1 DEF NativeStep, Native!Next, Native!ServiceStep

\* The end of a message, a request or not.
LEMMA NativeDone ==
    ASSUME ~Busy', Queue' = IF Busy THEN Tail(Queue) ELSE Queue,
           Wanted' \in {Wanted, NoConfig}, Kept' = Wanted', tun' \in {tun, FALSE},
           Busy => Head(Queue) # NoConfig \/ tun' = FALSE
    PROVE  NativeStep
<1>1. CASE Busy
  <2>1. Native!Done
      BY <1>1 DEF Native!Done, Native!Withdrawn, Native!TunnelMayFall, Queue, Busy, Wanted, Kept
  <2> QED
      BY <2>1 DEF NativeStep, Native!Next, Native!ServiceStep
<1>2. CASE ~Busy
  <2>1. Native!Keep
      BY <1>2 DEF Native!Keep, Native!Withdrawn, Native!TunnelMayFall, Queue, Busy, Wanted, Kept
  <2> QED
      BY <2>1 DEF NativeStep, Native!Next, Native!ServiceStep
<1> QED
    BY <1>1, <1>2

\* What is wanted reaches the disk or is withdrawn.
LEMMA NativeKeep ==
    ASSUME Queue' = Queue, Busy' = Busy, Wanted' \in {Wanted, NoConfig},
           Kept' \in {Wanted', NoConfig}, tun' \in {tun, FALSE}
    PROVE  NativeStep
<1>1. Native!Keep
    BY DEF Native!Keep, Native!Withdrawn, Native!TunnelMayFall, Queue, Busy, Wanted, Kept
<1> QED
    BY <1>1 DEF NativeStep, Native!Next, Native!ServiceStep

\* The tunnel comes up for what is wanted.
LEMMA NativeUp ==
    ASSUME Wanted # NoConfig, ~tun, tun' = TRUE, Wanted' \in {Wanted, NoConfig},
           Queue' = Queue, Busy' = Busy, Kept' = Kept
    PROVE  NativeStep
<1>1. Native!TunnelUp
    BY DEF Native!TunnelUp, Native!Withdrawn, Queue, Busy, Wanted, Kept
<1> QED
    BY <1>1 DEF NativeStep, Native!Next, Native!ServiceStep

\* The tunnel may fall and what is wanted may be withdrawn.
LEMMA NativeDown ==
    ASSUME tun' \in {tun, FALSE}, Wanted' \in {Wanted, NoConfig},
           Queue' = Queue, Busy' = Busy, Kept' = Kept
    PROVE  NativeStep
<1>1. Native!TunnelDown
    BY DEF Native!TunnelDown, Native!TunnelMayFall, Native!Withdrawn, Queue, Busy, Wanted, Kept
<1> QED
    BY <1>1 DEF NativeStep, Native!Next, Native!ServiceStep

\* The service crashes and keeps an end of its requests.
LEMMA NativeCrash ==
    ASSUME Wanted' = Kept, Kept' = Kept, tun' = FALSE, ~Busy',
           \E i \in 1 .. Len(Queue) + 1 : Queue' = SubSeq(Queue, i, Len(Queue))
    PROVE  NativeStep
<1>1. Native!Crash
    BY DEF Native!Crash, Queue, Busy, Wanted, Kept
<1> QED
    BY <1>1 DEF NativeStep, Native!Next, Native!ServiceStep

-----------------------------------------------------------------------------
(* The mapped variables before and after a step.                           *)

\* The request in hand comes before those that wait.
LEMMA QueueOf ==
    ASSUME NEW m \in Messages, NEW q \in Seq(Messages), NEW pc
    PROVE  Asked((IF pc = "idle" THEN <<>> ELSE <<m>>) \o q)
               = IF pc # "idle" /\ IsRequest(m) THEN <<m.config>> \o Asked(q) ELSE Asked(q)
<1> DEFINE hand == IF pc = "idle" THEN <<>> ELSE <<m>>
<1>1. hand \in Seq(Messages)
    OBVIOUS
<1>2. Asked(hand) = IF pc # "idle" /\ IsRequest(m) THEN <<m.config>> ELSE <<>>
    BY AskedOne
<1> HIDE DEF hand
<1>3. Asked(hand \o q) = Asked(hand) \o Asked(q)
    BY <1>1, AskedCat
<1>4. Asked(q) \in Seq(Configs)
    BY AskedType
<1>5. <<>> \o Asked(q) = Asked(q)
    BY <1>4, ConcatEmptySeq
<1> QED
    BY <1>2, <1>3, <1>5 DEF hand

\* What the mapped variables are, before and after a step that keeps the types.
LEMMA Mapped ==
    ASSUME TypeOK, TypeOK'
    PROVE  /\ Queue = IF Busy THEN <<main.msg.config>> \o Waiting ELSE Waiting
           /\ Queue' = IF Busy' THEN <<main'.msg.config>> \o Waiting' ELSE Waiting'
           /\ Waiting \in Seq(Configs) /\ Waiting' \in Seq(Configs)
           /\ Queue \in Seq(Configs)
           /\ main.msg.config \in Configs /\ main'.msg.config \in Configs
           /\ Wanted = IF main.pc \in {"start", "core", "rebuild"} THEN main.config
                       ELSE IF up THEN prefs.config ELSE disk.config
           /\ Wanted' = IF main'.pc \in {"start", "core", "rebuild"} THEN main'.config
                        ELSE IF up' THEN prefs'.config ELSE disk'.config
<1>1. main.msg \in Messages /\ main'.msg \in Messages
    BY DEF TypeOK
<1>2. inbox \in Seq(Messages) /\ inbox' \in Seq(Messages)
    BY DEF TypeOK
<1>3. main.msg.config \in Configs /\ main'.msg.config \in Configs
    BY <1>1, MessageTypes
<1>4. Waiting \in Seq(Configs) /\ Waiting' \in Seq(Configs)
    BY <1>2, AskedType DEF Waiting
<1>5. Queue = IF Busy THEN <<main.msg.config>> \o Waiting ELSE Waiting
    BY <1>1, <1>2, QueueOf DEF Queue, Waiting, Busy, InHand
<1>6. Queue' = IF Busy' THEN <<main'.msg.config>> \o Waiting' ELSE Waiting'
    BY <1>1, <1>2, QueueOf DEF Queue, Waiting, Busy, InHand
<1>7. Queue \in Seq(Configs)
    BY <1>3, <1>4, <1>5
<1>8. Wanted = IF main.pc \in {"start", "core", "rebuild"} THEN main.config
               ELSE IF up THEN prefs.config ELSE disk.config
    BY DEF Wanted
<1>9. Wanted' = IF main'.pc \in {"start", "core", "rebuild"} THEN main'.config
                ELSE IF up' THEN prefs'.config ELSE disk'.config
    BY DEF Wanted
<1> QED
    BY <1>3, <1>4, <1>5, <1>6, <1>7, <1>8, <1>9

\* A message that joins the queue.
LEMMA WaitingAdd ==
    ASSUME TypeOK, NEW m \in Messages, inbox' = Append(inbox, m)
    PROVE  Waiting' = IF IsRequest(m) THEN Append(Waiting, m.config) ELSE Waiting
<1>1. inbox \in Seq(Messages) /\ <<m>> \in Seq(Messages)
    BY DEF TypeOK
<1>2. inbox' = inbox \o <<m>>
    BY <1>1, AppendIsConcat
<1>3. Waiting' = Waiting \o Asked(<<m>>)
    BY <1>1, <1>2, AskedCat DEF Waiting
<1>4. Waiting \in Seq(Configs) /\ m.config \in Configs
    BY <1>1, AskedType, MessageTypes DEF Waiting
<1>5. Waiting \o <<>> = Waiting /\ Append(Waiting, m.config) = Waiting \o <<m.config>>
    BY <1>4, ConcatEmptySeq, AppendIsConcat
<1> QED
    BY <1>3, <1>5, AskedOne

\* stopSelf asks for nothing.
LEMMA WaitingStopSelf ==
    ASSUME TypeOK, NEW g, StopSelf(g)
    PROVE  Waiting' = Waiting
<1>1. CASE g = cur /\ ~Doomed
  <2>1. inbox' = Append(inbox, Intent("destroy"))
      BY <1>1 DEF StopSelf
  <2>2. ~IsRequest(Intent("destroy"))
      BY DEF IsRequest, Intent
  <2> QED
      BY <2>1, <2>2, MessageTypes, WaitingAdd
<1>2. CASE ~(g = cur /\ ~Doomed)
    BY <1>2 DEF StopSelf, Waiting
<1> QED
    BY <1>1, <1>2

\* A message that is taken from the queue.
LEMMA WaitingTake ==
    ASSUME TypeOK, inbox # <<>>, inbox' = Tail(inbox)
    PROVE  /\ Head(inbox) \in Messages
           /\ Waiting = IF IsRequest(Head(inbox)) THEN <<Head(inbox).config>> \o Waiting' ELSE Waiting'
<1>1. inbox \in Seq(Messages)
    BY DEF TypeOK
<1>2. Head(inbox) \in Messages /\ Tail(inbox) \in Seq(Messages) /\ <<Head(inbox)>> \in Seq(Messages)
    BY <1>1
<1>3. inbox = <<Head(inbox)>> \o Tail(inbox)
    BY <1>1
<1>4. Asked(<<Head(inbox)>> \o Tail(inbox)) = Asked(<<Head(inbox)>>) \o Asked(Tail(inbox))
    BY <1>2, AskedCat
<1>5. Asked(Tail(inbox)) \in Seq(Configs)
    BY <1>2, AskedType
<1>6. <<>> \o Asked(Tail(inbox)) = Asked(Tail(inbox))
    BY <1>5, ConcatEmptySeq
<1>7. Waiting = Asked(<<Head(inbox)>>) \o Waiting'
    BY <1>3, <1>4 DEF Waiting
<1>8. Waiting' = Asked(Tail(inbox))
    BY DEF Waiting
<1> QED
    BY <1>2, <1>6, <1>7, <1>8, AskedOne

-----------------------------------------------------------------------------
(* Every step of the service is one of NativeVpn, or changes nothing there.*)

\* What is left of a list is the end of it.
LEMMA EndOf ==
    ASSUME NEW S, NEW a \in Seq(S), NEW b \in Seq(S)
    PROVE  /\ Len(a) + 1 \in 1 .. Len(a \o b) + 1
           /\ b = SubSeq(a \o b, Len(a) + 1, Len(a \o b))
<1> DEFINE ab == a \o b
           m  == Len(a) + 1
           n  == Len(ab)
           c  == SubSeq(ab, m, n)
<1>1. /\ Len(a) \in Nat /\ Len(b) \in Nat /\ n = Len(a) + Len(b) /\ m \in Int /\ n \in Int
      /\ \A i \in 1..n : ab[i] \in S
      /\ \A i \in 1..Len(b) : ab[Len(a) + i] = b[i]
    OBVIOUS
<1> HIDE DEF ab, n, c
<1>2. \A i \in m..n : ab[i] \in S
    BY <1>1
<1>3. /\ c \in Seq(S) /\ Len(c) = IF m <= n THEN n - m + 1 ELSE 0
      /\ \A i \in 1 .. n - m + 1 : c[i] = ab[m + i - 1]
    BY <1>1, <1>2, SubSeqProperties DEF c
<1>4. Len(c) = Len(b) /\ n - m + 1 = Len(b)
    BY <1>1, <1>3
<1>5. ASSUME NEW i \in 1..Len(b) PROVE c[i] = b[i]
  <2>1. m + i - 1 = Len(a) + i
      BY <1>1
  <2> QED
      BY <1>1, <1>3, <1>4, <2>1
<1>6. b = c
    BY <1>3, <1>4, <1>5
<1> QED
    BY <1>1, <1>6 DEF c, n, ab

\* Of the requests not done, a dead process leaves an end of the list.
LEMMA RedeliveredEnd ==
    ASSUME TypeOK
    PROVE  \E i \in 1 .. Len(Queue) + 1 : Asked(Redelivered) = SubSeq(Queue, i, Len(Queue))
<1> DEFINE unfinished == InHand \o inbox
           doom == {i \in DOMAIN unfinished : IsDestroy(unfinished[i])}
           kept == IF doom = {} THEN unfinished
                   ELSE SubSeq(unfinished, Max(doom) + 1, Len(unfinished))
<1>1. unfinished \in Seq(Messages)
  <2>1. inbox \in Seq(Messages) /\ main.msg \in Messages
      BY DEF TypeOK
  <2> QED
      BY <2>1 DEF InHand
<1>2. Redelivered = CASE ~started -> <<>>
                      [] started /\ kept = <<>> -> <<Intent("sticky")>>
                      [] OTHER -> kept
    BY DEF Redelivered, InHand
<1>3. Queue = Asked(unfinished)
    BY DEF Queue
<1> HIDE DEF unfinished
<1>4. Queue \in Seq(Configs)
    BY <1>1, <1>3, AskedType
<1>5. PICK a \in Seq(Configs), b \in Seq(Configs) : Queue = a \o b /\ Asked(kept) = b
  <2>1. CASE doom = {}
    <3>1. Queue = <<>> \o Queue /\ <<>> \in Seq(Configs)
        BY <1>4, ConcatEmptySeq
    <3> QED
        BY <1>3, <1>4, <2>1, <3>1
  <2>2. CASE doom # {}
    <3>1. Len(unfinished) \in Nat /\ DOMAIN unfinished = 1..Len(unfinished)
        BY <1>1
    <3>2. Max(doom) \in 1..Len(unfinished)
      <4>1. doom \in SUBSET (1..Len(unfinished))
          BY <3>1
      <4> HIDE DEF doom
      <4> QED
          BY <2>2, <3>1, <4>1, MaxExists
    <3> DEFINE k   == Max(doom)
               n   == Len(unfinished)
               pre == SubSeq(unfinished, 1, k)
               suf == SubSeq(unfinished, k + 1, n)
    <3>3. kept = suf
        BY <2>2
    <3>4. k \in 1..n /\ n \in Nat
        BY <3>1, <3>2
    <3>5. \A i \in 1..n : unfinished[i] \in Messages
        BY <1>1
    <3> HIDE DEF k, kept
    <3>6. pre \in Seq(Messages)
      <4>1. \A i \in 1..k : unfinished[i] \in Messages
          BY <3>4, <3>5
      <4> QED
          BY <3>4, <4>1, SubSeqProperties
    <3>7. suf \in Seq(Messages)
      <4>1. \A i \in k + 1 .. n : unfinished[i] \in Messages
          BY <3>4, <3>5
      <4>2. k + 1 \in Int /\ n \in Int
          BY <3>4
      <4> HIDE DEF n
      <4> QED
          BY <4>1, <4>2, SubSeqProperties
    <3>8. unfinished = pre \o suf
      <4>1. 1 \in 1 .. n + 1 /\ k \in 1 - 1 .. n /\ n \in k .. n
          BY <3>4
      <4>2. pre \o suf = SubSeq(unfinished, 1, n)
          BY <1>1, <4>1, ConcatAdjacentSubSeq
      <4> QED
          BY <1>1, <4>2, SubSeqFull
    <3> HIDE DEF pre, suf
    <3>9. Asked(pre \o suf) = Asked(pre) \o Asked(suf)
        BY <3>6, <3>7, AskedCat
    <3>10. Asked(pre) \in Seq(Configs) /\ Asked(suf) \in Seq(Configs)
        BY <3>6, <3>7, AskedType
    <3> QED
        BY <1>3, <3>3, <3>8, <3>9, <3>10
  <2> QED
      BY <2>1, <2>2
<1>6. Asked(<<>>) = <<>> /\ Asked(<<Intent("sticky")>>) = <<>>
  <2>1. ~IsRequest(Intent("sticky"))
      BY DEF IsRequest, Intent
  <2> QED
      BY <2>1, MessageTypes, AskedOne
<1>7. \E i \in 1 .. Len(Queue) + 1 : <<>> = SubSeq(Queue, i, Len(Queue))
  <2>1. Queue \o <<>> = Queue /\ <<>> \in Seq(Configs)
      BY <1>4, ConcatEmptySeq
  <2> QED
      BY <1>4, <2>1, EndOf
<1>8. \E i \in 1 .. Len(Queue) + 1 : b = SubSeq(Queue, i, Len(Queue))
    BY <1>5, EndOf
<1> HIDE DEF kept
<1>9. Redelivered \in {<<>>, <<Intent("sticky")>>, kept}
    BY <1>2
<1> QED
    BY <1>5, <1>6, <1>7, <1>8, <1>9

\* The process dies: NativeVpn crashes.
LEMMA DiesRefines ==
    ASSUME TypeOK, TypeOK', Dies
    PROVE  NativeStep
<1>1. main' = MainIdle /\ up' = FALSE /\ disk' = disk /\ tun' = FALSE /\ inbox' = Redelivered
    BY DEF Dies
<1>2. main'.pc = "idle" /\ ~Busy'
    BY <1>1 DEF MainIdle, Busy
<1>3. Wanted' = Kept /\ Kept' = Kept
    BY <1>1, <1>2, Mapped DEF Kept
<1>4. Queue' = Asked(Redelivered)
    BY <1>1, <1>2, Mapped DEF Waiting
<1> QED
    BY <1>1, <1>2, <1>3, <1>4, RedeliveredEnd, NativeCrash

\* The main thread takes a message: NativeVpn takes a request, unless the
\* message is none.
LEMMA TakeRefines ==
    ASSUME TypeOK, TypeOK', main.pc = "idle", inbox # <<>>, inbox' = Tail(inbox), up,
           main'.pc # "idle", main'.msg = Head(inbox), UNCHANGED <<up, disk, tun>>,
           LET wanted == IF main'.pc \in {"start", "core", "rebuild"} THEN main'.config
                         ELSE prefs'.config
           IN  wanted = IF IsRequest(Head(inbox)) THEN Head(inbox).config ELSE prefs.config
    PROVE  NativeStep
<1>1. /\ Head(inbox) \in Messages
      /\ Waiting = IF IsRequest(Head(inbox)) THEN <<Head(inbox).config>> \o Waiting' ELSE Waiting'
    BY WaitingTake
<1>2. ~Busy /\ (Busy' <=> IsRequest(Head(inbox))) /\ Kept' = Kept
    BY DEF Busy, Kept
<1>3. Queue = Waiting /\ Queue' = Queue
    BY <1>1, <1>2, Mapped
<1>4. Wanted = prefs.config
      /\ Wanted' = IF IsRequest(Head(inbox)) THEN Head(inbox).config ELSE prefs.config
    BY Mapped
<1>5. CASE IsRequest(Head(inbox))
  <2>1. Waiting' \in Seq(Configs) /\ Head(inbox).config \in Configs
      BY <1>1, Mapped, MessageTypes
  <2>2. Queue = <<Head(inbox).config>> \o Waiting'
      BY <1>1, <1>3, <1>5
  <2>3. Queue # <<>> /\ Head(Queue) = Head(inbox).config
      BY <2>1, <2>2
  <2> QED
      BY <1>2, <1>3, <1>4, <1>5, <2>3, NativeTake
<1>6. CASE ~IsRequest(Head(inbox))
  <2>1. Busy' = Busy
      BY <1>2, <1>6 DEF Busy
  <2> QED
      BY <1>2, <1>3, <1>4, <1>6, <2>1, NativeStutter
<1> QED
    BY <1>5, <1>6

\* The main thread takes the next message, whichever it is.
LEMMA DeliverRefines ==
    ASSUME AInv, TypeOK', Deliver
    PROVE  NativeStep
<1>0. Typed
    BY TypeOKTyped DEF AInv
<1>1. ASSUME NEW g \in Instances, OnStart(g) PROVE NativeStep
  <2>1. /\ main.pc = "idle" /\ inbox # <<>> /\ inbox' = Tail(inbox) /\ up
        /\ main' = [pc |-> "start", msg |-> Head(inbox), config |-> Head(inbox).config]
        /\ UNCHANGED <<up, disk, tun>> /\ IsRequest(Head(inbox))
      BY <1>1 DEF OnStart, Receives, disks, IsRequest
  <2> QED
      BY <2>1, TakeRefines DEF AInv
<1>2. ASSUME NEW g \in Instances, OnStop(g) PROVE NativeStep
  <2>1. /\ main.pc = "idle" /\ inbox # <<>> /\ inbox' = Tail(inbox) /\ up
        /\ main' = [pc |-> "stop", msg |-> Head(inbox), config |-> NoConfig]
        /\ UNCHANGED <<up, disk, tun>> /\ IsRequest(Head(inbox)) /\ prefs'.config = NoConfig
        /\ Head(inbox).act = "stop"
      BY <1>2 DEF OnStop, Receives, disks, IsRequest, Empty
  <2>2. Head(inbox).config = NoConfig
      BY <1>0, <2>1, InboxTypes, MessageTypes DEF Typed
  <2> QED
      BY <2>1, <2>2, TakeRefines DEF AInv
<1>3. ASSUME NEW g \in Instances, OnRestart(g) PROVE NativeStep
  <2>1. /\ main.pc = "idle" /\ inbox # <<>> /\ inbox' = Tail(inbox) /\ up
        /\ main' = [pc |-> IF prefs.config = NoConfig THEN "leave" ELSE "start",
                    msg |-> Head(inbox), config |-> prefs.config]
        /\ UNCHANGED <<up, disk, tun, prefs>> /\ ~IsRequest(Head(inbox))
      BY <1>3 DEF OnRestart, Receives, disks, IsRequest
  <2> QED
      BY <2>1, TakeRefines DEF AInv
<1>4. CASE OnDestroy
  <2>1. /\ main.pc = "idle" /\ inbox # <<>> /\ inbox' = Tail(inbox) /\ up
        /\ main' = [pc |-> "stop", msg |-> Head(inbox), config |-> NoConfig]
        /\ UNCHANGED <<up, disk, tun, prefs>> /\ ~IsRequest(Head(inbox))
      BY <1>4 DEF OnDestroy, disks, IsRequest, IsDestroy
  <2> QED
      BY <2>1, TakeRefines DEF AInv
<1> QED
    BY <1>1, <1>2, <1>3, <1>4 DEF Deliver

\* The message in hand is done with: so is the request, if it is one.
LEMMA FinishRefines ==
    ASSUME AInv, TypeOK', main.pc # "idle", Finish, Waiting' = Waiting, UNCHANGED <<up, prefs>>,
           tun' \in {tun, FALSE}, main.pc = "close" => tun' = FALSE, main.pc # "stop"
    PROVE  NativeStep
<1>0. up /\ TypeOK /\ HandInv /\ Typed
    BY TypeOKTyped DEF AInv, DeadInv, Typed
<1>1. main' = MainIdle /\ disk' = prefs /\ ~Busy' /\ up'
    BY <1>0 DEF Finish, Busy, MainIdle
<1>2. Queue' = Waiting
    BY <1>0, <1>1, Mapped
<1>3. Queue' = IF Busy THEN Tail(Queue) ELSE Queue
  <2>1. main.msg.config \in Configs /\ Waiting \in Seq(Configs)
      BY <1>0, Mapped
  <2>2. Tail(<<main.msg.config>> \o Waiting) = Waiting
      BY <2>1
  <2> QED
      BY <1>0, <1>2, <2>2, Mapped
<1>4. Wanted' = prefs.config /\ Kept' = prefs.config
    BY <1>0, <1>1, Mapped DEF Kept, MainIdle
<1>5. Wanted' \in {Wanted, NoConfig}
    BY <1>0, <1>4, Mapped DEF HandInv
<1>6. ASSUME Busy, main.pc # "close" PROVE Head(Queue) # NoConfig
  <2>1. main.msg \in Messages /\ main.msg.act = "start"
      BY <1>0, <1>6 DEF Busy, IsRequest, HandInv, TypeOK
  <2>2. main.msg.config \in Profiles
      BY <2>1, MessageTypes
  <2>3. main.msg.config # NoConfig
      BY <2>2, AndroidAssumption
  <2>4. Queue = <<main.msg.config>> \o Waiting /\ main.msg.config \in Configs /\ Waiting \in Seq(Configs)
      BY <1>0, <1>6, Mapped
  <2>5. Head(Queue) = main.msg.config
      BY <2>4
  <2> QED
      BY <2>3, <2>5
<1> QED
    BY <1>1, <1>3, <1>4, <1>5, <1>6, NativeDone

\* The main thread goes on with the message in hand.
LEMMA OnwardRefines ==
    ASSUME AInv, TypeOK', main.pc # "idle", main'.pc # "idle", main'.msg = main.msg,
           UNCHANGED <<inbox, disk>>
    PROVE  Queue' = Queue /\ Busy' = Busy /\ Kept' = Kept
<1>1. TypeOK
    BY DEF AInv
<1>2. Busy' = Busy /\ Kept' = Kept /\ Waiting' = Waiting
    BY DEF Busy, Kept, Waiting
<1> QED
    BY <1>1, <1>2, Mapped

\* Every step of the main thread is a step of NativeVpn.
LEMMA MainRefines ==
    ASSUME AInv, TypeOK', MainStep
    PROVE  NativeStep
<1>0. TypeOK /\ Typed /\ HandInv /\ LockInv /\ (main.pc # "idle" => up)
    BY TypeOKTyped DEF AInv, DeadInv, Typed
<1>1. CASE Deliver
    BY <1>1, DeliverRefines
<1>2. CASE Leave
  <2>1. /\ main.pc = "leave" /\ Finish /\ UNCHANGED <<up, prefs, tun>>
        /\ Waiting' = Waiting
      BY <1>0, <1>2, WaitingStopSelf DEF Leave
  <2> QED
      BY <2>1, FinishRefines
<1>3. CASE StartLock
  <2>1. CASE server # NoConfig /\ tun
    <3>1. main.pc = "start" /\ Finish /\ UNCHANGED <<up, prefs, tun, inbox>>
        BY <1>3, <2>1 DEF StartLock
    <3>2. Waiting' = Waiting
        BY <3>1 DEF Waiting
    <3> QED
        BY <3>1, <3>2, FinishRefines
  <2>2. CASE ~(server # NoConfig /\ tun)
    <3>1. /\ main.pc = "start" /\ UNCHANGED <<up, prefs, inbox, disk>> /\ tun' \in {tun, FALSE}
          /\ main' = [main EXCEPT !.pc = IF server = NoConfig THEN "core" ELSE "rebuild"]
        BY <1>3, <2>2 DEF StartLock
    <3>2. main'.pc \in {"core", "rebuild"} /\ main'.msg = main.msg /\ main'.config = main.config
        BY <1>0, <3>1 DEF Typed, MainType
    <3>3. Wanted' = Wanted
        BY <1>0, <3>1, <3>2, Mapped
    <3> QED
        BY <3>1, <3>2, <3>3, OnwardRefines, NativeDown
  <2> QED
      BY <2>1, <2>2
<1>4. CASE OpenTun
  <2>1. /\ main.pc \in {"core", "rebuild"} /\ UNCHANGED <<up, prefs, inbox, disk>> /\ tun' = TRUE
        /\ main' = [main EXCEPT !.pc = IF main.pc = "core" THEN "open" ELSE "reopen"]
      BY <1>4 DEF OpenTun, disks
  <2>2. main'.pc \in {"open", "reopen"} /\ main'.msg = main.msg
      BY <1>0, <2>1 DEF Typed, MainType
  <2>3. Wanted = main.config /\ Wanted' = prefs.config
      BY <1>0, <2>1, <2>2, Mapped
  <2>4. Wanted # NoConfig /\ Wanted' \in {Wanted, NoConfig} /\ ~tun
      BY <1>0, <2>1, <2>3, AndroidAssumption DEF Typed, HandInv, LockInv
  <2> QED
      BY <2>1, <2>2, <2>4, OnwardRefines, NativeUp
<1>5. CASE CoreStarts
  <2>1. main.pc \in {"open", "reopen"} /\ Finish /\ UNCHANGED <<up, prefs, tun, inbox>>
      BY <1>5 DEF CoreStarts
  <2>2. Waiting' = Waiting
      BY <2>1 DEF Waiting
  <2> QED
      BY <2>1, <2>2, FinishRefines
<1>6. CASE CoreFails \/ StopLock
  <2>1. /\ main.pc \in {"core", "open", "stop"} /\ UNCHANGED <<up, prefs, inbox, disk, tun>>
        /\ main' = [main EXCEPT !.pc = "close"]
      BY <1>6 DEF CoreFails, StopLock, disks
  <2>2. main'.pc = "close" /\ main'.msg = main.msg
      BY <1>0, <2>1 DEF Typed, MainType
  <2>3. Wanted' \in {Wanted, NoConfig}
      BY <1>0, <2>1, <2>2, Mapped DEF HandInv
  <2> QED
      BY <2>1, <2>2, <2>3, OnwardRefines, NativeDown
<1>7. CASE CoreCrashes
    BY <1>0, <1>7, DiesRefines DEF CoreCrashes
<1>8. CASE StopEnds
  <2>1. /\ main.pc = "close" /\ Finish /\ UNCHANGED <<up, prefs>> /\ tun' = FALSE
        /\ Waiting' = Waiting
      BY <1>0, <1>8, WaitingStopSelf DEF StopEnds
  <2> QED
      BY <2>1, FinishRefines
<1> QED
    BY <1>1, <1>2, <1>3, <1>4, <1>5, <1>6, <1>7, <1>8 DEF MainStep

\* Steps of other threads leave the message in hand alone.
LEMMA AsideRefines ==
    ASSUME TypeOK, TypeOK', UNCHANGED main, Waiting' = Waiting
    PROVE  Queue' = Queue /\ Busy' = Busy
<1>1. Busy' = Busy
    BY DEF Busy
<1> QED
    BY <1>1, Mapped

\* On the side thread the tunnel can only fall.
LEMMA SideRefines ==
    ASSUME AInv, TypeOK', SideStep
    PROVE  NativeStep
<1>0. TypeOK
    BY DEF AInv
<1>1. UNCHANGED <<main, up, prefs, disk>> /\ Waiting' = Waiting /\ tun' \in {tun, FALSE}
  <2>1. CASE SideLock
      BY <2>1 DEF SideLock, disks, Waiting
  <2>2. CASE SideEnds
      BY <1>0, <2>2, WaitingStopSelf DEF SideEnds
  <2> QED
      BY <2>1, <2>2 DEF SideStep
<1>2. Wanted' = Wanted /\ Kept' = Kept
    BY <1>1 DEF Wanted, Kept
<1> QED
    BY <1>0, <1>1, <1>2, AsideRefines, NativeDown

\* What the system does is a crash, a withdrawal, a write to the disk or nothing.
LEMMA SystemRefines ==
    ASSUME AInv, TypeOK', SystemStep
    PROVE  NativeStep
<1>0. TypeOK /\ HandInv /\ (~up => main.pc = "idle")
    BY DEF AInv, DeadInv
<1>1. CASE SystemKills
    BY <1>0, <1>1, DiesRefines DEF SystemKills
<1>2. CASE ProcessStarts
  <2>1. ~up /\ up' /\ prefs' = disk /\ UNCHANGED <<main, disk, tun, inbox>>
      BY <1>2 DEF ProcessStarts
  <2>2. Wanted' = Wanted /\ Kept' = Kept /\ Waiting' = Waiting
      BY <1>0, <2>1, Mapped DEF Kept, Waiting
  <2> QED
      BY <1>0, <2>1, <2>2, AsideRefines, NativeStutter
<1>3. CASE AlarmFires
  <2>1. UNCHANGED <<main, up, prefs, disk, tun>> /\ inbox' = Append(inbox, Intent("restart"))
      BY <1>3 DEF AlarmFires, StartService
  <2>2. Waiting' = Waiting
      BY <1>0, <2>1, WaitingAdd, MessageTypes DEF IsRequest, Intent
  <2>3. Wanted' = Wanted /\ Kept' = Kept
      BY <2>1 DEF Wanted, Kept
  <2> QED
      BY <1>0, <2>1, <2>2, <2>3, AsideRefines, NativeStutter
<1>4. CASE FlushPrefs
  <2>1. up /\ disk' = prefs /\ UNCHANGED <<main, up, prefs, tun, inbox>>
      BY <1>4 DEF FlushPrefs
  <2>2. Waiting' = Waiting
      BY <2>1 DEF Waiting
  <2>3. Wanted' = Wanted /\ Kept' \in {Wanted', NoConfig}
      BY <1>0, <2>1, Mapped DEF Kept, HandInv
  <2> QED
      BY <1>0, <2>1, <2>2, <2>3, AsideRefines, NativeKeep
<1>5. CASE OnRevoke
  <2>1. up /\ prefs' = [prefs EXCEPT !.config = NoConfig] /\ UNCHANGED <<main, up, disk, tun, inbox>>
      BY <1>5 DEF OnRevoke
  <2>2. prefs'.config = NoConfig
      BY <1>0, <2>1 DEF TypeOK, Prefs
  <2>3. Waiting' = Waiting /\ Kept' = Kept
      BY <2>1 DEF Waiting, Kept
  <2>4. Wanted' \in {Wanted, NoConfig}
      BY <1>0, <2>1, <2>2, Mapped
  <2> QED
      BY <1>0, <2>1, <2>3, <2>4, AsideRefines, NativeDown
<1>6. CASE ServiceStop
  <2>1. UNCHANGED <<main, up, prefs, disk, tun, inbox>>
      BY <1>6 DEF ServiceStop, disks
  <2>2. Waiting' = Waiting /\ Wanted' = Wanted /\ Kept' = Kept
      BY <2>1 DEF Waiting, Wanted, Kept
  <2> QED
      BY <1>0, <2>1, <2>2, AsideRefines, NativeStutter
<1> QED
    BY <1>1, <1>2, <1>3, <1>4, <1>5, <1>6 DEF SystemStep

\* A watchdog kills the process or does nothing NativeVpn speaks about.
LEMMA WdRefines ==
    ASSUME AInv, TypeOK', NEW t \in Watchdogs, WdStep(t)
    PROVE  NativeStep
<1>0. TypeOK
    BY DEF AInv
<1>1. CASE KillProcess(t)
    BY <1>0, <1>1, DiesRefines DEF KillProcess
<1>2. CASE ~KillProcess(t)
  <2>1. UNCHANGED <<main, up, prefs, disk, tun, inbox>>
      BY <1>2 DEF WdStep, WdInterrupted, WdWakes, WdProbeOk, WdProbeFails, RestartCoreFromWatchdog,
          WdRest
  <2>2. Waiting' = Waiting /\ Wanted' = Wanted /\ Kept' = Kept
      BY <2>1 DEF Waiting, Wanted, Kept
  <2> QED
      BY <1>0, <2>1, <2>2, AsideRefines, NativeStutter
<1> QED
    BY <1>1, <1>2

\* A request of the plugin is asked of NativeVpn, unless the plugin drops it.
LEMMA RequestRefines ==
    ASSUME AInv, TypeOK', Request
    PROVE  NativeStep
<1>0. TypeOK
    BY DEF AInv
<1>1. UNCHANGED <<main, up, prefs, disk, tun>>
    BY DEF Request, RequestStop, RequestStart
<1>2. Wanted' = Wanted /\ Kept' = Kept /\ Busy' = Busy
    BY <1>1 DEF Wanted, Kept, Busy
<1>3. CASE UNCHANGED inbox
  <2>1. Waiting' = Waiting
      BY <1>3 DEF Waiting
  <2> QED
      BY <1>0, <1>1, <1>2, <2>1, AsideRefines, NativeStutter
<1>4. ASSUME NEW m \in Messages, IsRequest(m), inbox' = Append(inbox, m) PROVE NativeStep
  <2>1. Waiting' = Append(Waiting, m.config) /\ m.config \in Configs
      BY <1>0, <1>4, WaitingAdd, MessageTypes
  <2>2. Queue' = Append(Queue, m.config)
    <3>1. main.msg.config \in Configs /\ Waiting \in Seq(Configs)
        BY <1>0, Mapped
    <3>2. <<main.msg.config>> \o Append(Waiting, m.config) = Append(<<main.msg.config>> \o Waiting, m.config)
      <4> DEFINE x == <<main.msg.config>>
                 y == Waiting
                 c == m.config
      <4>1. x \in Seq(Configs) /\ y \in Seq(Configs) /\ c \in Configs
          BY <2>1, <3>1
      <4> HIDE DEF x, y, c
      <4>2. x \o y \in Seq(Configs) /\ <<c>> \in Seq(Configs)
          BY <4>1
      <4>3. Append(x \o y, c) = (x \o y) \o <<c>> /\ Append(y, c) = y \o <<c>>
          BY <4>1, <4>2, AppendIsConcat
      <4>4. x \o Append(y, c) = Append(x \o y, c)
          BY <4>1, <4>2, <4>3, ConcatAssociative
      <4> QED
          BY <4>4 DEF x, y, c
    <3> QED
        BY <1>0, <1>1, <1>2, <2>1, <3>2, Mapped
  <2> QED
      BY <1>1, <1>2, <2>1, <2>2, NativeAsk
<1>5. CASE RequestStop
  <2>1. inbox' = Append(inbox, Intent("stop")) /\ IsRequest(Intent("stop"))
      BY <1>5 DEF RequestStop, StopNativeVpn, StartService, IsRequest, Intent
  <2> QED
      BY <1>4, <2>1, MessageTypes
<1>6. ASSUME NEW p \in Profiles, RequestStart(p) PROVE NativeStep
  <2> DEFINE m == [act |-> "start", config |-> p]
  <2>1. m \in Messages /\ IsRequest(m)
      BY MessageTypes DEF IsRequest
  <2>2. UNCHANGED inbox \/ inbox' = Append(inbox, m)
      BY <1>6 DEF RequestStart, StartVpn, StartService
  <2> HIDE DEF m
  <2> QED
      BY <1>3, <1>4, <2>1, <2>2
<1> QED
    BY <1>5, <1>6 DEF Request

\* The service implements what the engine relies on: requests are carried out
\* in order, the tunnel comes up only for what the last of them wanted, and a
\* stop that was carried out is undone by nothing but a later start, whatever
\* alarms, kills and redelivered intents happen in between.
THEOREM AndroidImplementsNativeVpn == Spec => ImplementsNativeVpn
<1>1. Init => Native!Init
  <2> SUFFICES ASSUME Init PROVE Native!Init
      OBVIOUS
  <2>1. main.pc = "idle" /\ inbox = <<>> /\ up /\ prefs.config = NoConfig
        /\ disk.config = NoConfig /\ tun = FALSE
      BY DEF Init, MainIdle, Empty
  <2>2. InHand \o inbox = <<>>
      BY <2>1 DEF InHand
  <2>3. Asked(InHand \o inbox) = <<>>
      BY <2>2, MessageTypes, AskedOne
  <2> QED
      BY <2>1, <2>3 DEF Native!Init
<1>2. AInv /\ [Next]_vars => [Native!Next]_(Native!nativeVars)
  <2> SUFFICES ASSUME AInv, [Next]_vars PROVE NativeStep
      BY DEF NativeStep
  <2>1. TypeOK'
      BY TypesStep DEF AInv
  <2>2. CASE UNCHANGED vars
    <3>1. Queue' = Queue /\ Busy' = Busy /\ Wanted' = Wanted /\ Kept' = Kept /\ tun' = tun
        BY <2>2 DEF vars, Queue, Busy, Wanted, Kept, InHand
    <3> QED
        BY <3>1, NativeStutter
  <2> QED
      BY <2>1, <2>2, MainRefines, SideRefines, SystemRefines, WdRefines, RequestRefines
      DEF Next, ServiceNext
<1> QED
    BY <1>1, <1>2, AInvariant, PTL DEF Spec, ImplementsNativeVpn, Native!Spec

-----------------------------------------------------------------------------
(* What a carried out STOP is worth.                                       *)

\* No tunnel, and no configuration to bring one up with: not in hand, not in
\* memory, and not on the disk.
Down == ~tun /\ Wanted = NoConfig /\ Kept = NoConfig

\* A STOP has cleared the preferences, and nothing fills them while it is
\* carried out.
StopInv == main.pc # "idle" /\ main.msg.act = "stop" => prefs.config = NoConfig

\* A STOP that is carried out leaves the service down, and out of that only the
\* next START leads (KostraVpnService.kt:103).
StopHolds ==
    [][/\ StopEnds /\ main.msg.act = "stop" => Down'
       /\ Down /\ ~Down' => \E g \in Instances : OnStart(g)]_vars

\* Every step keeps StopInv.
LEMMA StopStep == TypeOK /\ DeadInv /\ StopInv /\ [Next]_vars => StopInv'
<1> SUFFICES ASSUME Typed, DeadInv, StopInv, [Next]_vars PROVE StopInv'
    BY TypeOKTyped
<1>1. ASSUME NEW g \in Instances, OnStart(g) PROVE StopInv'
    BY <1>1 DEF OnStart, StopInv
<1>2. ASSUME NEW g \in Instances, OnStop(g) PROVE StopInv'
    BY <1>2 DEF OnStop, StopInv, Empty
<1>3. ASSUME NEW g \in Instances, OnRestart(g) PROVE StopInv'
    BY <1>3 DEF OnRestart, StopInv
<1>4. CASE OnDestroy
    BY <1>4 DEF OnDestroy, IsDestroy, StopInv
<1>5. CASE Finish
    BY <1>5 DEF Finish, MainIdle, StopInv
<1>6. ASSUME Dies PROVE StopInv'
    BY <1>6 DEF Dies, MainIdle, StopInv
<1>7. ASSUME NEW pc, main' = [main EXCEPT !.pc = pc], main.pc # "idle", prefs' = prefs PROVE StopInv'
    BY <1>7 DEF Typed, MainType, StopInv
<1>8. ASSUME main' = main, prefs' = prefs \/ prefs' = [prefs EXCEPT !.config = NoConfig] PROVE StopInv'
    BY <1>8 DEF Typed, Prefs, StopInv
<1>9. CASE ProcessStarts
    BY <1>9 DEF ProcessStarts, DeadInv, StopInv
<1>10. CASE MainStep
  <2>1. CASE Leave \/ CoreStarts \/ StopEnds
      BY <1>5, <2>1 DEF Leave, CoreStarts, StopEnds
  <2>2. CASE StartLock
    <3>1. main.pc = "start" /\ prefs' = prefs /\ (Finish \/ \E pc : main' = [main EXCEPT !.pc = pc])
        BY <2>2 DEF StartLock
    <3> QED
        BY <1>5, <1>7, <3>1
  <2>3. CASE OpenTun \/ CoreFails \/ StopLock
    <3>1. main.pc # "idle" /\ prefs' = prefs /\ \E pc : main' = [main EXCEPT !.pc = pc]
        BY <2>3 DEF OpenTun, CoreFails, StopLock
    <3> QED
        BY <1>7, <3>1
  <2>4. CASE CoreCrashes
      BY <1>6, <2>4 DEF CoreCrashes
  <2> QED
      BY <1>1, <1>2, <1>3, <1>4, <1>10, <2>1, <2>2, <2>3, <2>4 DEF MainStep, Deliver
<1>11. CASE SideStep
    BY <1>8, <1>11 DEF SideStep, SideLock, SideEnds
<1>12. CASE SystemStep
    BY <1>6, <1>8, <1>9, <1>12
    DEF SystemStep, SystemKills, AlarmFires, FlushPrefs, OnRevoke, ServiceStop
<1>13. ASSUME NEW t \in Watchdogs, WdStep(t) PROVE StopInv'
    BY <1>6, <1>8, <1>13 DEF WdStep, WdInterrupted, WdWakes, WdProbeOk, WdProbeFails,
        RestartCoreFromWatchdog, KillProcess, WdRest
<1>14. CASE Request
    BY <1>8, <1>14 DEF Request, RequestStop, RequestStart
<1>15. CASE UNCHANGED vars
    BY <1>8, <1>15 DEF vars
<1> QED
    BY <1>10, <1>11, <1>12, <1>13, <1>14, <1>15 DEF Next, ServiceNext

\* When no start is in hand, what is wanted is the saved configuration.
LEMMA DownMeans ==
    ASSUME TypeOK, TypeOK'
    PROVE  /\ Down <=> /\ ~tun /\ disk.config = NoConfig
                       /\ main.pc \notin {"start", "core", "rebuild"}
                       /\ up => prefs.config = NoConfig
           /\ Down' <=> /\ ~tun' /\ disk'.config = NoConfig
                        /\ main'.pc \notin {"start", "core", "rebuild"}
                        /\ up' => prefs'.config = NoConfig
<1>1. /\ main.pc \in {"start", "core", "rebuild"} => main.config # NoConfig
      /\ main'.pc \in {"start", "core", "rebuild"} => main'.config # NoConfig
    BY AndroidAssumption DEF TypeOK
<1> QED
    BY <1>1, Mapped DEF Down, Kept

\* Only a START leads out of Down.
LEMMA DownKept ==
    ASSUME AInv, TypeOK', Down, [Next]_vars, \A g \in Instances : ~OnStart(g)
    PROVE  Down'
<1>0. TypeOK /\ Typed /\ (main.pc # "idle" => up) /\ (~up => main.pc = "idle")
    BY TypeOKTyped DEF AInv, DeadInv, Typed
<1> DEFINE NotStarting(pc) == pc \notin {"start", "core", "rebuild"}
<1>1. ~tun /\ disk.config = NoConfig /\ NotStarting(main.pc) /\ (up => prefs.config = NoConfig)
    BY <1>0, DownMeans
<1>2. (/\ ~tun' /\ disk'.config = NoConfig /\ NotStarting(main'.pc)
       /\ up' => prefs'.config = NoConfig) => Down'
    BY <1>0, DownMeans
<1> HIDE DEF NotStarting
<1>3. ASSUME NEW g \in Instances, OnStop(g) PROVE Down'
    BY <1>1, <1>2, <1>3 DEF OnStop, disks, Empty, NotStarting
<1>4. ASSUME NEW g \in Instances, OnRestart(g) PROVE Down'
    BY <1>1, <1>2, <1>4 DEF OnRestart, Receives, disks, NotStarting
<1>5. CASE OnDestroy
    BY <1>1, <1>2, <1>5 DEF OnDestroy, disks, NotStarting
<1>6. CASE Leave \/ CoreStarts \/ StopEnds
  <2>1. /\ main' = MainIdle /\ disk' = prefs /\ UNCHANGED <<up, prefs>> /\ tun' \in {tun, FALSE}
        /\ main.pc # "idle"
      BY <1>6 DEF Leave, CoreStarts, StopEnds, Finish
  <2>2. prefs.config = NoConfig
      BY <1>0, <1>1, <2>1
  <2>3. main'.pc = "idle"
      BY <2>1 DEF MainIdle
  <2>4. disk'.config = NoConfig /\ prefs'.config = NoConfig
      BY <2>1, <2>2
  <2>5. ~tun'
      BY <1>1, <2>1
  <2> QED
      BY <1>2, <2>3, <2>4, <2>5 DEF NotStarting
<1>7. CASE StartLock \/ OpenTun
    BY <1>1, <1>7 DEF StartLock, OpenTun, NotStarting
<1>8. CASE CoreFails \/ StopLock
  <2>1. main' = [main EXCEPT !.pc = "close"] /\ UNCHANGED <<up, prefs, disk, tun>>
      BY <1>8 DEF CoreFails, StopLock, disks
  <2>2. main'.pc = "close"
      BY <1>0, <2>1 DEF Typed, MainType
  <2> QED
      BY <1>1, <1>2, <2>1, <2>2 DEF NotStarting
<1>9. ASSUME Dies PROVE Down'
  <2>1. main'.pc = "idle" /\ disk' = disk /\ ~tun' /\ ~up'
      BY <1>9 DEF Dies, MainIdle
  <2> QED
      BY <1>1, <1>2, <2>1 DEF NotStarting
<1>10. CASE SideStep
    BY <1>1, <1>2, <1>10 DEF SideStep, SideLock, SideEnds, disks
<1>11. CASE ProcessStarts
    BY <1>1, <1>2, <1>11 DEF ProcessStarts
<1>12. CASE AlarmFires \/ ServiceStop \/ Request \/ UNCHANGED vars
  <2>1. UNCHANGED <<main, up, prefs, disk, tun>>
      BY <1>12 DEF AlarmFires, ServiceStop, Request, RequestStop, RequestStart, disks, vars
  <2> QED
      BY <1>1, <1>2, <2>1
<1>13. CASE FlushPrefs
    BY <1>1, <1>2, <1>13 DEF FlushPrefs
<1>14. CASE OnRevoke
  <2>1. prefs' = [prefs EXCEPT !.config = NoConfig] /\ UNCHANGED <<main, up, disk, tun>>
      BY <1>14 DEF OnRevoke
  <2>2. prefs'.config = NoConfig
      BY <1>0, <2>1 DEF Typed, Prefs
  <2> QED
      BY <1>1, <1>2, <2>1, <2>2
<1>15. ASSUME NEW t \in Watchdogs, WdStep(t) PROVE Down'
  <2>1. CASE KillProcess(t)
      BY <1>9, <2>1 DEF KillProcess
  <2>2. CASE ~KillProcess(t)
    <3>1. UNCHANGED <<main, up, prefs, disk, tun>>
        BY <1>15, <2>2 DEF WdStep, WdInterrupted, WdWakes, WdProbeOk, WdProbeFails,
            RestartCoreFromWatchdog, WdRest
    <3> QED
        BY <1>1, <1>2, <3>1
  <2> QED
      BY <2>1, <2>2
<1>16. CASE CoreCrashes \/ SystemKills
    BY <1>9, <1>16 DEF CoreCrashes, SystemKills
<1> QED
    BY <1>3, <1>4, <1>5, <1>6, <1>7, <1>8, <1>10, <1>11, <1>12, <1>13, <1>14, <1>15, <1>16
    DEF Next, ServiceNext, MainStep, Deliver, SystemStep

\* A STOP that was carried out is final: no alarm set before it, sticky restart,
\* redelivered intent, kill or watchdog brings the tunnel back.
THEOREM AndroidStopHolds == Spec => StopHolds
<1>1. Init => StopInv
    BY DEF Init, MainIdle, StopInv
<1>2. AInv /\ StopInv /\ [Next]_vars => StopInv'
    BY StopStep DEF AInv
<1>3. AInv /\ AInv' /\ StopInv /\ [Next]_vars =>
          [/\ StopEnds /\ main.msg.act = "stop" => Down'
           /\ Down /\ ~Down' => \E g \in Instances : OnStart(g)]_vars
  <2> SUFFICES ASSUME AInv, TypeOK', StopInv, [Next]_vars
               PROVE  /\ StopEnds /\ main.msg.act = "stop" => Down'
                      /\ Down /\ ~Down' => \E g \in Instances : OnStart(g)
      BY DEF AInv
  <2>1. ASSUME StopEnds, main.msg.act = "stop" PROVE Down'
    <3>1. main' = MainIdle /\ disk' = prefs /\ prefs' = prefs /\ tun' = FALSE /\ main.pc = "close"
        BY <2>1 DEF StopEnds, Finish
    <3>2. prefs.config = NoConfig /\ main'.pc = "idle"
        BY <2>1, <3>1 DEF StopInv, MainIdle
    <3> QED
        BY <3>1, <3>2, DownMeans DEF AInv
  <2>2. ASSUME Down, ~Down' PROVE \E g \in Instances : OnStart(g)
      BY <2>2, DownKept
  <2> QED
      BY <2>1, <2>2
<1>4. Spec => []StopInv
    BY <1>1, <1>2, AInvariant, PTL DEF Spec
<1> QED
    BY <1>3, <1>4, AInvariant, PTL DEF Spec, StopHolds

=============================================================================
