----------------------------- MODULE OlcRuntime -----------------------------
(***************************************************************************)
(* The life of one OlcRtcRuntime: OlcRtcRuntime::start, stop and drop of   *)
(* src/olcrtc/client.rs over the peer of src/olcrtc/wbstream.rs, with the  *)
(* tasks they spawn.  They are tied together by what they own: the accept  *)
(* loop the local port, the event loop the sender of `incoming', and every *)
(* holder of the multiplexer or of the peer a sender of the send queue,    *)
(* whose only reader holds the room.                                       *)
(*                                                                         *)
(* A session is one handle_socks5 task, of which only its sends matter     *)
(* here; what it does with the streams is the subject of OlcClient.        *)
(* LiveKit and the HTTP service are external: a request may fail, a room   *)
(* may disconnect, and close() ends its events.                            *)
(***************************************************************************)
EXTENDS Integers, Sequences

CONSTANTS
    Sessions,           \* connections served at a time
    SendQueueSize,      \* SEND_QUEUE_SIZE
    IncomingLimit       \* bound: payloads waiting in the unbounded channel

ASSUME RuntimeConstants ==
    /\ SendQueueSize \in Nat \ {0} /\ IncomingLimit \in Nat \ {0}

VARIABLES
    stage,      \* where OlcRtcRuntime::start is
    owner,      \* what became of the OlcRtcRuntime
    listener,   \* the local port is bound
    room,       \* membership of the LiveKit room
    closed,     \* WbStreamPeer.closed
    acceptTask, eventTask, sendTask, receiveTask,
    incoming,   \* payloads of the room not handled yet
    queue,      \* frames in the send queue
    inHand,     \* the frame being published
    first,      \* history: the first frame published
    session,    \* where each session is
    failed      \* history: sessions whose last send failed

startVars == <<stage, owner, listener>>
peerVars == <<room, closed>>
taskVars == <<acceptTask, eventTask, sendTask, receiveTask>>
frameVars == <<incoming, queue, inHand, first>>
sessionVars == <<session, failed>>
vars == <<startVars, peerVars, taskVars, frameVars, sessionVars>>

NoFrame == "none"

Init ==
    /\ stage = "bind" /\ owner = "starting" /\ listener = FALSE
    /\ room = "out" /\ closed = FALSE
    /\ acceptTask = "off" /\ eventTask = "off" /\ sendTask = "off" /\ receiveTask = "off"
    /\ incoming = <<>> /\ queue = <<>> /\ inHand = NoFrame /\ first = NoFrame
    /\ session = [s \in Sessions |-> "none"]
    /\ failed = {}

-----------------------------------------------------------------------------
(* OlcRtcRuntime::start.                                                   *)

\* An error returns at once and drops what start has: the listener, and with
\* the peer the last senders of the queue.
StartFails ==
    /\ stage # "up" /\ owner = "starting"
    /\ owner' = "failed" /\ listener' = FALSE
    /\ UNCHANGED <<stage, peerVars, taskVars, frameVars, sessionVars>>

StartsTo(from, to) ==
    /\ owner = "starting" /\ stage = from /\ stage' = to
    /\ UNCHANGED owner

\* The provider is known, the local address parses and is free.
Bind ==
    /\ StartsTo("bind", "guest")
    /\ listener' = TRUE
    /\ UNCHANGED <<peerVars, taskVars, frameVars, sessionVars>>

\* room_token: a guest is registered; the room "any" is created first; the
\* guest joins the room and is given its token.
RoomToken ==
    /\ \/ StartsTo("guest", "create")
       \/ StartsTo("guest", "join")
       \/ StartsTo("create", "join")
       \/ StartsTo("join", "token")
       \/ StartsTo("token", "connect")
    /\ UNCHANGED <<listener, peerVars, taskVars, frameVars, sessionVars>>

\* Room::connect, and the two tasks of the peer.
ConnectRoom ==
    /\ StartsTo("connect", "reset")
    /\ room' = "in" /\ eventTask' = "run" /\ sendTask' = "recv"
    /\ UNCHANGED <<listener, closed, acceptTask, receiveTask, frameVars, sessionVars>>

\* Mutant: the reset is left out.
SendClientResetNot ==
    /\ StartsTo("reset", "spawn")
    /\ UNCHANGED <<listener, peerVars, taskVars, frameVars, sessionVars>>

\* mux.send_client_reset(): the queue is empty, so there is room for it.  (A
\* client id of 0 is an error, as any other: StartFails.)
SendClientReset ==
    /\ StartsTo("reset", "spawn")
    /\ queue' = Append(queue, "reset")
    /\ UNCHANGED <<listener, peerVars, taskVars, incoming, inHand, first, sessionVars>>

\* The receive loop and the accept loop are spawned, and the runtime returned.
SpawnLoops ==
    /\ stage = "spawn" /\ owner = "starting"
    /\ stage' = "up" /\ owner' = "held"
    /\ receiveTask' = "run" /\ acceptTask' = "run"
    /\ UNCHANGED <<listener, peerVars, eventTask, sendTask, frameVars, sessionVars>>

-----------------------------------------------------------------------------
(* OlcRtcRuntime::stop, and a runtime that is dropped without it.          *)

\* shutdown.send, task.abort() and closed.swap; then close() is awaited.
Stop ==
    /\ owner = "held" /\ owner' = "stopping"
    /\ acceptTask' = "told" /\ closed' = TRUE
    /\ UNCHANGED <<stage, listener, room, eventTask, sendTask, receiveTask, frameVars,
                   sessionVars>>

\* Mutant: the room is not left.
CloseRoomNot ==
    /\ owner = "stopping" /\ owner' = "stopped"
    /\ UNCHANGED <<stage, listener, peerVars, taskVars, frameVars, sessionVars>>

\* room.close() returns; the peer of the runtime is dropped.
CloseRoom ==
    /\ owner = "stopping" /\ owner' = "stopped"
    /\ room' = "left"
    /\ UNCHANGED <<stage, listener, closed, taskVars, frameVars, sessionVars>>

\* shutdown.changed() fails in the accept loop; nothing else is told.
DropRuntime ==
    /\ owner = "held" /\ owner' = "dropped"
    /\ acceptTask' = "told"
    /\ UNCHANGED <<stage, listener, peerVars, eventTask, sendTask, receiveTask, frameVars,
                   sessionVars>>

\* The accept loop is next polled, and gives up the port.
AcceptEnds ==
    /\ acceptTask = "told" /\ acceptTask' = "ended"
    /\ listener' = FALSE
    /\ UNCHANGED <<stage, owner, peerVars, eventTask, sendTask, receiveTask, frameVars,
                   sessionVars>>

-----------------------------------------------------------------------------
(* The event loop and the receive loop.                                    *)

\* The room disconnects by itself.
RoomDisconnects ==
    /\ room = "in" /\ room' = "left"
    /\ UNCHANGED <<startVars, closed, taskVars, frameVars, sessionVars>>

\* RoomEvent::DataReceived of our topic: a frame of the server's, or something
\* that does not decrypt.
DataReceived ==
    /\ eventTask = "run" /\ room = "in" /\ Len(incoming) < IncomingLimit
    /\ \E payload \in {"frame", "junk"} : incoming' = Append(incoming, payload)
    /\ UNCHANGED <<startVars, peerVars, taskVars, queue, inHand, first, sessionVars>>

\* RoomEvent::Disconnected, or the end of the events: tx is dropped.
EventsEnd ==
    /\ eventTask = "run" /\ room = "left"
    /\ eventTask' = "ended"
    /\ UNCHANGED <<startVars, peerVars, acceptTask, sendTask, receiveTask, frameVars,
                   sessionVars>>

\* cipher.decrypt, and handle_frame if it succeeds.
HandleIncoming ==
    /\ receiveTask = "run" /\ incoming # <<>>
    /\ incoming' = Tail(incoming)
    /\ UNCHANGED <<startVars, peerVars, taskVars, queue, inHand, first, sessionVars>>

\* incoming.recv() returns None once the sender is gone and all is handled.
ReceiveEnds ==
    /\ receiveTask = "run" /\ incoming = <<>> /\ eventTask = "ended"
    /\ receiveTask' = "ended"
    /\ UNCHANGED <<startVars, peerVars, acceptTask, eventTask, sendTask, frameVars,
                   sessionVars>>

-----------------------------------------------------------------------------
(* The task behind the send queue.                                         *)

\* Who holds the multiplexer or the peer holds a sender.
SendersLeft ==
    \/ owner \in {"starting", "held", "stopping"}
    \/ acceptTask \in {"run", "told"} \/ receiveTask = "run"
    \/ \E s \in Sessions : session[s] # "none"

TakeFrame ==
    /\ sendTask = "recv" /\ queue # <<>>
    /\ sendTask' = "publish"
    /\ inHand' = Head(queue) /\ queue' = Tail(queue)
    /\ UNCHANGED <<startVars, peerVars, acceptTask, eventTask, receiveTask, incoming,
                   first, sessionVars>>

PublishOk ==
    /\ sendTask = "publish" /\ room = "in"
    /\ sendTask' = "recv"
    /\ first' = IF first = NoFrame THEN inHand ELSE first
    /\ inHand' = NoFrame
    /\ UNCHANGED <<startVars, peerVars, acceptTask, eventTask, receiveTask, incoming,
                   queue, sessionVars>>

\* Mutant: the task ends up idle, the receiver still there.
PublishFailsQuietly ==
    /\ sendTask = "publish"
    /\ sendTask' = "idle" /\ inHand' = NoFrame
    /\ UNCHANGED <<startVars, peerVars, acceptTask, eventTask, receiveTask, incoming,
                   queue, first, sessionVars>>

\* publish_data fails: the task ends, and the queue with it.
PublishFails ==
    /\ sendTask = "publish"
    /\ sendTask' = "ended" /\ inHand' = NoFrame /\ queue' = <<>>
    /\ UNCHANGED <<startVars, peerVars, acceptTask, eventTask, receiveTask, incoming,
                   first, sessionVars>>

\* send_rx.recv() returns None.
SendQueueEnds ==
    /\ sendTask = "recv" /\ queue = <<>> /\ ~SendersLeft
    /\ sendTask' = "ended"
    /\ UNCHANGED <<startVars, peerVars, acceptTask, eventTask, receiveTask, frameVars,
                   sessionVars>>

-----------------------------------------------------------------------------
(* Sessions.                                                               *)

\* The accept loop may take one more connection before it learns of the end.
Accept(s) ==
    /\ acceptTask \in {"run", "told"} /\ session[s] = "none"
    /\ session' = [session EXCEPT ![s] = "idle"]
    /\ UNCHANGED <<startVars, peerVars, taskVars, frameVars, failed>>

\* WbStreamPeer::send looks at `closed' once, before it waits for the queue.
Send(s) ==
    /\ session[s] = "idle"
    /\ session' = [session EXCEPT ![s] = IF closed THEN "refused" ELSE "enqueue"]
    /\ failed' = failed \ {s}
    /\ UNCHANGED <<startVars, peerVars, taskVars, frameVars>>

Enqueue(s) ==
    /\ session[s] = "enqueue" /\ sendTask # "ended"
    /\ Len(queue) < SendQueueSize
    /\ session' = [session EXCEPT ![s] = "idle"]
    /\ queue' = Append(queue, "data")
    /\ UNCHANGED <<startVars, peerVars, taskVars, incoming, inHand, first, failed>>

\* Mutant: a full queue is an error.
SendFailsWhenFull(s) ==
    /\ \/ session[s] = "refused"
       \/ session[s] = "enqueue" /\ (sendTask = "ended" \/ Len(queue) = SendQueueSize)
    /\ session' = [session EXCEPT ![s] = "idle"]
    /\ failed' = failed \cup {s}
    /\ UNCHANGED <<startVars, peerVars, taskVars, frameVars>>

\* The peer is closed, or the queue has no reader any more.
SendFails(s) ==
    /\ \/ session[s] = "refused"
       \/ session[s] = "enqueue" /\ sendTask = "ended"
    /\ session' = [session EXCEPT ![s] = "idle"]
    /\ failed' = failed \cup {s}
    /\ UNCHANGED <<startVars, peerVars, taskVars, frameVars>>

\* The session ends between two sends, or drops one that waits.
SessionEnds(s) ==
    /\ session[s] \in {"idle", "enqueue"}
    /\ session' = [session EXCEPT ![s] = "none"]
    /\ UNCHANGED <<startVars, peerVars, taskVars, frameVars, failed>>

-----------------------------------------------------------------------------
StartStep == Bind \/ RoomToken \/ ConnectRoom \/ SendClientReset \/ SpawnLoops

Next ==
    \/ StartStep \/ StartFails
    \/ Stop \/ CloseRoom \/ DropRuntime \/ AcceptEnds
    \/ RoomDisconnects \/ DataReceived \/ EventsEnd \/ HandleIncoming \/ ReceiveEnds
    \/ TakeFrame \/ PublishOk \/ PublishFails \/ SendQueueEnds
    \/ \E s \in Sessions :
          Accept(s) \/ Send(s) \/ Enqueue(s) \/ SendFails(s) \/ SessionEnds(s)

Spec == Init /\ [][Next]_vars

\* Tasks run, publish_data and close() return, and the channel lets waiting
\* senders in one after the other.  Nothing is assumed of the start, of the
\* room or of how long a session lasts.
RuntimeFairness ==
    /\ WF_vars(CloseRoom) /\ WF_vars(AcceptEnds) /\ WF_vars(EventsEnd)
    /\ WF_vars(HandleIncoming \/ ReceiveEnds)
    /\ WF_vars(TakeFrame \/ PublishOk \/ PublishFails \/ SendQueueEnds)
    /\ \A s \in Sessions : SF_vars(Enqueue(s)) /\ WF_vars(SendFails(s))

LiveSpec == Spec /\ RuntimeFairness

-----------------------------------------------------------------------------
(* Properties.                                                             *)

\* Every variable keeps its type.
Stages == {"bind", "guest", "create", "join", "token", "connect", "reset", "spawn", "up"}
TypeOK ==
    /\ stage \in Stages
    /\ owner \in {"starting", "failed", "held", "stopping", "stopped", "dropped"}
    /\ listener \in BOOLEAN /\ closed \in BOOLEAN
    /\ room \in {"out", "in", "left"}
    /\ acceptTask \in {"off", "run", "told", "ended"}
    /\ eventTask \in {"off", "run", "ended"} /\ receiveTask \in {"off", "run", "ended"}
    /\ sendTask \in {"off", "recv", "publish", "ended"}
    /\ incoming \in Seq({"frame", "junk"})
    /\ queue \in Seq({"reset", "data"})
    /\ inHand \in {NoFrame, "reset", "data"} /\ first \in {NoFrame, "reset", "data"}
    /\ session \in [Sessions -> {"none", "idle", "enqueue", "refused"}]
    /\ failed \subseteq Sessions

\* Nothing of a session exists before the start has succeeded, and what stop
\* closes is a runtime that was up.
StartedFirst ==
    /\ stage # "up" =>
          /\ owner \in {"starting", "failed"} /\ ~closed
          /\ acceptTask = "off" /\ receiveTask = "off"
          /\ \A s \in Sessions : session[s] = "none"
    /\ stage = "up" => owner \notin {"starting", "failed"}
    /\ owner = "held" => acceptTask = "run"
    /\ \A s \in Sessions : session[s] = "refused" => closed

\* Until something has been published, the reset is ahead of everything else:
\* in the sender's hand or at the head of the queue, or lost with the task.
ResetAhead ==
    /\ stage \in Stages \ {"spawn", "up"} =>
          /\ queue = <<>> /\ first = NoFrame
          /\ sendTask \in (IF stage = "reset" THEN {"recv", "ended"} ELSE {"off"})
    /\ stage \in {"spawn", "up"} /\ first = NoFrame =>
          \/ sendTask = "publish" /\ inHand = "reset"
          \/ sendTask = "recv" /\ queue # <<>> /\ Head(queue) = "reset"
          \/ sendTask = "ended"

\* The first frame the room sees of this client is its reset, which makes the
\* server forget the streams of an earlier run: no frame of a session, however
\* early its connection, overtakes it (client.rs:74).
ResetFirst == first \in {NoFrame, "reset"}

\* Every send returns, also when the queue is full, the room is gone or the
\* runtime has been stopped or dropped meanwhile (wbstream.rs:81).
SendsReturn ==
    \A s \in Sessions : session[s] \in {"enqueue", "refused"}
                            ~> session[s] \notin {"enqueue", "refused"}

\* After stop, once the last session has ended, nothing is left: the port is
\* free, the room is left, and every task has ended, although each waits for
\* another to drop its end of a channel (client.rs:33, wbstream.rs:37).
Released ==
    /\ ~listener /\ room = "left"
    /\ \A task \in {acceptTask, eventTask, sendTask, receiveTask} : task = "ended"
StopReleases ==
    (owner = "stopped" /\ \A s \in Sessions : session[s] = "none")
        ~> (Released \/ \E s \in Sessions : session[s] # "none")

\* The runtime is a link of the kind the sessions rely on: accepting, sending
\* and receiving end for good, and a send fails only once the peer is closed
\* or the queue has lost its reader.
Link == INSTANCE OlcLink WITH
    Callers   <- Sessions,
    began     <- stage = "up",
    accepting <- acceptTask \in {"run", "told"},
    sending   <- stage = "up" /\ ~closed /\ sendTask # "ended",
    receiving <- receiveTask = "run",
    busy      <- {s \in Sessions : session[s] \in {"enqueue", "refused"}}
ImplementsLink == Link!Spec
=============================================================================
