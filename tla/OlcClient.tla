------------------------------ MODULE OlcClient ------------------------------
(***************************************************************************)
(* The local SOCKS5 proxy of the OLC RTC client, src/olcrtc/client.rs, on  *)
(* top of the multiplexer (OlcMux) and of the link that OlcRuntime shows    *)
(* the runtime and its peer to be (OlcLink).                               *)
(*                                                                         *)
(* A caller of OlcMux is one task that accept_loop spawns for a connection: *)
(* it runs handle_socks5 and is one step of it at a time.  The two pumps   *)
(* of a tunnel are polled by one select!, so each has a place of its own.  *)
(* What the server answers on stream s is its first chunk: 0x00, or, for   *)
(* the streams of Refused, something else.                                 *)
(***************************************************************************)
EXTENDS OlcMux

CONSTANTS Refused       \* streams whose connect request the server turns down

ASSUME RefusedAssumption == Refused \subseteq Sids

VARIABLES
    accepting,  \* accept_loop runs
    sending,    \* WbStreamPeer.send succeeds: not closed, its queue has a reader
    receiving,  \* the room still delivers frames
    pc,         \* where each session is in handle_socks5
    from,       \* where its pump_from_mux is
    to,         \* where its pump_to_mux is
    hungUp,     \* the application has closed its end of the connection
    inHand,     \* chunks read_stream returned that are not written yet
    written,    \* chunks written to the application
    skipped,    \* history: chunks that setup_tunnel read together with the answer
    reply       \* the SOCKS5 reply given to the application

clientVars == <<accepting, sending, receiving, pc, from, to, hungUp, inHand, written,
                skipped, reply>>
vars == <<muxVars, clientVars>>
linkVars == <<accepting, sending, receiving>>
dataVars == <<inHand, written, skipped, reply>>

\* The link once it stands; what is sent on it is the sessions' own affair.
Link == INSTANCE OlcLink WITH began <- TRUE, busy <- {}, failed <- {}

\* OlcRtcRuntime::start has succeeded.
ClientInit ==
    /\ Init
    /\ accepting = TRUE /\ sending = TRUE /\ receiving = TRUE
    /\ pc = [t \in Callers |-> "idle"]
    /\ from = [t \in Callers |-> "off"]
    /\ to = [t \in Callers |-> "off"]
    /\ hungUp = [t \in Callers |-> FALSE]
    /\ inHand = [t \in Callers |-> <<>>]
    /\ written = [t \in Callers |-> <<>>]
    /\ skipped = [t \in Callers |-> 0]
    /\ reply = [t \in Callers |-> "none"]

Goto(t, p) == pc' = [pc EXCEPT ![t] = p]

-----------------------------------------------------------------------------
(* accept_loop and the SOCKS5 greeting.                                    *)

Accept(t) ==
    /\ accepting /\ pc[t] = "idle"
    /\ Goto(t, "greeting")
    /\ UNCHANGED <<muxVars, linkVars, from, to, hungUp, dataVars>>

\* socks5_handshake and socks5_request.
Greeting(t) ==
    /\ pc[t] = "greeting"
    /\ Goto(t, "open")
    /\ UNCHANGED <<muxVars, linkVars, from, to, hungUp, dataVars>>

\* A bad version, command, address type or domain, or a short read, ends the
\* task before it has a stream.
GreetingFails(t) ==
    /\ pc[t] = "greeting"
    /\ Goto(t, "idle")
    /\ hungUp' = [hungUp EXCEPT ![t] = FALSE]
    /\ UNCHANGED <<muxVars, linkVars, from, to, dataVars>>

Open(t) ==
    /\ pc[t] = "open"
    /\ \/ OpenStream(t) /\ UNCHANGED pc
       \/ TryNextId(t) /\ IF opener' = NoCaller THEN Goto(t, "request") ELSE UNCHANGED pc
    /\ UNCHANGED <<linkVars, from, to, hungUp, dataVars>>

-----------------------------------------------------------------------------
(* setup_tunnel.                                                           *)

\* The future of wait_for_data is dropped, polled or not.
DropWait(t) == IF reader[t] = "out" THEN UNCHANGED muxVars ELSE AbandonWait(t)

\* mux.send_data(request).await?: number the chunk, then hand it to the peer.
Request(t) ==
    /\ pc[t] = "request" /\ SendData(t)
    /\ Goto(t, IF Live(sidOf[t]) THEN "requestSend" ELSE "await")
    /\ UNCHANGED <<linkVars, from, to, hungUp, dataVars>>

RequestSend(t) ==
    /\ pc[t] = "requestSend"
    /\ \/ Goto(t, "await")
       \/ Link!MaySendFail /\ Goto(t, "close")
    /\ UNCHANGED <<muxVars, linkVars, from, to, hungUp, dataVars>>

\* timeout(TUNNEL_SETUP_TIMEOUT, mux.wait_for_data(sid))
Await(t) ==
    /\ pc[t] = "await"
    /\ \/ WaitForData(t) /\ IF reader'[t] = "out" THEN Goto(t, "answer") ELSE UNCHANGED pc
       \/ Wake(t) /\ UNCHANGED pc
    /\ UNCHANGED <<linkVars, from, to, hungUp, dataVars>>

AwaitTimesOut(t) ==
    /\ pc[t] = "await" /\ DropWait(t)
    /\ Goto(t, "close")
    /\ reply' = [reply EXCEPT ![t] = "unreachable"]
    /\ UNCHANGED <<linkVars, from, to, hungUp, inHand, written, skipped>>

\* response.first() == Some(&0x00); the rest of the response is not used.
Response(t) ==
    IF sidOf[t] \in DOMAIN streams THEN streams[sidOf[t]].recv_buf ELSE <<>>
AcceptedAny(t) == Response(t) # <<>>       \* mutant: the byte is not looked at
Accepted(t) ==
    Response(t) # <<>> /\ Head(Response(t)) = <<ServerId, 0>> /\ sidOf[t] \notin Refused

\* A reply to an application that has hung up may fail, and with it the setup.
Answer(t) ==
    /\ pc[t] = "answer" /\ ReadStream(t)
    /\ skipped' = [skipped EXCEPT ![t] = Len(Response(t))]
    /\ \/ /\ Accepted(t)
          /\ reply' = [reply EXCEPT ![t] = "success"]
          /\ Goto(t, "relay")
          /\ from' = [from EXCEPT ![t] = "wait"]
          /\ to' = [to EXCEPT ![t] = "read"]
       \/ /\ Accepted(t) => hungUp[t]
          /\ reply' = [reply EXCEPT ![t] = IF Accepted(t) THEN "none" ELSE "unreachable"]
          /\ Goto(t, "close")
          /\ UNCHANGED <<from, to>>
    /\ UNCHANGED <<linkVars, hungUp, inHand, written>>

-----------------------------------------------------------------------------
(* pump_from_mux.                                                          *)

PumpWait(t) ==
    /\ from[t] = "wait" /\ pc[t] = "relay"
    /\ \/ /\ WaitForData(t)
          /\ from' = IF reader'[t] = "out" THEN [from EXCEPT ![t] = "take"] ELSE from
       \/ Wake(t) /\ UNCHANGED from
    /\ UNCHANGED <<linkVars, pc, to, hungUp, dataVars>>

PumpTake(t) ==
    /\ from[t] = "take" /\ pc[t] = "relay" /\ ReadStream(t)
    /\ inHand' = [inHand EXCEPT ![t] = Response(t)]
    /\ from' = [from EXCEPT ![t] = IF Response(t) = <<>> THEN "check" ELSE "write"]
    /\ UNCHANGED <<linkVars, pc, to, hungUp, written, skipped, reply>>

\* Mutant: write instead of write_all.
PumpWriteSome(t) ==
    /\ from[t] = "write" /\ pc[t] = "relay"
    /\ written' = [written EXCEPT ![t] = Append(@, Head(inHand[t]))]
    /\ from' = [from EXCEPT ![t] = "check"]
    /\ inHand' = [inHand EXCEPT ![t] = <<>>]
    /\ UNCHANGED <<muxVars, linkVars, pc, to, hungUp, skipped, reply>>

\* writer.write_all(&data): a broken connection ends the pump, and select!
\* with it.
PumpWrite(t) ==
    /\ from[t] = "write" /\ pc[t] = "relay"
    /\ \/ /\ written' = [written EXCEPT ![t] = @ \o inHand[t]]
          /\ from' = [from EXCEPT ![t] = "check"]
          /\ UNCHANGED <<muxVars, pc, to>>
       \/ /\ hungUp[t]
          /\ Goto(t, "drop")
          /\ UNCHANGED <<muxVars, written, from, to>>
    /\ inHand' = [inHand EXCEPT ![t] = <<>>]
    /\ UNCHANGED <<linkVars, hungUp, skipped, reply>>

\* Mutant: the loop goes on when the stream is closed.
PumpCheckNot(t) ==
    /\ from[t] = "check" /\ pc[t] = "relay" /\ LockFree
    /\ from' = [from EXCEPT ![t] = "wait"]
    /\ UNCHANGED <<muxVars, linkVars, pc, to, hungUp, dataVars>>

\* mux.stream_closed(sid): a missing stream counts as closed.
PumpCheck(t) ==
    /\ from[t] = "check" /\ pc[t] = "relay" /\ LockFree
    /\ IF Live(sidOf[t])
         THEN from' = [from EXCEPT ![t] = "wait"] /\ UNCHANGED pc
         ELSE Goto(t, "drop") /\ UNCHANGED from
    /\ UNCHANGED <<muxVars, linkVars, to, hungUp, dataVars>>

-----------------------------------------------------------------------------
(* pump_to_mux.                                                            *)

\* reader.read: some bytes (one chunk of them), or the end of the stream.
PumpRead(t) ==
    /\ to[t] = "read" /\ pc[t] = "relay"
    /\ sent[t] < SendLimit
    /\ to' = [to EXCEPT ![t] = "number"]
    /\ UNCHANGED <<muxVars, linkVars, pc, from, hungUp, dataVars>>

\* Mutant: Ok(0) is taken for an empty read, and read again.
PumpReadAgain(t) ==
    /\ to[t] = "read" /\ pc[t] = "relay" /\ hungUp[t]
    /\ UNCHANGED vars

PumpReadEnds(t) ==
    /\ to[t] = "read" /\ pc[t] = "relay" /\ hungUp[t]
    /\ Goto(t, "drop")
    /\ UNCHANGED <<muxVars, linkVars, from, to, hungUp, dataVars>>

PumpNumber(t) ==
    /\ to[t] = "number" /\ pc[t] = "relay" /\ SendData(t)
    /\ to' = [to EXCEPT ![t] = IF Live(sidOf[t]) THEN "send" ELSE "read"]
    /\ UNCHANGED <<linkVars, pc, from, hungUp, dataVars>>

PumpSend(t) ==
    /\ to[t] = "send" /\ pc[t] = "relay"
    /\ \/ to' = [to EXCEPT ![t] = "read"] /\ UNCHANGED pc
       \/ Link!MaySendFail /\ Goto(t, "drop") /\ UNCHANGED to
    /\ UNCHANGED <<muxVars, linkVars, from, hungUp, dataVars>>

-----------------------------------------------------------------------------
(* The end of handle_socks5.                                               *)

\* select! drops the pump that has not ended, wherever it stands.
DropPumps(t) ==
    /\ pc[t] = "drop"
    /\ DropWait(t)
    /\ Goto(t, "close")
    /\ from' = [from EXCEPT ![t] = "off"]
    /\ to' = [to EXCEPT ![t] = "off"]
    /\ inHand' = [inHand EXCEPT ![t] = <<>>]
    /\ UNCHANGED <<linkVars, hungUp, written, skipped, reply>>

\* The task ends; t stands for the next connection from here on.
Close(t) ==
    /\ pc[t] = "close" /\ CloseStream(t)
    /\ Goto(t, "idle")
    /\ hungUp' = [hungUp EXCEPT ![t] = FALSE]
    /\ written' = [written EXCEPT ![t] = <<>>]
    /\ skipped' = [skipped EXCEPT ![t] = 0]
    /\ reply' = [reply EXCEPT ![t] = "none"]
    /\ UNCHANGED <<linkVars, from, to, inHand>>

-----------------------------------------------------------------------------
(* The surroundings.                                                       *)

HangUp(t) ==
    /\ pc[t] # "idle" /\ ~ hungUp[t]
    /\ hungUp' = [hungUp EXCEPT ![t] = TRUE]
    /\ UNCHANGED <<muxVars, linkVars, pc, from, to, dataVars>>

\* What may become of the link at any time: WbStreamPeer.send fails from now
\* on, as publish_data has failed or the peer is closed; the receive loop has
\* ended, and no stream is marked closed; the accept loop has ended, as the
\* runtime was stopped or dropped.  The tasks of the sessions are left alone.
LinkOnly == UNCHANGED <<muxVars, pc, from, to, hungUp, dataVars>>
SendBreaks == Link!SendBreaks /\ LinkOnly
ReceiveBreaks == Link!ReceiveBreaks /\ LinkOnly
AcceptEnds == Link!AcceptEnds /\ LinkOnly

Receive ==
    /\ receiving \/ handler # NoNotify
    /\ FrameStep
    /\ UNCHANGED clientVars

SessionStep(t) ==
    \/ Accept(t) \/ Greeting(t) \/ GreetingFails(t) \/ Open(t) \/ Request(t)
    \/ RequestSend(t) \/ Await(t) \/ AwaitTimesOut(t) \/ Answer(t)
    \/ PumpWait(t) \/ PumpTake(t) \/ PumpWrite(t) \/ PumpCheck(t)
    \/ PumpRead(t) \/ PumpReadEnds(t) \/ PumpNumber(t) \/ PumpSend(t)
    \/ DropPumps(t) \/ Close(t) \/ HangUp(t)

ClientNext ==
    \/ \E t \in Callers : SessionStep(t)
    \/ SendBreaks \/ ReceiveBreaks \/ AcceptEnds \/ Receive

ClientSpec == ClientInit /\ [][ClientNext]_vars

\* Tasks keep running, the Mutex is fair and the 30 s timer fires.  Two calls
\* have no time limit in the code: peer.send, which returns as OlcRuntime shows
\* (SendsReturn), and write_all, which is assumed to: it waits for an
\* application that is still connected to read.  Nothing is assumed of the
\* server or of what the room delivers.  handle_socks5 and each pump are at one
\* place at a time, so one condition covers each of them.
ClientFairness ==
    /\ WF_vars(NotifyReader /\ UNCHANGED clientVars)
    /\ \A t \in Callers :
          /\ SF_vars(\/ hungUp[t] /\ GreetingFails(t)
                     \/ Open(t) \/ Request(t) \/ RequestSend(t) \/ AwaitTimesOut(t)
                     \/ Answer(t) \/ DropPumps(t) \/ Close(t))
          /\ SF_vars(PumpWait(t) \/ PumpTake(t) \/ PumpWrite(t) \/ PumpCheck(t))
          /\ SF_vars(PumpReadEnds(t) \/ PumpNumber(t) \/ PumpSend(t))

FairClientSpec == ClientSpec /\ ClientFairness

-----------------------------------------------------------------------------
(* Properties.                                                             *)

\* What the application gets is what the server sent, in order and without a
\* gap, from the first chunk after the ones that setup_tunnel consumed; what
\* is on its way is in the pump's hand or in recv_buf.
RelayContiguous ==
    ServerTraffic /\ NoWrap =>
        \A t \in Callers : pc[t] = "relay" =>
            LET out == written[t] \o inHand[t] IN
            /\ FirstUnread(streams[sidOf[t]]) = skipped[t] + Len(out)
            /\ \A i \in 1 .. Len(out) : out[i] = <<ServerId, skipped[t] + i - 1>>

\* An application is told that the tunnel stands only if the server has
\* accepted the request made on this very stream, and no other session's data
\* can be taken for that answer.
SuccessIsAcknowledged ==
    ServerTraffic /\ NoWrap =>
        \A t \in Callers : reply[t] = "success" /\ sidOf[t] # NoSid =>
            /\ sidOf[t] \notin Refused
            /\ skipped[t] > 0
            /\ streams[sidOf[t]].next_recv_seq > 0

\* The lock is never given back by an open_stream that finds no free id.
LockLost == TableFull /\ opener # NoCaller

\* A session ends once its application has hung up, whatever the server sends
\* or fails to send: nothing in handle_socks5 waits for its frames for good.
HangUpEndsSession ==
    \A t \in Callers : (hungUp[t] /\ pc[t] # "idle") ~> (pc[t] = "idle" \/ LockLost)

\* A stream that the server has closed ends its session.
CloseEndsSession ==
    \A t \in Callers :
        (pc[t] = "relay" /\ ~ Live(sidOf[t])) ~> (pc[t] # "relay" \/ LockLost)

\* Data that has reached the stream of a running tunnel is taken out of it.
DataIsTaken ==
    \A t \in Callers :
        (pc[t] = "relay" /\ Response(t) # <<>>)
            ~> (pc[t] # "relay" \/ Response(t) = <<>> \/ LockLost)
=============================================================================
