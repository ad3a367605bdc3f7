-------------------------- MODULE OlcClientProofs --------------------------
(***************************************************************************)
(* Proofs about OlcClient: the theorems of OlcMuxProofs hold inside it, and *)
(* what its sessions tell and deliver to their applications.               *)
(***************************************************************************)
EXTENDS OlcClient, OlcMuxProofs

-----------------------------------------------------------------------------
(* Every step of the client is a step of the multiplexer or leaves it.     *)

\* A session step is one method call at most.
LEMMA SessionUsesMux ==
    ASSUME NEW t \in Callers, SessionStep(t)
    PROVE  \/ CallerKeeps(t)
           \/ ReadStream(t) /\ (Answer(t) \/ PumpTake(t))
           \/ UNCHANGED muxVars
<1>1. CASE Accept(t) \/ Greeting(t) \/ GreetingFails(t) \/ RequestSend(t)
    BY <1>1 DEF Accept, Greeting, GreetingFails, RequestSend
<1>2. CASE Open(t) \/ Request(t) \/ Await(t)
    BY <1>2 DEF Open, Request, Await, CallerKeeps
<1>3. CASE AwaitTimesOut(t) \/ DropPumps(t)
    BY <1>3 DEF AwaitTimesOut, DropPumps, DropWait, CallerKeeps
<1>4. CASE PumpWait(t) \/ PumpNumber(t) \/ Close(t)
    BY <1>4 DEF PumpWait, PumpNumber, Close, CallerKeeps
<1>5. CASE Answer(t) \/ PumpTake(t)
    BY <1>5 DEF Answer, PumpTake
<1>6. CASE \/ PumpCheck(t) \/ PumpRead(t) \/ PumpReadEnds(t) \/ PumpSend(t) \/ HangUp(t)
    BY <1>6 DEF PumpCheck, PumpRead, PumpReadEnds, PumpSend, HangUp
<1>7. CASE PumpWrite(t)
    BY <1>7 DEF PumpWrite
<1> QED
    BY <1>1, <1>2, <1>3, <1>4, <1>5, <1>6, <1>7 DEF SessionStep

\* So is every step of the client.
LEMMA ClientNextUsesMux == [ClientNext]_vars => [Next]_muxVars
<1>1. SendBreaks \/ ReceiveBreaks \/ AcceptEnds => UNCHANGED muxVars
    BY DEF SendBreaks, ReceiveBreaks, AcceptEnds, LinkOnly
<1>2. Receive => FrameStep
    BY DEF Receive
<1> QED
    BY <1>1, <1>2, SessionUsesMux DEF ClientNext, Next, vars, CallerStep, CallerKeeps

\* Hence what holds of OlcMux holds of the multiplexer inside the client.
LEMMA ClientUsesMux == ClientSpec => Spec
<1>1. ClientInit => Init
    BY DEF ClientInit
<1> QED
    BY <1>1, ClientNextUsesMux, PTL DEF ClientSpec, Spec

\* No two sessions of the client ever share a stream.
THEOREM ClientSidExclusive == ClientSpec => []SidExclusive
BY ClientUsesMux, MuxSidExclusive, PTL

\* No session of the client misses the signal for data it waits for.
THEOREM ClientNoLostWakeup == ClientSpec => []NoLostWakeup
BY ClientUsesMux, MuxNoLostWakeup, PTL

-----------------------------------------------------------------------------
(* The sessions.                                                           *)

ClientTypeOK ==
    /\ accepting \in BOOLEAN /\ sending \in BOOLEAN /\ receiving \in BOOLEAN
    /\ pc \in [Callers -> {"idle", "greeting", "open", "request", "requestSend", "await",
                           "answer", "relay", "drop", "close"}]
    /\ from \in [Callers -> {"off", "wait", "take", "write", "check"}]
    /\ to \in [Callers -> {"off", "read", "number", "send"}]
    /\ hungUp \in [Callers -> BOOLEAN]
    /\ inHand \in [Callers -> Seq(Chunks)]
    /\ written \in [Callers -> Seq(Chunks)]
    /\ skipped \in [Callers -> Nat]
    /\ reply \in [Callers -> {"none", "success", "unreachable"}]

\* What each place in handle_socks5 says of the session's locals.
Stage(t) ==
    /\ sidOf[t] = NoSid <=> pc[t] \in {"idle", "greeting", "open"}
    /\ pc[t] \notin {"relay", "drop"} => inHand[t] = <<>>
    /\ pc[t] \notin {"relay", "drop", "close"} => written[t] = <<>> /\ reply[t] # "success"
    /\ from[t] \in {"wait", "take", "check"} /\ pc[t] = "relay" => inHand[t] = <<>>

\* What an application was told and given, against what it has read of its
\* stream: the chunks with numbers below FirstUnread.
Unread(t) == FirstUnread(streams[sidOf[t]])
Out(t) == written[t] \o inHand[t]
Given(t) ==
    /\ reply[t] = "success" =>
          sidOf[t] \notin Refused /\ skipped[t] > 0 /\ Unread(t) > 0
    /\ pc[t] = "relay" =>
          /\ Unread(t) = skipped[t] + Len(Out(t))
          /\ \A i \in 1 .. Len(Out(t)) : Out(t)[i] = <<ServerId, skipped[t] + i - 1>>

SessionsInv ==
    /\ ClientTypeOK
    /\ \A t \in Callers : Stage(t)
    /\ ServerTraffic /\ NoWrap => \A t \in Callers : Given(t)

\* The runtime starts without sessions.
LEMMA InitSessions == ClientInit => SessionsInv
<1> SUFFICES ASSUME ClientInit PROVE SessionsInv
    OBVIOUS
<1>1. <<>> \in Seq(Chunks)
    OBVIOUS
<1>2. ClientTypeOK
    BY <1>1 DEF ClientInit, ClientTypeOK
<1>3. \A t \in Callers : Stage(t) /\ Given(t)
    BY DEF ClientInit, Init, Stage, Given
<1> QED
    BY <1>2, <1>3 DEF SessionsInv

\* What read_stream returns is a sequence of chunks.
LEMMA ResponseType ==
    ASSUME TableInv, NEW t \in Callers
    PROVE  Response(t) \in Seq(Chunks) /\ Len(Response(t)) \in Nat
<1>1. Response(t) \in Seq(Chunks)
    BY DEF TableInv, TypeOK, StreamType, Response
<1> QED
    BY <1>1

\* Steps keep the types of the sessions' variables and what their places say.
LEMMA NextStage ==
    ASSUME TableInv, ClientTypeOK, \A t \in Callers : Stage(t), [ClientNext]_vars
    PROVE  ClientTypeOK' /\ \A t \in Callers : Stage(t)'
<1> USE DEF ClientTypeOK, Stage, Goto, linkVars, dataVars, muxVars, callerVars
<1>e. <<>> \in Seq(Chunks)
    OBVIOUS
<1>n. sidOf \in [Callers -> Sids \cup {NoSid}] /\ NoSid \notin Sids
    BY MuxConstants DEF TableInv, TypeOK, Sids, NoSid
<1>1. ASSUME NEW t \in Callers,
             Accept(t) \/ Greeting(t) \/ GreetingFails(t) \/ RequestSend(t) \/ HangUp(t)
      PROVE  ClientTypeOK' /\ \A u \in Callers : Stage(u)'
  <2>1. CASE Accept(t)
      BY <2>1 DEF Accept
  <2>2. CASE Greeting(t)
      BY <2>2 DEF Greeting
  <2>3. CASE GreetingFails(t)
      BY <2>3 DEF GreetingFails
  <2>4. CASE RequestSend(t)
      BY <2>4 DEF RequestSend
  <2>5. CASE HangUp(t)
      BY <2>5 DEF HangUp
  <2> QED
      BY <1>1, <2>1, <2>2, <2>3, <2>4, <2>5
<1>2. ASSUME NEW t \in Callers, Open(t)
      PROVE  ClientTypeOK' /\ \A u \in Callers : Stage(u)'
  <2>1. CASE OpenStream(t) /\ pc' = pc
      BY <1>2, <2>1 DEF Open, OpenStream
  <2>2. CASE TryNextId(t)
    <3> DEFINE sid == IF next_id = 0 THEN 1 ELSE next_id
    <3>1. sid \in Sids /\ t # NoCaller
        BY MuxConstants DEF TableInv, TypeOK, Sids
    <3>2. \/ opener' = t /\ sidOf' = sidOf
          \/ opener' = NoCaller /\ sidOf' = [sidOf EXCEPT ![t] = sid]
        BY <2>2 DEF TryNextId, InsertStream
    <3> HIDE DEF sid
    <3>3. \/ sidOf' = sidOf /\ pc' = pc
          \/ sidOf' = [sidOf EXCEPT ![t] = sid] /\ pc' = [pc EXCEPT ![t] = "request"]
        BY <1>2, <2>2, <3>1, <3>2 DEF Open, OpenStream, TryNextId, LockFree
    <3>4. pc[t] = "open"
          /\ UNCHANGED <<accepting, sending, receiving, from, to, hungUp, inHand, written,
                         skipped, reply>>
        BY <1>2 DEF Open
    <3>5. ClientTypeOK'
        BY <3>3, <3>4
    <3>6. \A u \in Callers : Stage(u)'
        BY <1>n, <3>1, <3>3, <3>4
    <3> QED
        BY <3>5, <3>6
  <2> QED
      BY <1>2, <2>1, <2>2 DEF Open
<1>3. ASSUME NEW t \in Callers, Request(t) \/ PumpNumber(t)
      PROVE  ClientTypeOK' /\ \A u \in Callers : Stage(u)'
    BY <1>3 DEF Request, PumpNumber, SendData
<1>4. ASSUME NEW t \in Callers, Await(t) \/ PumpWait(t)
      PROVE  ClientTypeOK' /\ \A u \in Callers : Stage(u)'
  <2>1. sidOf' = sidOf
      BY <1>4 DEF Await, PumpWait, WaitForData, Wake
  <2>2. CASE Await(t)
    <3>1. pc[t] = "await" /\ (pc' = pc \/ pc' = [pc EXCEPT ![t] = "answer"])
        BY <2>2 DEF Await
    <3> QED
        BY <2>1, <2>2, <3>1 DEF Await
  <2>3. CASE PumpWait(t)
    <3>1. from[t] = "wait" /\ (from' = from \/ from' = [from EXCEPT ![t] = "take"])
        BY <2>3 DEF PumpWait
    <3> QED
        BY <2>1, <2>3, <3>1 DEF PumpWait
  <2> QED
      BY <1>4, <2>2, <2>3
<1>5. ASSUME NEW t \in Callers, AwaitTimesOut(t) \/ DropPumps(t)
      PROVE  ClientTypeOK' /\ \A u \in Callers : Stage(u)'
  <2>1. sidOf' = sidOf
      BY <1>5 DEF AwaitTimesOut, DropPumps, DropWait, AbandonWait
  <2>2. CASE AwaitTimesOut(t)
      BY <2>1, <2>2 DEF AwaitTimesOut
  <2>3. CASE DropPumps(t)
      BY <1>e, <2>1, <2>3 DEF DropPumps
  <2> QED
      BY <1>5, <2>2, <2>3
<1>6. ASSUME NEW t \in Callers, Answer(t)
      PROVE  ClientTypeOK' /\ \A u \in Callers : Stage(u)'
  <2>1. /\ pc[t] = "answer" /\ sidOf' = sidOf
        /\ skipped' = [skipped EXCEPT ![t] = Len(Response(t))]
        /\ UNCHANGED <<accepting, sending, receiving, hungUp, inHand, written>>
      BY <1>6 DEF Answer, ReadStream
  <2>2. \/ /\ reply' = [reply EXCEPT ![t] = "success"]
           /\ pc' = [pc EXCEPT ![t] = "relay"]
           /\ from' = [from EXCEPT ![t] = "wait"]
           /\ to' = [to EXCEPT ![t] = "read"]
        \/ /\ \/ reply' = [reply EXCEPT ![t] = "none"]
              \/ reply' = [reply EXCEPT ![t] = "unreachable"]
           /\ pc' = [pc EXCEPT ![t] = "close"]
           /\ UNCHANGED <<from, to>>
      BY <1>6 DEF Answer
  <2>3. skipped' \in [Callers -> Nat]
      BY <2>1, ResponseType
  <2>4. reply' \in [Callers -> {"none", "success", "unreachable"}]
      BY <2>2
  <2>5. ClientTypeOK'
      BY <2>1, <2>2, <2>3, <2>4
  <2>6. ASSUME NEW u \in Callers PROVE Stage(u)'
    <3>1. CASE u = t
        BY <2>1, <2>2, <3>1
    <3>2. CASE u # t
        BY <2>1, <2>2, <3>2
    <3> QED
        BY <3>1, <3>2
  <2> QED
      BY <2>5, <2>6
<1>7. ASSUME NEW t \in Callers, PumpTake(t)
      PROVE  ClientTypeOK' /\ \A u \in Callers : Stage(u)'
    BY <1>7, ResponseType DEF PumpTake, ReadStream
<1>8. ASSUME NEW t \in Callers, PumpWrite(t)
      PROVE  ClientTypeOK' /\ \A u \in Callers : Stage(u)'
  <2>1. written[t] \o inHand[t] \in Seq(Chunks)
      OBVIOUS
  <2>2. /\ pc[t] = "relay"
        /\ inHand' = [inHand EXCEPT ![t] = <<>>]
        /\ UNCHANGED <<accepting, sending, receiving, to, hungUp, skipped, reply, sidOf>>
        /\ \/ /\ written' = [written EXCEPT ![t] = written[t] \o inHand[t]]
              /\ from' = [from EXCEPT ![t] = "check"] /\ pc' = pc
           \/ /\ pc' = [pc EXCEPT ![t] = "drop"]
              /\ UNCHANGED <<written, from>>
      BY <1>8 DEF PumpWrite
  <2>3. ClientTypeOK'
      BY <1>e, <2>1, <2>2
  <2>4. \A u \in Callers : Stage(u)'
      BY <2>2
  <2> QED
      BY <2>3, <2>4
<1>9. ASSUME NEW t \in Callers,
             PumpCheck(t) \/ PumpRead(t) \/ PumpReadEnds(t) \/ PumpSend(t)
      PROVE  ClientTypeOK' /\ \A u \in Callers : Stage(u)'
    BY <1>9 DEF PumpCheck, PumpRead, PumpReadEnds, PumpSend
<1>10. ASSUME NEW t \in Callers, Close(t)
       PROVE  ClientTypeOK' /\ \A u \in Callers : Stage(u)'
    BY <1>e, <1>n, <1>10 DEF Close, CloseStream
<1>11. CASE SendBreaks \/ ReceiveBreaks \/ AcceptEnds
    BY <1>11 DEF SendBreaks, ReceiveBreaks, AcceptEnds, LinkOnly, Link!SendBreaks,
        Link!ReceiveBreaks, Link!AcceptEnds
<1>12. CASE Receive
  <2>1. sidOf' = sidOf
      BY <1>12 DEF Receive, FrameStep, HandleClose, HandleData, HandleReset, NotifyReader
  <2> QED
      BY <1>12, <2>1 DEF Receive, clientVars
<1>13. CASE UNCHANGED vars
    BY <1>13 DEF vars, clientVars
<1> QED
    BY <1>1, <1>2, <1>3, <1>4, <1>5, <1>6, <1>7, <1>8, <1>9, <1>10, <1>11, <1>12, <1>13
       DEF ClientNext, SessionStep

-----------------------------------------------------------------------------
(* What the applications are told and given.                               *)

\* What is known before and after each step.
Context == TableInv /\ CallersInv /\ ClientTypeOK /\ \A t \in Callers : Stage(t)

\* The stream a session holds stays in the table and stays the server's.
LEMMA StreamStays ==
    ASSUME Context, Context', NEW u \in Callers, sidOf[u] # NoSid, sidOf'[u] = sidOf[u]
    PROVE  /\ sidOf[u] \in DOMAIN streams \cap DOMAIN streams'
           /\ streams'[sidOf[u]].client_id = streams[sidOf[u]].client_id
           /\ streams[sidOf[u]].client_id = ServerId
BY DEF Context, CallersInv

\* A step of one session leaves what the others have read, told and given.
LEMMA OthersKept ==
    ASSUME Context, Context', NEW t \in Callers, SessionStep(t), NEW u \in Callers, u # t
    PROVE  /\ pc'[u] = pc[u] /\ inHand'[u] = inHand[u] /\ written'[u] = written[u]
           /\ skipped'[u] = skipped[u] /\ reply'[u] = reply[u] /\ sidOf'[u] = sidOf[u]
           /\ sidOf[u] # NoSid => Unread(u)' = Unread(u)
<1> USE DEF Context, Goto, linkVars, dataVars, muxVars, callerVars
<1>1. /\ pc'[u] = pc[u] /\ inHand'[u] = inHand[u] /\ written'[u] = written[u]
      /\ skipped'[u] = skipped[u] /\ reply'[u] = reply[u]
  <2>1. CASE Accept(t) \/ Greeting(t) \/ GreetingFails(t) \/ HangUp(t)
      BY <2>1 DEF Accept, Greeting, GreetingFails, HangUp, ClientTypeOK
  <2>6. CASE Open(t) \/ Request(t) \/ RequestSend(t)
      BY <2>6 DEF Open, Request, RequestSend, ClientTypeOK
  <2>7. CASE Await(t) \/ AwaitTimesOut(t)
      BY <2>7 DEF Await, AwaitTimesOut, ClientTypeOK
  <2>2. CASE Answer(t)
      BY <2>2 DEF Answer, ClientTypeOK
  <2>3. CASE PumpWait(t) \/ PumpTake(t) \/ PumpWrite(t) \/ PumpCheck(t)
      BY <2>3 DEF PumpWait, PumpTake, PumpWrite, PumpCheck, ClientTypeOK
  <2>4. CASE PumpRead(t) \/ PumpReadEnds(t) \/ PumpNumber(t) \/ PumpSend(t)
      BY <2>4 DEF PumpRead, PumpReadEnds, PumpNumber, PumpSend, ClientTypeOK
  <2>5. CASE DropPumps(t) \/ Close(t)
      BY <2>5 DEF DropPumps, Close, ClientTypeOK
  <2> QED
      BY <2>1, <2>2, <2>3, <2>4, <2>5, <2>6, <2>7 DEF SessionStep
<1>2. sidOf'[u] = sidOf[u]
  <2>1. CASE CallerKeeps(t)
      BY <2>1 DEF CallerKeeps, OpenStream, TryNextId, InsertStream, SendData, CloseStream,
         WaitForData, Wake, AbandonWait, TableInv, TypeOK
  <2>2. CASE ReadStream(t)
      BY <2>2 DEF ReadStream
  <2> QED
      BY <2>1, <2>2, SessionUsesMux
<1>3. ASSUME sidOf[u] # NoSid PROVE Unread(u)' = Unread(u)
  <2>1. /\ sidOf[u] \in DOMAIN streams \cap DOMAIN streams'
        /\ sidOf[t] # sidOf[u]
      BY <1>2, <1>3, StreamStays DEF CallersInv
  <2>2. FirstUnread(streams'[sidOf[u]]) = FirstUnread(streams[sidOf[u]])
    <3>1. CASE CallerKeeps(t)
        BY <2>1, <3>1, CallerKeepsUnread
    <3>2. CASE ReadStream(t)
        BY <2>1, <3>2, ReadMovesUnread
    <3>3. CASE UNCHANGED muxVars
        BY <3>3
    <3> QED
        BY <3>1, <3>2, <3>3, SessionUsesMux
  <2> QED
      BY <1>2, <2>2 DEF Unread
<1> QED
    BY <1>1, <1>2, <1>3

\* A step that touches nothing Given speaks of keeps it.
LEMMA KeptGiven ==
    ASSUME NEW u \in Callers, Given(u),
           reply[u] = "success" \/ pc[u] = "relay"
                => Unread(u)' = Unread(u) /\ sidOf'[u] = sidOf[u],
           pc'[u] = "relay" => pc[u] = "relay",
           inHand'[u] = inHand[u], written'[u] = written[u],
           skipped'[u] = skipped[u], reply'[u] = reply[u]
    PROVE  Given(u)'
BY DEF Given, Out

\* The stages that neither read, write nor answer.
LEMMA QuietGiven ==
    ASSUME Context, Context', NEW t \in Callers, Given(t),
           \/ Accept(t) \/ Greeting(t) \/ GreetingFails(t) \/ Open(t) \/ Request(t)
           \/ RequestSend(t) \/ Await(t) \/ PumpWait(t) \/ PumpCheck(t) \/ PumpRead(t)
           \/ PumpReadEnds(t) \/ PumpNumber(t) \/ PumpSend(t) \/ HangUp(t)
    PROVE  Given(t)'
<1> USE DEF Goto, linkVars, dataVars
<1>1. /\ UNCHANGED dataVars
      /\ pc'[t] = "relay" => pc[t] = "relay"
  <2>1. CASE Accept(t) \/ Greeting(t) \/ GreetingFails(t) \/ HangUp(t) \/ PumpRead(t)
      BY <2>1 DEF Accept, Greeting, GreetingFails, HangUp, PumpRead, Context, ClientTypeOK
  <2>2. CASE Open(t) \/ Request(t) \/ RequestSend(t) \/ Await(t)
      BY <2>2 DEF Open, Request, RequestSend, Await, Context, ClientTypeOK
  <2>3. CASE \/ PumpWait(t) \/ PumpCheck(t) \/ PumpReadEnds(t) \/ PumpNumber(t) \/ PumpSend(t)
      BY <2>3 DEF PumpWait, PumpCheck, PumpReadEnds, PumpNumber, PumpSend
  <2> QED
      BY <2>1, <2>2, <2>3
<1>2. CASE pc[t] \in {"idle", "greeting", "open"}
    BY <1>1, <1>2, KeptGiven DEF Context, Stage
<1>3. CASE pc[t] \notin {"idle", "greeting", "open"}
  <2>1. CASE UNCHANGED muxVars
      BY <1>1, <2>1, KeptGiven DEF Unread, muxVars
  <2>2. CASE SendData(t) \/ WaitForData(t) \/ Wake(t)
    <3>1. sidOf'[t] = sidOf[t] /\ sidOf[t] # NoSid
        BY <1>3, <2>2 DEF Context, Stage, SendData, WaitForData, Wake, muxVars
    <3>2. Unread(t)' = Unread(t)
        BY <2>2, <3>1, StreamStays, CallerKeepsUnread DEF Context, CallerKeeps, Unread
    <3> QED
        BY <1>1, <3>1, <3>2, KeptGiven DEF dataVars
  <2> QED
      BY <1>3, <2>1, <2>2 DEF Accept, Greeting, GreetingFails, Open, Request, RequestSend,
         Await, PumpWait, PumpCheck, PumpRead, PumpReadEnds, PumpNumber, PumpSend, HangUp
<1> QED
    BY <1>2, <1>3

\* What recv_buf holds, by InOrder and the owner of the stream.
LEMMA ResponseFacts ==
    ASSUME Context, Context', NoWrap, NEW t \in Callers, ReadStream(t)
    PROVE  LET st == streams[sidOf[t]] IN
           /\ sidOf'[t] = sidOf[t] /\ sidOf[t] # NoSid
           /\ Response(t) \in Seq(Chunks) /\ Len(Response(t)) \in Nat
           /\ Unread(t) \in Int /\ Unread(t) >= 0
           /\ Unread(t)' = Unread(t) + Len(Response(t))
           /\ \A i \in 1 .. Len(Response(t)) :
                 Response(t)[i] = <<ServerId, Unread(t) + i - 1>>
<1> DEFINE st == streams[sidOf[t]]
<1>1. sidOf'[t] = sidOf[t] /\ sidOf[t] # NoSid
    BY DEF ReadStream, callerVars
<1>2. /\ sidOf[t] \in DOMAIN streams \cap DOMAIN streams' /\ st.client_id = ServerId
    BY <1>1, StreamStays
<1>3. Response(t) = st.recv_buf
    BY <1>2 DEF Response
<1>4. StreamOK(st)
    BY <1>2 DEF Context, TableInv, TableOK
<1>5. InOrderStream(st) /\ st.next_recv_seq \in Nat /\ st.recv_buf \in Seq(Chunks)
    BY <1>4 DEF StreamOK, StreamType, Seqs
<1>6. Unread(t) = st.next_recv_seq - Len(st.recv_buf)
    BY DEF Unread, FirstUnread
<1>7. Unread(t)' = st.next_recv_seq
    BY <1>1, <1>2, ReadMovesUnread DEF Context, Unread
<1> HIDE DEF st
<1>8. Len(st.recv_buf) \in Nat /\ Len(st.recv_buf) <= st.next_recv_seq
    BY <1>5 DEF InOrderStream
<1> QED
    BY <1>1, <1>2, <1>3, <1>5, <1>6, <1>7, <1>8 DEF InOrderStream

\* The answer of the server: the first chunk of the stream, and what came with
\* it.
LEMMA AnswerGiven ==
    ASSUME Context, Context', NoWrap, NEW t \in Callers, Answer(t)
    PROVE  Given(t)'
<1>1. ReadStream(t)
    BY DEF Answer
<1>2. /\ pc[t] = "answer" /\ skipped'[t] = Len(Response(t))
      /\ inHand'[t] = <<>> /\ written'[t] = <<>>
  <2>1. /\ pc[t] = "answer" /\ UNCHANGED <<inHand, written>>
        /\ skipped' = [skipped EXCEPT ![t] = Len(Response(t))]
      BY DEF Answer
  <2>2. skipped'[t] = Len(Response(t))
      BY <2>1 DEF Context, ClientTypeOK
  <2>3. inHand[t] = <<>> /\ written[t] = <<>>
      BY <2>1 DEF Context, Stage
  <2> QED
      BY <2>1, <2>2, <2>3
<1>3. CASE Accepted(t) /\ reply' = [reply EXCEPT ![t] = "success"]
  <2>1. /\ sidOf[t] \notin Refused /\ Response(t) # <<>>
        /\ Response(t)[1] = <<ServerId, 0>>
      BY <1>3 DEF Accepted
  <2>2. Len(Response(t)) >= 1
      BY <1>1, <2>1, ResponseFacts
  <2>3. Unread(t) = 0
    <3>1. Response(t)[1] = <<ServerId, Unread(t) + 1 - 1>>
        BY <1>1, <2>2, ResponseFacts
    <3> QED
        BY <1>1, <2>1, <3>1, ResponseFacts
  <2>4. Unread(t)' = Len(Response(t)) /\ Len(Response(t)) \in Nat /\ sidOf'[t] = sidOf[t]
      BY <1>1, <2>3, ResponseFacts
  <2>5. Out(t)' = <<>> /\ Len(<<>>) = 0
      BY <1>2 DEF Out
  <2> QED
      BY <1>2, <2>1, <2>2, <2>4, <2>5 DEF Given
<1>4. CASE reply'[t] # "success" /\ pc'[t] # "relay"
    BY <1>4 DEF Given
<1> QED
    BY <1>3, <1>4 DEF Answer, Goto, Context, ClientTypeOK

\* What pump_from_mux takes continues what it has written.
LEMMA TakeGiven ==
    ASSUME Context, Context', NoWrap, NEW t \in Callers, Given(t), PumpTake(t)
    PROVE  Given(t)'
<1>1. ReadStream(t)
    BY DEF PumpTake
<1>2. /\ pc[t] = "relay" /\ pc'[t] = "relay" /\ inHand[t] = <<>>
      /\ inHand'[t] = Response(t) /\ written'[t] = written[t]
      /\ skipped'[t] = skipped[t] /\ reply'[t] = reply[t]
    BY DEF PumpTake, Context, Stage, ClientTypeOK
<1> DEFINE w == written[t]
           r == Response(t)
<1>3. /\ w \in Seq(Chunks) /\ r \in Seq(Chunks) /\ Len(w) \in Nat /\ Len(r) \in Nat
      /\ skipped[t] \in Nat
    BY <1>1, ResponseFacts DEF Context, ClientTypeOK
<1>4. Out(t) = w /\ Out(t)' = w \o r
    BY <1>2, <1>3 DEF Out
<1>5. /\ Unread(t) = skipped[t] + Len(w)
      /\ \A i \in 1 .. Len(w) : w[i] = <<ServerId, skipped[t] + i - 1>>
    BY <1>2, <1>4 DEF Given
<1>6. /\ Unread(t)' = Unread(t) + Len(r) /\ sidOf'[t] = sidOf[t]
      /\ \A i \in 1 .. Len(r) : r[i] = <<ServerId, Unread(t) + i - 1>>
    BY <1>1, ResponseFacts
<1> HIDE DEF w, r
<1>7. /\ Len(w \o r) = Len(w) + Len(r)
      /\ \A i \in 1 .. Len(w) + Len(r) :
            (w \o r)[i] = IF i <= Len(w) THEN w[i] ELSE r[i - Len(w)]
    BY <1>3, ConcatProperties
<1>8. ASSUME NEW i \in 1 .. Len(w) + Len(r)
      PROVE  (w \o r)[i] = <<ServerId, skipped[t] + i - 1>>
  <2>1. CASE i <= Len(w)
      BY <1>3, <1>5, <1>7, <2>1
  <2>2. CASE i > Len(w)
    <3>1. i - Len(w) \in 1 .. Len(r) /\ (w \o r)[i] = r[i - Len(w)]
        BY <1>3, <1>7, <2>2
    <3>2. Unread(t) + (i - Len(w)) - 1 = skipped[t] + i - 1
        BY <1>3, <1>5
    <3> QED
        BY <1>6, <3>1, <3>2
  <2> QED
      BY <1>3, <2>1, <2>2
<1>9. Unread(t)' = skipped[t] + Len(w \o r)
    BY <1>3, <1>5, <1>6, <1>7
<1>10. reply'[t] = "success" =>
          sidOf'[t] \notin Refused /\ skipped'[t] > 0 /\ Unread(t)' > 0
    BY <1>2, <1>3, <1>5, <1>6 DEF Given
<1> QED
    BY <1>2, <1>4, <1>7, <1>8, <1>9, <1>10 DEF Given

\* write_all moves what is in hand to what is written.
LEMMA WriteGiven ==
    ASSUME Context, Context', NEW t \in Callers, Given(t), PumpWrite(t)
    PROVE  Given(t)'
<1>1. /\ pc[t] = "relay" /\ UNCHANGED muxVars /\ skipped' = skipped /\ reply' = reply
      /\ inHand'[t] = <<>>
      /\ \/ written'[t] = written[t] \o inHand[t]
         \/ pc'[t] # "relay"
    BY DEF PumpWrite, Goto, Context, ClientTypeOK
<1>2. Unread(t)' = Unread(t) /\ sidOf'[t] = sidOf[t]
    BY <1>1 DEF Unread, muxVars
<1>3. pc'[t] = "relay" => Out(t)' = Out(t)
  <2>1. written[t] \o inHand[t] \in Seq(Chunks)
      BY DEF Context, ClientTypeOK
  <2>2. (written[t] \o inHand[t]) \o <<>> = written[t] \o inHand[t]
      BY <2>1, ConcatEmptySeq
  <2> QED
      BY <1>1, <2>2 DEF Out
<1> QED
    BY <1>1, <1>2, <1>3 DEF Given

\* The end of a session.
LEMMA EndGiven ==
    ASSUME Context, Context', NEW t \in Callers, Given(t),
           AwaitTimesOut(t) \/ DropPumps(t) \/ Close(t)
    PROVE  Given(t)'
<1>1. CASE AwaitTimesOut(t) \/ Close(t)
  <2>1. reply'[t] # "success" /\ pc'[t] # "relay"
      BY <1>1 DEF AwaitTimesOut, Close, Goto, Context, ClientTypeOK
  <2> QED
      BY <2>1 DEF Given
<1>2. CASE DropPumps(t)
  <2>1. /\ pc[t] = "drop" /\ pc'[t] # "relay" /\ skipped' = skipped /\ reply' = reply
      BY <1>2 DEF DropPumps, Goto, Context, ClientTypeOK
  <2>2. sidOf'[t] = sidOf[t] /\ sidOf[t] # NoSid
      BY <1>2, <2>1 DEF DropPumps, DropWait, AbandonWait, muxVars, Context, Stage
  <2>3. Unread(t)' = Unread(t)
    <3>1. CASE UNCHANGED muxVars
        BY <3>1 DEF muxVars, Unread
    <3>2. CASE AbandonWait(t)
        BY <2>2, <3>2, StreamStays, CallerKeepsUnread DEF Context, CallerKeeps, Unread
    <3> QED
        BY <1>2, <3>1, <3>2 DEF DropPumps, DropWait
  <2> QED
      BY <2>1, <2>2, <2>3 DEF Given
<1> QED
    BY <1>1, <1>2

\* Every step keeps what applications are told and given in line with what the
\* server has sent.
LEMMA NextGiven ==
    ASSUME Context, Context', NoWrap, \A t \in Callers : Given(t), [ClientNext]_vars
    PROVE  \A t \in Callers : Given(t)'
<1>1. ASSUME NEW t \in Callers, SessionStep(t), NEW u \in Callers PROVE Given(u)'
  <2>1. CASE u = t
      BY <1>1, <2>1, QuietGiven, AnswerGiven, TakeGiven, WriteGiven, EndGiven
         DEF SessionStep
  <2>2. CASE u # t
    <3>1. reply[u] = "success" \/ pc[u] = "relay" => sidOf[u] # NoSid
        BY DEF Context, Stage
    <3> QED
        BY <1>1, <2>2, <3>1, OthersKept, KeptGiven
  <2> QED
      BY <2>1, <2>2
<1>2. ASSUME UNCHANGED clientVars, sidOf' = sidOf, FrameStep \/ UNCHANGED muxVars,
             NEW u \in Callers
      PROVE  Given(u)'
  <2>1. sidOf[u] # NoSid => Unread(u)' = Unread(u)
      BY <1>2, StreamStays, FrameKeepsUnread DEF Context, Unread, muxVars
  <2>2. reply[u] = "success" \/ pc[u] = "relay" => sidOf[u] # NoSid
      BY DEF Context, Stage
  <2> QED
      BY <1>2, <2>1, <2>2, KeptGiven DEF clientVars
<1>3. CASE Receive
  <2>1. sidOf' = sidOf
      BY <1>3 DEF Receive, FrameStep, HandleClose, HandleData, HandleReset, NotifyReader,
         callerVars
  <2> QED
      BY <1>2, <1>3, <2>1 DEF Receive
<1>4. CASE SendBreaks \/ ReceiveBreaks \/ AcceptEnds
    BY <1>4, KeptGiven DEF SendBreaks, ReceiveBreaks, AcceptEnds, LinkOnly, dataVars,
       muxVars, Unread
<1>5. CASE UNCHANGED vars
    BY <1>2, <1>5 DEF vars, muxVars
<1> QED
    BY <1>1, <1>3, <1>4, <1>5 DEF ClientNext

\* The table invariant of the multiplexer holds inside the client.
LEMMA ClientTable == ClientSpec => []TableInv
BY ClientUsesMux, SpecTable, PTL

\* So does the invariant about its callers.
LEMMA ClientCallers == ClientSpec => [](ServerTraffic => CallersInv)
BY ClientUsesMux, SpecCallers, PTL

\* Every behaviour of the client satisfies the invariant of the sessions.
LEMMA ClientSessions == ClientSpec => []SessionsInv
<1> DEFINE Mux == TableInv /\ (ServerTraffic => CallersInv)
<1>1. Mux /\ Mux' /\ SessionsInv /\ [ClientNext]_vars => SessionsInv'
  <2> SUFFICES ASSUME Mux, Mux', SessionsInv, [ClientNext]_vars PROVE SessionsInv'
      OBVIOUS
  <2>1. ClientTypeOK' /\ \A t \in Callers : Stage(t)'
      BY NextStage DEF SessionsInv
  <2>2. ASSUME ServerTraffic, NoWrap PROVE \A t \in Callers : Given(t)'
    <3>1. Context /\ Context'
        BY <2>1, <2>2 DEF SessionsInv, Context, ServerTraffic
    <3> QED
        BY <2>2, <3>1, NextGiven DEF SessionsInv
  <2> QED
      BY <2>1, <2>2 DEF SessionsInv, ServerTraffic, NoWrap
<1> QED
    BY <1>1, ClientTable, ClientCallers, InitSessions, PTL DEF ClientSpec

\* The variables of the client keep their types.
THEOREM ClientTypes == ClientSpec => []ClientTypeOK
<1>1. SessionsInv => ClientTypeOK
    BY DEF SessionsInv
<1> QED
    BY <1>1, ClientSessions, PTL

\* An application is told that its tunnel stands only on the word of the server,
\* given on the stream of this session.
THEOREM ClientSuccessIsAcknowledged == ClientSpec => []SuccessIsAcknowledged
<1>1. TableInv /\ (ServerTraffic => CallersInv) /\ SessionsInv => SuccessIsAcknowledged
  <2> SUFFICES ASSUME TableInv, CallersInv, ServerTraffic, NoWrap, SessionsInv,
                      NEW t \in Callers, reply[t] = "success", sidOf[t] # NoSid
               PROVE  /\ sidOf[t] \notin Refused /\ skipped[t] > 0
                      /\ streams[sidOf[t]].next_recv_seq > 0
      BY DEF SuccessIsAcknowledged
  <2>1. sidOf[t] \notin Refused /\ skipped[t] > 0 /\ Unread(t) > 0
      BY DEF SessionsInv, Given
  <2>2. StreamType(streams[sidOf[t]])
      BY DEF TableInv, TypeOK, CallersInv
  <2> QED
      BY <2>1, <2>2 DEF Unread, FirstUnread, StreamType, Seqs
<1> QED
    BY <1>1, ClientTable, ClientCallers, ClientSessions, PTL

\* What an application gets is what the server has sent after its answer, in
\* order, once each and without a gap.
THEOREM ClientRelayContiguous == ClientSpec => []RelayContiguous
<1>1. SessionsInv => RelayContiguous
    BY DEF SessionsInv, Given, RelayContiguous, Out, Unread
<1> QED
    BY <1>1, ClientSessions, PTL

=============================================================================
