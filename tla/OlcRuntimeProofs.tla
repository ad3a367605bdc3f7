-------------------------- MODULE OlcRuntimeProofs --------------------------
(***************************************************************************)
(* Proofs about OlcRuntime, for any number of sessions and any size of the *)
(* queues: the reset is published first, and the runtime implements the    *)
(* link of OlcLink.                                                        *)
(***************************************************************************)
EXTENDS OlcRuntime, TLAPS

IInv == TypeOK /\ StartedFirst /\ ResetAhead /\ ResetFirst

USE DEF Stages, NoFrame

\* What the steps do to the two sequences keeps them sequences of frames.
LEMMA SeqTypes ==
    ASSUME NEW S, NEW q \in Seq(S)
    PROVE  /\ <<>> \in Seq(S)
           /\ \A x \in S : Append(q, x) \in Seq(S)
           /\ q # <<>> => Tail(q) \in Seq(S) /\ Head(q) \in S
OBVIOUS

\* A runtime that has not begun to start satisfies the invariant.
LEMMA InitIInv == Init => IInv
<1> SUFFICES ASSUME Init PROVE IInv
    OBVIOUS
<1>0. <<>> \in Seq({"frame", "junk"}) /\ <<>> \in Seq({"reset", "data"})
    OBVIOUS
<1>1. TypeOK
    BY <1>0 DEF Init, TypeOK
<1>2. StartedFirst /\ ResetAhead /\ ResetFirst
    BY DEF Init, StartedFirst, ResetAhead, ResetFirst
<1> QED
    BY <1>1, <1>2 DEF IInv

\* No step takes a variable out of its type.
LEMMA TypeOKStep == TypeOK /\ [Next]_vars => TypeOK'
<1> SUFFICES ASSUME TypeOK, [Next]_vars PROVE TypeOK'
    OBVIOUS
<1> USE DEF TypeOK, startVars, peerVars, taskVars, frameVars, sessionVars
<1> DEFINE Payloads == {"frame", "junk"}
           Frames == {"reset", "data"}
<1>q. /\ <<>> \in Seq(Frames)
      /\ \A x \in Frames : Append(queue, x) \in Seq(Frames)
      /\ queue # <<>> => Tail(queue) \in Seq(Frames) /\ Head(queue) \in Frames
    BY SeqTypes
<1>i. /\ \A x \in Payloads : Append(incoming, x) \in Seq(Payloads)
      /\ incoming # <<>> => Tail(incoming) \in Seq(Payloads)
    BY SeqTypes
<1>1. CASE Bind \/ RoomToken \/ ConnectRoom \/ SpawnLoops \/ StartFails
    BY <1>1 DEF Bind, RoomToken, ConnectRoom, SpawnLoops, StartsTo, StartFails
<1>2. CASE SendClientReset
    BY <1>2, <1>q DEF SendClientReset, StartsTo
<1>3. CASE Stop \/ CloseRoom \/ DropRuntime \/ AcceptEnds
    BY <1>3 DEF Stop, CloseRoom, DropRuntime, AcceptEnds
<1>4. CASE RoomDisconnects \/ EventsEnd \/ ReceiveEnds
    BY <1>4 DEF RoomDisconnects, EventsEnd, ReceiveEnds
<1>5. CASE DataReceived
    BY <1>5, <1>i DEF DataReceived
<1>6. CASE HandleIncoming
    BY <1>6, <1>i DEF HandleIncoming
<1>7. CASE TakeFrame
    BY <1>7, <1>q DEF TakeFrame
<1>8. CASE PublishOk \/ SendQueueEnds
    BY <1>8 DEF PublishOk, SendQueueEnds
<1>9. CASE PublishFails
    BY <1>9, <1>q DEF PublishFails
<1>10. ASSUME NEW s \in Sessions, Accept(s) \/ Send(s) \/ SendFails(s) \/ SessionEnds(s)
       PROVE  TypeOK'
    BY <1>10 DEF Accept, Send, SendFails, SessionEnds
<1>11. ASSUME NEW s \in Sessions, Enqueue(s)
       PROVE  TypeOK'
    BY <1>11, <1>q DEF Enqueue
<1>12. CASE UNCHANGED vars
    BY <1>12 DEF vars
<1> QED
    BY <1>1, <1>2, <1>3, <1>4, <1>5, <1>6, <1>7, <1>8, <1>9, <1>10, <1>11, <1>12
       DEF Next, StartStep

\* No step brings a session, a loop or a close before the start has succeeded.
LEMMA StartedFirstStep == TypeOK /\ StartedFirst /\ [Next]_vars => StartedFirst'
<1> SUFFICES ASSUME TypeOK, StartedFirst, [Next]_vars PROVE StartedFirst'
    OBVIOUS
<1> USE DEF TypeOK, StartedFirst, startVars, peerVars, taskVars, frameVars, sessionVars
<1>1. CASE StartStep \/ StartFails
    BY <1>1 DEF StartStep, Bind, RoomToken, ConnectRoom, SendClientReset, SpawnLoops,
        StartsTo, StartFails
<1>2. CASE Stop \/ CloseRoom \/ DropRuntime \/ AcceptEnds
    BY <1>2 DEF Stop, CloseRoom, DropRuntime, AcceptEnds
<1>3. CASE RoomDisconnects \/ DataReceived \/ EventsEnd \/ HandleIncoming \/ ReceiveEnds
    BY <1>3 DEF RoomDisconnects, DataReceived, EventsEnd, HandleIncoming, ReceiveEnds
<1>4. CASE TakeFrame \/ PublishOk \/ PublishFails \/ SendQueueEnds
    BY <1>4 DEF TakeFrame, PublishOk, PublishFails, SendQueueEnds
<1>5. ASSUME NEW s \in Sessions,
             Accept(s) \/ Send(s) \/ Enqueue(s) \/ SendFails(s) \/ SessionEnds(s)
      PROVE  StartedFirst'
    BY <1>5 DEF Accept, Send, Enqueue, SendFails, SessionEnds
<1>6. CASE UNCHANGED vars
    BY <1>6 DEF vars
<1> QED
    BY <1>1, <1>2, <1>3, <1>4, <1>5, <1>6 DEF Next

\* No frame gets ahead of the reset, and no other frame is published first.
LEMMA ResetAheadStep == IInv /\ [Next]_vars => ResetAhead' /\ ResetFirst'
<1> SUFFICES ASSUME TypeOK, StartedFirst, ResetAhead, ResetFirst, [Next]_vars
             PROVE  ResetAhead' /\ ResetFirst'
    BY DEF IInv
<1> USE DEF TypeOK, ResetAhead, ResetFirst, startVars, peerVars, taskVars, frameVars,
        sessionVars
<1>1. CASE StartStep \/ StartFails
    BY <1>1 DEF StartedFirst, StartStep, Bind, RoomToken, ConnectRoom, SendClientReset,
        SpawnLoops, StartsTo, StartFails
<1>2. CASE Stop \/ CloseRoom \/ DropRuntime \/ AcceptEnds
    BY <1>2 DEF Stop, CloseRoom, DropRuntime, AcceptEnds
<1>3. CASE RoomDisconnects \/ DataReceived \/ EventsEnd \/ HandleIncoming \/ ReceiveEnds
    BY <1>3 DEF RoomDisconnects, DataReceived, EventsEnd, HandleIncoming, ReceiveEnds
<1>4. CASE TakeFrame \/ PublishOk \/ PublishFails \/ SendQueueEnds
    BY <1>4 DEF TakeFrame, PublishOk, PublishFails, SendQueueEnds
<1>5. ASSUME NEW s \in Sessions,
             Accept(s) \/ Send(s) \/ Enqueue(s) \/ SendFails(s) \/ SessionEnds(s)
      PROVE  ResetAhead' /\ ResetFirst'
    BY <1>5 DEF StartedFirst, Accept, Send, Enqueue, SendFails, SessionEnds
<1>6. CASE UNCHANGED vars
    BY <1>6 DEF vars
<1> QED
    BY <1>1, <1>2, <1>3, <1>4, <1>5, <1>6 DEF Next

\* The invariant holds throughout.
LEMMA SpecIInv == Spec => []IInv
<1>1. IInv /\ [Next]_vars => IInv'
    BY TypeOKStep, StartedFirstStep, ResetAheadStep DEF IInv
<1> QED
    BY <1>1, InitIInv, PTL DEF Spec

\* However early a connection comes and whatever breaks, the first frame of
\* this client in the room is its reset (client.rs:74).
THEOREM RuntimeResetFirst == Spec => []ResetFirst
<1>1. IInv => ResetFirst
    BY DEF IInv
<1> QED
    BY <1>1, SpecIInv, PTL

-----------------------------------------------------------------------------
(* The refinement: every step of the runtime is one of the link, or none.  *)

USE DEF Link!linkVars, Link!ends

\* A start that has not succeeded is no step of the link; its last is Begin.
LEMMA StartRefines ==
    ASSUME TypeOK, StartedFirst, StartStep \/ StartFails
    PROVE  [Link!Next]_(Link!linkVars)
<1> USE DEF TypeOK, StartedFirst, startVars, peerVars, taskVars, frameVars, sessionVars
<1>1. CASE SpawnLoops
  <2>1. Link!Begin
      BY <1>1 DEF SpawnLoops, Link!Begin
  <2> QED
      BY <2>1 DEF Link!Next
<1>2. CASE StartFails
    BY <1>2 DEF StartFails
<1>3. CASE Bind \/ RoomToken \/ ConnectRoom \/ SendClientReset
    BY <1>3 DEF Bind, RoomToken, ConnectRoom, SendClientReset, StartsTo
<1> QED
    BY <1>1, <1>2, <1>3 DEF StartStep

\* What the code does to the link is one of its three ends, or nothing.
LEMMA EndsRefine ==
    ASSUME TypeOK, StartedFirst,
           \/ Stop \/ CloseRoom \/ DropRuntime \/ AcceptEnds
           \/ RoomDisconnects \/ DataReceived \/ EventsEnd \/ HandleIncoming \/ ReceiveEnds
           \/ TakeFrame \/ PublishOk \/ PublishFails \/ SendQueueEnds
    PROVE  [Link!Next]_(Link!linkVars)
<1> USE DEF TypeOK, StartedFirst, startVars, peerVars, taskVars, frameVars, sessionVars
<1>1. CASE Stop
    BY <1>1 DEF Stop, Link!Next, Link!SendBreaks
<1>2. CASE AcceptEnds
    BY <1>2 DEF AcceptEnds, Link!Next, Link!AcceptEnds
<1>3. CASE ReceiveEnds
    BY <1>3 DEF ReceiveEnds, Link!Next, Link!ReceiveBreaks
<1>4. CASE PublishFails \/ SendQueueEnds
    BY <1>4 DEF PublishFails, SendQueueEnds, Link!Next, Link!SendBreaks
<1>5. CASE CloseRoom \/ DropRuntime \/ RoomDisconnects \/ DataReceived \/ EventsEnd
           \/ HandleIncoming \/ TakeFrame \/ PublishOk
    BY <1>5 DEF CloseRoom, DropRuntime, RoomDisconnects, DataReceived, EventsEnd,
        HandleIncoming, TakeFrame, PublishOk
<1> QED
    BY <1>1, <1>2, <1>3, <1>4, <1>5

\* A session's send is a send on the link, and fails only when it may.
LEMMA SessionRefines ==
    ASSUME TypeOK, StartedFirst, NEW s \in Sessions,
           Accept(s) \/ Send(s) \/ Enqueue(s) \/ SendFails(s) \/ SessionEnds(s)
    PROVE  [Link!Next]_(Link!linkVars)
<1> USE DEF TypeOK, StartedFirst, startVars, peerVars, taskVars, frameVars, sessionVars
<1>1. CASE Accept(s)
    BY <1>1 DEF Accept
<1>2. CASE Send(s)
  <2>1. Link!Send(s)
      BY <1>2 DEF Send, Link!Send
  <2> QED
      BY <2>1 DEF Link!Next
<1>3. CASE Enqueue(s)
  <2>1. Link!SendEnds(s)
      BY <1>3 DEF Enqueue, Link!SendEnds
  <2> QED
      BY <2>1 DEF Link!Next
<1>4. CASE SendFails(s)
  <2>1. Link!SendFails(s)
      BY <1>4 DEF SendFails, Link!SendFails, Link!MaySendFail
  <2> QED
      BY <2>1 DEF Link!Next
<1>5. CASE SessionEnds(s)
  <2>1. CASE session[s] = "idle"
      BY <1>5, <2>1 DEF SessionEnds
  <2>2. CASE session[s] = "enqueue"
    <3>1. Link!SendEnds(s)
        BY <1>5, <2>2 DEF SessionEnds, Link!SendEnds
    <3> QED
        BY <3>1 DEF Link!Next
  <2> QED
      BY <1>5, <2>1, <2>2 DEF SessionEnds
<1> QED
    BY <1>1, <1>2, <1>3, <1>4, <1>5

\* The runtime of client.rs and the peer of wbstream.rs are a link of the kind
\* OlcClient runs on.
THEOREM RuntimeImplementsLink == Spec => ImplementsLink
<1>1. Init => Link!Init
    BY DEF Init, Link!Init
<1>2. IInv /\ [Next]_vars => [Link!Next]_(Link!linkVars)
  <2> SUFFICES ASSUME TypeOK, StartedFirst, [Next]_vars
               PROVE  [Link!Next]_(Link!linkVars)
      BY DEF IInv
  <2>1. CASE UNCHANGED vars
      BY <2>1 DEF vars, startVars, peerVars, taskVars, frameVars, sessionVars
  <2> QED
      BY <2>1, StartRefines, EndsRefine, SessionRefines DEF Next
<1> QED
    BY <1>1, <1>2, SpecIInv, PTL DEF Spec, ImplementsLink, Link!Spec
=============================================================================
