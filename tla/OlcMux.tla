------------------------------- MODULE OlcMux -------------------------------
(***************************************************************************)
(* The stream multiplexer of the OLC RTC client, src/olcrtc/mux.rs.        *)
(*                                                                         *)
(* Tasks call open_stream, send_data, wait_for_data, read_stream and       *)
(* close_stream; one more task, the receive loop, calls handle_frame.  They *)
(* share the table `streams' behind a tokio Mutex.  Every section of code  *)
(* that runs under that lock is one action; what a method does before or   *)
(* after the section is an action of its own.                              *)
(*                                                                         *)
(* The link is not a variable.  Any frame of Frames may be handled at any  *)
(* moment, any number of times or never: that covers loss, duplication,    *)
(* reordering and delay.  A chunk of data is <<client id, n>>, the n-th    *)
(* chunk its sender put on the stream; the frame carries only n modulo     *)
(* SeqMod.                                                                 *)
(***************************************************************************)
EXTENDS Integers, Sequences, FiniteSets, Functions

CONSTANTS
    Callers,            \* tasks that use a stream: the SOCKS5 sessions
    SidMod,             \* 2^16: stream ids are u16
    SeqMod,             \* 2^32: sequence numbers are u32
    OutOfOrderLimit,    \* 100: frames a stream keeps ahead of a gap
    SelfId,             \* this client's id
    FrameIds,           \* client ids that data and close frames carry
    ResetIds,           \* client ids that reset frames carry
    ServerId,           \* 0: the id the server's frames carry
    FrameSids,          \* stream ids that frames carry
    SendLimit,          \* bound: chunks a sender puts on one stream
    NotifyIds,          \* identities of tokio::sync::Notify objects
    NoNotify, NoCaller

Sids    == 0 .. SidMod - 1
NoSid   == SidMod
Seqs    == 0 .. SeqMod - 1
Clients == FrameIds \cup {SelfId, ServerId}
Chunks  == Clients \X (0 .. SendLimit - 1)

ASSUME MuxConstants ==
    /\ SidMod \in Nat /\ SidMod > 1
    /\ SeqMod \in Nat /\ OutOfOrderLimit \in Nat /\ OutOfOrderLimit < SeqMod
    /\ SendLimit \in Nat /\ SendLimit < 2 * SeqMod
    /\ FrameSids \subseteq Sids
    /\ NoNotify \notin NotifyIds /\ NoCaller \notin Callers

VARIABLES
    streams,    \* sid -> Stream, a partial function
    next_id,    \* the AtomicU16
    opener,     \* the caller inside open_stream, which keeps the lock, or NoCaller
    permits,    \* Notify objects that hold a permit
    handler,    \* the Notify handle_frame signals once it has let go of the lock
    sidOf,      \* the stream id each caller was given
    reader,     \* where each caller is in wait_for_data
    waitsOn,    \* the Notify each caller cloned
    sent        \* history: chunks each caller has numbered on its stream

muxVars == <<streams, next_id, opener, permits, handler, sidOf, reader, waitsOn, sent>>
callerVars == <<sidOf, reader, waitsOn, sent>>

-----------------------------------------------------------------------------
\* wrapping_add: its argument never reaches twice the modulus.
WrapSid(x) == IF x < SidMod THEN x ELSE x - SidMod
WrapSeq(x) == IF x < SeqMod THEN x ELSE x - SeqMod

EmptyMap == [k \in {} |-> NoNotify]
Put(f, k, v) == [x \in DOMAIN f \cup {k} |-> IF x = k THEN v ELSE f[x]]

Stream(client, notify) ==
    [client_id     |-> client,
     recv_buf      |-> <<>>,
     closed        |-> FALSE,
     next_recv_seq |-> 0,
     next_send_seq |-> 0,
     out_of_order  |-> EmptyMap,
     notify        |-> notify]

\* streams.entry(sid).or_insert_with(..): the notify of the entry if there is
\* one, else a new object, which holds no permit.
NotifiesInUse ==
    {streams[s].notify : s \in DOMAIN streams} \cup {waitsOn[t] : t \in Callers}
        \cup {handler}
NotifyFor(s) ==
    IF s \in DOMAIN streams THEN {streams[s].notify} ELSE NotifyIds \ NotifiesInUse
EntryOr(s, client, notify) ==
    IF s \in DOMAIN streams THEN streams[s] ELSE Stream(client, notify)
PermitsWith(s, notify) ==
    IF s \in DOMAIN streams THEN permits ELSE permits \ {notify}

LockFree == opener = NoCaller

Init ==
    /\ streams = EmptyMap
    /\ next_id = 1
    /\ opener = NoCaller
    /\ permits = {}
    /\ handler = NoNotify
    /\ sidOf = [t \in Callers |-> NoSid]
    /\ reader = [t \in Callers |-> "out"]
    /\ waitsOn = [t \in Callers |-> NoNotify]
    /\ sent = [t \in Callers |-> 0]

-----------------------------------------------------------------------------
(* open_stream: the lock is taken once and kept while ids are tried.       *)

OpenStream(t) ==
    /\ LockFree /\ sidOf[t] = NoSid
    /\ opener' = t
    /\ UNCHANGED <<streams, next_id, permits, handler, sidOf, reader, waitsOn, sent>>

\* Mutant: the number goes to the caller without a look at the table.
InsertStreamBlindly(t, sid) ==
    /\ \E notify \in NotifyFor(sid) :
          /\ streams' = Put(streams, sid, Stream(ServerId, notify))
          /\ permits' = PermitsWith(sid, notify)
    /\ opener' = NoCaller
    /\ sidOf' = [sidOf EXCEPT ![t] = sid]
    /\ sent' = [sent EXCEPT ![t] = 0]

\* Entry::Vacant: the stream is the server's, and open_stream returns.
InsertStream(t, sid) ==
    /\ sid \notin DOMAIN streams
    /\ \E notify \in NotifyFor(sid) :
          /\ streams' = Put(streams, sid, Stream(ServerId, notify))
          /\ permits' = PermitsWith(sid, notify)
    /\ opener' = NoCaller
    /\ sidOf' = [sidOf EXCEPT ![t] = sid]
    /\ sent' = [sent EXCEPT ![t] = 0]

\* Mutant: the counter stops at its last number instead of wrapping.
TryNextIdSaturates(t) ==
    LET sid == IF next_id = 0 THEN 1 ELSE next_id IN
    /\ opener = t
    /\ next_id' = IF next_id = SidMod - 1 THEN next_id ELSE next_id + 1
    /\ \/ /\ sid \in DOMAIN streams
          /\ UNCHANGED <<streams, opener, permits, sidOf, sent>>
       \/ InsertStream(t, sid)
    /\ UNCHANGED <<handler, reader, waitsOn>>

\* One turn of the loop: fetch_add, 0 replaced by 1, Entry::Vacant or again.
TryNextId(t) ==
    LET sid == IF next_id = 0 THEN 1 ELSE next_id IN
    /\ opener = t
    /\ next_id' = WrapSid(next_id + 1)
    /\ \/ /\ sid \in DOMAIN streams
          /\ UNCHANGED <<streams, opener, permits, sidOf, sent>>
       \/ InsertStream(t, sid)
    /\ UNCHANGED <<handler, reader, waitsOn>>

Live(s) == s \in DOMAIN streams /\ ~ streams[s].closed

\* send_data numbers one chunk under the lock; a closed or missing stream
\* makes it return Ok without sending.
SendData(t) ==
    /\ LockFree /\ sidOf[t] # NoSid
    /\ \/ /\ Live(sidOf[t]) /\ sent[t] < SendLimit
          /\ streams' = [streams EXCEPT ![sidOf[t]].next_send_seq = WrapSeq(@ + 1)]
          /\ sent' = [sent EXCEPT ![t] = @ + 1]
          /\ UNCHANGED <<next_id, opener, permits, handler, sidOf, reader, waitsOn>>
       \/ /\ ~ Live(sidOf[t])
          /\ UNCHANGED muxVars

\* close_stream marks the entry and leaves it in the table.  The caller is
\* done with the stream: handle_socks5 closes it last.
CloseStream(t) ==
    /\ LockFree /\ sidOf[t] # NoSid /\ reader[t] = "out"
    /\ IF sidOf[t] \in DOMAIN streams
         THEN /\ streams' = [streams EXCEPT ![sidOf[t]].closed = TRUE]
              /\ permits' = permits \cup {streams[sidOf[t]].notify}
         ELSE UNCHANGED <<streams, permits>>
    /\ sidOf' = [sidOf EXCEPT ![t] = NoSid]
    /\ UNCHANGED <<next_id, opener, handler, reader, waitsOn, sent>>

-----------------------------------------------------------------------------
(* wait_for_data and read_stream.                                          *)

Readable(s) ==
    s \in DOMAIN streams /\ (streams[s].recv_buf # <<>> \/ streams[s].closed)

\* One turn of the loop: return, or clone the Notify and wait on it.  A
\* missing stream is created again, owned by this client.
WaitForData(t) ==
    /\ LockFree /\ sidOf[t] # NoSid /\ reader[t] \in {"out", "check"}
    /\ \/ /\ Readable(sidOf[t])
          /\ reader' = [reader EXCEPT ![t] = "out"]
          /\ UNCHANGED <<streams, permits, waitsOn>>
       \/ /\ ~ Readable(sidOf[t])
          /\ \E notify \in NotifyFor(sidOf[t]) :
                /\ streams' = Put(streams, sidOf[t], EntryOr(sidOf[t], SelfId, notify))
                /\ permits' = PermitsWith(sidOf[t], notify)
                /\ waitsOn' = [waitsOn EXCEPT ![t] = notify]
          /\ reader' = [reader EXCEPT ![t] = "parked"]
    /\ UNCHANGED <<next_id, opener, handler, sidOf, sent>>

\* notify.notified() completes and takes the permit.
Wake(t) ==
    /\ reader[t] = "parked" /\ waitsOn[t] \in permits
    /\ permits' = permits \ {waitsOn[t]}
    /\ reader' = [reader EXCEPT ![t] = "check"]
    /\ waitsOn' = [waitsOn EXCEPT ![t] = NoNotify]
    /\ UNCHANGED <<streams, next_id, opener, handler, sidOf, sent>>

\* The future is dropped: the 30 s timeout of setup_tunnel, or select! after
\* the other pump has ended.
AbandonWait(t) ==
    /\ reader[t] # "out"
    /\ reader' = [reader EXCEPT ![t] = "out"]
    /\ waitsOn' = [waitsOn EXCEPT ![t] = NoNotify]
    /\ UNCHANGED <<streams, next_id, opener, permits, handler, sidOf, sent>>

ReadStream(t) ==
    /\ LockFree /\ sidOf[t] # NoSid /\ reader[t] = "out"
    /\ IF sidOf[t] \in DOMAIN streams
         THEN streams' = [streams EXCEPT ![sidOf[t]].recv_buf = <<>>]
         ELSE UNCHANGED streams
    /\ UNCHANGED <<next_id, opener, permits, handler, callerVars>>

-----------------------------------------------------------------------------
(* handle_frame, called by the receive loop for one frame after another.   *)

\* The first k numbers from q on are in the map, the next one is not: how
\* many frames the while loop of handle_frame takes out of out_of_order.
DrainsNothing(map, q, k) == k = 0       \* mutant: no while loop
Drains(map, q, k) ==
    /\ \A i \in 0 .. k - 1 : WrapSeq(q + i) \in DOMAIN map
    /\ WrapSeq(q + k) \notin DOMAIN map
DrainedKeys(q, k) == {WrapSeq(q + i) : i \in 0 .. k - 1}

\* Mutants: what another client sent stays in the buffers; and every frame
\* makes the stream anew.
OwnedKeepsBuffers(old, client) == [old EXCEPT !.client_id = client]
OwnedAlwaysNew(old, client) == Stream(client, old.notify)
\* The entry as handle_frame finds it: another client's stream of the same
\* number is replaced, all but its Notify.
Owned(old, client) ==
    IF old.client_id = client THEN old ELSE Stream(client, old.notify)

Append1AndDrain(st, chunk, k) ==
    LET q == WrapSeq(st.next_recv_seq + 1) IN
    [st EXCEPT !.recv_buf = @ \o <<chunk>> \o
                                [i \in 1 .. k |-> st.out_of_order[WrapSeq(q + i - 1)]],
               !.next_recv_seq = WrapSeq(q + k),
               !.out_of_order = Restrict(@, DOMAIN @ \ DrainedKeys(q, k))]

HasRoom(st) == Cardinality(DOMAIN st.out_of_order) < OutOfOrderLimit

HandleData(client, s, n) ==
    /\ LockFree /\ handler = NoNotify
    /\ \E notify \in NotifyFor(s) :
         LET st  == Owned(EntryOr(s, client, notify), client)
             seq == WrapSeq(n)
         IN
         /\ permits' = PermitsWith(s, notify)
         /\ \/ /\ seq = st.next_recv_seq
               /\ Len(st.recv_buf) < SendLimit
               /\ \E k \in 0 .. OutOfOrderLimit :
                    /\ Drains(st.out_of_order, WrapSeq(st.next_recv_seq + 1), k)
                    /\ streams' = Put(streams, s, Append1AndDrain(st, <<client, n>>, k))
               /\ handler' = notify
            \/ /\ seq > st.next_recv_seq /\ HasRoom(st)
               /\ streams' = Put(streams, s, [st EXCEPT !.out_of_order =
                                                   Put(@, seq, <<client, n>>)])
               /\ UNCHANGED handler
            \/ /\ seq # st.next_recv_seq
               /\ seq < st.next_recv_seq \/ ~ HasRoom(st)
               /\ streams' = Put(streams, s, st)
               /\ UNCHANGED handler
    /\ UNCHANGED <<next_id, opener, callerVars>>

\* Mutant: the reader is not told.
HandleCloseSilent(client, s) ==
    /\ LockFree /\ handler = NoNotify
    /\ s \in DOMAIN streams /\ streams[s].client_id = client
    /\ streams' = [streams EXCEPT ![s].closed = TRUE]
    /\ UNCHANGED <<next_id, opener, permits, handler, callerVars>>

\* mark_closed
HandleClose(client, s) ==
    /\ LockFree /\ handler = NoNotify
    /\ IF s \in DOMAIN streams /\ streams[s].client_id = client
         THEN /\ streams' = [streams EXCEPT ![s].closed = TRUE]
              /\ handler' = streams[s].notify
         ELSE UNCHANGED <<streams, handler>>
    /\ UNCHANGED <<next_id, opener, permits, callerVars>>

\* Mutant: a task that waits on a removed stream is not told.
HandleResetSilent(client) ==
    /\ LockFree /\ handler = NoNotify
    /\ streams' = Restrict(streams, {s \in DOMAIN streams : streams[s].client_id # client})
    /\ UNCHANGED <<next_id, opener, permits, handler, callerVars>>

\* reset_client, for a control frame of kind CONTROL_RESET_CLIENT.
HandleReset(client) ==
    LET gone == {s \in DOMAIN streams : streams[s].client_id = client} IN
    /\ LockFree /\ handler = NoNotify
    /\ streams' = Restrict(streams, DOMAIN streams \ gone)
    /\ permits' = permits \cup {streams[s].notify : s \in gone}
    /\ UNCHANGED <<next_id, opener, handler, callerVars>>

\* Mutant: notify_waiters(), which leaves no permit for a task that has not
\* begun to wait.
NotifyReaderNoPermit ==
    /\ handler # NoNotify
    /\ handler' = NoNotify
    /\ UNCHANGED <<streams, next_id, opener, permits, callerVars>>

\* The notify_one() that handle_frame and mark_closed issue after the lock.
NotifyReader ==
    /\ handler # NoNotify
    /\ permits' = permits \cup {handler}
    /\ handler' = NoNotify
    /\ UNCHANGED <<streams, next_id, opener, callerVars>>

-----------------------------------------------------------------------------
CallerStep(t) ==
    \/ OpenStream(t) \/ TryNextId(t) \/ SendData(t) \/ CloseStream(t)
    \/ WaitForData(t) \/ Wake(t) \/ AbandonWait(t) \/ ReadStream(t)

FrameStep ==
    \/ \E client \in FrameIds, s \in FrameSids :
          \/ HandleClose(client, s)
          \/ \E n \in 0 .. SendLimit - 1 : HandleData(client, s, n)
    \/ \E client \in ResetIds : HandleReset(client)
    \/ NotifyReader

Next == (\E t \in Callers : CallerStep(t)) \/ FrameStep

Spec == Init /\ [][Next]_muxVars

\* The receive loop and the woken tasks keep running, and the tokio Mutex is
\* fair: a task in its queue gets the lock even if others keep taking it.
Fairness ==
    /\ WF_muxVars(NotifyReader)
    /\ \A t \in Callers :
          /\ WF_muxVars(TryNextId(t))
          /\ WF_muxVars(Wake(t))
          /\ SF_muxVars(reader[t] = "check" /\ WaitForData(t))

FairSpec == Spec /\ Fairness

-----------------------------------------------------------------------------
(* Properties.                                                             *)

StreamType(st) ==
    /\ st = [client_id |-> st.client_id, recv_buf |-> st.recv_buf, closed |-> st.closed,
             next_recv_seq |-> st.next_recv_seq, next_send_seq |-> st.next_send_seq,
             out_of_order |-> st.out_of_order, notify |-> st.notify]
    /\ st.client_id \in Clients
    /\ st.recv_buf \in Seq(Chunks)
    /\ st.closed \in BOOLEAN
    /\ st.next_recv_seq \in Seqs
    /\ st.next_send_seq \in Seqs
    /\ st.notify \in NotifyIds
    /\ DOMAIN st.out_of_order \subseteq Seqs
    /\ \A q \in DOMAIN st.out_of_order : st.out_of_order[q] \in Chunks

\* Every variable keeps its type; the table is a map from u16 to Stream.
TypeOK ==
    /\ DOMAIN streams \subseteq Sids
    /\ \A s \in DOMAIN streams : StreamType(streams[s])
    /\ next_id \in Sids
    /\ opener \in Callers \cup {NoCaller}
    /\ permits \subseteq NotifyIds
    /\ handler \in NotifyIds \cup {NoNotify}
    /\ sidOf \in [Callers -> Sids \cup {NoSid}]
    /\ reader \in [Callers -> {"out", "check", "parked"}]
    /\ waitsOn \in [Callers -> NotifyIds \cup {NoNotify}]
    /\ sent \in [Callers -> 0 .. SendLimit]

\* No stream carries as many chunks as there are sequence numbers.
NoWrap == SendLimit < SeqMod

\* What is in recv_buf is a run of consecutive chunks of the one client that
\* owns the stream, and the run ends just before next_recv_seq: whatever the
\* link loses, repeats or reorders, handle_frame never lets a gap, a repeat or
\* a chunk of another client into the bytes a reader gets.
InOrderStream(st) ==
    /\ Len(st.recv_buf) <= st.next_recv_seq
    /\ st.next_recv_seq <= SendLimit
    /\ \A i \in 1 .. Len(st.recv_buf) :
          st.recv_buf[i] = <<st.client_id, st.next_recv_seq - Len(st.recv_buf) + i - 1>>
InOrder == NoWrap => \A s \in DOMAIN streams : InOrderStream(streams[s])

\* out_of_order holds only chunks beyond the gap, each under its own number:
\* the drain loop has left none that is due, and none is behind.
WindowStream(st) ==
    \A q \in DOMAIN st.out_of_order :
        /\ q > st.next_recv_seq
        /\ st.out_of_order[q] = <<st.client_id, q>>
WindowAhead == NoWrap => \A s \in DOMAIN streams : WindowStream(streams[s])

\* out_of_order never holds more than the 100 frames its guard allows.
WindowBounded ==
    \A s \in DOMAIN streams :
        Cardinality(DOMAIN streams[s].out_of_order) <= OutOfOrderLimit

\* A chunk that read_stream has handed out is never handed out again while the
\* stream keeps its owner: the first number still to be read never goes back.
FirstUnread(st) == st.next_recv_seq - Len(st.recv_buf)
ReadOnce ==
    [][NoWrap => \A s \in DOMAIN streams \cap DOMAIN streams' :
          /\ streams'[s].client_id = streams[s].client_id
          /\ streams'[s].notify = streams[s].notify
          => FirstUnread(streams'[s]) >= FirstUnread(streams[s])]_muxVars

\* The room carries frames of the server only, and nobody resets client id 0
\* (send_client_reset refuses to).  The three properties of callers hold then: a
\* frame of another client takes a stream over (mux.rs:163), resets its
\* next_send_seq, and a reset of that client removes it.
ServerTraffic == FrameIds \subseteq {ServerId} /\ ServerId \notin ResetIds

\* With only the server's frames in the room, two callers never work on the same
\* stream, even after next_id has wrapped (mux.rs:61): a stream that a caller
\* holds stays in the table.
SidExclusive ==
    ServerTraffic =>
        \A t \in Callers : sidOf[t] # NoSid =>
            /\ sidOf[t] \in DOMAIN streams
            /\ \A u \in Callers \ {t} : sidOf[u] # sidOf[t]

\* With only the server's frames in the room, send_data numbers the chunks of a
\* stream 0, 1, 2, ..., up to the wrap with no number used twice (mux.rs:84),
\* whatever frames of the server arrive, close or are repeated meanwhile, and
\* whichever other callers open, send and reset.
SendSeqTracksCaller ==
    ServerTraffic =>
        \A t \in Callers : sidOf[t] # NoSid =>
            streams[sidOf[t]].next_send_seq = WrapSeq(sent[t])

\* With only the server's frames in the room, no wakeup is lost between the
\* check of wait_for_data, which releases the lock before it waits, and the
\* notify_one of handle_frame, issued after the lock is released: a caller that
\* waits on a stream that has data or is closed is about to be woken.
Awaited(t) ==
    /\ sidOf[t] \in DOMAIN streams /\ streams[sidOf[t]].notify = waitsOn[t]
    /\ ~ Readable(sidOf[t])
NoLostWakeup ==
    ServerTraffic =>
        \A t \in Callers : reader[t] = "parked" =>
            Awaited(t) \/ waitsOn[t] \in permits \/ handler = waitsOn[t]

\* What makes the three above inductive, with only the server's frames: all
\* streams are the server's, each has a Notify of its own, and a caller waits
\* on the Notify of the stream it was given.
CallerDiscipline ==
    ServerTraffic =>
        /\ \A s \in DOMAIN streams : streams[s].client_id = ServerId
        /\ \A s, r \in DOMAIN streams : streams[s].notify = streams[r].notify => s = r
        /\ \A t \in Callers : reader[t] # "out" => sidOf[t] # NoSid
        /\ \A t \in Callers : reader[t] = "parked" =>
                                  waitsOn[t] = streams[sidOf[t]].notify
        /\ opener # NoCaller => sidOf[opener] = NoSid

\* All stream ids are taken.
TableFull == 1 .. SidMod - 1 \subseteq DOMAIN streams

\* open_stream returns whenever an id is free, wherever next_id stands: the
\* loop gets past ids in use, past the wrap at 2^16 and past id 0.
OpenReturns ==
    \A t \in Callers : (opener = t /\ ~ TableFull) ~> opener # t

\* What wait_for_data waits for gets it out of its loop, also in a room where a
\* foreign client takes streams over and resets remove the entry it waits on, so
\* that the data come under another Notify (mux.rs:213, mux.rs:247).  This is
\* about one caller: a foreign reset may give its number to a second one, and of
\* two that wait on one Notify a single permit wakes one.
DataWakes ==
    \A t \in Callers :
        (reader[t] # "out" /\ Readable(sidOf[t]))
            ~> (reader[t] = "out" \/ ~ Readable(sidOf[t]))
=============================================================================
