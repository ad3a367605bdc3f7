---------------------------- MODULE OlcMuxProofs ----------------------------
(***************************************************************************)
(* Proofs about OlcMux, for any number of callers, any moduli and limits,  *)
(* and a link that loses, repeats and reorders frames as it likes.         *)
(***************************************************************************)
EXTENDS OlcMux, FiniteSetTheorems, SequenceTheorems, TLAPS

\* What holds of each stream by itself.
StreamOK(st) ==
    /\ StreamType(st)
    /\ Cardinality(DOMAIN st.out_of_order) <= OutOfOrderLimit
    /\ NoWrap => InOrderStream(st) /\ WindowStream(st)
TableOK(f) == DOMAIN f \subseteq Sids /\ \A s \in DOMAIN f : StreamOK(f[s])

\* A wrapped number is a sequence number.
LEMMA WrapType == \A x \in 0 .. 2 * SeqMod - 1 : WrapSeq(x) \in Seqs
BY MuxConstants DEF WrapSeq, Seqs

\* A new stream, of open_stream, wait_for_data or handle_frame, is in order.
LEMMA FreshOK ==
    ASSUME NEW c \in Clients, NEW n \in NotifyIds
    PROVE  StreamOK(Stream(c, n))
<1>1. Cardinality(DOMAIN EmptyMap) = 0
    BY FS_EmptySet DEF EmptyMap
<1>2. StreamType(Stream(c, n))
    BY MuxConstants DEF StreamType, Stream, EmptyMap, Seqs
<1>3. InOrderStream(Stream(c, n)) /\ WindowStream(Stream(c, n))
    BY MuxConstants DEF InOrderStream, WindowStream, Stream, EmptyMap
<1> QED
    BY <1>1, <1>2, <1>3, MuxConstants DEF StreamOK, Stream

\* Storing a good stream keeps a good table.
LEMMA PutOK ==
    ASSUME NEW f, TableOK(f), NEW s \in Sids, NEW st, StreamOK(st)
    PROVE  TableOK(Put(f, s, st))
BY DEF TableOK, Put

\* The set of stored numbers is finite.
LEMMA WindowFinite ==
    ASSUME NEW st, StreamOK(st)
    PROVE  IsFiniteSet(DOMAIN st.out_of_order)
           /\ Cardinality(DOMAIN st.out_of_order) \in Nat
<1>1. IsFiniteSet(Seqs)
    BY FS_Interval, MuxConstants DEF Seqs
<1> QED
    BY <1>1, FS_Subset, FS_CardinalityType DEF StreamOK, StreamType

-----------------------------------------------------------------------------
(* What the methods do to one stream.                                      *)

\* close_stream and mark_closed.
LEMMA SetClosedOK ==
    ASSUME NEW st, StreamOK(st), NEW b \in BOOLEAN
    PROVE  StreamOK([st EXCEPT !.closed = b])
BY DEF StreamOK, StreamType, InOrderStream, WindowStream

\* A stream that is closed is as good as before.
LEMMA CloseOK ==
    ASSUME NEW st, StreamOK(st)
    PROVE  StreamOK([st EXCEPT !.closed = TRUE])
BY SetClosedOK

\* send_data.
LEMMA SendOK ==
    ASSUME NEW st, StreamOK(st)
    PROVE  StreamOK([st EXCEPT !.next_send_seq = WrapSeq(@ + 1)])
<1>1. WrapSeq(st.next_send_seq + 1) \in Seqs
    BY MuxConstants DEF StreamOK, StreamType, WrapSeq, Seqs
<1> QED
    BY <1>1 DEF StreamOK, StreamType, InOrderStream, WindowStream

\* read_stream.
LEMMA ReadOK ==
    ASSUME NEW st, StreamOK(st)
    PROVE  StreamOK([st EXCEPT !.recv_buf = <<>>])
BY MuxConstants DEF StreamOK, StreamType, InOrderStream, WindowStream, Seqs

\* handle_frame puts a chunk beyond the gap aside.
LEMMA StoreOK ==
    ASSUME NEW st, StreamOK(st), NEW n \in 0 .. SendLimit - 1,
           st.client_id \in Clients,
           WrapSeq(n) > st.next_recv_seq,
           Cardinality(DOMAIN st.out_of_order) < OutOfOrderLimit
    PROVE  StreamOK([st EXCEPT !.out_of_order = Put(@, WrapSeq(n), <<st.client_id, n>>)])
<1> DEFINE q    == WrapSeq(n)
           map  == Put(st.out_of_order, q, <<st.client_id, n>>)
           next == [st EXCEPT !.out_of_order = map]
<1>1. q \in Seqs /\ <<st.client_id, n>> \in Chunks
    BY MuxConstants DEF WrapSeq, Seqs, Chunks
<1>2. /\ DOMAIN map = DOMAIN st.out_of_order \cup {q}
      /\ \A k \in DOMAIN map : map[k] = IF k = q THEN <<st.client_id, n>>
                                                 ELSE st.out_of_order[k]
    BY DEF Put
<1>3. /\ next.client_id = st.client_id /\ next.recv_buf = st.recv_buf
      /\ next.next_recv_seq = st.next_recv_seq /\ next.out_of_order = map
      /\ StreamType(next)
    <2> HIDE DEF map
    <2> QED
        BY <1>1, <1>2 DEF StreamOK, StreamType
<1>4. Cardinality(DOMAIN map) <= OutOfOrderLimit
    BY <1>2, WindowFinite, FS_AddElement, MuxConstants
<1>5. ASSUME NoWrap PROVE InOrderStream(next)
    <2> HIDE DEF next
    <2> QED
        BY <1>3, <1>5 DEF StreamOK, InOrderStream
<1>6. ASSUME NoWrap PROVE WindowStream(next)
    <2>1. q = n
        BY <1>6, MuxConstants DEF NoWrap, WrapSeq
    <2>2. q > st.next_recv_seq
        OBVIOUS
    <2> HIDE DEF next, map, q
    <2> QED
        BY <1>2, <1>3, <1>6, <2>1, <2>2 DEF StreamOK, WindowStream
<1> HIDE DEF next, map
<1>7. StreamOK(next)
    BY <1>3, <1>4, <1>5, <1>6 DEF StreamOK
<1> QED
    BY <1>7 DEF next, map

\* handle_frame takes the chunk that is due and drains what follows it.
LEMMA AppendOK ==
    ASSUME NEW st, StreamOK(st), NEW n \in 0 .. SendLimit - 1,
           WrapSeq(n) = st.next_recv_seq,
           NEW k \in 0 .. OutOfOrderLimit,
           Drains(st.out_of_order, WrapSeq(st.next_recv_seq + 1), k)
    PROVE  /\ StreamOK(Append1AndDrain(st, <<st.client_id, n>>, k))
           /\ NoWrap => FirstUnread(Append1AndDrain(st, <<st.client_id, n>>, k))
                            = FirstUnread(st)
           /\ Append1AndDrain(st, <<st.client_id, n>>, k).client_id = st.client_id
<1> DEFINE c    == st.client_id
           q    == WrapSeq(st.next_recv_seq + 1)
           map  == st.out_of_order
           tail == [i \in 1 .. k |-> map[WrapSeq(q + i - 1)]]
           buf  == st.recv_buf \o <<<<c, n>>>> \o tail
           rest == Restrict(map, DOMAIN map \ DrainedKeys(q, k))
           next == Append1AndDrain(st, <<c, n>>, k)
<1>1. /\ c \in Clients /\ st.recv_buf \in Seq(Chunks) /\ st.next_recv_seq \in Seqs
      /\ DOMAIN map \subseteq Seqs /\ \A j \in DOMAIN map : map[j] \in Chunks
      /\ q \in Seqs /\ k \in Nat /\ k < SeqMod /\ SeqMod \in Nat /\ SendLimit \in Nat
    BY MuxConstants, SMTT(30) DEF StreamOK, StreamType, WrapSeq, Seqs
<1>2. \A i \in 1 .. k : WrapSeq(q + i - 1) \in DOMAIN map
  <2> SUFFICES ASSUME NEW i \in 1 .. k PROVE WrapSeq(q + i - 1) \in DOMAIN map
      OBVIOUS
  <2>1. i - 1 \in 0 .. k - 1 /\ q + (i - 1) = q + i - 1
      BY <1>1 DEF Seqs
  <2>2. \A j \in 0 .. k - 1 : WrapSeq(q + j) \in DOMAIN map
      BY DEF Drains
  <2> HIDE DEF q, map
  <2> QED
      BY <2>1, <2>2
<1>3. tail \in Seq(Chunks) /\ Len(tail) = k /\ \A i \in 1 .. k : tail[i] = map[WrapSeq(q + i - 1)]
    <2> HIDE DEF q, map
    <2> QED
        BY <1>1, <1>2
<1>4. <<<<c, n>>>> \in Seq(Chunks)
    BY <1>1 DEF Chunks
<1>5. /\ buf \in Seq(Chunks)
      /\ Len(buf) = Len(st.recv_buf) + 1 + k
      /\ \A i \in 1 .. Len(buf) :
            buf[i] = IF i <= Len(st.recv_buf) THEN st.recv_buf[i]
                     ELSE IF i = Len(st.recv_buf) + 1 THEN <<c, n>>
                     ELSE tail[i - Len(st.recv_buf) - 1]
  <2> DEFINE front == st.recv_buf \o <<<<c, n>>>>
  <2>1. /\ front \in Seq(Chunks) /\ Len(front) = Len(st.recv_buf) + 1
        /\ \A i \in 1 .. Len(front) :
              front[i] = IF i <= Len(st.recv_buf) THEN st.recv_buf[i] ELSE <<c, n>>
      <3> HIDE DEF c
      <3> QED
          BY <1>1, <1>4, ConcatProperties
  <2>2. buf = front \o tail
      OBVIOUS
  <2>3. Len(st.recv_buf) \in Nat
      BY <1>1
  <2> HIDE DEF front, tail, c
  <2>4. /\ front \o tail \in Seq(Chunks)
        /\ Len(front \o tail) = Len(front) + Len(tail)
        /\ \A i \in 1 .. Len(front) + Len(tail) : (front \o tail)[i] =
                IF i <= Len(front) THEN front[i] ELSE tail[i - Len(front)]
      BY <1>3, <2>1, ConcatProperties
  <2>5. Len(buf) = Len(st.recv_buf) + 1 + k
      BY <1>1, <1>3, <2>1, <2>2, <2>4
  <2> HIDE DEF buf
  <2>6. ASSUME NEW i \in 1 .. Len(buf)
        PROVE  buf[i] = IF i <= Len(st.recv_buf) THEN st.recv_buf[i]
                        ELSE IF i = Len(st.recv_buf) + 1 THEN <<c, n>>
                        ELSE tail[i - Len(st.recv_buf) - 1]
    <3>1. i \in 1 .. Len(st.recv_buf) + 1 + k /\ k \in Nat /\ Len(front) = Len(st.recv_buf) + 1
        BY <1>1, <2>1, <2>5
    <3>2. buf[i] = IF i <= Len(front) THEN front[i] ELSE tail[i - Len(front)]
        BY <1>3, <2>2, <2>4, <3>1
    <3>3. i - Len(front) = i - Len(st.recv_buf) - 1
        BY <2>3, <3>1
    <3>4. CASE i <= Len(front)
      <4>1. i \in 1 .. Len(front)
          BY <3>1, <3>4, <2>3
      <4> QED
          BY <3>1, <3>2, <3>4, <4>1, <2>1, <2>3
    <3>5. CASE ~ (i <= Len(front))
        BY <3>1, <3>2, <3>3, <3>5, <2>3
    <3> QED
        BY <3>4, <3>5
  <2> QED
      BY <2>2, <2>4, <2>5, <2>6
<1>6. /\ DOMAIN rest = DOMAIN map \ DrainedKeys(q, k)
      /\ \A j \in DOMAIN rest : rest[j] = map[j]
    BY DEF Restrict
<1>7. WrapSeq(q + k) \in Seqs
    <2> HIDE DEF q
    <2> QED
        BY <1>1 DEF Seqs, WrapSeq
<1>8. next = [st EXCEPT !.recv_buf = buf, !.next_recv_seq = WrapSeq(q + k),
                        !.out_of_order = rest]
    BY DEF Append1AndDrain
<1>9. /\ next.client_id = c /\ next.recv_buf = buf
      /\ next.next_recv_seq = WrapSeq(q + k) /\ next.out_of_order = rest
      /\ StreamType(next)
    <2> HIDE DEF next, buf, rest, q
    <2>1. /\ next.client_id = c /\ next.recv_buf = buf
          /\ next.next_recv_seq = WrapSeq(q + k) /\ next.out_of_order = rest
          /\ next.closed = st.closed /\ next.next_send_seq = st.next_send_seq
          /\ next.notify = st.notify
          /\ next = [client_id |-> next.client_id, recv_buf |-> next.recv_buf,
                     closed |-> next.closed, next_recv_seq |-> next.next_recv_seq,
                     next_send_seq |-> next.next_send_seq,
                     out_of_order |-> next.out_of_order, notify |-> next.notify]
        BY <1>8 DEF StreamOK, StreamType
    <2> QED
        BY <1>1, <1>5, <1>6, <1>7, <2>1 DEF StreamOK, StreamType
<1>10. Cardinality(DOMAIN rest) <= OutOfOrderLimit
    <2>1. Cardinality(DOMAIN rest) <= Cardinality(DOMAIN map)
        BY <1>6, WindowFinite, FS_Subset
    <2>2. Cardinality(DOMAIN rest) \in Nat
        BY <1>6, WindowFinite, FS_Subset, FS_CardinalityType
    <2> QED
        BY <2>1, <2>2, WindowFinite, MuxConstants DEF StreamOK
<1>11. ASSUME NoWrap
       PROVE  InOrderStream(next) /\ WindowStream(next) /\ FirstUnread(next) = FirstUnread(st)
  <2>1. /\ SendLimit < SeqMod /\ st.next_recv_seq = n /\ q = n + 1
        /\ \A j \in DOMAIN map : j > n /\ j < SendLimit /\ map[j] = <<c, j>>
        /\ Len(st.recv_buf) <= n
        /\ \A i \in 1 .. Len(st.recv_buf) : st.recv_buf[i] = <<c, n - Len(st.recv_buf) + i - 1>>
    <3>1. SendLimit < SeqMod /\ st.next_recv_seq = n
        BY <1>1, <1>11 DEF NoWrap, WrapSeq
    <3>2. q = n + 1
        BY <3>1, <1>1 DEF WrapSeq
    <3>3. \A j \in DOMAIN map : j > n /\ map[j] = <<c, j>>
        BY <3>1, <1>11 DEF StreamOK, WindowStream
    <3>4. \A j \in DOMAIN map : j < SendLimit
        BY <3>3, <1>1 DEF Chunks
    <3> QED
        BY <3>1, <3>2, <3>3, <3>4, <1>11 DEF StreamOK, InOrderStream
  <2>2. Len(st.recv_buf) \in Nat /\ Len(buf) = Len(st.recv_buf) + 1 + k
      BY <1>1, <1>5
  <2>n. n \in Nat /\ k \in Nat /\ q = n + 1 /\ SeqMod \in Nat /\ k < SeqMod
      BY <1>1, <2>1
  <2> HIDE DEF next, buf, rest, tail, q, map, c
  <2>3. \A i \in 1 .. k : WrapSeq(q + i - 1) = n + i /\ n + i < SendLimit
    <3> SUFFICES ASSUME NEW i \in 1 .. k
                 PROVE  WrapSeq(q + i - 1) = n + i /\ n + i < SendLimit
        OBVIOUS
    <3>1. q + i - 1 = n + i /\ i < SeqMod
        BY <2>n
    <3>2. WrapSeq(n + i) > n /\ WrapSeq(n + i) < SendLimit
        BY <3>1, <1>2, <2>1
    <3> QED
        BY <3>1, <3>2, <1>1 DEF WrapSeq
  <2>4. q + k <= SendLimit /\ WrapSeq(q + k) = n + 1 + k
    <3>1. CASE k = 0
        BY <3>1, <1>1, <2>1 DEF WrapSeq
    <3>2. CASE k # 0
      <4>1. n + k < SendLimit
          BY <3>2, <1>1, <2>3
      <4> QED
          BY <4>1, <1>1, <2>1 DEF WrapSeq
    <3> QED
        BY <3>1, <3>2
  <2>5. \A i \in 1 .. k : tail[i] = <<c, n + i>>
      BY <1>2, <1>3, <2>1, <2>3
  <2>6. \A i \in 1 .. Len(buf) : buf[i] = <<c, n + 1 + k - Len(buf) + i - 1>>
    <3> SUFFICES ASSUME NEW i \in 1 .. Len(buf)
                 PROVE  buf[i] = <<c, n + 1 + k - Len(buf) + i - 1>>
        OBVIOUS
    <3>0. i \in Nat /\ i > 0 /\ i <= Len(st.recv_buf) + 1 + k
        BY <2>2, <2>n
    <3>1. n + 1 + k - Len(buf) + i - 1 = n - Len(st.recv_buf) + i - 1
        BY <3>0, <2>2, <2>n
    <3>2. CASE i <= Len(st.recv_buf)
      <4>1. i \in 1 .. Len(st.recv_buf) /\ buf[i] = st.recv_buf[i]
          BY <3>0, <3>2, <1>5, <2>2
      <4>2. st.recv_buf[i] = <<c, n - Len(st.recv_buf) + i - 1>>
          BY <4>1, <2>1
      <4> QED
          BY <4>1, <4>2, <3>1
    <3>3. CASE i = Len(st.recv_buf) + 1
        BY <3>1, <3>3, <1>5, <2>2
    <3>4. CASE i > Len(st.recv_buf) + 1
      <4>1. i - Len(st.recv_buf) - 1 \in 1 .. k
          BY <3>0, <3>4, <2>2, <2>n
      <4>a. buf[i] = tail[i - Len(st.recv_buf) - 1]
          BY <3>0, <3>4, <1>5, <2>2
      <4>2. buf[i] = <<c, n + (i - Len(st.recv_buf) - 1)>>
          BY <4>1, <4>a, <2>5
      <4>3. n + (i - Len(st.recv_buf) - 1) = n - Len(st.recv_buf) + i - 1
          BY <3>0, <2>2, <2>n
      <4> QED
          BY <4>2, <4>3, <3>1
    <3> QED
      <4>1. \/ i <= Len(st.recv_buf) \/ i = Len(st.recv_buf) + 1
            \/ i > Len(st.recv_buf) + 1
          BY <3>0, <2>2
      <4> QED
          BY <4>1, <3>2, <3>3, <3>4
  <2>7. InOrderStream(next)
    <3>1. Len(buf) <= n + 1 + k /\ n + 1 + k <= SendLimit
        BY <2>1, <2>2, <2>4, <2>n
    <3> QED
        BY <3>1, <1>9, <2>4, <2>6 DEF InOrderStream
  <2>8. \A j \in DOMAIN rest : j > n + 1 + k /\ rest[j] = <<c, j>>
    <3> SUFFICES ASSUME NEW j \in DOMAIN rest PROVE j > n + 1 + k /\ rest[j] = <<c, j>>
        OBVIOUS
    <3>1. j \in DOMAIN map /\ j \notin DrainedKeys(q, k) /\ j \in Nat /\ j > n
        BY <1>1, <1>6, <2>1 DEF Seqs
    <3>2. j # n + 1 + k
        BY <3>1, <2>4 DEF Drains, q, map
    <3>3. ASSUME j <= n + k PROVE FALSE
      <4>1. j - n \in 1 .. k /\ WrapSeq(q + (j - n) - 1) = j
          BY <3>1, <3>3, <1>1, <2>3
      <4>2. (j - n) - 1 \in 0 .. k - 1 /\ WrapSeq(q + ((j - n) - 1)) = j
          BY <4>1, <1>1, <2>1
      <4> QED
          BY <4>2, <3>1 DEF DrainedKeys
    <3> QED
        BY <3>1, <3>2, <3>3, <1>1, <1>6, <2>1
  <2>9. WindowStream(next)
      BY <1>9, <2>4, <2>8 DEF WindowStream
  <2>10. FirstUnread(next) = FirstUnread(st)
    <3>1. n + 1 + k - (Len(st.recv_buf) + 1 + k) = n - Len(st.recv_buf)
        BY <2>2, <2>n
    <3> QED
        BY <1>9, <2>1, <2>2, <2>4, <3>1 DEF FirstUnread
  <2> QED
      BY <2>7, <2>9, <2>10
<1> HIDE DEF next
<1>12. StreamOK(next)
    BY <1>9, <1>10, <1>11 DEF StreamOK
<1> QED
    BY <1>9, <1>11, <1>12 DEF next

-----------------------------------------------------------------------------
(* The table as a whole: types, order and window, for all traffic.         *)

TableInv == TypeOK /\ TableOK(streams)

\* The Notify of an entry, old or new.
LEMMA NotifyForType ==
    ASSUME TypeOK, NEW s \in Sids, NEW n \in NotifyFor(s)
    PROVE  n \in NotifyIds /\ (s \in DOMAIN streams => n = streams[s].notify)
BY DEF TypeOK, StreamType, NotifyFor

\* The entry that entry().or_insert_with() gives, and what handle_frame makes
\* of it, is a good stream.
LEMMA EntryOK ==
    ASSUME TableInv, NEW s \in Sids, NEW c \in Clients, NEW n \in NotifyFor(s)
    PROVE  /\ StreamOK(EntryOr(s, c, n))
           /\ StreamOK(Owned(EntryOr(s, c, n), c))
           /\ Owned(EntryOr(s, c, n), c).client_id = c
           /\ Owned(EntryOr(s, c, n), c).notify = n
<1>1. n \in NotifyIds /\ (s \in DOMAIN streams => n = streams[s].notify)
    BY NotifyForType DEF TableInv
<1>2. StreamOK(Stream(c, n)) /\ Stream(c, n).client_id = c /\ Stream(c, n).notify = n
    BY <1>1, FreshOK DEF Stream
<1>3. s \in DOMAIN streams => StreamOK(streams[s])
    BY DEF TableInv, TableOK
<1> QED
    BY <1>1, <1>2, <1>3 DEF EntryOr, Owned

\* A good table is well typed.
LEMMA TableTypes ==
    ASSUME NEW f, TableOK(f)
    PROVE  DOMAIN f \subseteq Sids /\ \A s \in DOMAIN f : StreamType(f[s])
BY DEF TableOK, StreamOK

\* Changing one entry of a good table to a good stream.
LEMMA ExceptOK ==
    ASSUME NEW f, TableOK(f), NEW s \in DOMAIN f, NEW st, StreamOK(st)
    PROVE  TableOK([f EXCEPT ![s] = st])
BY DEF TableOK

\* The empty table of a new Multiplexer satisfies the table invariant.
LEMMA InitTable == Init => TableInv
BY MuxConstants DEF Init, TableInv, TableOK, TypeOK, EmptyMap, Sids, NoSid

\* What the actions of a caller do to the table.
LEMMA CallerTable ==
    ASSUME TableInv, NEW t \in Callers, CallerStep(t)
    PROVE  TableOK(streams')
<1> USE DEF TableInv
<1>1. CASE OpenStream(t) \/ Wake(t) \/ AbandonWait(t)
    BY <1>1 DEF OpenStream, Wake, AbandonWait
<1>2. CASE TryNextId(t)
  <2> DEFINE sid == IF next_id = 0 THEN 1 ELSE next_id
  <2>1. sid \in Sids
      BY MuxConstants DEF TypeOK, Sids
  <2>2. streams' = streams \/ \E n \in NotifyFor(sid) :
                                  streams' = Put(streams, sid, Stream(ServerId, n))
      BY <1>2 DEF TryNextId, InsertStream
  <2> HIDE DEF sid
  <2> QED
      BY <2>1, <2>2, NotifyForType, FreshOK, PutOK DEF Clients
<1>3. CASE SendData(t)
  <2>1. CASE streams' = streams
      BY <2>1
  <2>2. CASE /\ sidOf[t] \in DOMAIN streams
             /\ streams' = [streams EXCEPT ![sidOf[t]].next_send_seq = WrapSeq(@ + 1)]
    <3>1. StreamOK([streams[sidOf[t]] EXCEPT !.next_send_seq = WrapSeq(@ + 1)])
        BY <2>2, SendOK DEF TableOK
    <3> QED
        BY <2>2, <3>1, ExceptOK
  <2> QED
      BY <1>3, <2>1, <2>2 DEF SendData, Live, muxVars
<1>4. CASE CloseStream(t)
  <2>1. CASE sidOf[t] \in DOMAIN streams
    <3>1. StreamOK([streams[sidOf[t]] EXCEPT !.closed = TRUE])
        BY <2>1, CloseOK DEF TableOK
    <3> QED
        BY <1>4, <2>1, <3>1, ExceptOK DEF CloseStream
  <2> QED
      BY <1>4, <2>1 DEF CloseStream
<1>5. CASE WaitForData(t)
  <2>1. sidOf[t] \in Sids
      BY <1>5 DEF WaitForData, TypeOK
  <2>2. streams' = streams \/ \E n \in NotifyFor(sidOf[t]) :
            streams' = Put(streams, sidOf[t], EntryOr(sidOf[t], SelfId, n))
      BY <1>5 DEF WaitForData
  <2> QED
      BY <2>1, <2>2, EntryOK, PutOK DEF Clients
<1>6. CASE ReadStream(t)
  <2>1. CASE sidOf[t] \in DOMAIN streams
    <3>1. StreamOK([streams[sidOf[t]] EXCEPT !.recv_buf = <<>>])
        BY <2>1, ReadOK DEF TableOK
    <3> QED
        BY <1>6, <2>1, <3>1, ExceptOK DEF ReadStream
  <2> QED
      BY <1>6, <2>1 DEF ReadStream
<1> QED
    BY <1>1, <1>2, <1>3, <1>4, <1>5, <1>6 DEF CallerStep

\* What handle_frame does to the table.
LEMMA FrameTable ==
    ASSUME TableInv, FrameStep
    PROVE  TableOK(streams')
<1> USE DEF TableInv
<1>1. ASSUME NEW c \in FrameIds, NEW s \in FrameSids, HandleClose(c, s)
      PROVE  TableOK(streams')
  <2>1. CASE streams' = streams
      BY <2>1
  <2>2. CASE s \in DOMAIN streams /\ streams' = [streams EXCEPT ![s].closed = TRUE]
    <3>1. StreamOK([streams[s] EXCEPT !.closed = TRUE])
        BY <2>2, CloseOK DEF TableOK
    <3> QED
        BY <2>2, <3>1, ExceptOK
  <2> QED
      BY <1>1, <2>1, <2>2 DEF HandleClose
<1>2. ASSUME NEW c \in FrameIds, NEW s \in FrameSids, NEW n \in 0 .. SendLimit - 1,
             HandleData(c, s, n)
      PROVE  TableOK(streams')
  <2>1. s \in Sids /\ c \in Clients
      BY MuxConstants DEF Clients
  <2>2. PICK notify \in NotifyFor(s) :
          LET st == Owned(EntryOr(s, c, notify), c) IN
          \/ /\ WrapSeq(n) = st.next_recv_seq
             /\ \E k \in 0 .. OutOfOrderLimit :
                  /\ Drains(st.out_of_order, WrapSeq(st.next_recv_seq + 1), k)
                  /\ streams' = Put(streams, s, Append1AndDrain(st, <<c, n>>, k))
          \/ /\ WrapSeq(n) > st.next_recv_seq
             /\ Cardinality(DOMAIN st.out_of_order) < OutOfOrderLimit
             /\ streams' = Put(streams, s, [st EXCEPT !.out_of_order =
                                                 Put(@, WrapSeq(n), <<c, n>>)])
          \/ streams' = Put(streams, s, st)
      BY <1>2 DEF HandleData, HasRoom
  <2> DEFINE st == Owned(EntryOr(s, c, notify), c)
  <2>3. StreamOK(st) /\ st.client_id = c
      BY <2>1, EntryOK
  <2> HIDE DEF st
  <2>4. CASE streams' = Put(streams, s, st)
      BY <2>1, <2>3, <2>4, PutOK
  <2>5. CASE /\ WrapSeq(n) > st.next_recv_seq
             /\ Cardinality(DOMAIN st.out_of_order) < OutOfOrderLimit
             /\ streams' = Put(streams, s, [st EXCEPT !.out_of_order =
                                                 Put(@, WrapSeq(n), <<c, n>>)])
      BY <2>1, <2>3, <2>5, StoreOK, PutOK
  <2>6. ASSUME NEW k \in 0 .. OutOfOrderLimit,
               WrapSeq(n) = st.next_recv_seq,
               Drains(st.out_of_order, WrapSeq(st.next_recv_seq + 1), k),
               streams' = Put(streams, s, Append1AndDrain(st, <<c, n>>, k))
        PROVE  TableOK(streams')
    <3>1. StreamOK(Append1AndDrain(st, <<c, n>>, k))
        BY <2>3, <2>6, AppendOK
    <3> QED
        BY <2>1, <2>6, <3>1, PutOK
  <2> QED
      BY <2>2, <2>4, <2>5, <2>6 DEF st
<1>3. ASSUME NEW c \in ResetIds, HandleReset(c)
      PROVE  TableOK(streams')
    BY <1>3 DEF HandleReset, Restrict, TableOK
<1>4. CASE NotifyReader
    BY <1>4 DEF NotifyReader
<1> QED
    BY <1>1, <1>2, <1>3, <1>4 DEF FrameStep

\* The variables besides the table.
RestOK ==
    /\ next_id \in Sids
    /\ opener \in Callers \cup {NoCaller}
    /\ permits \subseteq NotifyIds
    /\ handler \in NotifyIds \cup {NoNotify}
    /\ sidOf \in [Callers -> Sids \cup {NoSid}]
    /\ reader \in [Callers -> {"out", "check", "parked"}]
    /\ waitsOn \in [Callers -> NotifyIds \cup {NoNotify}]
    /\ sent \in [Callers -> 0 .. SendLimit]

\* The steps of callers keep the type of what lies beside the stream table.
LEMMA CallerRest ==
    ASSUME TableInv, NEW t \in Callers, CallerStep(t)
    PROVE  RestOK'
<1> USE DEF TableInv, callerVars
<1>1. CASE OpenStream(t)
    BY <1>1 DEF OpenStream, TypeOK, RestOK
<1>2. CASE TryNextId(t)
  <2> DEFINE sid == IF next_id = 0 THEN 1 ELSE next_id
  <2>1. sid \in Sids /\ WrapSid(next_id + 1) \in Sids
      BY MuxConstants DEF TypeOK, Sids, WrapSid
  <2>2. permits' \subseteq NotifyIds
      BY <1>2 DEF TryNextId, InsertStream, TypeOK, PermitsWith
  <2>3. 0 \in 0 .. SendLimit
      BY MuxConstants
  <2>4. \/ opener' = opener /\ sidOf' = sidOf /\ sent' = sent
        \/ /\ opener' = NoCaller
           /\ sidOf' = [sidOf EXCEPT ![t] = sid]
           /\ sent' = [sent EXCEPT ![t] = 0]
      BY <1>2 DEF TryNextId, InsertStream
  <2>5. next_id' = WrapSid(next_id + 1) /\ UNCHANGED <<handler, reader, waitsOn>>
      BY <1>2 DEF TryNextId, InsertStream
  <2> HIDE DEF sid
  <2> QED
      BY <2>1, <2>2, <2>3, <2>4, <2>5 DEF TypeOK, RestOK
<1>3. CASE SendData(t)
  <2>1. sent' = sent \/ (sent[t] < SendLimit /\ sent' = [sent EXCEPT ![t] = @ + 1])
      BY <1>3 DEF SendData, muxVars
  <2>2. sent' \in [Callers -> 0 .. SendLimit]
      BY <2>1, MuxConstants DEF TypeOK
  <2> QED
      BY <1>3, <2>2 DEF SendData, muxVars, TypeOK, RestOK
<1>4. CASE CloseStream(t)
  <2>1. permits' \subseteq NotifyIds
      BY <1>4 DEF CloseStream, TypeOK, StreamType
  <2> QED
      BY <1>4, <2>1 DEF CloseStream, TypeOK, RestOK
<1>5. CASE WaitForData(t)
  <2>1. sidOf[t] \in Sids
      BY <1>5 DEF WaitForData, TypeOK
  <2>2. \A n \in NotifyFor(sidOf[t]) : n \in NotifyIds
      BY <2>1, NotifyForType
  <2> QED
      BY <1>5, <2>2 DEF WaitForData, TypeOK, RestOK, PermitsWith
<1>6. CASE Wake(t)
    BY <1>6 DEF Wake, TypeOK, RestOK
<1>7. CASE AbandonWait(t)
    BY <1>7 DEF AbandonWait, TypeOK, RestOK
<1>8. CASE ReadStream(t)
    BY <1>8 DEF ReadStream, TypeOK, RestOK
<1> QED
    BY <1>1, <1>2, <1>3, <1>4, <1>5, <1>6, <1>7, <1>8 DEF CallerStep

\* A frame keeps the type of what lies beside the stream table.
LEMMA FrameRest ==
    ASSUME TableInv, FrameStep
    PROVE  RestOK'
<1> USE DEF TableInv, callerVars
<1>1. ASSUME NEW c \in FrameIds, NEW s \in FrameSids, HandleClose(c, s)
      PROVE  RestOK'
    BY <1>1 DEF HandleClose, TypeOK, StreamType, RestOK
<1>2. ASSUME NEW c \in FrameIds, NEW s \in FrameSids, NEW n \in 0 .. SendLimit - 1,
             HandleData(c, s, n)
      PROVE  RestOK'
  <2>1. s \in Sids
      BY MuxConstants
  <2>2. PICK notify \in NotifyFor(s) :
            permits' = PermitsWith(s, notify) /\ handler' \in {handler, notify}
      BY <1>2 DEF HandleData, HasRoom
  <2>3. notify \in NotifyIds
      BY <2>1, NotifyForType
  <2> QED
      BY <1>2, <2>2, <2>3 DEF HandleData, TypeOK, RestOK, PermitsWith
<1>3. ASSUME NEW c \in ResetIds, HandleReset(c)
      PROVE  RestOK'
    BY <1>3 DEF HandleReset, TypeOK, StreamType, RestOK
<1>4. CASE NotifyReader
    BY <1>4 DEF NotifyReader, TypeOK, RestOK
<1> QED
    BY <1>1, <1>2, <1>3, <1>4 DEF FrameStep

\* Every step keeps the types, and the order and the window of each stream.
LEMMA NextTable == TableInv /\ [Next]_muxVars => TableInv'
<1> SUFFICES ASSUME TableInv, [Next]_muxVars PROVE TableInv'
    OBVIOUS
<1>1. CASE Next
  <2>1. TableOK(streams') /\ RestOK'
      BY <1>1, CallerTable, FrameTable, CallerRest, FrameRest DEF Next
  <2>2. TypeOK'
      BY <2>1, TableTypes DEF TypeOK, RestOK
  <2> QED
      BY <2>1, <2>2 DEF TableInv
<1>2. CASE UNCHANGED muxVars
    BY <1>2 DEF muxVars, TableInv, TypeOK
<1> QED
    BY <1>1, <1>2

\* Every behaviour satisfies the table invariant.
LEMMA SpecTable == Spec => []TableInv
BY InitTable, NextTable, PTL DEF Spec

\* The variables of the multiplexer keep their types.
THEOREM MuxTypeOK == Spec => []TypeOK
<1>1. TableInv => TypeOK
    BY DEF TableInv
<1> QED
    BY <1>1, SpecTable, PTL

\* What readers get is an unbroken run of one client's chunks, whatever the
\* link does to the frames.
THEOREM MuxInOrder == Spec => []InOrder
<1>1. TableInv => InOrder
    BY DEF TableInv, TableOK, StreamOK, InOrder
<1> QED
    BY <1>1, SpecTable, PTL

\* out_of_order holds only chunks beyond the gap, each under its number.
THEOREM MuxWindowAhead == Spec => []WindowAhead
<1>1. TableInv => WindowAhead
    BY DEF TableInv, TableOK, StreamOK, WindowAhead
<1> QED
    BY <1>1, SpecTable, PTL

\* out_of_order never exceeds its limit.
THEOREM MuxWindowBounded == Spec => []WindowBounded
<1>1. TableInv => WindowBounded
    BY DEF TableInv, TableOK, StreamOK, WindowBounded
<1> QED
    BY <1>1, SpecTable, PTL

-----------------------------------------------------------------------------
(* Who moves the first number still to be read.                            *)

\* It depends on two fields of a stream only.
LEMMA EditKeepsUnread ==
    ASSUME NEW st, StreamType(st), NEW v
    PROVE  /\ FirstUnread([st EXCEPT !.closed = v]) = FirstUnread(st)
           /\ FirstUnread([st EXCEPT !.next_send_seq = v]) = FirstUnread(st)
           /\ FirstUnread([st EXCEPT !.out_of_order = v]) = FirstUnread(st)
BY DEF StreamType, FirstUnread

\* A frame never moves it, unless the stream changes its owner.
LEMMA FrameKeepsUnread ==
    ASSUME TableInv, NoWrap, FrameStep,
           NEW s \in DOMAIN streams \cap DOMAIN streams',
           streams'[s].client_id = streams[s].client_id
    PROVE  FirstUnread(streams'[s]) = FirstUnread(streams[s])
<1>1. ASSUME NEW c \in FrameIds, NEW r \in FrameSids, HandleClose(c, r)
      PROVE  FirstUnread(streams'[s]) = FirstUnread(streams[s])
  <2>1. StreamType(streams[s])
      BY DEF TableInv, TypeOK
  <2>2. streams'[s] = streams[s] \/ streams'[s] = [streams[s] EXCEPT !.closed = TRUE]
      BY <1>1 DEF HandleClose
  <2>3. FirstUnread([streams[s] EXCEPT !.closed = TRUE]) = FirstUnread(streams[s])
      BY <2>1, EditKeepsUnread
  <2> QED
      BY <2>2, <2>3
<1>2. ASSUME NEW c \in FrameIds, NEW r \in FrameSids, NEW n \in 0 .. SendLimit - 1,
             HandleData(c, r, n)
      PROVE  FirstUnread(streams'[s]) = FirstUnread(streams[s])
  <2>1. CASE s # r
      BY <1>2, <2>1 DEF HandleData, Put
  <2>2. CASE s = r
    <3> DEFINE st == streams[s]
    <3>1. s \in DOMAIN streams /\ c \in Clients /\ r \in Sids
        BY MuxConstants DEF Clients
    <3>2. PICK notify \in NotifyFor(s) :
            LET mine == Owned(EntryOr(s, c, notify), c) IN
            \/ /\ WrapSeq(n) = mine.next_recv_seq
               /\ \E k \in 0 .. OutOfOrderLimit :
                    /\ Drains(mine.out_of_order, WrapSeq(mine.next_recv_seq + 1), k)
                    /\ streams' = Put(streams, s, Append1AndDrain(mine, <<c, n>>, k))
            \/ streams' = Put(streams, s, [mine EXCEPT !.out_of_order =
                                                Put(@, WrapSeq(n), <<c, n>>)])
            \/ streams' = Put(streams, s, mine)
        BY <1>2, <2>2 DEF HandleData
    <3>3. StreamOK(st)
        BY <3>1 DEF TableInv, TableOK
    <3> DEFINE mine == Owned(EntryOr(s, c, notify), c)
    <3>a. EntryOr(s, c, notify) = st
        BY <3>1 DEF EntryOr
    <3>b. mine.client_id = c
        BY <3>1, <2>2, EntryOK
    <3>4. mine = st /\ st.client_id = c
      <4>1. CASE st.client_id = c
          BY <3>a, <4>1 DEF Owned
      <4>2. CASE st.client_id # c
        <5>1. StreamOK(mine)
            BY <3>1, <2>2, EntryOK
        <5>2. \/ \E k \in 0 .. OutOfOrderLimit :
                    /\ WrapSeq(n) = mine.next_recv_seq
                    /\ Drains(mine.out_of_order, WrapSeq(mine.next_recv_seq + 1), k)
                    /\ streams'[s] = Append1AndDrain(mine, <<c, n>>, k)
              \/ streams'[s] = [mine EXCEPT !.out_of_order = Put(@, WrapSeq(n), <<c, n>>)]
              \/ streams'[s] = mine
            BY <3>2 DEF Put
        <5> HIDE DEF mine
        <5>3. streams'[s].client_id = c
            BY <3>b, <5>1, <5>2, AppendOK DEF StreamOK, StreamType
        <5> QED
            BY <4>2, <5>3
      <4> QED
          BY <4>1, <4>2
    <3>5. \/ \E k \in 0 .. OutOfOrderLimit :
                /\ WrapSeq(n) = st.next_recv_seq
                /\ Drains(st.out_of_order, WrapSeq(st.next_recv_seq + 1), k)
                /\ streams'[s] = Append1AndDrain(st, <<st.client_id, n>>, k)
          \/ streams'[s] = [st EXCEPT !.out_of_order = Put(@, WrapSeq(n), <<c, n>>)]
          \/ streams'[s] = st
      <4> DEFINE Puts(m) ==
            \/ \E k \in 0 .. OutOfOrderLimit :
                 /\ WrapSeq(n) = m.next_recv_seq
                 /\ Drains(m.out_of_order, WrapSeq(m.next_recv_seq + 1), k)
                 /\ streams'[s] = Append1AndDrain(m, <<c, n>>, k)
            \/ streams'[s] = [m EXCEPT !.out_of_order = Put(@, WrapSeq(n), <<c, n>>)]
            \/ streams'[s] = m
      <4>1. Puts(mine)
          BY <3>2 DEF Put
      <4> HIDE DEF mine
      <4> QED
          BY <3>4, <4>1
    <3> HIDE DEF mine, st
    <3>6. CASE streams'[s] = [st EXCEPT !.out_of_order = Put(@, WrapSeq(n), <<c, n>>)]
      <4>1. FirstUnread(streams'[s]) = FirstUnread(st)
          BY <3>3, <3>6, EditKeepsUnread DEF StreamOK
      <4> QED
          BY <4>1 DEF st
    <3>7. CASE \E k \in 0 .. OutOfOrderLimit :
                /\ WrapSeq(n) = st.next_recv_seq
                /\ Drains(st.out_of_order, WrapSeq(st.next_recv_seq + 1), k)
                /\ streams'[s] = Append1AndDrain(st, <<st.client_id, n>>, k)
      <4>1. FirstUnread(streams'[s]) = FirstUnread(st)
          BY <3>3, <3>7, AppendOK
      <4> QED
          BY <4>1 DEF st
    <3> QED
        BY <3>5, <3>6, <3>7 DEF st
  <2> QED
      BY <2>1, <2>2
<1>3. ASSUME NEW c \in ResetIds, HandleReset(c)
      PROVE  FirstUnread(streams'[s]) = FirstUnread(streams[s])
    BY <1>3 DEF HandleReset, Restrict
<1>4. CASE NotifyReader
    BY <1>4 DEF NotifyReader
<1> QED
    BY <1>1, <1>2, <1>3, <1>4 DEF FrameStep

\* What a caller does besides reading does not move it either.
CallerKeeps(t) ==
    \/ OpenStream(t) \/ TryNextId(t) \/ SendData(t) \/ CloseStream(t)
    \/ WaitForData(t) \/ Wake(t) \/ AbandonWait(t)

\* Of what a caller does only read_stream moves it.
LEMMA CallerKeepsUnread ==
    ASSUME TableInv, NEW t \in Callers, CallerKeeps(t),
           NEW s \in DOMAIN streams \cap DOMAIN streams'
    PROVE  FirstUnread(streams'[s]) = FirstUnread(streams[s])
<1>1. CASE OpenStream(t) \/ Wake(t) \/ AbandonWait(t)
    BY <1>1 DEF OpenStream, Wake, AbandonWait
<1>2. CASE TryNextId(t)
    BY <1>2 DEF TryNextId, InsertStream, Put
<1>3. CASE SendData(t) \/ CloseStream(t)
  <2>1. StreamType(streams[s])
      BY DEF TableInv, TypeOK
  <2>2. \/ streams'[s] = streams[s]
        \/ streams'[s] = [streams[s] EXCEPT !.closed = TRUE]
        \/ streams'[s] = [streams[s] EXCEPT !.next_send_seq = WrapSeq(@ + 1)]
      BY <1>3 DEF SendData, CloseStream, Live, muxVars
  <2>3. FirstUnread([streams[s] EXCEPT !.closed = TRUE]) = FirstUnread(streams[s])
      BY <2>1, EditKeepsUnread
  <2>4. FirstUnread([streams[s] EXCEPT !.next_send_seq = WrapSeq(@ + 1)])
            = FirstUnread(streams[s])
      BY <2>1, EditKeepsUnread
  <2> QED
      BY <2>2, <2>3, <2>4
<1>4. CASE WaitForData(t)
    BY <1>4 DEF WaitForData, Put, EntryOr
<1> QED
    BY <1>1, <1>2, <1>3, <1>4 DEF CallerKeeps

\* read_stream moves it to the end of recv_buf, on the stream of its caller.
LEMMA ReadMovesUnread ==
    ASSUME TableInv, NEW t \in Callers, ReadStream(t),
           NEW s \in DOMAIN streams \cap DOMAIN streams'
    PROVE  FirstUnread(streams'[s]) = IF s = sidOf[t] THEN streams[s].next_recv_seq
                                                      ELSE FirstUnread(streams[s])
<1>1. CASE s = sidOf[t]
  <2>1. streams'[s].recv_buf = <<>> /\ streams'[s].next_recv_seq = streams[s].next_recv_seq
      BY <1>1 DEF ReadStream, TableInv, TypeOK, StreamType
  <2> QED
      BY <1>1, <2>1 DEF FirstUnread, TableInv, TypeOK, StreamType, Seqs
<1>2. CASE s # sidOf[t]
    BY <1>2 DEF ReadStream
<1> QED
    BY <1>1, <1>2

\* What read_stream has handed out is never handed out again while the stream
\* keeps its owner.
THEOREM MuxReadOnce == Spec => ReadOnce
<1> DEFINE Forward ==
        NoWrap => \A s \in DOMAIN streams \cap DOMAIN streams' :
            /\ streams'[s].client_id = streams[s].client_id
            /\ streams'[s].notify = streams[s].notify
            => FirstUnread(streams'[s]) >= FirstUnread(streams[s])
<1>1. TableInv /\ [Next]_muxVars => [Forward]_muxVars
  <2> SUFFICES ASSUME TableInv, Next, NoWrap,
                      NEW s \in DOMAIN streams \cap DOMAIN streams',
                      streams'[s].client_id = streams[s].client_id
               PROVE  FirstUnread(streams'[s]) >= FirstUnread(streams[s])
      OBVIOUS
  <2>1. /\ FirstUnread(streams[s]) \in Int
        /\ streams[s].next_recv_seq >= FirstUnread(streams[s])
      BY DEF TableInv, TypeOK, StreamType, FirstUnread, Seqs
  <2> QED
      BY <2>1, FrameKeepsUnread, CallerKeepsUnread, ReadMovesUnread
         DEF Next, CallerStep, CallerKeeps
<1> QED
    BY <1>1, SpecTable, PTL DEF Spec, ReadOnce

-----------------------------------------------------------------------------
(* Callers and wakeups, when only the server's frames arrive.              *)

Wakes(t) == ~ Readable(sidOf[t]) \/ waitsOn[t] \in permits \/ handler = waitsOn[t]

CallersInv ==
    /\ \A s \in DOMAIN streams : streams[s].client_id = ServerId
    /\ \A s, r \in DOMAIN streams : streams[s].notify = streams[r].notify => s = r
    /\ \A t \in Callers : sidOf[t] # NoSid =>
          /\ sidOf[t] \in DOMAIN streams
          /\ \A u \in Callers \ {t} : sidOf[u] # sidOf[t]
          /\ streams[sidOf[t]].next_send_seq = WrapSeq(sent[t])
    /\ \A t \in Callers : reader[t] # "out" => sidOf[t] # NoSid
    /\ \A t \in Callers : reader[t] = "parked" => waitsOn[t] = streams[sidOf[t]].notify
    /\ opener # NoCaller => sidOf[opener] = NoSid
    /\ \A t \in Callers : reader[t] = "parked" => Wakes(t)

\* No caller has a stream at the start.
LEMMA InitCallers == Init => CallersInv
BY MuxConstants DEF Init, CallersInv, EmptyMap, NoSid, Sids

\* A caller that waits is the only one that waits on its Notify.
LEMMA SoleWaiter ==
    ASSUME TypeOK, CallersInv, NEW t \in Callers, NEW u \in Callers,
           reader[t] = "parked", reader[u] = "parked", waitsOn[t] = waitsOn[u]
    PROVE  t = u
BY DEF CallersInv

\* open_stream taking the lock keeps the invariant on callers.
LEMMA OpenStreamCallers ==
    ASSUME TypeOK, CallersInv, NEW t \in Callers, OpenStream(t)
    PROVE  CallersInv'
BY DEF OpenStream, CallersInv, Wakes, Readable

\* The search for a free number keeps the invariant on callers.
LEMMA TryNextIdCallers ==
    ASSUME TypeOK, CallersInv, NEW t \in Callers, TryNextId(t)
    PROVE  CallersInv'
<1> DEFINE sid == IF next_id = 0 THEN 1 ELSE next_id
<1>1. sid \in Sids /\ sid # NoSid /\ NoSid \notin Sids
    BY MuxConstants DEF TypeOK, Sids, NoSid
<1>2. CASE sid \in DOMAIN streams
    BY <1>2 DEF TryNextId, InsertStream, CallersInv, Wakes, Readable
<1>3. CASE sid \notin DOMAIN streams
  <2>1. PICK n \in NotifyIds \ NotifiesInUse :
          /\ streams' = Put(streams, sid, Stream(ServerId, n))
          /\ permits' = permits \ {n}
      BY <1>3 DEF TryNextId, InsertStream, NotifyFor, PermitsWith
  <2>2. /\ opener = t /\ opener' = NoCaller
        /\ sidOf' = [sidOf EXCEPT ![t] = sid]
        /\ sent' = [sent EXCEPT ![t] = 0]
        /\ UNCHANGED <<handler, reader, waitsOn>>
      BY <1>3 DEF TryNextId, InsertStream
  <2>3. /\ DOMAIN streams' = DOMAIN streams \cup {sid}
        /\ \A s \in DOMAIN streams : streams'[s] = streams[s]
        /\ streams'[sid] = Stream(ServerId, n)
      BY <1>3, <2>1 DEF Put
  <2>4. /\ Stream(ServerId, n).client_id = ServerId /\ Stream(ServerId, n).notify = n
        /\ Stream(ServerId, n).next_send_seq = 0
      BY DEF Stream
  <2>5. /\ \A s \in DOMAIN streams : streams[s].notify # n
        /\ \A u \in Callers : waitsOn[u] # n
      BY <2>1 DEF NotifiesInUse
  <2>6. sidOf[t] = NoSid /\ reader[t] = "out"
      BY <2>2, MuxConstants DEF CallersInv, TypeOK
  <2>7. WrapSeq(0) = 0
      BY MuxConstants DEF WrapSeq
  <2> HIDE DEF sid
  <2>8. \A s \in DOMAIN streams' : streams'[s].client_id = ServerId
      BY <2>3, <2>4 DEF CallersInv
  <2>9. \A s, r \in DOMAIN streams' : streams'[s].notify = streams'[r].notify => s = r
      BY <2>3, <2>4, <2>5 DEF CallersInv
  <2>10. \A u \in Callers \ {t} : sidOf'[u] = sidOf[u] /\ sent'[u] = sent[u]
                                  /\ sidOf[u] # sid
      BY <1>1, <1>3, <2>2 DEF TypeOK, CallersInv
  <2>11. sidOf'[t] = sid /\ sent'[t] = 0
      BY <2>2 DEF TypeOK
  <2>12. \A u \in Callers : sidOf'[u] # NoSid =>
            /\ sidOf'[u] \in DOMAIN streams'
            /\ \A v \in Callers \ {u} : sidOf'[v] # sidOf'[u]
            /\ streams'[sidOf'[u]].next_send_seq = WrapSeq(sent'[u])
      BY <1>1, <2>3, <2>4, <2>7, <2>10, <2>11 DEF CallersInv
  <2>13. \A u \in Callers : reader'[u] = "parked" =>
            u # t /\ sidOf[u] \in DOMAIN streams /\ Wakes(u)
      BY <2>2, <2>6 DEF CallersInv
  <2>14. \A u \in Callers : reader'[u] = "parked" => Wakes(u)'
      BY <2>1, <2>2, <2>3, <2>5, <2>10, <2>13 DEF Wakes, Readable
  <2> QED
      BY <1>1, <2>2, <2>3, <2>6, <2>8, <2>9, <2>10, <2>11, <2>12, <2>13, <2>14 DEF CallersInv
<1> QED
    BY <1>2, <1>3

\* send_data keeps the invariant on callers.
LEMMA SendDataCallers ==
    ASSUME TypeOK, CallersInv, NEW t \in Callers, SendData(t)
    PROVE  CallersInv'
<1>1. CASE UNCHANGED muxVars
    BY <1>1 DEF muxVars, CallersInv, Wakes, Readable
<1>2. CASE Live(sidOf[t]) /\ sent[t] < SendLimit
  <2> DEFINE st == streams[sidOf[t]]
  <2>1. /\ sidOf[t] \in DOMAIN streams /\ sidOf[t] # NoSid
        /\ streams' = [streams EXCEPT ![sidOf[t]].next_send_seq = WrapSeq(@ + 1)]
        /\ sent' = [sent EXCEPT ![t] = @ + 1]
        /\ UNCHANGED <<next_id, opener, permits, handler, sidOf, reader, waitsOn>>
      BY <1>2 DEF SendData, Live
  <2>2. /\ DOMAIN streams' = DOMAIN streams
        /\ \A s \in DOMAIN streams :
              /\ streams'[s].client_id = streams[s].client_id
              /\ streams'[s].notify = streams[s].notify
              /\ streams'[s].recv_buf = streams[s].recv_buf
              /\ streams'[s].closed = streams[s].closed
              /\ s # sidOf[t] => streams'[s] = streams[s]
        /\ streams'[sidOf[t]].next_send_seq = WrapSeq(st.next_send_seq + 1)
      BY <2>1 DEF TypeOK, StreamType
  <2>3. st.next_send_seq = WrapSeq(sent[t]) /\ sent[t] \in 0 .. SendLimit
      BY <2>1 DEF CallersInv, TypeOK
  <2>4. WrapSeq(st.next_send_seq + 1) = WrapSeq(sent[t] + 1)
      BY <1>2, <2>3, MuxConstants DEF WrapSeq
  <2>5. sent'[t] = sent[t] + 1 /\ \A u \in Callers \ {t} : sent'[u] = sent[u]
      BY <2>1 DEF TypeOK
  <2> HIDE DEF st
  <2> QED
      BY <2>1, <2>2, <2>3, <2>4, <2>5 DEF CallersInv, Wakes, Readable
<1> QED
    BY <1>1, <1>2 DEF SendData, Live

\* close_stream keeps the invariant on callers.
LEMMA CloseStreamCallers ==
    ASSUME TypeOK, CallersInv, NEW t \in Callers, CloseStream(t)
    PROVE  CallersInv'
<1>1. /\ sidOf[t] \in DOMAIN streams /\ sidOf[t] # NoSid /\ reader[t] = "out"
      /\ streams' = [streams EXCEPT ![sidOf[t]].closed = TRUE]
      /\ permits' = permits \cup {streams[sidOf[t]].notify}
      /\ sidOf' = [sidOf EXCEPT ![t] = NoSid]
      /\ opener = NoCaller
      /\ UNCHANGED <<next_id, opener, handler, reader, waitsOn, sent>>
    BY DEF CloseStream, CallersInv, LockFree
<1>2. /\ DOMAIN streams' = DOMAIN streams
      /\ \A s \in DOMAIN streams :
            /\ streams'[s].client_id = streams[s].client_id
            /\ streams'[s].notify = streams[s].notify
            /\ streams'[s].next_send_seq = streams[s].next_send_seq
            /\ s # sidOf[t] => streams'[s] = streams[s]
    BY <1>1 DEF TypeOK, StreamType
<1>3. sidOf'[t] = NoSid /\ \A u \in Callers \ {t} : sidOf'[u] = sidOf[u]
    BY <1>1 DEF TypeOK
<1> QED
    BY <1>1, <1>2, <1>3 DEF CallersInv, Wakes, Readable

\* The check of wait_for_data keeps the invariant on callers.
LEMMA WaitForDataCallers ==
    ASSUME TypeOK, CallersInv, NEW t \in Callers, WaitForData(t)
    PROVE  CallersInv'
<1>1. /\ sidOf[t] # NoSid /\ sidOf[t] \in DOMAIN streams /\ reader[t] # "parked"
      /\ UNCHANGED <<next_id, opener, handler, sidOf, sent>>
    BY DEF WaitForData, CallersInv
<1>2. CASE Readable(sidOf[t])
  <2>1. reader' = [reader EXCEPT ![t] = "out"] /\ UNCHANGED <<streams, permits, waitsOn>>
      BY <1>2 DEF WaitForData
  <2> QED
      BY <1>1, <2>1 DEF TypeOK, CallersInv, Wakes, Readable
<1>3. CASE ~ Readable(sidOf[t])
  <2>1. /\ streams' = Put(streams, sidOf[t], streams[sidOf[t]])
        /\ permits' = permits
        /\ waitsOn' = [waitsOn EXCEPT ![t] = streams[sidOf[t]].notify]
        /\ reader' = [reader EXCEPT ![t] = "parked"]
      BY <1>1, <1>3 DEF WaitForData, NotifyFor, EntryOr, PermitsWith
  <2>2. DOMAIN streams' = DOMAIN streams /\ \A s \in DOMAIN streams : streams'[s] = streams[s]
      BY <1>1, <2>1 DEF Put
  <2>3. /\ reader'[t] = "parked" /\ waitsOn'[t] = streams[sidOf[t]].notify
        /\ \A u \in Callers \ {t} : reader'[u] = reader[u] /\ waitsOn'[u] = waitsOn[u]
      BY <2>1 DEF TypeOK
  <2>4. \A s : Readable(s)' <=> Readable(s)
      BY <2>2 DEF Readable
  <2> QED
      BY <1>1, <1>3, <2>1, <2>2, <2>3, <2>4 DEF CallersInv, Wakes
<1> QED
    BY <1>2, <1>3

\* The return of wait_for_data keeps the invariant on callers.
LEMMA WakeCallers ==
    ASSUME TypeOK, CallersInv, NEW t \in Callers, Wake(t)
    PROVE  CallersInv'
<1>1. \A u \in Callers \ {t} : reader[u] = "parked" => waitsOn[u] # waitsOn[t]
    BY SoleWaiter DEF Wake
<1>2. /\ reader'[t] = "check"
      /\ \A u \in Callers \ {t} : reader'[u] = reader[u] /\ waitsOn'[u] = waitsOn[u]
    BY DEF Wake, TypeOK
<1> QED
    BY <1>1, <1>2 DEF Wake, CallersInv, Wakes, Readable

\* Dropping wait_for_data keeps the invariant on callers.
LEMMA AbandonWaitCallers ==
    ASSUME TypeOK, CallersInv, NEW t \in Callers, AbandonWait(t)
    PROVE  CallersInv'
<1>1. /\ reader'[t] = "out"
      /\ \A u \in Callers \ {t} : reader'[u] = reader[u] /\ waitsOn'[u] = waitsOn[u]
    BY DEF AbandonWait, TypeOK
<1> QED
    BY <1>1 DEF AbandonWait, CallersInv, Wakes, Readable

\* read_stream keeps the invariant on callers.
LEMMA ReadStreamCallers ==
    ASSUME TypeOK, CallersInv, NEW t \in Callers, ReadStream(t)
    PROVE  CallersInv'
<1>1. /\ sidOf[t] \in DOMAIN streams /\ reader[t] = "out" /\ sidOf[t] # NoSid
      /\ streams' = [streams EXCEPT ![sidOf[t]].recv_buf = <<>>]
      /\ UNCHANGED <<next_id, opener, permits, handler, sidOf, reader, waitsOn, sent>>
    BY DEF ReadStream, CallersInv, callerVars
<1>2. /\ DOMAIN streams' = DOMAIN streams
      /\ \A s \in DOMAIN streams :
            /\ streams'[s].client_id = streams[s].client_id
            /\ streams'[s].notify = streams[s].notify
            /\ streams'[s].next_send_seq = streams[s].next_send_seq
            /\ s # sidOf[t] => streams'[s] = streams[s]
    BY <1>1 DEF TypeOK, StreamType
<1> QED
    BY <1>1, <1>2 DEF CallersInv, Wakes, Readable

\* A step of the receive loop keeps the table's owners, its Notify objects and
\* the numbers to send, and signals the Notify of a stream it makes readable.
FrameKeeps ==
    /\ DOMAIN streams \subseteq DOMAIN streams'
    /\ \A s \in DOMAIN streams' : streams'[s].client_id = ServerId
    /\ \A s \in DOMAIN streams :
          /\ streams'[s].notify = streams[s].notify
          /\ streams'[s].next_send_seq = streams[s].next_send_seq
          /\ \/ /\ streams'[s].recv_buf = streams[s].recv_buf
                /\ streams'[s].closed = streams[s].closed
             \/ handler' = streams[s].notify
    /\ \A s \in DOMAIN streams', r \in DOMAIN streams' :
          streams'[s].notify = streams'[r].notify => s = r
    /\ \A t \in Callers : reader[t] = "parked" =>
          (waitsOn[t] \in permits => waitsOn[t] \in permits')
    /\ handler # NoNotify => handler \in permits' \/ handler' = handler
    /\ UNCHANGED <<opener, callerVars>>

\* A frame handled by the receive loop keeps the invariant on callers.
LEMMA FrameKeepsCallers ==
    ASSUME TypeOK, CallersInv, FrameKeeps
    PROVE  CallersInv'
<1>1. UNCHANGED <<opener, sidOf, reader, waitsOn, sent>>
    BY DEF FrameKeeps, callerVars
<1>2. ASSUME NEW t \in Callers, reader[t] = "parked"
      PROVE  Wakes(t)'
  <2>1. /\ sidOf[t] \in DOMAIN streams /\ waitsOn[t] = streams[sidOf[t]].notify
        /\ Wakes(t) /\ waitsOn[t] # NoNotify
      BY <1>2, MuxConstants DEF CallersInv, TypeOK, StreamType
  <2>2. CASE ~ Readable(sidOf[t])
      BY <1>1, <2>1, <2>2 DEF FrameKeeps, Wakes, Readable
  <2>3. CASE waitsOn[t] \in permits
      BY <1>1, <1>2, <2>3 DEF FrameKeeps, Wakes
  <2>4. CASE handler = waitsOn[t]
      BY <1>1, <2>1, <2>4 DEF FrameKeeps, Wakes
  <2> QED
      BY <2>1, <2>2, <2>3, <2>4 DEF Wakes
<1>3. \A t \in Callers : sidOf'[t] # NoSid =>
          /\ sidOf'[t] \in DOMAIN streams'
          /\ \A u \in Callers \ {t} : sidOf'[u] # sidOf'[t]
          /\ streams'[sidOf'[t]].next_send_seq = WrapSeq(sent'[t])
    BY <1>1 DEF FrameKeeps, CallersInv
<1>4. \A t \in Callers : reader'[t] = "parked" => waitsOn'[t] = streams'[sidOf'[t]].notify
    BY <1>1 DEF FrameKeeps, CallersInv
<1> QED
    BY <1>1, <1>2, <1>3, <1>4 DEF FrameKeeps, CallersInv

\* What handle_frame makes of an entry of the server's: same Notify, same
\* number to send, and recv_buf only grows when the chunk was due.
LEMMA HandleDataCallers ==
    ASSUME TableInv, CallersInv, ServerTraffic, NEW c \in FrameIds, NEW s \in FrameSids,
           NEW m \in 0 .. SendLimit - 1, HandleData(c, s, m)
    PROVE  CallersInv'
<1>1. /\ s \in Sids /\ c = ServerId /\ c \in Clients /\ TypeOK
    BY MuxConstants DEF ServerTraffic, Clients, TableInv
<1>2. PICK n \in NotifyFor(s) :
         LET st  == Owned(EntryOr(s, c, n), c)
             seq == WrapSeq(m)
         IN
         /\ permits' = PermitsWith(s, n)
         /\ \/ /\ \E k \in 0 .. OutOfOrderLimit :
                     streams' = Put(streams, s, Append1AndDrain(st, <<c, m>>, k))
               /\ handler' = n
            \/ /\ streams' = Put(streams, s, [st EXCEPT !.out_of_order =
                                                   Put(@, seq, <<c, m>>)])
               /\ UNCHANGED handler
            \/ /\ streams' = Put(streams, s, st)
               /\ UNCHANGED handler
    BY DEF HandleData
<1> DEFINE st == Owned(EntryOr(s, c, n), c)
<1>3. StreamOK(st) /\ st.client_id = c /\ st.notify = n
    BY <1>1, EntryOK
<1>4. s \in DOMAIN streams => st = streams[s] /\ n = streams[s].notify
    BY <1>1 DEF NotifyFor, EntryOr, Owned, CallersInv
<1>5. s \notin DOMAIN streams =>
          /\ \A r \in DOMAIN streams : streams[r].notify # n
          /\ \A t \in Callers : waitsOn[t] # n
    BY DEF NotifyFor, NotifiesInUse
<1>6. PICK new :
          /\ streams' = Put(streams, s, new)
          /\ new.client_id = c /\ new.notify = n
          /\ new.next_send_seq = st.next_send_seq /\ new.closed = st.closed
          /\ new.recv_buf = st.recv_buf \/ handler' = n
  <2> HIDE DEF st
  <2>1. st = [client_id |-> st.client_id, recv_buf |-> st.recv_buf, closed |-> st.closed,
              next_recv_seq |-> st.next_recv_seq, next_send_seq |-> st.next_send_seq,
              out_of_order |-> st.out_of_order, notify |-> st.notify]
      BY <1>3 DEF StreamOK, StreamType
  <2>2. CASE /\ \E k \in 0 .. OutOfOrderLimit :
                     streams' = Put(streams, s, Append1AndDrain(st, <<c, m>>, k))
             /\ handler' = n
    <3>1. PICK k \in 0 .. OutOfOrderLimit :
              streams' = Put(streams, s, Append1AndDrain(st, <<c, m>>, k))
        BY <2>2
    <3> DEFINE new == Append1AndDrain(st, <<c, m>>, k)
    <3>2. /\ new.client_id = st.client_id /\ new.notify = st.notify
          /\ new.next_send_seq = st.next_send_seq /\ new.closed = st.closed
        BY <2>1 DEF Append1AndDrain
    <3> QED
        BY <1>3, <2>2, <3>1, <3>2
  <2>3. CASE streams' = Put(streams, s, [st EXCEPT !.out_of_order =
                                                   Put(@, WrapSeq(m), <<c, m>>)])
    <3> DEFINE map == Put(st.out_of_order, WrapSeq(m), <<c, m>>)
               new == [st EXCEPT !.out_of_order = map]
    <3> HIDE DEF map
    <3>1. /\ new.client_id = st.client_id /\ new.notify = st.notify
          /\ new.next_send_seq = st.next_send_seq /\ new.closed = st.closed
          /\ new.recv_buf = st.recv_buf
        BY <2>1
    <3> QED
        BY <1>3, <2>3, <3>1 DEF map
  <2>4. CASE streams' = Put(streams, s, st)
      BY <1>3, <2>4
  <2> QED
      BY <1>2, <2>2, <2>3, <2>4 DEF st
<1>7. /\ DOMAIN streams' = DOMAIN streams \cup {s} /\ streams'[s] = new
      /\ \A r \in DOMAIN streams \ {s} : streams'[r] = streams[r]
    BY <1>6 DEF Put
<1>8. handler = NoNotify /\ UNCHANGED <<opener, callerVars>>
    BY DEF HandleData
<1>9. \A t \in Callers : reader[t] = "parked" =>
          (waitsOn[t] \in permits => waitsOn[t] \in permits')
    BY <1>2, <1>5 DEF PermitsWith
<1> HIDE DEF st
<1>10. \A r, q \in DOMAIN streams' : streams'[r].notify = streams'[q].notify => r = q
    BY <1>4, <1>5, <1>6, <1>7 DEF CallersInv
<1>11. \A r \in DOMAIN streams' : streams'[r].client_id = ServerId
    BY <1>1, <1>6, <1>7 DEF CallersInv
<1>12. \A r \in DOMAIN streams :
          /\ streams'[r].notify = streams[r].notify
          /\ streams'[r].next_send_seq = streams[r].next_send_seq
          /\ \/ /\ streams'[r].recv_buf = streams[r].recv_buf
                /\ streams'[r].closed = streams[r].closed
             \/ handler' = streams[r].notify
    BY <1>4, <1>6, <1>7
<1>13. FrameKeeps
    BY <1>7, <1>8, <1>9, <1>10, <1>11, <1>12 DEF FrameKeeps
<1> QED
    BY <1>1, <1>13, FrameKeepsCallers

\* mark_closed signals the stream it closes.
LEMMA HandleCloseCallers ==
    ASSUME TypeOK, CallersInv, NEW c \in FrameIds, NEW s \in FrameSids, HandleClose(c, s)
    PROVE  CallersInv'
<1>1. CASE s \in DOMAIN streams /\ streams[s].client_id = c
  <2>1. /\ streams' = [streams EXCEPT ![s].closed = TRUE] /\ handler' = streams[s].notify
        /\ handler = NoNotify /\ UNCHANGED <<opener, permits, callerVars>>
      BY <1>1 DEF HandleClose
  <2>2. /\ DOMAIN streams' = DOMAIN streams
        /\ \A r \in DOMAIN streams :
              /\ streams'[r].client_id = streams[r].client_id
              /\ streams'[r].notify = streams[r].notify
              /\ streams'[r].next_send_seq = streams[r].next_send_seq
              /\ r # s => streams'[r] = streams[r]
      BY <1>1, <2>1 DEF TypeOK, StreamType
  <2>3. \A r, q \in DOMAIN streams' : streams'[r].notify = streams'[q].notify => r = q
      BY <2>2 DEF CallersInv
  <2>4. \A r \in DOMAIN streams :
          \/ /\ streams'[r].recv_buf = streams[r].recv_buf
             /\ streams'[r].closed = streams[r].closed
          \/ handler' = streams[r].notify
      BY <2>1, <2>2
  <2>5. \A r \in DOMAIN streams' : streams'[r].client_id = ServerId
      BY <2>2 DEF CallersInv
  <2>6. FrameKeeps
      BY <2>1, <2>2, <2>3, <2>4, <2>5 DEF FrameKeeps
  <2> QED
      BY <2>6, FrameKeepsCallers
<1>2. CASE ~ (s \in DOMAIN streams /\ streams[s].client_id = c)
  <2>1. FrameKeeps
      BY <1>2 DEF HandleClose, FrameKeeps, CallersInv
  <2> QED
      BY <2>1, FrameKeepsCallers
<1> QED
    BY <1>1, <1>2

\* A reset of another client removes nothing of the server's.
LEMMA HandleResetCallers ==
    ASSUME TypeOK, CallersInv, ServerTraffic, NEW c \in ResetIds, HandleReset(c)
    PROVE  CallersInv'
<1>1. /\ DOMAIN streams' = DOMAIN streams
      /\ \A s \in DOMAIN streams : streams'[s] = streams[s]
      /\ permits \subseteq permits'
      /\ UNCHANGED <<opener, handler, callerVars>>
    BY DEF HandleReset, Restrict, ServerTraffic, CallersInv
<1>2. FrameKeeps
    BY <1>1 DEF FrameKeeps, CallersInv
<1> QED
    BY <1>2, FrameKeepsCallers

\* notify_one leaves a permit for the waiter.
LEMMA NotifyReaderCallers ==
    ASSUME TypeOK, CallersInv, NotifyReader
    PROVE  CallersInv'
<1>1. FrameKeeps
    BY DEF NotifyReader, FrameKeeps, CallersInv
<1> QED
    BY <1>1, FrameKeepsCallers

\* Every step keeps CallersInv while only the server's frames arrive.
LEMMA NextCallers ==
    ASSUME ServerTraffic, TableInv, CallersInv, [Next]_muxVars
    PROVE  CallersInv'
<1>1. TypeOK
    BY DEF TableInv
<1>2. ASSUME NEW t \in Callers, CallerStep(t) PROVE CallersInv'
    BY <1>1, <1>2, OpenStreamCallers, TryNextIdCallers, SendDataCallers,
       CloseStreamCallers, WaitForDataCallers, WakeCallers, AbandonWaitCallers,
       ReadStreamCallers DEF CallerStep
<1>3. CASE FrameStep
    BY <1>1, <1>3, HandleDataCallers, HandleCloseCallers, HandleResetCallers,
       NotifyReaderCallers DEF FrameStep
<1>4. CASE UNCHANGED muxVars
    BY <1>4 DEF muxVars, CallersInv, Wakes, Readable
<1> QED
    BY <1>2, <1>3, <1>4 DEF Next

\* CallersInv holds throughout, in a room with the server's frames only.
LEMMA SpecCallers == Spec => [](ServerTraffic => CallersInv)
<1>1. Init => (ServerTraffic => CallersInv)
    BY InitCallers
<1>2. TableInv /\ (ServerTraffic => CallersInv) /\ [Next]_muxVars
          => (ServerTraffic => CallersInv)'
    BY NextCallers DEF ServerTraffic
<1> QED
    BY <1>1, <1>2, SpecTable, PTL DEF Spec

\* No caller sleeps on a stream that has data or is closed without a permit
\* on the way to it, as long as only the server's frames are in the room:
\* wait_for_data loses no notify_one of handle_frame.
THEOREM MuxNoLostWakeup == Spec => []NoLostWakeup
<1>1. (ServerTraffic => CallersInv) => NoLostWakeup
    BY DEF CallersInv, Wakes, NoLostWakeup, Awaited
<1> QED
    BY <1>1, SpecCallers, PTL

\* open_stream never gives two callers the same stream as long as only the
\* server's frames are in the room.
THEOREM MuxSidExclusive == Spec => []SidExclusive
<1>1. (ServerTraffic => CallersInv) => SidExclusive
    BY DEF CallersInv, SidExclusive
<1> QED
    BY <1>1, SpecCallers, PTL

\* The numbers send_data gives out on a stream are consecutive from 0 as long as
\* only the server's frames are in the room.
THEOREM MuxSendSeqTracksCaller == Spec => []SendSeqTracksCaller
<1>1. (ServerTraffic => CallersInv) => SendSeqTracksCaller
    BY DEF CallersInv, SendSeqTracksCaller
<1> QED
    BY <1>1, SpecCallers, PTL

=============================================================================
