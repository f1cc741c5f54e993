---------------------- MODULE PersistentProtocolProofs ----------------------
(***************************************************************************)
(* Proofs about PersistentProtocol, for every set of payloads and sockets  *)
(* and every bound: the inductive invariant IndInv, what follows from it,  *)
(* and that the protocol implements ReliableChannel.                       *)
(***************************************************************************)
EXTENDS PersistentProtocol, SequenceTheorems, TLAPS

USE DEF Sides, Peer

\* Messages whose id and ack fit the 32-bit fields of the header.
Bounded == {m \in ProtocolMessage : m.id <= MaxMsgs /\ m.ack <= MaxMsgs}

-----------------------------------------------------------------------------
(* The messages in flight.                                                   *)

\* Writing id and ack into 32-bit fields (ProtocolWriter.write) loses nothing
\* as long as they stay below the limit.
LEMMA EncodeIdentity ==
  ASSUME NEW msgs \in Seq(Bounded)
  PROVE  Encode(msgs) = msgs
<1>1. ASSUME NEW i \in 1..Len(msgs)
      PROVE  msgs[i] = [type |-> msgs[i].type, id |-> msgs[i].id % IdLimit,
                        ack |-> msgs[i].ack % IdLimit, data |-> msgs[i].data]
  <2>1. msgs[i] \in Bounded
    OBVIOUS
  <2>2. msgs[i].id \in 0..MaxMsgs /\ msgs[i].ack \in 0..MaxMsgs
    BY <2>1 DEF Bounded, ProtocolMessage
  <2>3. \A n \in 0..MaxMsgs : n % IdLimit = n
    BY ConstantsAssumption
  <2>4. msgs[i].id % IdLimit = msgs[i].id /\ msgs[i].ack % IdLimit = msgs[i].ack
    BY <2>2, <2>3
  <2> QED BY <2>1, <2>4 DEF Bounded, ProtocolMessage
<1>2. DOMAIN msgs = 1..Len(msgs) /\ msgs = [i \in 1..Len(msgs) |-> msgs[i]]
  OBVIOUS
<1> QED BY <1>1, <1>2 DEF Encode

\* Putting messages of p on a socket (Sent) keeps every stream genuine.
LEMMA SentIn ==
  ASSUME NEW F \in [Sides -> SUBSET Bounded], NEW w, WireIn(w, F),
         NEW s \in Sockets, NEW p \in Sides, NEW msgs \in Seq(F[p])
  PROVE  WireIn(Sent(w, s, Peer(p), msgs), F)
<1>1. msgs \in Seq(Bounded) /\ msgs \in Seq(ProtocolMessage)
  <2>1. F[p] \subseteq Bounded /\ F[p] \subseteq ProtocolMessage
    BY DEF Bounded
  <2> QED BY <2>1, SeqMonotonic
<1>2. Encode(msgs) = msgs
  BY <1>1, EncodeIdentity
<1>3. CASE s \in closed
  BY <1>3 DEF Sent
<1>4. CASE s \notin closed
  <2> DEFINE v == [w EXCEPT ![s][Peer(p)] = @ \o msgs]
  <2>1. Sent(w, s, Peer(p), msgs) = v
    BY <1>2, <1>4 DEF Sent
  <2>2. w[s][Peer(p)] \in Seq(F[p]) /\ w[s][Peer(p)] \in Seq(ProtocolMessage)
    BY DEF WireIn
  <2>3. w[s][Peer(p)] \o msgs \in Seq(F[p]) /\ w[s][Peer(p)] \o msgs \in Seq(ProtocolMessage)
    BY <1>1, <2>2, ConcatProperties
  <2>4. WireIn(v, F)
    BY <2>3 DEF WireIn
  <2> QED BY <2>1, <2>4
<1> QED BY <1>3, <1>4

\* Write, whether the writer is paused or not.
LEMMA WriteIn ==
  ASSUME NEW F \in [Sides -> SUBSET Bounded], NEW w, WireIn(w, F), HeldIn(held, F),
         sock \in [Sides -> Sockets],
         NEW p \in Sides, NEW msgs \in Seq(F[p]), Write(w, p, msgs)
  PROVE  WireIn(wire', F) /\ HeldIn(held', F)
<1>1. CASE paused[p]
  <2>1. msgs \in Seq(ProtocolMessage)
    <3>1. F[p] \subseteq ProtocolMessage
      BY DEF Bounded
    <3> QED BY <3>1, SeqMonotonic
  <2>2. held[p] \o msgs \in Seq(F[p]) /\ held[p] \o msgs \in Seq(ProtocolMessage)
    BY <2>1, ConcatProperties DEF HeldIn
  <2> QED BY <1>1, <2>2 DEF Write, HeldIn
<1>2. CASE ~paused[p]
  <2>1. wire' = Sent(w, sock[p], Peer(p), msgs) /\ held' = held
    BY <1>2 DEF Write
  <2> QED BY <2>1, SentIn
<1> QED BY <1>1, <1>2

\* Replacing a stream by a genuine one.
LEMMA ReplaceIn ==
  ASSUME NEW F \in [Sides -> SUBSET Bounded], NEW w, WireIn(w, F),
         NEW s \in Sockets, NEW p \in Sides, NEW str \in Seq(F[Peer(p)])
  PROVE  WireIn([w EXCEPT ![s][p] = str], F)
<1>1. str \in Seq(ProtocolMessage)
  <2>1. F[Peer(p)] \subseteq ProtocolMessage
    BY DEF Bounded
  <2> QED BY <2>1, SeqMonotonic
<1> QED BY <1>1 DEF WireIn

\* Parts of a genuine stream are genuine.
LEMMA SubSeqIn ==
  ASSUME NEW S, NEW str \in Seq(S), NEW m \in Nat \ {0}
  PROVE  SubSeq(str, m, Len(str)) \in Seq(S)
<1>1. \A i \in m..Len(str) : str[i] \in S
  OBVIOUS
<1> QED BY <1>1, SubSeqProperties

\* The first part of a stream has messages of the stream only.
LEMMA PrefixIn ==
  ASSUME NEW S, NEW str \in Seq(S), NEW n \in 0..Len(str)
  PROVE  SubSeq(str, 1, n) \in Seq(S)
  OBVIOUS

\* Reading the next message (ProtocolReader) yields one that the peer wrote.
LEMMA ConsumedIn ==
  ASSUME NEW F \in [Sides -> SUBSET Bounded], WireIn(wire, F), sock \in [Sides -> Sockets],
         NEW p \in Sides, wire[sock[p]][p] # <<>>
  PROVE  WireIn(Consumed(p), F) /\ Incoming(p) \in F[Peer(p)]
<1>1. wire[sock[p]][p] \in Seq(F[Peer(p)])
  <2>1. wire[sock[p]][Peer(Peer(p))] \in Seq(F[Peer(p)])
    BY DEF WireIn
  <2> QED BY <2>1
<1>2. Tail(wire[sock[p]][p]) \in Seq(F[Peer(p)]) /\ Head(wire[sock[p]][p]) \in F[Peer(p)]
  BY <1>1, HeadTailProperties
<1> QED BY <1>2, ReplaceIn DEF Consumed, Incoming

\* What has been sent stays sent: a message that p could have written before a
\* step it could have written after it.
LEMMA MsgsMonotonic ==
  ASSUME NEW given \in Nat, NEW given2 \in Nat, given <= given2,
         NEW n \in Nat, NEW n2 \in Nat, n <= n2,
         NEW payloads, NEW payloads2, \A i \in 1..n : payloads2[i] = payloads[i]
  PROVE  Msgs(given, n, payloads) \subseteq Msgs(given2, n2, payloads2)
<1> SUFFICES ASSUME NEW m \in Msgs(given, n, payloads)
             PROVE  m \in Msgs(given2, n2, payloads2)
  OBVIOUS
<1>1. m \in ProtocolMessage /\ m.ack \in Nat /\ m.id \in Nat /\ m.ack <= given
  BY DEF Msgs, ProtocolMessage
<1>2. CASE m.type = "Regular"
  BY <1>1, <1>2 DEF Msgs
<1>3. CASE m.type # "Regular"
  BY <1>1, <1>3 DEF Msgs
<1> QED BY <1>2, <1>3

\* What is in flight or held back stays genuine when more messages become so.
LEMMA InMonotonic ==
  ASSUME NEW F \in [Sides -> SUBSET Bounded], NEW G \in [Sides -> SUBSET Bounded],
         \A p \in Sides : F[p] \subseteq G[p]
  PROVE  /\ \A w : WireIn(w, F) => WireIn(w, G)
         /\ \A h : HeldIn(h, F) => HeldIn(h, G)
<1>1. \A p \in Sides : Seq(F[p]) \subseteq Seq(G[p])
  BY SeqMonotonic
<1> QED BY <1>1 DEF WireIn, HeldIn

\* The genuine messages have bounded ids and acknowledgements.
LEMMA FromBounded ==
  ASSUME NEW given \in [Sides -> 0..MaxMsgs], NEW n \in [Sides -> 0..MaxMsgs], NEW payloads
  PROVE  FromOf(given, n, payloads) \in [Sides -> SUBSET Bounded]
<1> SUFFICES ASSUME NEW p \in Sides, NEW m \in Msgs(given[p], n[p], payloads[p])
             PROVE  m \in Bounded
  BY DEF FromOf
<1>1. m \in ProtocolMessage /\ m.ack \in Nat /\ m.id \in Nat /\ m.ack <= given[p]
  BY DEF Msgs, ProtocolMessage
<1>2. m.id <= MaxMsgs
  BY <1>1, ConstantsAssumption DEF Msgs
<1> QED BY <1>1, <1>2, ConstantsAssumption DEF Bounded

-----------------------------------------------------------------------------
(* Acknowledgements.                                                         *)

\* The messages a valid acknowledgement confirms are exactly the ack - outAckId
\* first ones of the queue.
LEMMA ConfirmedCount ==
  ASSUME NEW q \in Seq(ProtocolMessage), NEW base \in Nat, NEW ack \in Nat,
         base <= ack, ack <= base + Len(q),
         \A i \in 1..Len(q) : q[i].id = base + i
  PROVE  Confirmed(q, ack) = ack - base
<1> DEFINE IsCut(k) == /\ \A i \in 1..k : q[i].id <= ack
                       /\ k < Len(q) => q[k + 1].id > ack
<1>1. ack - base \in 0..Len(q) /\ IsCut(ack - base)
  <2> DEFINE c == ack - base
  <2>1. Len(q) \in Nat /\ c \in 0..Len(q) /\ base + c = ack
    OBVIOUS
  <2> HIDE DEF c
  <2>2. \A i \in 1..c : q[i].id <= ack
    BY <2>1
  <2>3. c < Len(q) => q[c + 1].id > ack
    <3> SUFFICES ASSUME c < Len(q) PROVE q[c + 1].id > ack
      OBVIOUS
    <3>1. c + 1 \in 1..Len(q)
      BY <2>1
    <3>2. q[c + 1].id = base + (c + 1)
      BY <3>1
    <3> QED BY <2>1, <3>2
  <2> QED BY <2>1, <2>2, <2>3 DEF c
<1>2. ASSUME NEW k \in 0..Len(q), IsCut(k) PROVE k = ack - base
  <2>1. k <= ack - base
    <3>1. CASE k = 0
      BY <3>1
    <3>2. CASE k > 0
      <4>1. q[k].id <= ack /\ q[k].id = base + k
        BY <1>2, <3>2
      <4> QED BY <4>1
    <3> QED BY <3>1, <3>2
  <2>2. k >= ack - base
    <3>1. CASE k = Len(q)
      BY <3>1
    <3>2. CASE k < Len(q)
      <4>1. q[k + 1].id > ack /\ q[k + 1].id = base + (k + 1)
        BY <1>2, <3>2
      <4> QED BY <4>1
    <3> QED BY <3>1, <3>2
  <2> QED BY <2>1, <2>2
<1>3. Confirmed(q, ack) = CHOOSE k \in 0..Len(q) : IsCut(k)
  BY DEF Confirmed
<1> HIDE DEF IsCut
<1> QED BY <1>1, <1>2, <1>3

\* What is left of a queue of consecutive messages once they are removed.
LEMMA DropFirst ==
  ASSUME NEW S, NEW q \in Seq(S), NEW k \in Nat, k <= Len(q)
  PROVE  /\ SubSeq(q, k + 1, Len(q)) \in Seq(S)
         /\ Len(SubSeq(q, k + 1, Len(q))) = Len(q) - k
         /\ \A i \in 1..(Len(q) - k) : SubSeq(q, k + 1, Len(q))[i] = q[k + i]
  OBVIOUS

\* _receiveMessage drops exactly the confirmed messages from the front of the
\* queue, which keeps consecutive ids.
LEMMA DropConfirmed ==
  ASSUME NEW S \in SUBSET ProtocolMessage, NEW q \in Seq(S),
         NEW base \in Nat, NEW ack \in Nat, NEW last \in Nat,
         base <= ack, ack <= last, Len(q) = last - base,
         \A i \in 1..Len(q) : q[i].type = "Regular" /\ q[i].id = base + i
  PROVE  LET r == SubSeq(q, Confirmed(q, ack) + 1, Len(q)) IN
         /\ r \in Seq(S)
         /\ Len(r) = last - ack
         /\ \A i \in 1..Len(r) : r[i].type = "Regular" /\ r[i].id = ack + i
<1>1. PICK k \in Nat : k = ack - base /\ k <= Len(q) /\ base + k = ack
  BY SMTT(40)
<1>2. Confirmed(q, ack) = k
  <2>1. q \in Seq(ProtocolMessage)
    BY SeqMonotonic
  <2>2. ack <= base + Len(q)
    OBVIOUS
  <2>3. Confirmed(q, ack) = ack - base
    BY <2>1, <2>2, ConfirmedCount
  <2> QED BY <1>1, <2>3
<1> DEFINE r == SubSeq(q, k + 1, Len(q))
<1>3. r \in Seq(S)
  BY <1>1
<1>4. Len(r) = Len(q) - k
  BY <1>1
<1>5. ASSUME NEW i \in 1..Len(r) PROVE r[i] = q[k + i]
  BY <1>1, <1>4
<1> HIDE DEF r
<1>6. ASSUME NEW i \in 1..Len(r) PROVE r[i].type = "Regular" /\ r[i].id = ack + i
  <2>1. k + i \in 1..Len(q) /\ base + (k + i) = ack + i
    BY <1>1, <1>4
  <2> QED BY <1>5, <2>1
<1>7. Len(r) = last - ack
  BY <1>1, <1>4
<1>8. r = SubSeq(q, Confirmed(q, ack) + 1, Len(q))
  BY <1>2 DEF r
<1> QED BY <1>3, <1>6, <1>7, <1>8

\* Taking an acknowledgement of something the peer has been given keeps the
\* queue equal to the messages after it (first part of _receiveMessage).
LEMMA AcceptAckQueue ==
  ASSUME TypeOK, Counters, HeldIn(unack, From),
         \A p \in Sides : Queue(p, unack[p], outAckId[p]),
         NEW p \in Sides, NEW ack \in Nat, ack <= inMsgId[Peer(p)],
         AcceptAck(p, ack)
  PROVE  /\ outMsgId' = outMsgId
         /\ outAckId' \in [Sides -> 0..MaxMsgs]
         /\ \A r \in Sides : outAckId'[r] <= inMsgId[Peer(r)]
         /\ HeldIn(unack', From)
         /\ \A r \in Sides : Queue(r, unack'[r], outAckId'[r])
         /\ PopConfirmed(p, ack) = unack'[p]
<1>0. /\ outAckId \in [Sides -> 0..MaxMsgs] /\ unack \in [Sides -> Seq(ProtocolMessage)]
      /\ inMsgId \in [Sides -> 0..MaxMsgs] /\ outMsgId \in [Sides -> 0..MaxMsgs]
  BY DEF TypeOK
<1>a. /\ MaxMsgs \in Nat /\ outAckId[p] \in Nat /\ outMsgId[p] \in Nat /\ outMsgId[p] <= MaxMsgs
      /\ inMsgId[Peer(p)] \in Nat /\ outAckId[p] <= inMsgId[Peer(p)]
      /\ inMsgId[Peer(p)] <= outMsgId[p]
  BY <1>0, ConstantsAssumption DEF Counters
<1>1. /\ outMsgId' = outMsgId
      /\ outAckId' = [outAckId EXCEPT ![p] = NewAckId(p, ack)]
      /\ unack' = [unack EXCEPT ![p] = PopConfirmed(p, ack)]
  BY DEF AcceptAck
<1>2. outAckId'[p] = NewAckId(p, ack) /\ unack'[p] = PopConfirmed(p, ack)
  BY <1>0, <1>1
<1>3. \A r \in Sides \ {p} : outAckId'[r] = outAckId[r] /\ unack'[r] = unack[r]
  BY <1>0, <1>1
<1>4. CASE ~(ack > outAckId[p])
  <2>1. outAckId' = outAckId /\ unack' = unack
    BY <1>0, <1>1, <1>4 DEF NewAckId, PopConfirmed
  <2> QED BY <1>0, <1>1, <1>2, <2>1 DEF Counters
<1>5. CASE ack > outAckId[p]
  <2>1. From[p] \in SUBSET ProtocolMessage
    BY DEF From, FromOf, Msgs
  <2>2. /\ unack[p] \in Seq(From[p]) /\ Len(unack[p]) = outMsgId[p] - outAckId[p]
        /\ \A i \in 1..Len(unack[p]) :
              unack[p][i].type = "Regular" /\ unack[p][i].id = outAckId[p] + i
    BY DEF Queue, HeldIn
  <2>3. outAckId[p] <= ack /\ ack <= outMsgId[p]
    BY <1>a, <1>5
  <2>4. NewAckId(p, ack) = ack
        /\ PopConfirmed(p, ack) = SubSeq(unack[p], Confirmed(unack[p], ack) + 1, Len(unack[p]))
    BY <1>5 DEF NewAckId, PopConfirmed
  <2> DEFINE rest == PopConfirmed(p, ack)
  <2>5. /\ rest \in Seq(From[p])
        /\ Len(rest) = outMsgId[p] - ack
        /\ \A i \in 1..Len(rest) : rest[i].type = "Regular" /\ rest[i].id = ack + i
    <3> DEFINE S == From[p]
               q == unack[p]
               base == outAckId[p]
               last == outMsgId[p]
    <3>1. /\ S \in SUBSET ProtocolMessage /\ q \in Seq(S) /\ base \in Nat /\ last \in Nat
          /\ base <= ack /\ ack <= last /\ Len(q) = last - base
          /\ \A i \in 1..Len(q) : q[i].type = "Regular" /\ q[i].id = base + i
      BY <1>a, <2>1, <2>2, <2>3
    <3>2. rest = SubSeq(q, Confirmed(q, ack) + 1, Len(q))
      BY <2>4
    <3> HIDE DEF S, q, base, last, rest
    <3>3. /\ rest \in Seq(S) /\ Len(rest) = last - ack
          /\ \A i \in 1..Len(rest) : rest[i].type = "Regular" /\ rest[i].id = ack + i
      BY ONLY ZenonT(40), <3>1, <3>2, ack \in Nat, DropConfirmed
    <3> QED BY <3>3 DEF S, last
  <2>8. Queue(p, unack'[p], outAckId'[p])
    BY <1>2, <2>4, <2>5 DEF Queue
  <2>9. unack'[p] \in Seq(From[p]) /\ unack'[p] \in Seq(ProtocolMessage)
    BY <1>2, <2>1, <2>5, SeqMonotonic
  <2>10. HeldIn(unack', From)
    <3>1. unack' \in [Sides -> Seq(ProtocolMessage)]
      BY <1>0, <1>1, <1>2, <2>9
    <3>2. ASSUME NEW r \in Sides PROVE unack'[r] \in Seq(From[r])
      BY <1>3, <2>9 DEF HeldIn
    <3> QED BY <3>1, <3>2 DEF HeldIn
  <2>11. outAckId' \in [Sides -> 0..MaxMsgs] /\ \A r \in Sides : outAckId'[r] <= inMsgId[Peer(r)]
    <3>1. ack \in 0..MaxMsgs
      BY <1>a, <2>3
    <3>2. outAckId' \in [Sides -> 0..MaxMsgs]
      BY <1>0, <1>1, <2>4, <3>1
    <3>3. ASSUME NEW r \in Sides PROVE outAckId'[r] <= inMsgId[Peer(r)]
      <4>1. CASE r = p
        BY <1>2, <2>4, <4>1
      <4>2. CASE r # p
        BY <1>3, <4>2 DEF Counters
      <4> QED BY <4>1, <4>2
    <3> QED BY <3>2, <3>3
  <2>12. \A r \in Sides : Queue(r, unack'[r], outAckId'[r])
    BY <1>3, <2>8
  <2> QED BY <1>1, <1>2, <2>10, <2>11, <2>12
<1> QED BY <1>4, <1>5
-----------------------------------------------------------------------------
(* Preservation of the invariant.                                            *)

\* The types of what does not occur in the rest of the invariant.
Rest ==
    /\ inAckId \in [Sides -> 0..MaxMsgs]
    /\ ackTimer \in [Sides -> BOOLEAN] /\ throttled \in [Sides -> BOOLEAN]
    /\ reconnecting \in [Sides -> BOOLEAN] /\ paused \in [Sides -> BOOLEAN]
    /\ sock \in [Sides -> Sockets] /\ awaitingOk \in BOOLEAN
    /\ pending \in Seq(Sockets) /\ closed \in SUBSET Sockets
    /\ faults \in 0..MaxFaults /\ losses \in 0..MaxLosses

\* Steps that send and deliver nothing and take an acknowledgement of
\* something the peer has been given.
LEMMA AckStep ==
  ASSUME IndInv, UNCHANGED <<sent, delivered, inMsgId>>,
         NEW p \in Sides, NEW ack \in Nat, ack <= inMsgId[Peer(p)], AcceptAck(p, ack),
         Rest', HeldIn(held', From), WireIn(wire', From)
  PROVE  IndInv'
<1>1. /\ outMsgId' = outMsgId
      /\ outAckId' \in [Sides -> 0..MaxMsgs]
      /\ \A r \in Sides : outAckId'[r] <= inMsgId[Peer(r)]
      /\ HeldIn(unack', From)
      /\ \A r \in Sides : Queue(r, unack'[r], outAckId'[r])
  BY AcceptAckQueue DEF IndInv
<1>2. From' = From
  BY <1>1 DEF From
<1>3. HeldIn(unack, From)' /\ HeldIn(held, From)' /\ WireIn(wire, From)'
  BY <1>1, <1>2 DEF HeldIn, WireIn
<1>4. Counters'
  BY <1>1 DEF Counters, IndInv
<1>5. \A r \in Sides : Queue(r, unack[r], outAckId[r])'
  BY <1>1 DEF Queue
<1>6. TypeOK'
  BY <1>1 DEF TypeOK, IndInv, Rest, HeldIn, WireIn, Streams
<1> QED BY <1>3, <1>4, <1>5, <1>6 DEF IndInv

\* Steps that leave the counters and the queues alone.
LEMMA QuietStep ==
  ASSUME IndInv, UNCHANGED <<sent, delivered, outMsgId, outAckId, unack, inMsgId>>,
         Rest', HeldIn(held', From), WireIn(wire', From)
  PROVE  IndInv'
<1>1. From' = From
  BY DEF From
<1>2. HeldIn(unack, From)' /\ HeldIn(held, From)' /\ WireIn(wire, From)'
  BY <1>1 DEF HeldIn, WireIn, IndInv
<1>3. Counters'
  BY DEF Counters, IndInv
<1>4. \A r \in Sides : Queue(r, unack[r], outAckId[r])'
  BY DEF Queue, IndInv
<1>5. TypeOK'
  BY DEF TypeOK, IndInv, Rest, HeldIn, WireIn, Streams
<1> QED BY <1>2, <1>3, <1>4, <1>5 DEF IndInv

\* Initially nothing has been sent.
LEMMA Initially == Init => IndInv
<1> SUFFICES ASSUME Init PROVE IndInv
  OBVIOUS
<1> USE ConstantsAssumption
<1>1. TypeOK
  <2>1. \A S : <<>> \in Seq(S)
    BY EmptySeq
  <2>2. /\ sent \in [Sides -> Seq(Data)]
        /\ delivered \in [Sides -> Seq(Data \cup ControlData \cup {Empty})]
        /\ unack \in [Sides -> Seq(ProtocolMessage)] /\ held \in [Sides -> Seq(ProtocolMessage)]
        /\ pending \in Seq(Sockets) /\ wire \in [Sockets -> Streams]
    BY <2>1 DEF Init, Streams
  <2>3. /\ outMsgId \in [Sides -> 0..MaxMsgs] /\ outAckId \in [Sides -> 0..MaxMsgs]
        /\ inMsgId \in [Sides -> 0..MaxMsgs]
    BY DEF Init
  <2>4. Rest
    <3>1. inAckId \in [Sides -> 0..MaxMsgs] /\ faults \in 0..MaxFaults /\ losses \in 0..MaxLosses
      BY DEF Init
    <3>2. /\ ackTimer \in [Sides -> BOOLEAN] /\ throttled \in [Sides -> BOOLEAN]
          /\ reconnecting \in [Sides -> BOOLEAN] /\ paused \in [Sides -> BOOLEAN]
          /\ awaitingOk \in BOOLEAN
      BY DEF Init
    <3>3. sock \in [Sides -> Sockets] /\ closed \in SUBSET Sockets
      BY DEF Init
    <3> QED BY <2>2, <3>1, <3>2, <3>3 DEF Rest
  <2> QED BY <2>2, <2>3, <2>4 DEF TypeOK, Rest
<1>2. Counters /\ \A p \in Sides : Queue(p, unack[p], outAckId[p])
  BY DEF Init, Counters, Queue
<1>3. HeldIn(unack, From) /\ HeldIn(held, From) /\ WireIn(wire, From)
  BY DEF Init, HeldIn, WireIn
<1> QED BY <1>1, <1>2, <1>3 DEF IndInv

\* What the proofs of the actions use of the invariant.
LEMMA Facts ==
  ASSUME IndInv
  PROVE  /\ From \in [Sides -> SUBSET Bounded] /\ Rest
         /\ inMsgId \in [Sides -> 0..MaxMsgs] /\ outMsgId \in [Sides -> 0..MaxMsgs]
         /\ HeldIn(unack, From) /\ HeldIn(held, From) /\ WireIn(wire, From)
         /\ \A p \in Sides : unack[p] \in Seq(From[p]) /\ held[p] \in Seq(From[p])
<1>1. inMsgId \in [Sides -> 0..MaxMsgs] /\ outMsgId \in [Sides -> 0..MaxMsgs]
  BY DEF IndInv, TypeOK
<1>2. From \in [Sides -> SUBSET Bounded]
  BY <1>1, FromBounded DEF From
<1>3. Rest
  BY DEF IndInv, TypeOK, Rest
<1> QED BY <1>1, <1>2, <1>3 DEF IndInv, HeldIn

\* A stream of one message.
LEMMA Singleton == ASSUME NEW S, NEW x \in S PROVE <<x>> \in Seq(S)
  OBVIOUS

\* A message without a payload that acknowledges no more than p has been given
\* is one p can write.
LEMMA PlainMsg ==
  ASSUME IndInv, NEW p \in Sides, NEW ack \in Nat, ack <= inMsgId[p],
         NEW type \in ProtocolMessageType \ {"Regular"}, NEW data \in ControlData \cup {Empty}
  PROVE  <<Msg(type, ack, data)>> \in Seq(From[p])
<1>1. Msg(type, ack, data) \in ProtocolMessage
  BY DEF Msg, ProtocolMessage
<1>2. Msg(type, ack, data) \in From[p]
  BY <1>1 DEF Msg, From, FromOf, Msgs
<1> QED BY <1>2, Singleton

\* The acknowledging messages.
LEMMA AckMsgs ==
  ASSUME IndInv, NEW p \in Sides
  PROVE  /\ <<Msg("Ack", inMsgId[p], Empty)>> \in Seq(From[p])
         /\ <<Msg("KeepAlive", inMsgId[p], Empty)>> \in Seq(From[p])
<1>1. inMsgId[p] \in Nat /\ inMsgId[p] <= inMsgId[p]
  BY Facts
<1>2. {"Ack", "KeepAlive"} \subseteq ProtocolMessageType \ {"Regular"}
  BY DEF ProtocolMessageType
<1> QED BY <1>1, <1>2, PlainMsg

\* The messages that carry neither an acknowledgement nor a payload.
LEMMA ControlMsgs ==
  ASSUME IndInv, NEW p \in Sides,
         NEW type \in ProtocolMessageType \ {"Regular"}, NEW data \in ControlData \cup {Empty}
  PROVE  <<Msg(type, 0, data)>> \in Seq(From[p])
<1>1. 0 \in Nat /\ 0 <= inMsgId[p]
  BY Facts
<1> QED BY <1>1, PlainMsg

\* The types and the range of the received message.
LEMMA IncomingMsg ==
  ASSUME IndInv, NEW p \in Sides, wire[sock[p]][p] # <<>>
  PROVE  /\ WireIn(Consumed(p), From) /\ Incoming(p) \in From[Peer(p)]
         /\ Incoming(p) \in ProtocolMessage
         /\ Incoming(p).ack \in Nat /\ Incoming(p).ack <= inMsgId[Peer(p)]
<1>1. WireIn(Consumed(p), From) /\ Incoming(p) \in From[Peer(p)]
  BY Facts, ConsumedIn DEF Rest
<1>2. /\ Incoming(p) \in ProtocolMessage /\ Incoming(p).ack <= inMsgId[Peer(p)]
  BY <1>1 DEF From, FromOf, Msgs
<1> QED BY <1>1, <1>2 DEF ProtocolMessage

\* _sendAckCheck writes an Ack of what has been delivered, or waits on.
LEMMA AckTimerStep == ASSUME IndInv, NEW p \in Sides, AckTimerFires(p) PROVE IndInv'
<1>1. Rest'
  BY Facts DEF AckTimerFires, Rest, handshake
<1>2. HeldIn(held', From) /\ WireIn(wire', From)
  <2>1. CASE inMsgId[p] > inAckId[p]
    <3>1. <<Msg("Ack", inMsgId[p], Empty)>> \in Seq(From[p])
      BY AckMsgs
    <3>2. Write(wire, p, <<Msg("Ack", inMsgId[p], Empty)>>)
      BY <2>1 DEF AckTimerFires
    <3> QED BY <3>1, <3>2, Facts, WriteIn DEF Rest
  <2>2. CASE ~(inMsgId[p] > inAckId[p])
    BY <2>2, Facts DEF AckTimerFires
  <2> QED BY <2>1, <2>2
<1> QED BY <1>1, <1>2, QuietStep DEF AckTimerFires, history, outgoing

\* A KeepAlive carries an acknowledgement like any other message.
LEMMA KeepAliveStep == ASSUME IndInv, NEW p \in Sides, KeepAlive(p) PROVE IndInv'
<1>1. Rest'
  BY Facts DEF KeepAlive, Rest, handshake
<1>2. HeldIn(held', From) /\ WireIn(wire', From)
  <2>1. <<Msg("KeepAlive", inMsgId[p], Empty)>> \in Seq(From[p])
    BY AckMsgs
  <2>2. Write(wire, p, <<Msg("KeepAlive", inMsgId[p], Empty)>>)
    BY DEF KeepAlive
  <2> QED BY <2>1, <2>2, Facts, WriteIn DEF Rest
<1> QED BY <1>1, <1>2, QuietStep DEF KeepAlive, history, outgoing

\* The end of the throttling of replay requests touches no message.
LEMMA ThrottleStep == ASSUME IndInv, NEW p \in Sides, ThrottleExpires(p) PROVE IndInv'
<1>1. Rest'
  BY Facts DEF ThrottleExpires, Rest, handshake, writer, network
<1>2. HeldIn(held', From) /\ WireIn(wire', From)
  BY Facts DEF ThrottleExpires, writer, network
<1> QED BY <1>1, <1>2, QuietStep DEF ThrottleExpires, history, outgoing

\* A message that was delivered before is dropped, its acknowledgement taken.
LEMMA OldRegularStep == ASSUME IndInv, NEW p \in Sides, ReceiveOldRegular(p) PROVE IndInv'
<1>1. Rest'
  BY Facts DEF ReceiveOldRegular, Rest, handshake, incoming, writer
<1>2. wire[sock[p]][p] # <<>> /\ wire' = Consumed(p) /\ held' = held
  BY DEF ReceiveOldRegular, Receives, writer
<1>3. HeldIn(held', From) /\ WireIn(wire', From)
  BY <1>2, Facts, IncomingMsg
<1> QED BY <1>1, <1>2, <1>3, IncomingMsg, AckStep DEF ReceiveOldRegular, history, incoming

\* An Ack is nothing but its acknowledgement.
LEMMA AckReceiptStep == ASSUME IndInv, NEW p \in Sides, ReceiveAck(p) PROVE IndInv'
<1>1. Rest'
  BY Facts DEF ReceiveAck, Rest, handshake, incoming, writer
<1>2. wire[sock[p]][p] # <<>> /\ wire' = Consumed(p) /\ held' = held
  BY DEF ReceiveAck, Receives, writer
<1>3. HeldIn(held', From) /\ WireIn(wire', From)
  BY <1>2, Facts, IncomingMsg
<1> QED BY <1>1, <1>2, <1>3, IncomingMsg, AckStep DEF ReceiveAck, history, incoming

\* A gap is answered by a ReplayRequest, and nothing is delivered.
LEMMA GapStep == ASSUME IndInv, NEW p \in Sides, ReceiveGap(p) PROVE IndInv'
<1>1. Rest'
  BY Facts DEF ReceiveGap, Rest, handshake
<1>2. wire[sock[p]][p] # <<>>
  BY DEF ReceiveGap, Receives
<1>3. HeldIn(held', From) /\ WireIn(wire', From)
  <2>1. CASE throttled[p]
    BY <1>2, <2>1, Facts, IncomingMsg DEF ReceiveGap
  <2>2. CASE ~throttled[p]
    <3>1. <<Msg("ReplayRequest", 0, Empty)>> \in Seq(From[p])
      BY ControlMsgs DEF ProtocolMessageType
    <3>2. Write(Consumed(p), p, <<Msg("ReplayRequest", 0, Empty)>>)
      BY <2>2 DEF ReceiveGap
    <3> QED BY <1>2, <3>1, <3>2, Facts, IncomingMsg, WriteIn DEF Rest
  <2> QED BY <2>1, <2>2
<1> QED BY <1>1, <1>2, <1>3, IncomingMsg, AckStep DEF ReceiveGap, history

\* A ReplayRequest is answered with the queue, whose messages are genuine.
LEMMA ReplayStep == ASSUME IndInv, NEW p \in Sides, ReceiveReplayRequest(p) PROVE IndInv'
<1>1. Rest'
  BY Facts DEF ReceiveReplayRequest, Rest, handshake, incoming
<1>2. wire[sock[p]][p] # <<>> /\ Write(Consumed(p), p, unack[p])
  BY DEF ReceiveReplayRequest, Receives
<1>3. HeldIn(held', From) /\ WireIn(wire', From)
  BY <1>2, Facts, IncomingMsg, WriteIn DEF Rest
<1> QED BY <1>1, <1>3, QuietStep DEF ReceiveReplayRequest, history, outgoing, incoming

\* Pause stops the writer.
LEMMA PauseStep == ASSUME IndInv, NEW p \in Sides, ReceivePause(p) PROVE IndInv'
<1>1. Rest'
  BY Facts DEF ReceivePause, Rest, handshake, incoming
<1>2. wire[sock[p]][p] # <<>>
  BY DEF ReceivePause, Receives
<1>3. HeldIn(held', From) /\ WireIn(wire', From)
  BY <1>2, Facts, IncomingMsg DEF ReceivePause
<1> QED BY <1>1, <1>3, QuietStep DEF ReceivePause, history, outgoing, incoming

\* Resume writes what the writer held back.
LEMMA ResumeStep == ASSUME IndInv, NEW p \in Sides, ReceiveResume(p) PROVE IndInv'
<1>1. Rest'
  BY Facts DEF ReceiveResume, Rest, handshake, incoming
<1>2. /\ wire[sock[p]][p] # <<>> /\ sock[p] \in Sockets
      /\ wire' = Sent(Consumed(p), sock[p], Peer(p), held[p])
      /\ held' = [held EXCEPT ![p] = <<>>]
  BY Facts DEF ReceiveResume, Receives, Rest
<1>3. WireIn(wire', From)
  BY <1>2, Facts, IncomingMsg, SentIn
<1>4. HeldIn(held', From)
  BY <1>2, Facts DEF HeldIn
<1> QED BY <1>1, <1>3, <1>4, QuietStep DEF ReceiveResume, history, outgoing, incoming

\* The control message ok ends the reconnection: the queue is sent again.
LEMMA OkStep == ASSUME IndInv, NEW p \in Sides, ReceiveOk(p) PROVE IndInv'
<1>1. wire[sock[p]][p] # <<>>
  BY DEF ReceiveOk, Receives
<1>2. CASE p = "client" /\ awaitingOk
  <2>1. Rest'
    BY ZenonT(40), <1>2, Facts DEF ReceiveOk, Rest
  <2>2. EndAcceptReconnection(p, unack[p]) \in Seq(From[p])
    BY Facts, AckMsgs, ConcatProperties DEF EndAcceptReconnection
  <2>3. HeldIn(held', From) /\ WireIn(wire', From)
    BY <1>1, <1>2, <2>2, Facts, IncomingMsg, WriteIn DEF Rest, ReceiveOk
  <2> QED BY <2>1, <2>3, QuietStep DEF ReceiveOk, history, outgoing
<1>3. CASE ~(p = "client" /\ awaitingOk)
  <2>1. Rest'
    BY <1>3, Facts DEF ReceiveOk, Rest
  <2>2. HeldIn(held', From) /\ WireIn(wire', From)
    BY <1>1, <1>3, Facts, IncomingMsg DEF ReceiveOk
  <2> QED BY <2>1, <2>2, QuietStep DEF ReceiveOk, history, outgoing
<1> QED BY <1>2, <1>3
\* beginAcceptReconnection on the client: the old stream is dropped, the new
\* one starts with the request, and the new writer holds nothing.
LEMMA BeginIn ==
  ASSUME IndInv, NEW s \in Sockets, BeginReconnection(s)
  PROVE  /\ HeldIn(held', From) /\ WireIn(wire', From)
         /\ sock' \in [Sides -> Sockets] /\ closed' \in SUBSET Sockets
         /\ reconnecting' \in [Sides -> BOOLEAN] /\ awaitingOk' \in BOOLEAN
         /\ throttled' \in [Sides -> BOOLEAN] /\ paused' \in [Sides -> BOOLEAN]
<1>1. sock["client"] \in Sockets /\ From \in [Sides -> SUBSET Bounded]
  BY Facts DEF Rest
<1>2. <<>> \in Seq(From["server"])
  BY EmptySeq
<1>3. <<Msg("Control", 0, "connectionType")>> \in Seq(From["client"])
  BY ControlMsgs DEF ProtocolMessageType, ControlData
<1> DEFINE w == [wire EXCEPT ![sock["client"]]["client"] = <<>>]
<1>4. WireIn(w, From)
  BY <1>1, <1>2, Facts, ReplaceIn
<1>5. wire' = [w EXCEPT ![s]["server"] = <<Msg("Control", 0, "connectionType")>>]
  BY DEF BeginReconnection
<1> HIDE DEF w
<1>6. WireIn(wire', From)
  BY <1>1, <1>3, <1>4, <1>5, ReplaceIn
<1>7. HeldIn(held', From)
  BY Facts DEF BeginReconnection, HeldIn
<1>8. /\ sock' \in [Sides -> Sockets] /\ closed' \in SUBSET Sockets
      /\ reconnecting' \in [Sides -> BOOLEAN] /\ awaitingOk' \in BOOLEAN
      /\ throttled' \in [Sides -> BOOLEAN] /\ paused' \in [Sides -> BOOLEAN]
  BY <1>1, Facts DEF BeginReconnection, Rest
<1> QED BY <1>6, <1>7, <1>8

\* A new attempt to reconnect, after a close or a time-out.
LEMMA ReconnectStep == ASSUME IndInv, Reconnect \/ SpuriousTimeout PROVE IndInv'
<1>1. PICK s \in Sockets : BeginReconnection(s)
  BY DEF Reconnect, SpuriousTimeout
<1>2. faults' \in 0..MaxFaults
  BY SMTT(40), Facts, ConstantsAssumption DEF Reconnect, SpuriousTimeout, Rest
<1>3. Rest'
  BY <1>1, <1>2, Facts, BeginIn DEF BeginReconnection, Rest
<1>4. HeldIn(held', From) /\ WireIn(wire', From)
  BY <1>1, BeginIn
<1> QED BY <1>1, <1>3, <1>4, QuietStep DEF BeginReconnection, history, outgoing

\* An attempt that times out leaves the client reconnecting.
LEMMA GiveUpStep == ASSUME IndInv, GiveUp PROVE IndInv'
<1>1. faults' \in 0..MaxFaults
  BY SMTT(40), Facts, ConstantsAssumption DEF GiveUp, Rest
<1>2. Rest'
  BY <1>1, Facts DEF GiveUp, Rest, incoming, writer
<1>3. HeldIn(held', From) /\ WireIn(wire', From)
  BY Facts DEF GiveUp, writer
<1> QED BY <1>2, <1>3, QuietStep DEF GiveUp, history, outgoing, incoming

\* The server's protocol moves to the new socket: it takes the acknowledgement
\* in the initial chunk and writes what is left of its queue again.
LEMMA AcceptStep ==
  ASSUME IndInv, NEW s \in Sockets, NEW skip \in Nat, NEW n \in Nat,
         skip + n <= Len(wire[s]["server"]),
         NEW before \in Seq(From["server"]), NEW after \in Seq(From["server"]),
         AcceptReconnection(s, skip, n, before, after), pending' \in Seq(Sockets)
  PROVE  IndInv'
<1> DEFINE stream == wire[s]["server"]
           ack == IF n = 0 THEN 0 ELSE stream[skip + n].ack
           written == before \o EndAcceptReconnection("server", PopConfirmed("server", ack)) \o after
           w == [wire EXCEPT ![sock["server"]]["server"] = <<>>]
           rest == SubSeq(stream, skip + n + 1, Len(stream))
           v == [w EXCEPT ![s]["server"] = rest]
<1>1. sock["server"] \in Sockets /\ From \in [Sides -> SUBSET Bounded]
  BY Facts DEF Rest
<1>2. stream \in Seq(From["client"])
  BY Facts DEF WireIn
<1>3. ack \in Nat /\ ack <= inMsgId[Peer("server")]
  <2>1. CASE n = 0
    BY <2>1, Facts
  <2>2. CASE n # 0
    <3>1. stream[skip + n] \in From["client"]
      BY <1>2, <2>2
    <3>2. stream[skip + n] \in ProtocolMessage /\ stream[skip + n].ack <= inMsgId["client"]
      BY <3>1 DEF From, FromOf, Msgs
    <3> QED BY <2>2, <3>2 DEF ProtocolMessage
  <2> QED BY <2>1, <2>2
<1>4. AcceptAck("server", ack)
  BY DEF AcceptReconnection
<1> HIDE DEF ack
<1>5. PopConfirmed("server", ack) \in Seq(From["server"])
  BY <1>3, <1>4, AcceptAckQueue DEF IndInv, HeldIn
<1>6. written \in Seq(From["server"])
  <2>1. EndAcceptReconnection("server", PopConfirmed("server", ack)) \in Seq(From["server"])
    BY <1>5, AckMsgs, ConcatProperties DEF EndAcceptReconnection
  <2>2. before \o EndAcceptReconnection("server", PopConfirmed("server", ack)) \in Seq(From["server"])
    BY <2>1, ConcatProperties
  <2> QED BY <2>2, ConcatProperties
<1>7. WireIn(w, From)
  <2>1. <<>> \in Seq(From["client"])
    BY EmptySeq
  <2> QED BY <1>1, <2>1, Facts, ReplaceIn
<1> HIDE DEF w
<1>8. WireIn(v, From)
  <2>1. skip + n + 1 \in Nat \ {0}
    OBVIOUS
  <2>2. rest \in Seq(From["client"])
    BY <1>2, <2>1, SubSeqIn
  <2> HIDE DEF rest
  <2> QED BY <1>1, <1>7, <2>2, ReplaceIn
<1>9. wire' = Sent(v, s, "client", written)
  BY DEF AcceptReconnection, ack, w
<1> HIDE DEF v, written
<1>10. WireIn(wire', From)
  BY <1>1, <1>6, <1>8, <1>9, SentIn
<1>11. HeldIn(held', From)
  BY Facts DEF AcceptReconnection, HeldIn
<1>12. Rest'
  BY <1>1, Facts DEF AcceptReconnection, Rest
<1> QED BY <1>3, <1>4, <1>10, <1>11, <1>12, AckStep DEF AcceptReconnection, history

\* The server, or the extension host, accepts a socket and sends its queue.
LEMMA ServerStep == ASSUME IndInv, ServerAccepts PROVE IndInv'
<1>1. ASSUME NEW s \in Sockets, ManagementAccept(s) PROVE IndInv'
  <2>1. PICK n \in 0..(Len(wire[s]["server"]) - 1) :
           AcceptReconnection(s, 1, n, <<Msg("Control", 0, "ok")>>, <<>>)
    BY <1>1 DEF ManagementAccept
  <2>2. wire[s]["server"] \in Seq(From["client"])
    BY Facts DEF WireIn
  <2>3. n \in Nat /\ 1 \in Nat /\ 1 + n <= Len(wire[s]["server"])
    BY <2>2
  <2>4. <<Msg("Control", 0, "ok")>> \in Seq(From["server"]) /\ <<>> \in Seq(From["server"])
    BY ControlMsgs, EmptySeq DEF ProtocolMessageType, ControlData
  <2>5. pending' \in Seq(Sockets)
    BY <1>1, Facts DEF ManagementAccept, Rest
  <2> QED BY <2>1, <2>3, <2>4, <2>5, AcceptStep
<1>2. ASSUME NEW s \in Sockets, HandOff(s) PROVE IndInv'
  <2> DEFINE w == [wire EXCEPT ![s]["server"] = Tail(@)]
  <2>1. wire[s]["server"] \in Seq(From["client"]) /\ wire[s]["server"] # <<>>
    BY <1>2, Facts DEF WireIn, HandOff, Requested
  <2>2. Tail(wire[s]["server"]) \in Seq(From["client"])
    BY <2>1, HeadTailProperties
  <2>3. WireIn(w, From)
    BY <2>2, Facts, ReplaceIn
  <2>4. wire' = Sent(w, s, "client", PauseThenOk)
    BY <1>2 DEF HandOff
  <2> HIDE DEF w
  <2>5. PauseThenOk \in Seq(From["server"])
    <3>1. /\ <<Msg("Pause", 0, Empty)>> \in Seq(From["server"])
          /\ <<Msg("Control", 0, "ok")>> \in Seq(From["server"])
      BY ControlMsgs DEF ProtocolMessageType, ControlData
    <3>2. PauseThenOk = <<Msg("Pause", 0, Empty)>> \o <<Msg("Control", 0, "ok")>>
      BY DEF PauseThenOk
    <3> QED BY <3>1, <3>2, ConcatProperties
  <2>6. WireIn(wire', From)
    BY <2>3, <2>4, <2>5, Facts, SentIn
  <2>7. Rest' /\ HeldIn(held', From)
    <3>1. pending' \in Seq(Sockets)
      BY <1>2, Facts, AppendProperties DEF HandOff, Rest
    <3> QED BY <1>2, <3>1, Facts DEF HandOff, Rest, incoming, writer
  <2> QED BY <1>2, <2>6, <2>7, QuietStep DEF HandOff, history, outgoing, incoming
<1>3. ASSUME ExtHostAccept PROVE IndInv'
  <2> DEFINE s == Head(pending)
  <2>1. s \in Sockets /\ Tail(pending) \in Seq(Sockets)
    BY <1>3, Facts, HeadTailProperties DEF ExtHostAccept, Rest
  <2>2. PICK n \in 0..Len(wire[s]["server"]) : AcceptReconnection(s, 0, n, <<>>, ThenResume)
    BY <1>3 DEF ExtHostAccept
  <2>3. pending' \in Seq(Sockets)
    BY <1>3, <2>1 DEF ExtHostAccept
  <2> HIDE DEF s
  <2>4. wire[s]["server"] \in Seq(From["client"])
    BY <2>1, Facts DEF WireIn
  <2>5. n \in Nat /\ 0 \in Nat /\ 0 + n <= Len(wire[s]["server"])
    BY <2>4
  <2>6. ThenResume \in Seq(From["server"]) /\ <<>> \in Seq(From["server"])
    BY ControlMsgs, EmptySeq DEF ProtocolMessageType, ThenResume
  <2> QED BY <2>1, <2>2, <2>3, <2>5, <2>6, AcceptStep
<1> QED BY <1>1, <1>2, <1>3 DEF ServerAccepts

\* Losing messages and sockets keeps what is left genuine.
LEMMA NetworkStepInv == ASSUME IndInv, NetworkStep PROVE IndInv'
<1>1. ASSUME NEW s \in Sockets, Break(s) PROVE IndInv'
  <2>1. faults' \in 0..MaxFaults
    <3>1. faults \in 0..MaxFaults /\ faults < MaxFaults /\ faults' = faults + 1
      BY <1>1, Facts DEF Break, Rest
    <3> QED BY <3>1, ConstantsAssumption
  <2>2. Rest' /\ HeldIn(held', From) /\ WireIn(wire', From)
    BY <1>1, <2>1, Facts DEF Break, Rest, incoming, writer, handshake
  <2> QED BY <1>1, <2>2, QuietStep DEF Break, history, outgoing, incoming
<1>2. ASSUME NEW s \in Sockets, LostInHandOff(s) PROVE IndInv'
  <2>1. wire[s]["server"] \in Seq(From["client"]) /\ wire[s]["server"] # <<>>
    BY <1>2, Facts DEF WireIn, LostInHandOff
  <2>2. Tail(wire[s]["server"]) \in Seq(From["client"])
    BY <2>1, HeadTailProperties
  <2>3. WireIn(wire', From)
    BY <1>2, <2>2, Facts, ReplaceIn DEF LostInHandOff
  <2>4. Rest' /\ HeldIn(held', From)
    BY <1>2, Facts DEF LostInHandOff, Rest, incoming, writer, handshake
  <2> QED BY <1>2, <2>3, <2>4, QuietStep DEF LostInHandOff, history, outgoing, incoming
<1>3. ASSUME NEW s \in Sockets, NEW p \in Sides, LoseTail(s, p) PROVE IndInv'
  <2>1. wire[s][p] \in Seq(From[Peer(p)]) /\ wire[s][p] # <<>>
    <3>1. wire[s][Peer(Peer(p))] \in Seq(From[Peer(p)])
      BY Facts DEF WireIn
    <3> QED BY <1>3, <3>1 DEF LoseTail
  <2>2. SubSeq(wire[s][p], 1, Len(wire[s][p]) - 1) \in Seq(From[Peer(p)])
    <3>1. Len(wire[s][p]) - 1 \in 0..Len(wire[s][p])
      BY <2>1, EmptySeq, LenProperties
    <3> QED BY <2>1, <3>1, PrefixIn
  <2>3. WireIn(wire', From)
    BY <1>3, <2>2, Facts, ReplaceIn DEF LoseTail
  <2>4. Rest' /\ HeldIn(held', From)
    BY <1>3, Facts DEF LoseTail, Rest, incoming, writer, handshake
  <2> QED BY <1>3, <2>3, <2>4, QuietStep DEF LoseTail, history, outgoing, incoming
<1>4. ASSUME NEW s \in Sockets, NEW p \in Sides, Lose(s, p) PROVE IndInv'
  <2> DEFINE str == wire[s][p]
  <2>1. str \in Seq(From[Peer(p)])
    <3>1. wire[s][Peer(Peer(p))] \in Seq(From[Peer(p)])
      BY Facts DEF WireIn
    <3> QED BY <3>1
  <2>2. PICK i \in 1..Len(str) :
           wire' = [wire EXCEPT ![s][p] = SubSeq(str, 1, i - 1) \o SubSeq(str, i + 1, Len(str))]
    BY <1>4 DEF Lose
  <2>3. SubSeq(str, 1, i - 1) \o SubSeq(str, i + 1, Len(str)) \in Seq(From[Peer(p)])
    <3> HIDE DEF str
    <3>a. i - 1 \in 0..Len(str) /\ i + 1 \in Nat \ {0}
      BY <2>1
    <3>1. SubSeq(str, 1, i - 1) \in Seq(From[Peer(p)])
      BY <2>1, <3>a, PrefixIn
    <3>2. SubSeq(str, i + 1, Len(str)) \in Seq(From[Peer(p)])
      BY <2>1, <3>a, SubSeqIn
    <3> QED BY <3>1, <3>2, ConcatProperties
  <2>4. WireIn(wire', From)
    BY <2>2, <2>3, Facts, ReplaceIn
  <2>5. losses' \in 0..MaxLosses
    <3>1. losses \in 0..MaxLosses /\ losses < MaxLosses /\ losses' = losses + 1
      BY <1>4, Facts DEF Lose, Rest
    <3> QED BY <3>1, ConstantsAssumption
  <2>6. Rest' /\ HeldIn(held', From)
    BY <1>4, <2>5, Facts DEF Lose, Rest, incoming, writer, handshake
  <2> QED BY <1>4, <2>4, <2>6, QuietStep DEF Lose, history, outgoing, incoming
<1> QED BY <1>1, <1>2, <1>3, <1>4 DEF NetworkStep
\* send() extends the history, the queue and the set of messages p can write.
LEMMA SendStep == ASSUME IndInv, NEW p \in Sides, NEW d \in Data, Send(p, d) PROVE IndInv'
<1> DEFINE n == outMsgId[p]
           m == Regular(n + 1, inMsgId[p], d)
<1>1. /\ sent \in [Sides -> Seq(Data)] /\ unack \in [Sides -> Seq(ProtocolMessage)]
      /\ outMsgId \in [Sides -> 0..MaxMsgs] /\ inMsgId \in [Sides -> 0..MaxMsgs]
      /\ outAckId \in [Sides -> 0..MaxMsgs]
      /\ n \in Nat /\ n + 1 \in 0..MaxMsgs /\ inMsgId[p] \in Nat /\ Len(sent[p]) = n
  <2>1. /\ sent \in [Sides -> Seq(Data)] /\ unack \in [Sides -> Seq(ProtocolMessage)]
        /\ outMsgId \in [Sides -> 0..MaxMsgs] /\ inMsgId \in [Sides -> 0..MaxMsgs]
        /\ outAckId \in [Sides -> 0..MaxMsgs]
    BY DEF IndInv, TypeOK
  <2>2. Len(sent[p]) = n
    BY DEF IndInv, Counters
  <2>3. n < MaxMsgs
    BY DEF Send
  <2> QED BY SMTT(40), <2>1, <2>2, <2>3, ConstantsAssumption
<1>2. /\ outMsgId' = [outMsgId EXCEPT ![p] = n + 1]
      /\ unack' = [unack EXCEPT ![p] = Append(unack[p], m)]
      /\ sent' = [sent EXCEPT ![p] = Append(sent[p], d)]
      /\ UNCHANGED <<delivered, outAckId, inMsgId>>
  BY DEF Send
<1>3. /\ outMsgId' \in [Sides -> 0..MaxMsgs] /\ inMsgId' \in [Sides -> 0..MaxMsgs]
      /\ sent' \in [Sides -> Seq(Data)]
  <2>1. Append(sent[p], d) \in Seq(Data)
    BY <1>1, AppendProperties
  <2> QED BY <1>1, <1>2, <2>1
<1>4. /\ outMsgId'[p] = n + 1 /\ sent'[p] = Append(sent[p], d)
      /\ Len(sent'[p]) = n + 1 /\ sent'[p][n + 1] = d
      /\ \A i \in 1..n : sent'[p][i] = sent[p][i]
  <2>1. sent[p] \in Seq(Data) /\ outMsgId'[p] = n + 1 /\ sent'[p] = Append(sent[p], d)
    BY <1>1, <1>2
  <2> QED BY SMTT(40), <1>1, <2>1, AppendProperties
<1>5. \A r \in Sides \ {p} : /\ outMsgId'[r] = outMsgId[r] /\ sent'[r] = sent[r]
                              /\ unack'[r] = unack[r]
  BY <1>1, <1>2
<1>6. m \in ProtocolMessage
  BY <1>1 DEF Regular, ProtocolMessage, ProtocolMessageType
<1>7. From \in [Sides -> SUBSET Bounded] /\ From' \in [Sides -> SUBSET Bounded]
  BY <1>1, <1>3, FromBounded DEF From
<1>8. \A r \in Sides : From[r] \subseteq From'[r]
  <2> SUFFICES ASSUME NEW r \in Sides
               PROVE  Msgs(inMsgId[r], outMsgId[r], sent[r]) \subseteq Msgs(inMsgId'[r], outMsgId'[r], sent'[r])
    BY DEF From, FromOf
  <2>1. CASE r = p
    <3>1. /\ inMsgId[p] \in Nat /\ inMsgId[p] <= inMsgId[p] /\ inMsgId' = inMsgId
          /\ n \in Nat /\ n + 1 \in Nat /\ n <= n + 1
      BY SMTT(40), <1>1, <1>2
    <3>2. Msgs(inMsgId[p], n, sent[p]) \subseteq Msgs(inMsgId[p], n + 1, sent'[p])
      <4> DEFINE given == inMsgId[p]
                 old == sent[p]
                 new == sent'[p]
      <4>1. given \in Nat /\ given <= given /\ n \in Nat /\ n + 1 \in Nat /\ n <= n + 1
        BY <3>1
      <4>2. \A i \in 1..n : new[i] = old[i]
        BY <1>4
      <4> HIDE DEF given, old, new, n
      <4>3. Msgs(given, n, old) \subseteq Msgs(given, n + 1, new)
        BY ONLY <4>1, <4>2, MsgsMonotonic
      <4> QED BY <4>3 DEF given, old, new
    <3> QED BY <1>4, <2>1, <3>1, <3>2
  <2>2. CASE r # p
    BY <1>2, <1>5, <2>2
  <2> QED BY <2>1, <2>2
<1>9. m \in From'[p]
  <2>1. /\ m.ack = inMsgId[p] /\ m.type = "Regular" /\ m.id = n + 1 /\ m.data = d
    BY DEF Regular
  <2>2. m \in Msgs(inMsgId[p], n + 1, sent'[p])
    BY SMTT(40), <1>1, <1>4, <1>6, <2>1 DEF Msgs
  <2> QED BY <1>2, <1>4, <2>2 DEF From, FromOf
<1>10. /\ HeldIn(unack, From') /\ HeldIn(held, From') /\ WireIn(wire, From')
  BY <1>7, <1>8, Facts, InMonotonic
<1>11. HeldIn(held', From') /\ WireIn(wire', From')
  <2>1. <<m>> \in Seq(From'[p])
    BY <1>9, Singleton
  <2>2. CASE WritesAtOnce(p)
    <3>1. Write(wire, p, <<m>>)
      BY <2>2 DEF Send
    <3> HIDE DEF m
    <3> QED BY <1>7, <1>10, <2>1, <3>1, Facts, WriteIn DEF Rest
  <2>3. CASE ~WritesAtOnce(p)
    BY <1>10, <2>3 DEF Send
  <2> QED BY <2>2, <2>3
<1>12. HeldIn(unack', From')
  <2>1. unack[p] \in Seq(From'[p]) /\ unack[p] \in Seq(ProtocolMessage)
    BY <1>10 DEF HeldIn
  <2>2. Append(unack[p], m) \in Seq(From'[p]) /\ Append(unack[p], m) \in Seq(ProtocolMessage)
    BY <1>6, <1>9, <2>1, AppendProperties
  <2> HIDE DEF m
  <2> QED BY <1>1, <1>2, <1>10, <2>2 DEF HeldIn
<1>13. \A r \in Sides : Queue(r, unack[r], outAckId[r])'
  <2> SUFFICES ASSUME NEW r \in Sides
               PROVE  /\ Len(unack'[r]) = outMsgId'[r] - outAckId'[r]
                      /\ \A i \in 1..Len(unack'[r]) :
                            unack'[r][i].type = "Regular" /\ unack'[r][i].id = outAckId'[r] + i
    BY DEF Queue
  <2>1. /\ Len(unack[r]) = outMsgId[r] - outAckId[r]
        /\ \A i \in 1..Len(unack[r]) :
              unack[r][i].type = "Regular" /\ unack[r][i].id = outAckId[r] + i
    BY DEF IndInv, Queue
  <2>2. CASE r # p
    BY <1>2, <1>5, <2>1, <2>2
  <2>3. CASE r = p
    <3> DEFINE q == unack[p]
               a == outAckId[p]
    <3>1. q \in Seq(ProtocolMessage) /\ a \in Nat /\ a <= n
      BY SMTT(40), <1>1 DEF IndInv, Counters
    <3>2. unack'[p] = Append(q, m) /\ outAckId'[p] = a /\ m.type = "Regular" /\ m.id = n + 1
      BY <1>1, <1>2 DEF Regular
    <3>3. Len(q) = n - a /\ \A i \in 1..Len(q) : q[i].type = "Regular" /\ q[i].id = a + i
      BY <2>1, <2>3
    <3> HIDE DEF m, q, a, n
    <3>4. /\ Len(Append(q, m)) = Len(q) + 1
          /\ \A i \in 1..Len(q) : Append(q, m)[i] = q[i]
          /\ Append(q, m)[Len(q) + 1] = m
      BY <1>6, <3>1, AppendProperties
    <3>5. Len(Append(q, m)) = (n + 1) - a
      BY <1>1, <3>1, <3>3, <3>4
    <3>6. ASSUME NEW i \in 1..Len(Append(q, m))
          PROVE  Append(q, m)[i].type = "Regular" /\ Append(q, m)[i].id = a + i
      <4>1. CASE i \in 1..Len(q)
        BY <3>3, <3>4, <4>1
      <4>2. CASE i = Len(q) + 1
        <5>1. a + i = n + 1
          BY <1>1, <3>1, <3>3, <4>2
        <5> QED BY <3>2, <3>4, <4>2, <5>1
      <4>3. i \in 1..Len(q) \/ i = Len(q) + 1
        BY <3>1, <3>4
      <4> QED BY <4>1, <4>2, <4>3
    <3> QED BY <1>4, <2>3, <3>2, <3>5, <3>6
  <2> QED BY <2>2, <2>3
<1>14. Counters'
  <2> SUFFICES ASSUME NEW r \in Sides
               PROVE  /\ outAckId'[r] <= inMsgId'[Peer(r)] /\ inMsgId'[Peer(r)] <= outMsgId'[r]
                      /\ Len(sent'[r]) = outMsgId'[r] /\ Len(delivered'[r]) = inMsgId'[r]
                      /\ \A i \in 1..inMsgId'[r] : delivered'[r][i] = sent'[Peer(r)][i]
    BY DEF Counters
  <2>1. /\ outAckId[r] <= inMsgId[Peer(r)] /\ inMsgId[Peer(r)] <= outMsgId[r]
        /\ Len(sent[r]) = outMsgId[r] /\ Len(delivered[r]) = inMsgId[r]
        /\ \A i \in 1..inMsgId[r] : delivered[r][i] = sent[Peer(r)][i]
        /\ inMsgId[r] <= outMsgId[Peer(r)]
    BY DEF IndInv, Counters
  <2>2. outAckId'[r] <= inMsgId'[Peer(r)] /\ Len(delivered'[r]) = inMsgId'[r]
    BY <1>2, <2>1
  <2>3. inMsgId'[Peer(r)] <= outMsgId'[r] /\ Len(sent'[r]) = outMsgId'[r]
    <3>1. CASE r = p
      BY SMTT(40), <1>1, <1>2, <1>4, <2>1, <3>1
    <3>2. CASE r # p
      BY <1>2, <1>5, <2>1, <3>2
    <3> QED BY <3>1, <3>2
  <2>4. ASSUME NEW i \in 1..inMsgId'[r] PROVE delivered'[r][i] = sent'[Peer(r)][i]
    <3>1. CASE Peer(r) = p
      <4>1. i \in 1..n
        <5>1. outMsgId[Peer(r)] = n
          BY <3>1
        <5>2. inMsgId[r] \in Nat /\ inMsgId[r] <= n
          BY SMTT(40), <1>1, <2>1, <5>1, ConstantsAssumption
        <5>3. i \in 1..inMsgId[r]
          BY <1>2
        <5> QED BY SMTT(40), <1>1, <5>2, <5>3
      <4> QED BY <1>2, <1>4, <2>1, <3>1, <4>1
    <3>2. CASE Peer(r) # p
      BY <1>2, <1>5, <2>1, <3>2
    <3> QED BY <3>1, <3>2
  <2> QED BY <2>2, <2>3, <2>4
<1>15. Rest'
  BY <1>1, Facts DEF Send, Rest, handshake
<1>16. TypeOK'
  BY <1>2, <1>3, <1>11, <1>12, <1>15 DEF TypeOK, IndInv, Rest, HeldIn, WireIn, Streams
<1>17. HeldIn(unack, From)' /\ HeldIn(held, From)' /\ WireIn(wire, From)'
  BY <1>11, <1>12 DEF HeldIn, WireIn
<1> QED BY <1>13, <1>14, <1>16, <1>17 DEF IndInv
\* The next Regular message carries the payload that comes next.
LEMMA NextRegular ==
  ASSUME IndInv, NEW p \in Sides, ReceiveNextRegular(p)
  PROVE  /\ wire[sock[p]][p] # <<>> /\ Incoming(p).id = inMsgId[p] + 1
         /\ inMsgId[p] \in Nat /\ inMsgId[p] + 1 <= outMsgId[Peer(p)]
         /\ Incoming(p).data = sent[Peer(p)][inMsgId[p] + 1]
         /\ Incoming(p).data \in Data \cup ControlData \cup {Empty}
<1>1. wire[sock[p]][p] # <<>> /\ Incoming(p).type = "Regular" /\ Incoming(p).id = inMsgId[p] + 1
  BY DEF ReceiveNextRegular, Receives, IsNext, Incoming
<1>2. Incoming(p) \in From[Peer(p)] /\ Incoming(p) \in ProtocolMessage
  BY <1>1, IncomingMsg
<1>3. /\ Incoming(p).id \in 1..outMsgId[Peer(p)]
      /\ Incoming(p).data = sent[Peer(p)][Incoming(p).id]
  BY <1>1, <1>2 DEF From, FromOf, Msgs
<1>4. Incoming(p).data \in Data \cup ControlData \cup {Empty}
  BY <1>2 DEF ProtocolMessage
<1>5. inMsgId[p] \in Nat /\ outMsgId[Peer(p)] \in Nat
  BY Facts, ConstantsAssumption
<1> QED BY <1>1, <1>3, <1>4, <1>5

\* The next message is delivered: it is the one sent under that number.
LEMMA NextRegularStep == ASSUME IndInv, NEW p \in Sides, ReceiveNextRegular(p) PROVE IndInv'
<1> DEFINE n == inMsgId[p]
           x == Incoming(p).data
<1>1. /\ wire[sock[p]][p] # <<>> /\ n \in Nat /\ n + 1 <= outMsgId[Peer(p)]
      /\ x = sent[Peer(p)][n + 1] /\ x \in Data \cup ControlData \cup {Empty}
      /\ Incoming(p).id = n + 1
  BY NextRegular
<1>2. /\ WireIn(Consumed(p), From) /\ Incoming(p).ack \in Nat
      /\ Incoming(p).ack <= inMsgId[Peer(p)]
  BY <1>1, IncomingMsg
<1>3. /\ inMsgId' = [inMsgId EXCEPT ![p] = n + 1] /\ sent' = sent
      /\ delivered' = [delivered EXCEPT ![p] = Append(delivered[p], x)]
      /\ wire' = Consumed(p) /\ held' = held
      /\ AcceptAck(p, Incoming(p).ack)
  BY <1>1 DEF ReceiveNextRegular, writer
<1>4. /\ outMsgId' = outMsgId
      /\ outAckId' \in [Sides -> 0..MaxMsgs]
      /\ \A r \in Sides : outAckId'[r] <= inMsgId[Peer(r)]
      /\ HeldIn(unack', From)
      /\ \A r \in Sides : Queue(r, unack'[r], outAckId'[r])
  BY <1>2, <1>3, AcceptAckQueue DEF IndInv
<1> HIDE DEF x
<1>5. /\ inMsgId \in [Sides -> 0..MaxMsgs] /\ outMsgId \in [Sides -> 0..MaxMsgs]
      /\ delivered \in [Sides -> Seq(Data \cup ControlData \cup {Empty})]
      /\ MaxMsgs \in Nat /\ Len(delivered[p]) = n
  BY ConstantsAssumption DEF IndInv, TypeOK, Counters
<1>6. inMsgId' \in [Sides -> 0..MaxMsgs]
  <2>1. n + 1 \in 0..MaxMsgs
    <3>1. outMsgId[Peer(p)] \in 0..MaxMsgs
      BY <1>5
    <3> QED BY <1>1, <1>5, <3>1
  <2> QED BY <1>3, <1>5, <2>1
<1>7. inMsgId'[p] = n + 1 /\ delivered'[p] = Append(delivered[p], x)
  BY <1>3, <1>5
<1>8. \A r \in Sides \ {p} : inMsgId'[r] = inMsgId[r] /\ delivered'[r] = delivered[r]
  BY <1>3, <1>5
<1>9. \A r \in Sides : inMsgId[r] \in Nat /\ inMsgId'[r] \in Nat /\ inMsgId[r] <= inMsgId'[r]
  <2> SUFFICES ASSUME NEW r \in Sides
               PROVE  inMsgId[r] \in Nat /\ inMsgId'[r] \in Nat /\ inMsgId[r] <= inMsgId'[r]
    OBVIOUS
  <2>1. inMsgId[r] \in Nat /\ inMsgId'[r] \in Nat
    BY <1>5, <1>6
  <2>2. CASE r = p
    BY <1>1, <1>7, <2>1, <2>2
  <2>3. CASE r # p
    BY <1>8, <2>1, <2>3
  <2> QED BY <2>1, <2>2, <2>3
<1>10. From \in [Sides -> SUBSET Bounded] /\ From' \in [Sides -> SUBSET Bounded]
  BY <1>4, <1>5, <1>6, FromBounded DEF From
<1>11. \A r \in Sides : From[r] \subseteq From'[r]
  <2> SUFFICES ASSUME NEW r \in Sides
               PROVE  Msgs(inMsgId[r], outMsgId[r], sent[r]) \subseteq Msgs(inMsgId'[r], outMsgId[r], sent[r])
    BY <1>3, <1>4 DEF From, FromOf
  <2> DEFINE a == inMsgId[r]
             b == inMsgId'[r]
             c == outMsgId[r]
             old == sent[r]
  <2>1. a \in Nat /\ b \in Nat /\ a <= b /\ c \in Nat /\ c <= c /\ \A i \in 1..c : old[i] = old[i]
    BY <1>5, <1>9
  <2> HIDE DEF a, b, c, old
  <2>2. Msgs(a, c, old) \subseteq Msgs(b, c, old)
    BY ONLY <2>1, MsgsMonotonic
  <2> QED BY <2>2 DEF a, b, c, old
<1>12. HeldIn(unack', From') /\ HeldIn(held', From') /\ WireIn(wire', From')
  BY <1>2, <1>3, <1>4, <1>10, <1>11, Facts, InMonotonic
<1>13. HeldIn(unack, From)' /\ HeldIn(held, From)' /\ WireIn(wire, From)'
  BY <1>12 DEF HeldIn, WireIn
<1>14. \A r \in Sides : Queue(r, unack[r], outAckId[r])'
  BY <1>4 DEF Queue
<1>15. /\ Len(delivered'[p]) = n + 1 /\ delivered'[p][n + 1] = x
       /\ \A i \in 1..n : delivered'[p][i] = delivered[p][i]
       /\ delivered' \in [Sides -> Seq(Data \cup ControlData \cup {Empty})]
  <2>1. delivered[p] \in Seq(Data \cup ControlData \cup {Empty})
    BY <1>5
  <2>2. Append(delivered[p], x) \in Seq(Data \cup ControlData \cup {Empty})
    BY <1>1, <2>1, AppendProperties
  <2>3. /\ Len(delivered'[p]) = n + 1 /\ delivered'[p][n + 1] = x
        /\ \A i \in 1..n : delivered'[p][i] = delivered[p][i]
    BY <1>1, <1>5, <1>7, <2>1, AppendProperties
  <2> QED BY <1>3, <1>5, <2>2, <2>3
<1>16. Counters'
  <2> SUFFICES ASSUME NEW r \in Sides
               PROVE  /\ outAckId'[r] <= inMsgId'[Peer(r)] /\ inMsgId'[Peer(r)] <= outMsgId'[r]
                      /\ Len(sent'[r]) = outMsgId'[r] /\ Len(delivered'[r]) = inMsgId'[r]
                      /\ \A i \in 1..inMsgId'[r] : delivered'[r][i] = sent'[Peer(r)][i]
    BY DEF Counters
  <2>1. /\ inMsgId[Peer(r)] <= outMsgId[r]
        /\ Len(sent[r]) = outMsgId[r] /\ Len(delivered[r]) = inMsgId[r]
        /\ \A i \in 1..inMsgId[r] : delivered[r][i] = sent[Peer(r)][i]
    BY DEF IndInv, Counters
  <2>2. outAckId'[r] <= inMsgId'[Peer(r)]
    <3>1. /\ outAckId'[r] \in Nat /\ outAckId'[r] <= inMsgId[Peer(r)]
          /\ inMsgId[Peer(r)] \in Nat /\ inMsgId'[Peer(r)] \in Nat
          /\ inMsgId[Peer(r)] <= inMsgId'[Peer(r)]
      BY <1>4, <1>5, <1>9
    <3> QED BY <3>1
  <2>3. inMsgId'[Peer(r)] <= outMsgId'[r]
    <3>1. CASE Peer(r) = p
      <4>1. r = Peer(p)
        BY <3>1
      <4> QED BY <1>1, <1>4, <1>7, <3>1, <4>1
    <3>2. CASE Peer(r) # p
      BY <1>4, <1>8, <2>1, <3>2
    <3> QED BY <3>1, <3>2
  <2>4. Len(sent'[r]) = outMsgId'[r]
    BY <1>3, <1>4, <2>1
  <2>5. /\ Len(delivered'[r]) = inMsgId'[r]
        /\ \A i \in 1..inMsgId'[r] : delivered'[r][i] = sent'[Peer(r)][i]
    <3>1. CASE r = p
      <4>1. Len(delivered'[p]) = inMsgId'[p]
        BY <1>7, <1>15
      <4>2. ASSUME NEW i \in 1..inMsgId'[p] PROVE delivered'[p][i] = sent[Peer(p)][i]
        <5>1. i \in 1..n \/ i = n + 1
          BY <1>1, <1>7
        <5>2. CASE i \in 1..n
          BY <1>15, <2>1, <3>1, <5>2
        <5>3. CASE i = n + 1
          BY <1>1, <1>15, <5>3
        <5> QED BY <5>1, <5>2, <5>3
      <4> QED BY <1>3, <3>1, <4>1, <4>2
    <3>2. CASE r # p
      BY <1>3, <1>8, <2>1, <3>2
    <3> QED BY <3>1, <3>2
  <2> QED BY <2>2, <2>3, <2>4, <2>5
<1>17. Rest'
  BY Facts DEF ReceiveNextRegular, Rest, handshake, writer
<1>18. TypeOK'
  BY <1>3, <1>4, <1>6, <1>12, <1>15, <1>17 DEF TypeOK, IndInv, Rest, HeldIn, WireIn, Streams
<1> QED BY <1>13, <1>14, <1>16, <1>18 DEF IndInv

-----------------------------------------------------------------------------
(* The theorems.                                                             *)

\* Every step of either endpoint, of the server process, of the extension host
\* and of the network preserves the invariant.
LEMMA Inductive == IndInv /\ [Next]_vars => IndInv'
<1> SUFFICES ASSUME IndInv, [Next]_vars PROVE IndInv'
  OBVIOUS
<1>1. ASSUME NEW p \in Sides, EndpointStep(p) PROVE IndInv'
  BY <1>1, SendStep, AckTimerStep, KeepAliveStep, ThrottleStep, NextRegularStep,
     OldRegularStep, GapStep, AckReceiptStep, ReplayStep, PauseStep, ResumeStep, OkStep
     DEF EndpointStep, Receive
<1>2. CASE Reconnect \/ SpuriousTimeout
  BY <1>2, ReconnectStep
<1>3. CASE GiveUp
  BY <1>3, GiveUpStep
<1>4. CASE ServerAccepts
  BY <1>4, ServerStep
<1>5. CASE NetworkStep
  BY <1>5, NetworkStepInv
<1>6. CASE UNCHANGED vars
  <2>1. Rest' /\ HeldIn(held', From) /\ WireIn(wire', From)
    BY <1>6, Facts DEF vars, Rest, incoming, writer, handshake, network
  <2> QED BY <1>6, <2>1, QuietStep DEF vars, history, outgoing, incoming
<1> QED BY <1>1, <1>2, <1>3, <1>4, <1>5, <1>6 DEF Next

\* The inductive invariant holds in every reachable state.
THEOREM Invariance == Spec => []IndInv
<1>1. Init => IndInv
  BY Initially
<1>2. IndInv /\ [Next]_vars => IndInv'
  BY Inductive
<1> QED BY <1>1, <1>2, PTL DEF Spec

\* Every field of the two PersistentProtocol objects keeps its type.
THEOREM TypeCorrect == Spec => []TypeOK
<1>1. IndInv => TypeOK
  BY DEF IndInv
<1> QED BY <1>1, Invariance, PTL

\* Whatever happens to the sockets, onMessage fires at one end with a prefix of
\* what send() was given at the other.
THEOREM ExactlyOnce == Spec => []InOrderExactlyOnce
<1>1. IndInv => InOrderExactlyOnce
  <2> SUFFICES ASSUME IndInv, NEW p \in Sides
               PROVE  /\ Len(delivered[p]) <= Len(sent[Peer(p)])
                      /\ \A i \in 1..Len(delivered[p]) : delivered[p][i] = sent[Peer(p)][i]
    BY DEF InOrderExactlyOnce
  <2>1. /\ inMsgId[Peer(Peer(p))] <= outMsgId[Peer(p)] /\ Len(sent[Peer(p)]) = outMsgId[Peer(p)]
        /\ Len(delivered[p]) = inMsgId[p]
        /\ \A i \in 1..inMsgId[p] : delivered[p][i] = sent[Peer(p)][i]
    BY DEF IndInv, Counters
  <2>2. Peer(Peer(p)) = p
    OBVIOUS
  <2> QED BY <2>1, <2>2
<1> QED BY <1>1, Invariance, PTL

\* Whatever has not been delivered yet is still queued at its sender, ready for
\* the replay of endAcceptReconnection: message i is entry i - _outgoingAckId.
THEOREM Retained == Spec => []NothingForgotten
<1>1. IndInv => NothingForgotten
  <2> SUFFICES ASSUME IndInv, NEW p \in Sides,
                      NEW i \in (Len(delivered[Peer(p)]) + 1)..Len(sent[p])
               PROVE  \E j \in 1..Len(unack[p]) :
                          unack[p][j].id = i /\ unack[p][j].data = sent[p][i]
    BY DEF NothingForgotten
  <2> DEFINE j == i - outAckId[p]
  <2>1. /\ outAckId[p] <= inMsgId[Peer(p)]
        /\ Len(sent[p]) = outMsgId[p] /\ Len(delivered[Peer(p)]) = inMsgId[Peer(p)]
    BY DEF IndInv, Counters
  <2>2. outAckId[p] \in Nat /\ inMsgId[Peer(p)] \in Nat /\ outMsgId[p] \in Nat
    <3>1. /\ outAckId \in [Sides -> 0..MaxMsgs] /\ inMsgId \in [Sides -> 0..MaxMsgs]
          /\ outMsgId \in [Sides -> 0..MaxMsgs] /\ MaxMsgs \in Nat
      BY ConstantsAssumption DEF IndInv, TypeOK
    <3> QED BY <3>1
  <2>3. /\ Len(unack[p]) = outMsgId[p] - outAckId[p]
        /\ \A k \in 1..Len(unack[p]) : unack[p][k].type = "Regular" /\ unack[p][k].id = outAckId[p] + k
    BY DEF IndInv, Queue
  <2>4. j \in 1..Len(unack[p])
    BY SMTT(40), <2>1, <2>2, <2>3
  <2>5. unack[p][j].type = "Regular" /\ unack[p][j].id = i
    <3>1. outAckId[p] + j = i
      BY <2>1, <2>2
    <3> HIDE DEF j
    <3> QED BY <2>3, <2>4, <3>1
  <2>6. unack[p][j] \in From[p]
    <3>1. unack[p] \in Seq(From[p])
      BY DEF IndInv, HeldIn
    <3> HIDE DEF j
    <3> QED BY <2>4, <3>1
  <2>7. unack[p][j].data = sent[p][i]
    BY <2>5, <2>6 DEF From, FromOf, Msgs
  <2> QED BY <2>4, <2>5, <2>7
<1> QED BY <1>1, Invariance, PTL

-----------------------------------------------------------------------------
(* The refinement.                                                           *)

\* send() is the abstract send.
LEMMA SendRefines ==
  ASSUME IndInv, NEW p \in Sides, NEW d \in Data, Send(p, d)
  PROVE  Channel!ChSend(p, d)
<1>1. Len(sent[p]) = outMsgId[p]
  BY DEF IndInv, Counters
<1> QED BY <1>1 DEF Send, Channel!ChSend

\* Only the next Regular message fires onMessage, and it carries the payload
\* that the abstract channel delivers.
LEMMA DeliveryRefines ==
  ASSUME IndInv, NEW p \in Sides, ReceiveNextRegular(p)
  PROVE  Channel!ChDeliver(p)
<1>1. /\ inMsgId[p] \in Nat /\ inMsgId[p] + 1 <= outMsgId[Peer(p)]
      /\ Incoming(p).data = sent[Peer(p)][inMsgId[p] + 1]
  BY NextRegular
<1>2. Len(delivered[p]) = inMsgId[p] /\ Len(sent[Peer(p)]) = outMsgId[Peer(p)]
  BY DEF IndInv, Counters
<1>3. outMsgId[Peer(p)] \in Nat
  BY Facts, ConstantsAssumption
<1>4. Len(delivered[p]) < Len(sent[Peer(p)])
  BY <1>1, <1>2, <1>3
<1>5. /\ delivered' = [delivered EXCEPT ![p] = Append(delivered[p], Incoming(p).data)]
      /\ sent' = sent
  BY DEF ReceiveNextRegular
<1> QED BY <1>1, <1>2, <1>4, <1>5 DEF Channel!ChDeliver, Channel!Peer

\* Everything else (acknowledgements, replays, hand-shakes, failures) is
\* invisible to the programs at the two ends.
LEMMA StepRefines == IndInv /\ [Next]_vars => [Channel!ChNext]_(Channel!chVars)
<1> SUFFICES ASSUME IndInv, [Next]_vars
             PROVE  Channel!ChNext \/ UNCHANGED history
  BY DEF history, Channel!chVars
<1>1. ASSUME NEW p \in Sides, EndpointStep(p) PROVE Channel!ChNext \/ UNCHANGED history
  <2>1. ASSUME NEW d \in Data, Send(p, d) PROVE Channel!ChNext
    BY <2>1, SendRefines DEF Channel!ChNext, Channel!Sides
  <2>2. CASE ReceiveNextRegular(p)
    BY <2>2, DeliveryRefines DEF Channel!ChNext, Channel!Sides
  <2>3. CASE \/ AckTimerFires(p) \/ KeepAlive(p) \/ ThrottleExpires(p)
             \/ ReceiveOldRegular(p) \/ ReceiveGap(p) \/ ReceiveAck(p)
             \/ ReceiveReplayRequest(p) \/ ReceivePause(p) \/ ReceiveResume(p) \/ ReceiveOk(p)
    BY <2>3 DEF AckTimerFires, KeepAlive, ThrottleExpires, ReceiveOldRegular, ReceiveGap,
                ReceiveAck, ReceiveReplayRequest, ReceivePause, ReceiveResume, ReceiveOk
  <2> QED BY <1>1, <2>1, <2>2, <2>3 DEF EndpointStep, Receive
<1>2. CASE Reconnect \/ SpuriousTimeout \/ GiveUp
  BY <1>2 DEF Reconnect, SpuriousTimeout, GiveUp, BeginReconnection
<1>3. CASE ServerAccepts
  BY <1>3 DEF ServerAccepts, ExtHostAccept, ManagementAccept, HandOff, AcceptReconnection
<1>4. CASE NetworkStep
  BY <1>4 DEF NetworkStep, Break, LostInHandOff, LoseTail, Lose
<1>5. CASE UNCHANGED vars
  BY <1>5 DEF vars
<1> QED BY <1>1, <1>2, <1>3, <1>4, <1>5 DEF Next

\* The protocol implements a pair of reliable streams, whatever the network and
\* the time-outs do: the safety part of ReliableChannel.
THEOREM Refinement == Spec => ImplementsChannel
<1>1. Init => Channel!ChInit
  BY DEF Init, Channel!ChInit, Channel!Sides
<1>2. IndInv /\ [Next]_vars => [Channel!ChNext]_(Channel!chVars)
  BY StepRefines
<1> QED BY <1>1, <1>2, Invariance, PTL DEF Spec, ImplementsChannel, Channel!ChSafety

HIDE DEF Sides, Peer

-----------------------------------------------------------------------------
(* Sockets that keep their promise: a receiver sees no gap.                  *)

\* Every Regular message of a stream is at most one ahead of the counter of its
\* receiver, or of a message before it.
GapFree(L, n) ==
    \A i \in DOMAIN L : L[i].type = "Regular" =>
        \/ L[i].id <= n + 1
        \/ \E j \in DOMAIN L : j < i /\ L[j].type = "Regular" /\ L[i].id <= L[j].id + 1

\* Once a stream is read, its receiver has been given the messages up to top.
Reaches(L, n, top) == top <= n \/ \E j \in DOMAIN L : L[j].type = "Regular" /\ top <= L[j].id

Chain(L, n, top) == GapFree(L, n) /\ Reaches(L, n, top)

\* What p has written on its socket and what its paused writer holds back.
Line(p) == wire[sock[p]][Peer(p)] \o held[p]

\* The streams p writes, or has written before it was given another socket.
Flow(p) ==
    /\ \A s \in Sockets : GapFree(wire[s][Peer(p)], inMsgId[Peer(p)])
    /\ ~paused[p] => held[p] = <<>>
    /\ sock[p] \notin closed =>
          /\ GapFree(Line(p), inMsgId[Peer(p)])
          /\ ~reconnecting[p] => Reaches(Line(p), inMsgId[Peer(p)], outMsgId[p])

\* A client that has the messages L to read, and whose socket is on its way to the
\* extension host, cannot write Regular messages until then: it still waits for the
\* end of the hand-shake, before which it is paused, or it was paused.
Hushed(L, waits, isPaused) ==
    /\ waits \/ isPaused
    /\ \A i \in DOMAIN L :
          /\ L[i].type \notin {"Resume", "ReplayRequest"}
          /\ L[i].type = "Control" =>
                isPaused \/ \E j \in DOMAIN L : j < i /\ L[j].type = "Pause"
ClientHushed(s) == Hushed(wire[s]["client"], reconnecting["client"], paused["client"])

NoRegular(L) == \A i \in DOMAIN L : L[i].type # "Regular"

InHandOff(s) ==
    /\ s # sock["server"]
    /\ NoRegular(wire[s]["server"])
    /\ sock["client"] = s => ClientHushed(s)

\* A request that the server has not read is the first message of its socket,
\* and nobody answered it.
NoControl(L) == \A i \in DOMAIN L : L[i].type # "Control"
ControlFirst(L) == \A i \in DOMAIN L : L[i].type = "Control" => i = 1
RequestInv(s) ==
    \/ NoControl(wire[s]["server"])
    \/ /\ ControlFirst(wire[s]["server"]) /\ NoRegular(wire[s]["server"])
       /\ s # sock["server"] /\ s \notin InTransit
       /\ sock["client"] = s => reconnecting["client"] /\ wire[s]["client"] = <<>>

HandOffInv ==
    /\ \A i, j \in DOMAIN pending : pending[i] = pending[j] => i = j
    /\ \A s \in InTransit : InHandOff(s)
    /\ \A s \in Sockets : RequestInv(s)
    /\ NoControl(held["client"])

LossFree ==
    /\ ~reconnecting["server"]
    /\ losses = 0 => HandOffInv /\ \A p \in Sides : Flow(p)
-----------------------------------------------------------------------------
(* Streams of messages.                                                      *)

\* Nothing is missing in nothing.
LEMMA EmptyChain == \A n : GapFree(<<>>, n) /\ NoRegular(<<>>) /\ NoControl(<<>>)
<1>1. DOMAIN <<>> = {}
  OBVIOUS
<1> QED BY <1>1 DEF GapFree, NoRegular, NoControl

\* A message is taken, and the counter of its receiver has seen it.
LEMMA TailChain ==
  ASSUME NEW L \in Seq(ProtocolMessage), L # <<>>, NEW n \in Nat, NEW k \in Nat, n <= k,
         Head(L).type = "Regular" => Head(L).id <= k
  PROVE  /\ GapFree(L, n) => GapFree(Tail(L), k)
         /\ \A top \in Nat : Reaches(L, n, top) => Reaches(Tail(L), k, top)
<1> DEFINE T == Tail(L)
<1>1. /\ Head(L) = L[1]
      /\ \A i \in DOMAIN T : i \in Nat /\ i + 1 \in DOMAIN L /\ T[i] = L[i + 1]
      /\ \A i \in DOMAIN L : i \in Nat /\ i >= 1 /\ (i # 1 => i - 1 \in DOMAIN T)
      /\ \A i \in DOMAIN L : L[i].id \in Nat
  <2>1. \A m \in ProtocolMessage : m.id \in Nat
    BY DEF ProtocolMessage
  <2>2. \A i \in DOMAIN L : L[i].id \in Nat
    BY <2>1
  <2> QED BY <2>2
<1> HIDE DEF T
<1>2. \A i \in DOMAIN L : i = 1 \/ \E j \in DOMAIN T : i = j + 1 /\ T[j] = L[i]
  <2> SUFFICES ASSUME NEW i \in DOMAIN L, i # 1
               PROVE  \E j \in DOMAIN T : i = j + 1 /\ T[j] = L[i]
    OBVIOUS
  <2>1. i - 1 \in DOMAIN T /\ i = (i - 1) + 1
    BY <1>1
  <2>2. T[i - 1] = L[i]
    BY <1>1, <2>1
  <2> QED BY <2>1, <2>2
<1>3. ASSUME GapFree(L, n) PROVE GapFree(T, k)
  <2> SUFFICES ASSUME NEW i \in DOMAIN T, T[i].type = "Regular"
               PROVE  \/ T[i].id <= k + 1
                      \/ \E j \in DOMAIN T : j < i /\ T[j].type = "Regular" /\ T[i].id <= T[j].id + 1
    BY DEF GapFree
  <2>1. i \in Nat /\ i + 1 \in DOMAIN L /\ L[i + 1] = T[i] /\ T[i].id \in Nat
    BY <1>1
  <2>2. CASE T[i].id <= n + 1
    BY <2>1, <2>2
  <2>3. CASE \E j \in DOMAIN L : j < i + 1 /\ L[j].type = "Regular" /\ T[i].id <= L[j].id + 1
    <3>1. PICK j \in DOMAIN L : j < i + 1 /\ L[j].type = "Regular" /\ T[i].id <= L[j].id + 1
      BY <2>3
    <3>2. CASE j = 1
      <4>1. L[j].id <= k /\ L[j].id \in Nat
        BY <1>1, <3>1, <3>2
      <4> QED BY <2>1, <3>1, <4>1
    <3>3. CASE j # 1
      <4>1. PICK l \in DOMAIN T : j = l + 1 /\ T[l] = L[j]
        BY <1>2, <3>3
      <4>2. l < i
        BY <1>1, <2>1, <3>1, <4>1
      <4> QED BY <3>1, <4>1, <4>2
    <3> QED BY <3>2, <3>3
  <2>4. \/ L[i + 1].id <= n + 1
        \/ \E j \in DOMAIN L : j < i + 1 /\ L[j].type = "Regular" /\ L[i + 1].id <= L[j].id + 1
    BY <1>3, <2>1 DEF GapFree
  <2> QED BY <2>1, <2>2, <2>3, <2>4
<1>4. ASSUME NEW top \in Nat, Reaches(L, n, top) PROVE Reaches(T, k, top)
  <2>1. CASE top <= n
    BY <2>1 DEF Reaches
  <2>2. CASE \E j \in DOMAIN L : L[j].type = "Regular" /\ top <= L[j].id
    <3>1. PICK j \in DOMAIN L : L[j].type = "Regular" /\ top <= L[j].id
      BY <2>2
    <3>2. CASE j = 1
      <4>1. L[j].id <= k /\ L[j].id \in Nat
        BY <1>1, <3>1, <3>2
      <4> QED BY <3>1, <4>1 DEF Reaches
    <3>3. CASE j # 1
      BY <1>2, <3>1, <3>3 DEF Reaches
    <3> QED BY <3>2, <3>3
  <2> QED BY <1>4, <2>1, <2>2 DEF Reaches
<1> QED BY <1>3, <1>4 DEF T

\* The counter of the receiver only grows.
LEMMA ChainGrows ==
  ASSUME NEW L \in Seq(ProtocolMessage), NEW n \in Nat, NEW k \in Nat, n <= k
  PROVE  /\ GapFree(L, n) => GapFree(L, k)
         /\ \A top \in Nat : Reaches(L, n, top) => Reaches(L, k, top)
<1>1. \A i \in DOMAIN L : L[i].id \in Nat
  <2>1. \A m \in ProtocolMessage : m.id \in Nat
    BY DEF ProtocolMessage
  <2> QED BY <2>1
<1>2. \A x \in Nat : x <= n + 1 => x <= k + 1
  OBVIOUS
<1>3. \A x \in Nat : x <= n => x <= k
  OBVIOUS
<1>4. GapFree(L, n) => GapFree(L, k)
  BY <1>1, <1>2 DEF GapFree
<1>5. \A top \in Nat : Reaches(L, n, top) => Reaches(L, k, top)
  BY <1>3 DEF Reaches
<1> QED BY <1>4, <1>5

\* The first messages of a stream.
LEMMA PrefixChain ==
  ASSUME NEW L \in Seq(ProtocolMessage), NEW l \in 0..Len(L), NEW n, GapFree(L, n)
  PROVE  GapFree(SubSeq(L, 1, l), n)
<1> DEFINE P == SubSeq(L, 1, l)
<1>1. \A i \in DOMAIN P : i \in DOMAIN L /\ P[i] = L[i] /\ i \in Nat /\ i <= l
  OBVIOUS
<1>2. \A i, j \in Nat : j < i /\ i <= l => j <= l
  OBVIOUS
<1>3. \A j \in DOMAIN L : j \in Nat /\ (j <= l => j \in DOMAIN P)
  OBVIOUS
<1> HIDE DEF P
<1>4. GapFree(P, n)
  BY <1>1, <1>2, <1>3 DEF GapFree
<1> QED BY <1>4 DEF P

\* One stream behind another.
LEMMA JoinChain ==
  ASSUME NEW L \in Seq(ProtocolMessage), NEW M \in Seq(ProtocolMessage),
         NEW n \in Nat, NEW b \in Nat, NEW top \in Nat, Chain(L, n, b)
  PROVE  /\ GapFree(M, b) => GapFree(L \o M, n)
         /\ Reaches(M, b, top) => Reaches(L \o M, n, top)
<1> DEFINE J == L \o M
           len == Len(L)
<1>1. /\ \A i \in DOMAIN L : i \in Nat /\ i <= len /\ i \in DOMAIN J /\ J[i] = L[i]
      /\ \A i \in DOMAIN M : i \in Nat /\ i > 0 /\ len + i \in DOMAIN J /\ J[len + i] = M[i]
      /\ \A i \in DOMAIN J : i \in DOMAIN L \/ \E j \in DOMAIN M : i = len + j
      /\ len \in Nat
  <2>1. /\ J \in Seq(ProtocolMessage) /\ Len(J) = Len(L) + Len(M)
        /\ Len(L) \in Nat /\ Len(M) \in Nat
        /\ DOMAIN L = 1..Len(L) /\ DOMAIN M = 1..Len(M) /\ DOMAIN J = 1..Len(J)
        /\ \A i \in 1..Len(J) : J[i] = IF i <= Len(L) THEN L[i] ELSE M[i - Len(L)]
    OBVIOUS
  <2> HIDE DEF J
  <2>2. \A i \in DOMAIN L : i \in Nat /\ i <= len /\ i \in DOMAIN J /\ J[i] = L[i]
    BY <2>1
  <2>3. ASSUME NEW i \in DOMAIN M
        PROVE  i \in Nat /\ i > 0 /\ len + i \in DOMAIN J /\ J[len + i] = M[i]
    <3>1. i \in Nat /\ i > 0 /\ len + i \in 1..Len(J) /\ ~(len + i <= len) /\ len + i - len = i
      BY <2>1
    <3> QED BY <2>1, <3>1
  <2>4. ASSUME NEW i \in DOMAIN J, i \notin DOMAIN L PROVE \E j \in DOMAIN M : i = len + j
    <3>1. i - len \in DOMAIN M /\ i = len + (i - len)
      BY <2>1, <2>4
    <3> QED BY <3>1
  <2> QED BY <2>1, <2>2, <2>3, <2>4
<1>2. /\ \A i \in DOMAIN L : L[i].id \in Nat
      /\ \A i \in DOMAIN M : M[i].id \in Nat
  <2>1. \A m \in ProtocolMessage : m.id \in Nat
    BY DEF ProtocolMessage
  <2> QED BY <2>1
<1> HIDE DEF J, len
<1>3. GapFree(L, n) /\ Reaches(L, n, b)
  BY DEF Chain
<1>4. ASSUME GapFree(M, b) PROVE GapFree(J, n)
  <2> SUFFICES ASSUME NEW i \in DOMAIN J, J[i].type = "Regular"
               PROVE  \/ J[i].id <= n + 1
                      \/ \E j \in DOMAIN J : j < i /\ J[j].type = "Regular" /\ J[i].id <= J[j].id + 1
    BY DEF GapFree
  <2>1. CASE i \in DOMAIN L
    BY <1>1, <1>3, <2>1 DEF GapFree
  <2>2. CASE \E l \in DOMAIN M : i = len + l
    <3>1. PICK l \in DOMAIN M : i = len + l
      BY <2>2
    <3>2. J[i] = M[l] /\ l \in Nat /\ l > 0 /\ i \in Nat /\ M[l].id \in Nat
      BY <1>1, <1>2, <3>1
    <3>3. CASE \E j \in DOMAIN M : j < l /\ M[j].type = "Regular" /\ M[l].id <= M[j].id + 1
      <4>1. PICK j \in DOMAIN M : j < l /\ M[j].type = "Regular" /\ M[l].id <= M[j].id + 1
        BY <3>3
      <4>2. len + j \in DOMAIN J /\ J[len + j] = M[j] /\ len + j < i
        BY <1>1, <3>1, <3>2, <4>1
      <4> QED BY <3>2, <4>1, <4>2
    <3>4. CASE M[l].id <= b + 1
      <4>1. CASE b <= n
        BY <3>2, <3>4, <4>1
      <4>2. CASE \E j \in DOMAIN L : L[j].type = "Regular" /\ b <= L[j].id
        <5>1. PICK j \in DOMAIN L : L[j].type = "Regular" /\ b <= L[j].id
          BY <4>2
        <5>2. L[j].id \in Nat /\ j \in Nat /\ j <= len /\ j \in DOMAIN J /\ J[j] = L[j]
          BY <1>1, <1>2
        <5>3. j < i /\ M[l].id <= L[j].id + 1
          BY <1>1, <3>1, <3>2, <3>4, <5>1, <5>2
        <5> QED BY <3>2, <5>1, <5>2, <5>3
      <4> QED BY <1>3, <4>1, <4>2 DEF Reaches
    <3>5. M[l].id <= b + 1
          \/ \E j \in DOMAIN M : j < l /\ M[j].type = "Regular" /\ M[l].id <= M[j].id + 1
      BY <1>4, <3>2 DEF GapFree
    <3> QED BY <3>3, <3>4, <3>5
  <2> QED BY <1>1, <2>1, <2>2
<1>5. ASSUME Reaches(M, b, top) PROVE Reaches(J, n, top)
  <2>1. CASE \E j \in DOMAIN M : M[j].type = "Regular" /\ top <= M[j].id
    BY <1>1, <2>1 DEF Reaches
  <2>2. CASE top <= b
    <3>1. CASE b <= n
      BY <2>2, <3>1 DEF Reaches
    <3>2. CASE \E j \in DOMAIN L : L[j].type = "Regular" /\ b <= L[j].id
      <4>1. PICK j \in DOMAIN L : L[j].type = "Regular" /\ b <= L[j].id
        BY <3>2
      <4>2. top <= L[j].id /\ j \in DOMAIN J /\ J[j] = L[j]
        BY <1>1, <1>2, <2>2, <4>1
      <4> QED BY <4>1, <4>2 DEF Reaches
    <3> QED BY <1>3, <3>1, <3>2 DEF Reaches
  <2> QED BY <1>5, <2>1, <2>2 DEF Reaches
<1> QED BY <1>4, <1>5 DEF J

\* Messages that are not Regular leave no gap.
LEMMA PlainChain ==
  ASSUME NEW M, NoRegular(M), NEW n \in Nat
  PROVE  Chain(M, n, n)
BY DEF Chain, GapFree, Reaches, NoRegular

\* The queue of unacknowledged messages goes on where its receiver is.
LEMMA QueueChain ==
  ASSUME NEW p \in Sides, NEW q \in Seq(ProtocolMessage), NEW ack \in Nat, NEW b \in Nat,
         outMsgId[p] \in Nat, ack <= b, b <= outMsgId[p], Queue(p, q, ack)
  PROVE  Chain(q, b, outMsgId[p])
<1> DEFINE n == outMsgId[p]
<1>1. /\ Len(q) = n - ack /\ DOMAIN q = 1..Len(q) /\ n \in Nat /\ ack <= n
      /\ \A i \in 1..Len(q) : q[i].type = "Regular" /\ q[i].id = ack + i
  BY DEF Queue
<1> HIDE DEF n
<1>2. GapFree(q, b)
  <2> SUFFICES ASSUME NEW i \in DOMAIN q
               PROVE  \/ q[i].id <= b + 1
                      \/ \E j \in DOMAIN q : j < i /\ q[j].type = "Regular" /\ q[i].id <= q[j].id + 1
    BY DEF GapFree
  <2>1. CASE i = 1
    BY <1>1, <2>1
  <2>2. CASE i # 1
    <3>1. i - 1 \in DOMAIN q /\ i - 1 < i
      BY <1>1, <2>2
    <3>2. q[i - 1].type = "Regular" /\ q[i].id <= q[i - 1].id + 1
      BY <1>1, <3>1
    <3> QED BY <3>1, <3>2
  <2> QED BY <2>1, <2>2
<1>3. Reaches(q, b, n)
  <2>1. CASE n <= b
    BY <2>1 DEF Reaches
  <2>2. CASE ~(n <= b)
    <3>1. n - ack \in DOMAIN q
      BY <1>1, <2>2
    <3>2. q[n - ack].type = "Regular" /\ n <= q[n - ack].id
      BY <1>1, <3>1
    <3> QED BY <3>1, <3>2 DEF Reaches
  <2> QED BY <2>1, <2>2
<1> QED BY <1>2, <1>3 DEF Chain, n

\* The next message.
LEMMA NextChain ==
  ASSUME NEW n \in Nat, NEW ack, NEW d
  PROVE  Chain(<<Regular(n + 1, ack, d)>>, n, n + 1)
<1> DEFINE M == <<Regular(n + 1, ack, d)>>
<1>1. DOMAIN M = {1} /\ M[1].type = "Regular" /\ M[1].id = n + 1
  BY DEF Regular
<1> HIDE DEF M
<1>2. Chain(M, n, n + 1)
  BY <1>1 DEF Chain, GapFree, Reaches
<1> QED BY <1>2 DEF M

\* Concatenation is a chain when its parts are.
LEMMA JoinsChain ==
  ASSUME NEW L \in Seq(ProtocolMessage), NEW M \in Seq(ProtocolMessage),
         NEW n \in Nat, NEW b \in Nat, NEW top \in Nat, Chain(L, n, b), Chain(M, b, top)
  PROVE  Chain(L \o M, n, top)
BY JoinChain DEF Chain

-----------------------------------------------------------------------------
(* Reading and writing.                                                      *)

\* The two ends.
LEMMA Ends ==
  /\ Sides = {"client", "server"} /\ "client" \in Sides /\ "server" \in Sides
  /\ Peer("client") = "server" /\ Peer("server") = "client"
  /\ \A p \in Sides : Peer(p) \in Sides /\ Peer(p) # p /\ Peer(Peer(p)) = p
  /\ \A p, r \in Sides : r = p \/ r = Peer(p)
<1>1. \A p \in Sides : Peer(p) \in Sides /\ Peer(p) # p /\ Peer(Peer(p)) = p
  BY DEF Sides, Peer
<1>2. \A p, r \in Sides : r = p \/ r = Peer(p)
  BY DEF Sides, Peer
<1> QED BY <1>1, <1>2 DEF Sides, Peer

\* Appending twice.
LEMMA JoinTwice ==
  ASSUME NEW L \in Seq(ProtocolMessage), NEW H \in Seq(ProtocolMessage),
         NEW M \in Seq(ProtocolMessage)
  PROVE  L \o (H \o M) = (L \o H) \o M
BY ConcatAssociative

\* The messages an end can write fit into their fields.
LEMMA FromMessages ==
  ASSUME IndInv, NEW p \in Sides, NEW L \in Seq(From[p])
  PROVE  L \in Seq(Bounded)
<1>1. From[p] \subseteq Bounded
  BY Facts
<1> QED BY <1>1, SeqMonotonic

\* Streams of bounded messages are streams of messages.
LEMMA BoundedMessages == Seq(Bounded) \subseteq Seq(ProtocolMessage)
<1>1. Bounded \subseteq ProtocolMessage
  BY DEF Bounded
<1> QED BY <1>1, SeqMonotonic

\* Every stream and every buffer consists of messages.
LEMMA StreamTypes ==
  ASSUME IndInv
  PROVE  /\ \A s \in Sockets, p \in Sides : wire[s][p] \in Seq(ProtocolMessage)
         /\ \A p \in Sides : held[p] \in Seq(ProtocolMessage) /\ unack[p] \in Seq(ProtocolMessage)
         /\ \A p \in Sides : Line(p) \in Seq(ProtocolMessage) /\ sock[p] \in Sockets
         /\ \A p \in Sides : inMsgId[p] \in Nat /\ outMsgId[p] \in Nat /\ outAckId[p] \in Nat
         /\ \A p \in Sides : outAckId[p] <= inMsgId[Peer(p)] /\ inMsgId[Peer(p)] <= outMsgId[p]
<1>1. /\ \A s \in Sockets, p \in Sides : wire[s][p] \in Seq(ProtocolMessage)
      /\ \A p \in Sides : held[p] \in Seq(ProtocolMessage) /\ unack[p] \in Seq(ProtocolMessage)
      /\ \A p \in Sides : sock[p] \in Sockets
      /\ \A p \in Sides : inMsgId[p] \in 0..MaxMsgs /\ outMsgId[p] \in 0..MaxMsgs
                          /\ outAckId[p] \in 0..MaxMsgs
  BY DEF IndInv, TypeOK, Streams
<1>2. \A p \in Sides : inMsgId[p] \in Nat /\ outMsgId[p] \in Nat /\ outAckId[p] \in Nat
  BY <1>1, ConstantsAssumption
<1>3. \A p \in Sides : outAckId[p] <= inMsgId[Peer(p)] /\ inMsgId[Peer(p)] <= outMsgId[p]
  BY DEF IndInv, Counters
<1>4. ASSUME NEW p \in Sides PROVE Line(p) \in Seq(ProtocolMessage)
  <2>1. wire[sock[p]][Peer(p)] \in Seq(ProtocolMessage) /\ held[p] \in Seq(ProtocolMessage)
    BY <1>1, Ends
  <2> QED BY <2>1, ConcatProperties DEF Line
<1> QED BY <1>1, <1>2, <1>3, <1>4

\* x is w once p has written M on the socket s.
Puts(x, w, s, p, M) ==
    /\ s \in closed => x = w
    /\ s \notin closed => x[s][Peer(p)] = w[s][Peer(p)] \o M
    /\ \A r \in Sockets : x[r][p] = w[r][p] /\ (r # s => x[r] = w[r])

\* Putting messages on a socket that is open changes one stream.
LEMMA SentIs ==
  ASSUME IndInv, NEW w \in [Sockets -> Streams], NEW s \in Sockets, NEW p \in Sides,
         NEW M \in Seq(Bounded)
  PROVE  Puts(Sent(w, s, Peer(p), M), w, s, p, M)
<1>2. Encode(M) = M
  BY EncodeIdentity
<1>3. /\ w \in [Sockets -> [Sides -> Seq(ProtocolMessage)]]
      /\ Peer(p) \in Sides /\ Peer(p) # p
  BY Ends DEF Streams
<1>4. CASE s \in closed
  BY <1>4 DEF Sent, Puts
<1>5. CASE s \notin closed
  <2> DEFINE v == Sent(w, s, Peer(p), M)
  <2>1. v = [w EXCEPT ![s][Peer(p)] = @ \o M]
    BY <1>2, <1>5 DEF Sent
  <2> HIDE DEF v
  <2>2. /\ v[s][Peer(p)] = w[s][Peer(p)] \o M
        /\ \A r \in Sockets : v[r][p] = w[r][p] /\ (r # s => v[r] = w[r])
    BY <1>3, <2>1
  <2> QED BY <1>5, <2>2 DEF v, Puts
<1> QED BY <1>4, <1>5

\* A payload's message fits into its fields.
LEMMA RegularBounded ==
  ASSUME IndInv, NEW p \in Sides, NEW d \in Data, outMsgId[p] < MaxMsgs
  PROVE  Regular(outMsgId[p] + 1, inMsgId[p], d) \in Bounded
<1>1. outMsgId[p] \in 0..MaxMsgs /\ inMsgId[p] \in 0..MaxMsgs
  BY Facts
<1>2. /\ outMsgId[p] + 1 \in Nat /\ outMsgId[p] + 1 <= MaxMsgs
      /\ inMsgId[p] \in Nat /\ inMsgId[p] <= MaxMsgs
  BY <1>1, ConstantsAssumption
<1>3. \A id, ack \in Nat : id <= MaxMsgs /\ ack <= MaxMsgs => Regular(id, ack, d) \in Bounded
  BY DEF Bounded, ProtocolMessage, ProtocolMessageType, Regular
<1> QED BY <1>2, <1>3

\* What p writes, or its paused writer keeps.
LEMMA WriteIs ==
  ASSUME IndInv, NEW w \in [Sockets -> Streams], NEW p \in Sides, NEW M \in Seq(Bounded), Write(w, p, M)
  PROVE  /\ \A r \in Sockets : wire'[r][p] = w[r][p] /\ (r # sock[p] => wire'[r] = w[r])
         /\ held'[Peer(p)] = held[Peer(p)]
         /\ paused[p] => wire' = w /\ held'[p] = held[p] \o M
         /\ ~paused[p] => held' = held
         /\ ~paused[p] /\ sock[p] \in closed => wire' = w
         /\ ~paused[p] /\ sock[p] \notin closed =>
                wire'[sock[p]][Peer(p)] = w[sock[p]][Peer(p)] \o M
<1>1. /\ sock[p] \in Sockets /\ held \in [Sides -> Seq(ProtocolMessage)]
      /\ Peer(p) \in Sides /\ Peer(p) # p
  BY StreamTypes, Ends DEF IndInv, TypeOK
<1>2. CASE paused[p]
  <2>1. wire' = w /\ held' = [held EXCEPT ![p] = @ \o M]
    BY <1>2 DEF Write
  <2>2. held'[p] = held[p] \o M /\ held'[Peer(p)] = held[Peer(p)]
    BY <1>1, <2>1
  <2> QED BY <1>2, <2>1, <2>2
<1>3. CASE ~paused[p]
  <2>1. wire' = Sent(w, sock[p], Peer(p), M) /\ held' = held
    BY <1>3 DEF Write
  <2> DEFINE v == Sent(w, sock[p], Peer(p), M)
  <2>2. Puts(v, w, sock[p], p, M)
    BY <1>1, SentIs
  <2>3. wire' = v /\ held' = held
    BY <2>1
  <2> HIDE DEF v
  <2> QED BY <1>3, <2>2, <2>3 DEF Puts
<1> QED BY <1>2, <1>3

\* Writing the messages M, which go on where the line has been.
LEMMA WriteFlow ==
  ASSUME IndInv, NEW p \in Sides, Flow(p), NEW w \in [Sockets -> Streams],
         \A s \in Sockets : w[s][Peer(p)] = wire[s][Peer(p)],
         NEW M \in Seq(Bounded), Write(w, p, M), UNCHANGED <<sock, closed, paused>>,
         inMsgId'[Peer(p)] = inMsgId[Peer(p)],
         NEW b \in Nat, GapFree(M, b), outMsgId'[p] \in Nat,
         sock[p] \notin closed => Reaches(Line(p), inMsgId[Peer(p)], b),
         sock[p] \notin closed /\ ~reconnecting'[p] => Reaches(M, b, outMsgId'[p])
  PROVE  Flow(p)'
<1> DEFINE q == Peer(p)
           n == inMsgId[q]
           s == sock[p]
           L == wire[s][q]
<1>1. /\ q \in Sides /\ s \in Sockets /\ n \in Nat /\ M \in Seq(ProtocolMessage)
      /\ L \in Seq(ProtocolMessage) /\ held[p] \in Seq(ProtocolMessage)
      /\ Line(p) \in Seq(ProtocolMessage) /\ Line(p) = L \o held[p]
  <2>1. q \in Sides /\ s \in Sockets /\ n \in Nat /\ Line(p) \in Seq(ProtocolMessage)
    BY StreamTypes, Ends
  <2>2. L \in Seq(ProtocolMessage) /\ held[p] \in Seq(ProtocolMessage)
    BY <2>1, StreamTypes
  <2> QED BY <2>1, <2>2, BoundedMessages DEF Line
<1>2. /\ \A r \in Sockets : r # s => wire'[r] = w[r]
      /\ paused[p] => wire' = w /\ held'[p] = held[p] \o M
      /\ ~paused[p] => held' = held
      /\ ~paused[p] /\ s \in closed => wire' = w
      /\ ~paused[p] /\ s \notin closed => wire'[s][q] = w[s][q] \o M
  BY WriteIs
<1>3. /\ \A r \in Sockets : GapFree(wire[r][q], n)
      /\ ~paused[p] => held[p] = <<>>
      /\ s \notin closed => GapFree(Line(p), n)
  BY DEF Flow
<1>4. s \notin closed => wire'[s][q] \o held'[p] = Line(p) \o M
  <2>1. CASE paused[p]
    <3>1. L \o (held[p] \o M) = (L \o held[p]) \o M
      BY <1>1, JoinTwice
    <3> QED BY <1>1, <1>2, <2>1, <3>1
  <2>2. CASE ~paused[p] /\ s \notin closed
    <3>1. held'[p] = <<>> /\ wire'[s][q] = L \o M /\ Line(p) = L \o <<>>
      BY <1>1, <1>2, <1>3, <2>2
    <3>2. L \o <<>> = L /\ (L \o M) \o <<>> = L \o M
      BY <1>1, ConcatProperties
    <3> QED BY <3>1, <3>2
  <2> QED BY <2>1, <2>2
<1>5. s \notin closed =>
        /\ GapFree(Line(p) \o M, n)
        /\ ~reconnecting'[p] => Reaches(Line(p) \o M, n, outMsgId'[p])
  <2>1. s \notin closed => Chain(Line(p), n, b)
    BY <1>3 DEF Chain
  <2> QED BY <1>1, <2>1, JoinChain
<1>6. ASSUME NEW r \in Sockets PROVE GapFree(wire'[r][q], n)
  <2>1. CASE ~(r = s /\ ~paused[p] /\ s \notin closed)
    BY <1>2, <1>3, <2>1
  <2>2. CASE r = s /\ ~paused[p] /\ s \notin closed
    <3>1. wire'[s][q] = Line(p) \o M
      <4>1. held'[p] = <<>> /\ wire'[s][q] = L \o M
        BY <1>2, <1>3, <2>2
      <4>2. (L \o M) \o <<>> = L \o M
        BY <1>1, ConcatProperties
      <4> QED BY <1>4, <2>2, <4>1, <4>2
    <3> QED BY <1>5, <2>2, <3>1
  <2> QED BY <2>1, <2>2
<1>7. ~paused[p] => held'[p] = <<>>
  BY <1>2, <1>3
<1> QED BY <1>4, <1>5, <1>6, <1>7 DEF Flow, Line

\* Messages that are not Regular go on anywhere.
LEMMA PlainFlow ==
  ASSUME IndInv, NEW p \in Sides, Flow(p), NEW w \in [Sockets -> Streams],
         \A s \in Sockets : w[s][Peer(p)] = wire[s][Peer(p)],
         NEW M \in Seq(Bounded), Write(w, p, M), NoRegular(M),
         UNCHANGED <<sock, closed, paused, reconnecting, outMsgId>>,
         inMsgId'[Peer(p)] = inMsgId[Peer(p)]
  PROVE  Flow(p)'
<1> DEFINE n == inMsgId[Peer(p)]
           b == IF reconnecting[p] THEN n ELSE outMsgId[p]
<1>1. n \in Nat /\ outMsgId[p] \in Nat /\ b \in Nat
  BY StreamTypes, Ends
<1>2. Chain(M, b, b)
  BY <1>1, PlainChain
<1>3. sock[p] \notin closed => Reaches(Line(p), n, b)
  <2>1. CASE reconnecting[p]
    BY <1>1, <2>1 DEF Reaches
  <2>2. CASE ~reconnecting[p]
    BY <2>2 DEF Flow
  <2> QED BY <2>1, <2>2
<1>4. GapFree(M, b) /\ (~reconnecting'[p] => Reaches(M, b, outMsgId'[p]))
  BY <1>2 DEF Chain
<1>5. outMsgId'[p] \in Nat
  BY <1>1
<1> HIDE DEF b
<1> QED BY <1>1, <1>3, <1>4, <1>5, WriteFlow

\* Nothing happens to what q has written.
LEMMA SameFlow ==
  ASSUME NEW q \in Sides, Flow(q),
         \A s \in Sockets : wire'[s][Peer(q)] = wire[s][Peer(q)],
         sock[q] \in Sockets, held'[q] = held[q], outMsgId'[q] = outMsgId[q],
         UNCHANGED <<sock, closed, paused, reconnecting, inMsgId>>
  PROVE  Flow(q)'
<1>1. Line(q)' = Line(q)
  BY DEF Line
<1> QED BY <1>1 DEF Flow

\* The first message of two streams.
LEMMA TailJoins ==
  ASSUME NEW L \in Seq(ProtocolMessage), NEW H \in Seq(ProtocolMessage), L # <<>>
  PROVE  Tail(L \o H) = Tail(L) \o H /\ Head(L \o H) = Head(L) /\ L \o H # <<>>
OBVIOUS

\* p reads a message of the stream its peer q has written.
LEMMA ReadFlow ==
  ASSUME IndInv, NEW p \in Sides, NEW q \in Sides, Peer(q) = p, Flow(q),
         wire[sock[p]][p] # <<>>,
         \A s \in Sockets : wire'[s][p] = Consumed(p)[s][p],
         held'[q] = held[q], paused'[q] = paused[q], reconnecting'[q] = reconnecting[q],
         UNCHANGED <<sock, closed, outMsgId>>,
         inMsgId'[p] \in Nat, inMsgId[p] <= inMsgId'[p],
         Incoming(p).type = "Regular" => Incoming(p).id <= inMsgId'[p]
  PROVE  Flow(q)'
<1> DEFINE s == sock[p]
           t == sock[q]
           n == inMsgId[p]
           k == inMsgId'[p]
           L == wire[s][p]
           H == held[q]
<1>1. /\ s \in Sockets /\ t \in Sockets /\ n \in Nat /\ k \in Nat /\ n <= k
      /\ L \in Seq(ProtocolMessage) /\ H \in Seq(ProtocolMessage) /\ outMsgId[q] \in Nat
      /\ Line(q) \in Seq(ProtocolMessage)
      /\ \A r \in Sockets : wire[r][p] \in Seq(ProtocolMessage)
  BY StreamTypes
<1>2. L # <<>> /\ (Head(L).type = "Regular" => Head(L).id <= k)
  BY DEF Incoming
<1>3. wire'[s][p] = Tail(L) /\ \A r \in Sockets \ {s} : wire'[r][p] = wire[r][p]
  <2>1. wire \in [Sockets -> [Sides -> Seq(ProtocolMessage)]]
    BY DEF IndInv, WireIn
  <2>2. /\ Consumed(p)[s][p] = Tail(L)
        /\ \A r \in Sockets \ {s} : Consumed(p)[r][p] = wire[r][p]
    BY <1>1, <2>1 DEF Consumed
  <2> QED BY <1>1, <2>2
<1>4. /\ \A r \in Sockets : GapFree(wire[r][p], n)
      /\ ~paused[q] => held[q] = <<>>
      /\ t \notin closed =>
            /\ GapFree(Line(q), n)
            /\ ~reconnecting[q] => Reaches(Line(q), n, outMsgId[q])
  BY DEF Flow
<1>5. ASSUME NEW r \in Sockets PROVE GapFree(wire'[r][p], k)
  <2>1. CASE r = s
    BY <1>1, <1>2, <1>3, <1>4, <2>1, TailChain
  <2>2. CASE r # s
    BY <1>1, <1>3, <1>4, <2>2, ChainGrows
  <2> QED BY <2>1, <2>2
<1>6. /\ GapFree(Line(q), n) => GapFree(Line(q)', k)
      /\ Reaches(Line(q), n, outMsgId[q]) => Reaches(Line(q)', k, outMsgId[q])
  <2>1. CASE t = s
    <3>1. Line(q) = L \o H /\ Line(q)' = Tail(L) \o H
      BY <1>1, <1>3, <2>1 DEF Line
    <3>2. /\ Line(q)' = Tail(Line(q)) /\ Line(q) # <<>>
          /\ Head(Line(q)).type = "Regular" => Head(Line(q)).id <= k
      <4>1. Tail(L \o H) = Tail(L) \o H /\ Head(L \o H) = Head(L) /\ L \o H # <<>>
        BY <1>1, <1>2, TailJoins
      <4> QED BY <1>2, <3>1, <4>1
    <3> DEFINE J == Line(q)
    <3>3. J \in Seq(ProtocolMessage) /\ J # <<>> /\ (Head(J).type = "Regular" => Head(J).id <= k)
      BY <1>1, <3>2
    <3> HIDE DEF J, k, n
    <3>4. /\ GapFree(J, n) => GapFree(Tail(J), k)
          /\ \A top \in Nat : Reaches(J, n, top) => Reaches(Tail(J), k, top)
      BY <1>1, <3>3, TailChain
    <3> QED BY <1>1, <3>2, <3>4 DEF J
  <2>2. CASE t # s
    <3>1. Line(q)' = Line(q)
      BY <1>1, <1>3, <2>2 DEF Line
    <3> QED BY <1>1, <3>1, ChainGrows
  <2> QED BY <2>1, <2>2
<1> QED BY <1>4, <1>5, <1>6 DEF Flow

\* The next message a receiver reads is one ahead at most.
LEMMA FirstInLine ==
  ASSUME IndInv, NEW p \in Sides, Flow(Peer(p)), Receives(p, "Regular")
  PROVE  Incoming(p).id <= inMsgId[p] + 1
<1> DEFINE L == wire[sock[p]][p]
<1>1. L \in Seq(ProtocolMessage) /\ L # <<>> /\ Head(L).type = "Regular"
  BY StreamTypes DEF Receives
<1>2. GapFree(L, inMsgId[p])
  BY StreamTypes, Ends DEF Flow
<1>3. 1 \in DOMAIN L /\ Head(L) = L[1] /\ \A j \in DOMAIN L : ~(j < 1)
  BY <1>1
<1> QED BY <1>1, <1>2, <1>3 DEF GapFree, Incoming
-----------------------------------------------------------------------------
(* The steps of an end, and the streams of both.                             *)

Flows == \A p \in Sides : Flow(p)

\* Reading leaves what p writes alone.
LEMMA ConsumedIs ==
  ASSUME IndInv, NEW p \in Sides, wire[sock[p]][p] # <<>>
  PROVE  /\ Consumed(p) \in [Sockets -> Streams]
         /\ \A s \in Sockets : Consumed(p)[s][Peer(p)] = wire[s][Peer(p)]
         /\ Consumed(p)[sock[p]][p] = Tail(wire[sock[p]][p])
         /\ \A s \in Sockets : s # sock[p] => Consumed(p)[s] = wire[s]
<1>1. /\ wire \in [Sockets -> Streams] /\ sock[p] \in Sockets
      /\ Peer(p) \in Sides /\ Peer(p) # p
      /\ wire[sock[p]][p] \in Seq(ProtocolMessage)
  BY StreamTypes, Ends DEF IndInv, TypeOK
<1>2. Tail(wire[sock[p]][p]) \in Seq(ProtocolMessage)
  BY <1>1, HeadTailProperties
<1> QED BY <1>1, <1>2 DEF Consumed, Streams

\* The messages without a payload.
LEMMA PlainMessages ==
  ASSUME IndInv, NEW p \in Sides
  PROVE  /\ <<Msg("Ack", inMsgId[p], Empty)>> \in Seq(Bounded)
         /\ <<Msg("KeepAlive", inMsgId[p], Empty)>> \in Seq(Bounded)
         /\ <<Msg("ReplayRequest", 0, Empty)>> \in Seq(Bounded)
         /\ NoRegular(<<Msg("Ack", inMsgId[p], Empty)>>)
         /\ NoRegular(<<Msg("KeepAlive", inMsgId[p], Empty)>>)
         /\ NoRegular(<<Msg("ReplayRequest", 0, Empty)>>)
<1>1. /\ <<Msg("Ack", inMsgId[p], Empty)>> \in Seq(From[p])
      /\ <<Msg("KeepAlive", inMsgId[p], Empty)>> \in Seq(From[p])
      /\ <<Msg("ReplayRequest", 0, Empty)>> \in Seq(From[p])
  BY AckMsgs, ControlMsgs DEF ProtocolMessageType
<1>2. \A type \in {"Ack", "KeepAlive", "ReplayRequest"} : \A ack :
         NoRegular(<<Msg(type, ack, Empty)>>)
  BY DEF NoRegular, Msg
<1> QED BY <1>1, <1>2, FromMessages

\* The queue of unacknowledged messages, behind an acknowledgement or not, goes on
\* where its receiver is.
LEMMA ReplayChain ==
  ASSUME IndInv, NEW p \in Sides
  PROVE  /\ Chain(unack[p], inMsgId[Peer(p)], outMsgId[p]) /\ unack[p] \in Seq(Bounded)
         /\ Chain(EndAcceptReconnection(p, unack[p]), inMsgId[Peer(p)], outMsgId[p])
         /\ EndAcceptReconnection(p, unack[p]) \in Seq(Bounded)
<1> DEFINE A == <<Msg("Ack", inMsgId[p], Empty)>>
           b == inMsgId[Peer(p)]
<1>1. /\ b \in Nat /\ outMsgId[p] \in Nat /\ outAckId[p] \in Nat
      /\ outAckId[p] <= b /\ b <= outMsgId[p] /\ unack[p] \in Seq(ProtocolMessage)
      /\ Queue(p, unack[p], outAckId[p])
  BY StreamTypes, Ends DEF IndInv
<1>2. Chain(unack[p], b, outMsgId[p])
  BY <1>1, QueueChain
<1>3. A \in Seq(Bounded) /\ NoRegular(A) /\ unack[p] \in Seq(Bounded)
  BY PlainMessages, Facts, FromMessages
<1>4. A \in Seq(ProtocolMessage) /\ Chain(A, b, b)
  BY <1>1, <1>3, BoundedMessages, PlainChain
<1> HIDE DEF A, b
<1>5. Chain(A \o unack[p], b, outMsgId[p])
  BY <1>1, <1>2, <1>4, JoinsChain
<1>6. A \o unack[p] \in Seq(Bounded)
  BY <1>3, ConcatProperties
<1> QED BY <1>2, <1>3, <1>5, <1>6 DEF EndAcceptReconnection, A, b

\* send()
LEMMA SendFlow ==
  ASSUME IndInv, Flows, NEW p \in Sides, NEW d \in Data, Send(p, d)
  PROVE  Flows'
<1> DEFINE n == outMsgId[p]
           m == Regular(n + 1, inMsgId[p], d)
           q == Peer(p)
<1>1. /\ n \in Nat /\ n < MaxMsgs /\ outMsgId' = [outMsgId EXCEPT ![p] = n + 1]
      /\ UNCHANGED <<sock, closed, paused, reconnecting, inMsgId>>
      /\ ~reconnecting[p] => Write(wire, p, <<m>>)
      /\ reconnecting[p] => UNCHANGED <<wire, held>>
      /\ q \in Sides /\ q # p /\ Peer(q) = p
  BY StreamTypes, Ends DEF Send, WritesAtOnce, handshake
<1>2. outMsgId \in [Sides -> 0..MaxMsgs] /\ wire \in [Sockets -> Streams] /\ sock[q] \in Sockets
  BY <1>1, StreamTypes DEF IndInv, TypeOK
<1>3. outMsgId'[p] = n + 1 /\ outMsgId'[q] = outMsgId[q] /\ n + 1 \in Nat
  BY <1>1, <1>2
<1>4. CASE reconnecting[p]
  <2>1. Flow(q)'
    BY <1>1, <1>2, <1>3, <1>4, SameFlow DEF Flows
  <2>2. Flow(p)'
    BY <1>1, <1>4 DEF Flow, Flows, Line
  <2> QED BY <2>1, <2>2, Ends DEF Flows
<1>5. CASE ~reconnecting[p]
  <2>1. <<m>> \in Seq(Bounded)
    <3>1. m \in Bounded
      BY <1>1, RegularBounded
    <3> QED BY <3>1
  <2>2. GapFree(<<m>>, n) /\ Reaches(<<m>>, n, n + 1)
    BY <1>1, NextChain DEF Chain
  <2>3. sock[p] \notin closed => Reaches(Line(p), inMsgId[q], n)
    BY <1>5 DEF Flows, Flow
  <2> HIDE DEF m
  <2>4. Write(wire, p, <<m>>)
    BY <1>1, <1>5
  <2>5. Flow(p)'
    BY <1>1, <1>2, <1>3, <2>1, <2>2, <2>3, <2>4, WriteFlow DEF Flows
  <2>6. /\ \A s \in Sockets : wire'[s][p] = wire[s][p]
        /\ held'[q] = held[q]
    BY <1>2, <2>1, <2>4, WriteIs
  <2>7. Flow(q)'
    BY <1>1, <1>2, <1>3, <2>6, SameFlow DEF Flows
  <2> QED BY <2>5, <2>7, Ends DEF Flows
<1> QED BY <1>4, <1>5

\* An end that only writes a message without a payload.
LEMMA PlainStepFlow ==
  ASSUME IndInv, Flows, NEW p \in Sides, NEW M \in Seq(Bounded), NoRegular(M),
         Write(wire, p, M) \/ UNCHANGED <<wire, held>>,
         UNCHANGED <<sock, closed, paused, reconnecting, inMsgId, outMsgId>>
  PROVE  Flows'
<1> DEFINE q == Peer(p)
<1>1. /\ wire \in [Sockets -> Streams] /\ sock[q] \in Sockets /\ sock[p] \in Sockets
      /\ q \in Sides /\ Peer(q) = p
  BY StreamTypes, Ends DEF IndInv, TypeOK
<1>2. CASE UNCHANGED <<wire, held>>
  BY <1>2 DEF Flows, Flow, Line
<1>3. CASE Write(wire, p, M)
  <2>1. Flow(p)'
    BY <1>1, <1>3, PlainFlow DEF Flows
  <2>2. /\ \A s \in Sockets : wire'[s][p] = wire[s][p]
        /\ held'[q] = held[q]
    BY <1>1, <1>3, WriteIs
  <2>3. Flow(q)'
    BY <1>1, <2>2, SameFlow DEF Flows
  <2> QED BY <2>1, <2>3, Ends DEF Flows
<1> QED BY <1>2, <1>3

\* An end that reads a message and writes nothing.
LEMMA ReadStepFlow ==
  ASSUME IndInv, Flows, NEW p \in Sides, wire[sock[p]][p] # <<>>, wire' = Consumed(p),
         UNCHANGED <<held, sock, closed, reconnecting, outMsgId>>,
         paused'[Peer(p)] = paused[Peer(p)], paused'[p] \/ paused' = paused,
         inMsgId'[p] \in Nat, inMsgId[p] <= inMsgId'[p], inMsgId'[Peer(p)] = inMsgId[Peer(p)],
         Incoming(p).type = "Regular" => Incoming(p).id <= inMsgId'[p]
  PROVE  Flows'
<1> DEFINE q == Peer(p)
<1>1. q \in Sides /\ Peer(q) = p /\ sock[p] \in Sockets /\ sock[q] \in Sockets
  BY StreamTypes, Ends
<1>2. Flow(q)'
  BY <1>1, ReadFlow DEF Flows
<1>3. Flow(p)'
  <2>1. \A s \in Sockets : wire'[s][q] = wire[s][q]
    BY ConsumedIs
  <2>2. Line(p)' = Line(p)
    BY <1>1, <2>1 DEF Line
  <2>3. Flow(p)
    BY DEF Flows
  <2> QED BY <2>1, <2>2, <2>3 DEF Flow
<1> QED BY <1>2, <1>3, Ends DEF Flows

\* An end that reads a message without a payload and writes M.
LEMMA ReadWriteFlow ==
  ASSUME IndInv, Flows, NEW p \in Sides, wire[sock[p]][p] # <<>>,
         NEW M \in Seq(Bounded), Write(Consumed(p), p, M),
         Chain(M, inMsgId[Peer(p)], outMsgId[p]),
         UNCHANGED <<sock, closed, paused, outMsgId, inMsgId>>,
         reconnecting'[Peer(p)] = reconnecting[Peer(p)],
         Incoming(p).type # "Regular"
  PROVE  Flows'
<1> DEFINE q == Peer(p)
           n == inMsgId[q]
<1>1. /\ q \in Sides /\ Peer(q) = p /\ sock[p] \in Sockets /\ sock[q] \in Sockets
      /\ n \in Nat /\ inMsgId[p] \in Nat /\ outMsgId[p] \in Nat
  BY StreamTypes, Ends
<1>2. /\ Consumed(p) \in [Sockets -> Streams]
      /\ \A s \in Sockets : Consumed(p)[s][q] = wire[s][q]
  BY ConsumedIs
<1>3. /\ \A s \in Sockets : wire'[s][p] = Consumed(p)[s][p]
      /\ held'[q] = held[q]
  BY <1>2, WriteIs
<1>4. Flow(q)'
  BY <1>1, <1>3, ReadFlow DEF Flows
<1>5. Reaches(Line(p), n, n)
  BY <1>1 DEF Reaches
<1>6. Flow(p)'
  BY <1>1, <1>2, <1>5, WriteFlow DEF Flows, Chain
<1> QED BY <1>4, <1>6, Ends DEF Flows

\* The writer is paused, or is resumed and writes what it kept.
LEMMA ResumeFlow ==
  ASSUME IndInv, Flows, NEW p \in Sides, ReceiveResume(p)
  PROVE  Flows'
<1> DEFINE q == Peer(p)
           s == sock[p]
           n == inMsgId[q]
           H == held[p]
<1>1. /\ q \in Sides /\ Peer(q) = p /\ q # p /\ s \in Sockets /\ sock[q] \in Sockets
      /\ n \in Nat /\ inMsgId[p] \in Nat /\ outMsgId[p] \in Nat
      /\ wire[s][p] # <<>> /\ Incoming(p).type = "Resume"
      /\ wire[s][q] \in Seq(ProtocolMessage)
  BY StreamTypes, Ends DEF ReceiveResume, Receives, Incoming
<1>2. /\ UNCHANGED <<sock, closed, outMsgId, inMsgId, reconnecting>>
      /\ held' = [held EXCEPT ![p] = <<>>]
      /\ wire' = Sent(Consumed(p), s, q, H)
      /\ paused' = [paused EXCEPT ![p] = FALSE]
  BY DEF ReceiveResume, outgoing, incoming, handshake
<1>3. /\ Consumed(p) \in [Sockets -> Streams]
      /\ \A r \in Sockets : Consumed(p)[r][q] = wire[r][q]
  BY <1>1, ConsumedIs
<1>4. H \in Seq(Bounded) /\ H \in Seq(ProtocolMessage)
  BY Facts, FromMessages, StreamTypes
<1>5. /\ held'[p] = <<>> /\ held'[q] = held[q] /\ paused'[q] = paused[q]
  BY <1>1, <1>2 DEF IndInv, TypeOK
<1>6. /\ s \in closed => wire' = Consumed(p)
      /\ s \notin closed => wire'[s][q] = wire[s][q] \o H
      /\ \A r \in Sockets : wire'[r][p] = Consumed(p)[r][p] /\ (r # s => wire'[r] = Consumed(p)[r])
  <2> DEFINE v == Sent(Consumed(p), s, q, H)
  <2>1. Puts(v, Consumed(p), s, p, H)
    BY <1>1, <1>3, <1>4, SentIs
  <2>2. wire' = v
    BY <1>2
  <2> HIDE DEF v
  <2> QED BY <1>1, <1>3, <2>1, <2>2 DEF Puts
<1>7. Flow(q)'
  <2>1. /\ Flow(q) /\ \A r \in Sockets : wire'[r][p] = Consumed(p)[r][p]
        /\ reconnecting'[q] = reconnecting[q] /\ inMsgId'[p] = inMsgId[p]
        /\ inMsgId[p] <= inMsgId'[p] /\ Incoming(p).type # "Regular"
        /\ UNCHANGED <<sock, closed, outMsgId>>
    BY <1>1, <1>2, <1>6 DEF Flows
  <2> QED BY <1>1, <1>5, <2>1, ReadFlow
<1>8. /\ s \notin closed => Line(p)' = Line(p) /\ wire'[s][q] = Line(p)
      /\ \A r \in Sockets : (r # s \/ s \in closed) => wire'[r][q] = wire[r][q]
  <2>1. s \notin closed => wire'[s][q] = Line(p)
    BY <1>6 DEF Line
  <2>2. Line(p) \in Seq(ProtocolMessage) /\ Line(p) \o <<>> = Line(p)
    <3>1. Line(p) \in Seq(ProtocolMessage)
      BY StreamTypes
    <3> QED BY <3>1, ConcatEmptySeq
  <2>3. s \notin closed => Line(p)' = Line(p)
    BY <1>2, <1>5, <2>1, <2>2 DEF Line
  <2>4. \A r \in Sockets : (r # s \/ s \in closed) => wire'[r][q] = wire[r][q]
    BY <1>3, <1>6
  <2> QED BY <2>1, <2>3, <2>4
<1>9. Flow(p)'
  <2>1. Flow(p)
    BY DEF Flows
  <2>2. \A r \in Sockets : GapFree(wire'[r][q], n)
    BY <1>8, <2>1 DEF Flow
  <2> QED BY <1>2, <1>5, <1>8, <2>1, <2>2 DEF Flow
<1> QED BY <1>7, <1>9, Ends DEF Flows

\* Whatever an end does, receivers see no gap.
LEMMA EndpointFlow ==
  ASSUME IndInv, Flows, NEW p \in Sides, EndpointStep(p)
  PROVE  Flows'
<1> DEFINE q == Peer(p)
<1>0. /\ q \in Sides /\ Peer(q) = p /\ q # p /\ inMsgId[p] \in Nat /\ inMsgId[q] \in Nat
      /\ <<Msg("Ack", inMsgId[p], Empty)>> \in Seq(Bounded)
      /\ <<Msg("KeepAlive", inMsgId[p], Empty)>> \in Seq(Bounded)
      /\ <<Msg("ReplayRequest", 0, Empty)>> \in Seq(Bounded)
      /\ NoRegular(<<Msg("Ack", inMsgId[p], Empty)>>)
      /\ NoRegular(<<Msg("KeepAlive", inMsgId[p], Empty)>>)
  BY Ends, StreamTypes, PlainMessages
<1>1. ASSUME NEW d \in Data, Send(p, d) PROVE Flows'
  BY <1>1, SendFlow
<1>2. CASE AckTimerFires(p)
  <2>1. /\ Write(wire, p, <<Msg("Ack", inMsgId[p], Empty)>>) \/ UNCHANGED <<wire, held>>
        /\ UNCHANGED <<sock, closed, paused, reconnecting, inMsgId, outMsgId>>
    BY <1>2 DEF AckTimerFires, handshake, outgoing
  <2> QED BY <1>0, <2>1, PlainStepFlow
<1>3. CASE KeepAlive(p)
  <2>1. /\ Write(wire, p, <<Msg("KeepAlive", inMsgId[p], Empty)>>)
        /\ UNCHANGED <<sock, closed, paused, reconnecting, inMsgId, outMsgId>>
    BY <1>3 DEF KeepAlive, handshake, outgoing
  <2> QED BY <1>0, <2>1, PlainStepFlow
<1>4. CASE ThrottleExpires(p)
  BY <1>4 DEF ThrottleExpires, Flows, Flow, Line, writer, network, handshake, outgoing
<1>5. CASE ReceiveNextRegular(p)
  <2>1. /\ wire[sock[p]][p] # <<>> /\ wire' = Consumed(p)
        /\ UNCHANGED <<held, paused, sock, closed, reconnecting, outMsgId>>
        /\ inMsgId' = [inMsgId EXCEPT ![p] = Incoming(p).id]
    BY <1>5 DEF ReceiveNextRegular, Receives, writer, handshake, AcceptAck
  <2>2. Incoming(p).id = inMsgId[p] + 1
    BY <1>5 DEF ReceiveNextRegular, IsNext
  <2>3. inMsgId'[p] = inMsgId[p] + 1 /\ inMsgId'[q] = inMsgId[q]
    BY <1>0, <2>1, <2>2 DEF IndInv, TypeOK
  <2> QED BY <1>0, <2>1, <2>2, <2>3, ReadStepFlow
<1>6. CASE ReceiveOldRegular(p)
  <2>1. /\ wire[sock[p]][p] # <<>> /\ wire' = Consumed(p)
        /\ UNCHANGED <<held, paused, sock, closed, reconnecting, outMsgId, inMsgId>>
        /\ Incoming(p).id <= inMsgId[p]
    BY <1>6 DEF ReceiveOldRegular, Receives, writer, handshake, AcceptAck, incoming
  <2> QED BY <1>0, <2>1, ReadStepFlow
<1>7. CASE ReceiveGap(p)
  <2>1. Receives(p, "Regular") /\ Incoming(p).id > inMsgId[p] + 1
    BY <1>7 DEF ReceiveGap
  <2>2. Incoming(p).id <= inMsgId[p] + 1
    BY <1>0, <2>1, FirstInLine DEF Flows
  <2>3. Incoming(p).id \in Nat
    BY <2>1, IncomingMsg DEF Receives, ProtocolMessage
  <2> QED BY <1>0, <2>1, <2>2, <2>3
<1>8. CASE ReceiveAck(p)
  <2>1. /\ wire[sock[p]][p] # <<>> /\ wire' = Consumed(p)
        /\ UNCHANGED <<held, paused, sock, closed, reconnecting, outMsgId, inMsgId>>
        /\ Incoming(p).type # "Regular"
    BY <1>8 DEF ReceiveAck, Receives, Incoming, writer, handshake, AcceptAck, incoming
  <2> QED BY <1>0, <2>1, ReadStepFlow
<1>9. CASE ReceiveReplayRequest(p)
  <2>1. /\ wire[sock[p]][p] # <<>> /\ Write(Consumed(p), p, unack[p])
        /\ UNCHANGED <<sock, closed, paused, outMsgId, inMsgId, reconnecting>>
        /\ Incoming(p).type # "Regular"
    BY <1>9 DEF ReceiveReplayRequest, Receives, Incoming, handshake, outgoing, incoming
  <2> QED BY <2>1, ReplayChain, ReadWriteFlow
<1>10. CASE ReceivePause(p)
  <2>1. /\ wire[sock[p]][p] # <<>> /\ wire' = Consumed(p)
        /\ UNCHANGED <<held, sock, closed, reconnecting, outMsgId, inMsgId>>
        /\ Incoming(p).type # "Regular" /\ paused' = [paused EXCEPT ![p] = TRUE]
    BY <1>10 DEF ReceivePause, Receives, Incoming, handshake, outgoing, incoming
  <2>2. paused'[p] /\ paused'[q] = paused[q]
    BY <1>0, <2>1 DEF IndInv, TypeOK
  <2>3. paused'[p] \/ paused' = paused
    BY <2>2
  <2>4. inMsgId'[p] \in Nat /\ inMsgId[p] <= inMsgId'[p] /\ inMsgId'[q] = inMsgId[q]
    BY <1>0, <2>1
  <2> QED BY <2>1, <2>2, <2>3, <2>4, ReadStepFlow
<1>11. CASE ReceiveResume(p)
  BY <1>11, ResumeFlow
<1>12. CASE ReceiveOk(p)
  <2>1. /\ wire[sock[p]][p] # <<>> /\ Incoming(p).type # "Regular"
        /\ UNCHANGED <<paused, sock, closed, outMsgId, inMsgId>>
    BY <1>12 DEF ReceiveOk, Receives, Incoming, outgoing
  <2>2. CASE p = "client" /\ awaitingOk
    <3>1. /\ Write(Consumed(p), p, EndAcceptReconnection(p, unack[p]))
          /\ reconnecting' = [reconnecting EXCEPT ![p] = FALSE]
      BY <1>12, <2>2 DEF ReceiveOk
    <3>2. reconnecting'[q] = reconnecting[q]
      BY <1>0, <3>1 DEF IndInv, TypeOK
    <3> QED BY <2>1, <3>1, <3>2, ReplayChain, ReadWriteFlow
  <2>3. CASE ~(p = "client" /\ awaitingOk)
    <3>1. wire' = Consumed(p) /\ UNCHANGED <<reconnecting, held>>
      BY <1>12, <2>3 DEF ReceiveOk
    <3> QED BY <1>0, <2>1, <3>1, ReadStepFlow
  <2> QED BY <2>2, <2>3
<1> QED BY <1>1, <1>2, <1>3, <1>4, <1>5, <1>6, <1>7, <1>8, <1>9, <1>10, <1>11, <1>12
       DEF EndpointStep, Receive
-----------------------------------------------------------------------------
(* Reconnections and the network, and the streams of both ends.              *)

\* Messages that are not Regular are dropped from the front of L, before H.
LEMMA DropPlain ==
  ASSUME NEW L \in Seq(ProtocolMessage), NEW H \in Seq(ProtocolMessage), NEW k \in 0..Len(L),
         \A i \in 1..k : L[i].type # "Regular", NEW n \in Nat
  PROVE  LET R == SubSeq(L, k + 1, Len(L))
         IN  /\ GapFree(L \o H, n) => GapFree(R \o H, n)
             /\ \A top \in Nat : Reaches(L \o H, n, top) => Reaches(R \o H, n, top)
<1> DEFINE R == SubSeq(L, k + 1, Len(L))
           J == L \o H
           K == R \o H
<1>1. /\ k \in Nat /\ Len(L) \in Nat /\ Len(H) \in Nat /\ k <= Len(L)
      /\ R \in Seq(ProtocolMessage) /\ Len(R) = Len(L) - k
      /\ \A i \in 1..Len(R) : R[i] = L[k + i]
  <2>1. k \in Nat /\ Len(L) \in Nat /\ Len(H) \in Nat /\ k <= Len(L)
    OBVIOUS
  <2>2. /\ R \in Seq(ProtocolMessage) /\ Len(R) = Len(L) - k
        /\ \A i \in 1..(Len(L) - k) : R[i] = L[k + i]
    BY <2>1, DropFirst
  <2> QED BY <2>1, <2>2
<1> HIDE DEF R
<1>2. /\ J \in Seq(ProtocolMessage) /\ Len(J) = Len(L) + Len(H) /\ DOMAIN J = 1..Len(J)
      /\ \A i \in 1..Len(J) : J[i] = IF i <= Len(L) THEN L[i] ELSE H[i - Len(L)]
  BY ConcatProperties
<1>3. /\ K \in Seq(ProtocolMessage) /\ Len(K) = Len(R) + Len(H) /\ DOMAIN K = 1..Len(K)
      /\ \A i \in 1..Len(K) : K[i] = IF i <= Len(R) THEN R[i] ELSE H[i - Len(R)]
  BY <1>1, ConcatProperties
<1> HIDE DEF J, K
<1>4. Len(K) = Len(J) - k /\ Len(J) \in Nat /\ Len(K) \in Nat
  BY <1>1, <1>2, <1>3
<1>5. ASSUME NEW i \in DOMAIN K PROVE i + k \in DOMAIN J /\ K[i] = J[i + k]
  <2>1. i \in 1..Len(K) /\ i + k \in 1..Len(J)
    BY <1>1, <1>3, <1>4
  <2>2. CASE i <= Len(R)
    <3>1. i \in 1..Len(R) /\ i + k <= Len(L) /\ i + k = k + i
      BY <1>1, <2>1, <2>2
    <3>2. J[i + k] = L[i + k]
      BY <1>2, <2>1, <3>1
    <3>3. K[i] = R[i] /\ R[i] = L[k + i]
      BY <1>1, <1>3, <2>1, <3>1
    <3> QED BY <2>1, <3>1, <3>2, <3>3
  <2>3. CASE ~(i <= Len(R))
    <3>1. ~(i + k <= Len(L)) /\ (i + k) - Len(L) = i - Len(R)
      BY <1>1, <2>1, <2>3
    <3> QED BY <1>2, <1>3, <2>1, <2>3, <3>1
  <2> QED BY <2>2, <2>3
<1>6. ASSUME NEW i \in DOMAIN J, J[i].type = "Regular"
      PROVE  \E j \in DOMAIN K : i = j + k /\ K[j] = J[i]
  <2>1. i \in 1..Len(J) /\ i \in Nat
    BY <1>2, <1>4
  <2>2. ~(i <= k)
    <3>1. i <= k => i \in 1..k /\ i <= Len(L)
      BY <1>1, <2>1
    <3>2. i <= k => J[i] = L[i]
      BY <1>2, <2>1, <3>1
    <3> QED BY <1>6, <3>1, <3>2
  <2>3. i - k \in DOMAIN K /\ i = (i - k) + k
    BY <1>1, <1>3, <1>4, <2>1, <2>2
  <2> QED BY <1>5, <2>3
<1>7. ASSUME GapFree(J, n) PROVE GapFree(K, n)
  <2> SUFFICES ASSUME NEW i \in DOMAIN K, K[i].type = "Regular"
               PROVE  \/ K[i].id <= n + 1
                      \/ \E j \in DOMAIN K : j < i /\ K[j].type = "Regular" /\ K[i].id <= K[j].id + 1
    BY DEF GapFree
  <2>1. i + k \in DOMAIN J /\ K[i] = J[i + k] /\ i \in Nat
    BY <1>3, <1>4, <1>5
  <2>2. CASE \E j \in DOMAIN J : j < i + k /\ J[j].type = "Regular" /\ K[i].id <= J[j].id + 1
    <3>1. PICK j \in DOMAIN J : j < i + k /\ J[j].type = "Regular" /\ K[i].id <= J[j].id + 1
      BY <2>2
    <3>2. PICK l \in DOMAIN K : j = l + k /\ K[l] = J[j]
      BY <1>6, <3>1
    <3>3. l < i
      BY <1>1, <1>3, <1>4, <2>1, <3>1, <3>2
    <3> QED BY <3>1, <3>2, <3>3
  <2>3. \/ K[i].id <= n + 1
        \/ \E j \in DOMAIN J : j < i + k /\ J[j].type = "Regular" /\ K[i].id <= J[j].id + 1
    BY <1>7, <2>1 DEF GapFree
  <2> QED BY <2>2, <2>3
<1>8. ASSUME NEW top \in Nat, Reaches(J, n, top) PROVE Reaches(K, n, top)
  BY <1>6, <1>8 DEF Reaches
<1> QED BY <1>7, <1>8 DEF R, J, K

\* The server drops messages that are not Regular from the front of a stream, and
\* the rest of an old one.
LEMMA DropFlow ==
  ASSUME IndInv, Flow("client"), NEW s \in Sockets, NEW k \in 0..Len(wire[s]["server"]),
         \A i \in 1..k : wire[s]["server"][i].type # "Regular",
         wire'[s]["server"] = SubSeq(wire[s]["server"], k + 1, Len(wire[s]["server"])),
         \A r \in Sockets \ {s} : \/ wire'[r]["server"] = wire[r]["server"]
                                  \/ wire'[r]["server"] = <<>> /\ r \in closed',
         closed \subseteq closed',
         sock'["client"] = sock["client"], held'["client"] = held["client"],
         paused'["client"] = paused["client"], reconnecting'["client"] = reconnecting["client"],
         outMsgId'["client"] = outMsgId["client"], inMsgId'["server"] = inMsgId["server"]
  PROVE  Flow("client")'
<1> DEFINE n == inMsgId["server"]
           c == sock["client"]
           L == wire[s]["server"]
           H == held["client"]
           R == SubSeq(L, k + 1, Len(L))
<1>1. /\ n \in Nat /\ c \in Sockets /\ outMsgId["client"] \in Nat
      /\ L \in Seq(ProtocolMessage) /\ H \in Seq(ProtocolMessage)
      /\ Peer("client") = "server"
  BY StreamTypes, Ends
<1>2. /\ \A r \in Sockets : GapFree(wire[r]["server"], n)
      /\ ~paused["client"] => held["client"] = <<>>
      /\ c \notin closed =>
            /\ GapFree(Line("client"), n)
            /\ ~reconnecting["client"] => Reaches(Line("client"), n, outMsgId["client"])
  BY <1>1 DEF Flow
<1>3. \A Q \in Seq(ProtocolMessage) : GapFree(L \o Q, n) => GapFree(R \o Q, n)
  BY <1>1, DropPlain
<1>4. \A top \in Nat : Reaches(L \o H, n, top) => Reaches(R \o H, n, top)
  BY <1>1, DropPlain
<1>5. GapFree(R, n)
  <2>1. <<>> \in Seq(ProtocolMessage) /\ L \o <<>> = L /\ R \in Seq(ProtocolMessage)
    BY <1>1
  <2>2. R \o <<>> = R
    BY <2>1, ConcatEmptySeq
  <2> HIDE DEF R
  <2> QED BY <1>2, <1>3, <2>1, <2>2
<1> HIDE DEF R
<1>6. wire'[s]["server"] = R
  BY DEF R
<1>7. ASSUME NEW r \in Sockets PROVE GapFree(wire'[r]["server"], n)
  BY <1>2, <1>5, <1>6, EmptyChain
<1>8. ASSUME c \notin closed'
      PROVE  /\ GapFree(Line("client")', n)
             /\ ~reconnecting["client"] => Reaches(Line("client")', n, outMsgId["client"])
  <2>1. c \notin closed
    BY <1>8
  <2>2. CASE c = s
    <3>1. Line("client") = L \o H /\ Line("client")' = R \o H
      BY <1>1, <1>6, <2>2 DEF Line
    <3> QED BY <1>1, <1>2, <1>3, <1>4, <2>1, <3>1
  <2>3. CASE c # s
    <3>1. Line("client")' = Line("client")
      BY <1>1, <1>8, <2>3 DEF Line
    <3> QED BY <1>2, <2>1, <3>1
  <2> QED BY <2>2, <2>3
<1> QED BY <1>1, <1>2, <1>7, <1>8 DEF Flow

\* The client moves to a new socket.
LEMMA BeginFlow ==
  ASSUME IndInv, Flows, NEW s \in Sockets, BeginReconnection(s)
  PROVE  Flows'
<1> DEFINE c == sock["client"]
           t == sock["server"]
           R == <<Msg("Control", 0, "connectionType")>>
<1>1. /\ c \in Sockets /\ t \in Sockets /\ s # c /\ s # t
      /\ inMsgId["server"] \in Nat
      /\ wire \in [Sockets -> Streams] /\ Sides = {"client", "server"}
      /\ Peer("client") = "server" /\ Peer("server") = "client"
  BY StreamTypes, Ends DEF BeginReconnection, Free, IndInv, TypeOK
<1>2. /\ sock' = [sock EXCEPT !["client"] = s]
      /\ closed' = (closed \ {s}) \cup {c}
      /\ wire' = [wire EXCEPT ![c]["client"] = <<>>, ![s]["server"] = R]
      /\ reconnecting' = [reconnecting EXCEPT !["client"] = TRUE]
      /\ paused' = [paused EXCEPT !["client"] = FALSE]
      /\ held' = [held EXCEPT !["client"] = <<>>]
      /\ UNCHANGED <<outMsgId, inMsgId>>
  BY DEF BeginReconnection, outgoing
<1>3. /\ sock'["client"] = s /\ sock'["server"] = t
      /\ reconnecting'["client"] = TRUE /\ reconnecting'["server"] = reconnecting["server"]
      /\ paused'["server"] = paused["server"]
      /\ held'["client"] = <<>> /\ held'["server"] = held["server"]
  BY <1>1, <1>2 DEF IndInv, TypeOK
<1>4. /\ wire'[s]["server"] = R /\ wire'[c]["client"] = <<>>
      /\ \A r \in Sockets \ {s} : wire'[r]["server"] = wire[r]["server"]
      /\ \A r \in Sockets \ {c} : wire'[r]["client"] = wire[r]["client"]
  BY <1>1, <1>2 DEF Streams
<1>5. R \in Seq(ProtocolMessage) /\ R \o <<>> = R /\ GapFree(R, inMsgId["server"])
  <2>1. R \in Seq(From["client"])
    BY <1>1, ControlMsgs DEF ProtocolMessageType, ControlData
  <2>2. R \in Seq(ProtocolMessage)
    BY <1>1, <2>1, FromMessages, BoundedMessages
  <2>3. NoRegular(R)
    BY DEF NoRegular, Msg
  <2>4. GapFree(R, inMsgId["server"])
    BY <1>1, <2>3, PlainChain DEF Chain
  <2> QED BY <2>2, <2>4, ConcatEmptySeq
<1> HIDE DEF R
<1>6. Flow("client")'
  <2>1. \A r \in Sockets : GapFree(wire'[r]["server"], inMsgId["server"])
    BY <1>1, <1>4, <1>5 DEF Flows, Flow
  <2>2. Line("client")' = R
    BY <1>1, <1>3, <1>4, <1>5 DEF Line
  <2> QED BY <1>1, <1>2, <1>3, <1>5, <2>1, <2>2 DEF Flow
<1>7. Flow("server")'
  <2>1. \A r \in Sockets : GapFree(wire'[r]["client"], inMsgId["client"])
    BY <1>1, <1>4, EmptyChain DEF Flows, Flow
  <2>2. t \notin closed' => t \notin closed /\ Line("server")' = Line("server")
    BY <1>1, <1>2, <1>3, <1>4 DEF Line
  <2> QED BY <1>1, <1>2, <1>3, <2>1, <2>2 DEF Flows, Flow
<1> QED BY <1>1, <1>6, <1>7 DEF Flows

\* What the server writes on the socket it accepts.
LEMMA AcceptWrites ==
  ASSUME IndInv, NEW ack \in Nat, ack <= inMsgId["client"], AcceptAck("server", ack),
         NEW before \in Seq(From["server"]), NEW after \in Seq(From["server"]),
         NoRegular(before), NoRegular(after)
  PROVE  LET written == before \o EndAcceptReconnection("server", PopConfirmed("server", ack))
                               \o after
         IN  written \in Seq(Bounded) /\ Chain(written, inMsgId["client"], outMsgId["server"])
<1> DEFINE A == <<Msg("Ack", inMsgId["server"], Empty)>>
           q == PopConfirmed("server", ack)
           b == inMsgId["client"]
           out == outMsgId["server"]
<1>1. /\ b \in Nat /\ out \in Nat /\ b <= out
      /\ Peer("server") = "client" /\ "server" \in Sides
  BY StreamTypes, Ends
<1>2. /\ outAckId'["server"] \in Nat /\ outAckId'["server"] <= b
      /\ q \in Seq(From["server"]) /\ Queue("server", q, outAckId'["server"])
  <2>1. ack <= inMsgId[Peer("server")]
    BY <1>1
  <2>2. /\ outAckId' \in [Sides -> 0..MaxMsgs]
        /\ \A r \in Sides : outAckId'[r] <= inMsgId[Peer(r)]
        /\ HeldIn(unack', From)
        /\ \A r \in Sides : Queue(r, unack'[r], outAckId'[r])
        /\ q = unack'["server"]
    BY <1>1, <2>1, AcceptAckQueue DEF IndInv
  <2>3. outAckId'["server"] \in 0..MaxMsgs
    BY <1>1, <2>2
  <2> QED BY <1>1, <2>2, <2>3, ConstantsAssumption DEF HeldIn
<1>3. q \in Seq(Bounded) /\ before \in Seq(Bounded) /\ after \in Seq(Bounded) /\ A \in Seq(Bounded)
  BY <1>1, <1>2, FromMessages, PlainMessages
<1>4. /\ q \in Seq(ProtocolMessage) /\ before \in Seq(ProtocolMessage)
      /\ after \in Seq(ProtocolMessage) /\ A \in Seq(ProtocolMessage)
  BY <1>3, BoundedMessages
<1>5. Chain(q, b, out)
  BY <1>1, <1>2, <1>4, QueueChain
<1>6. Chain(A, b, b) /\ Chain(before, b, b) /\ Chain(after, out, out)
  BY <1>1, PlainMessages, PlainChain
<1> HIDE DEF A, q, b, out
<1>7. A \o q \in Seq(ProtocolMessage) /\ Chain(A \o q, b, out) /\ A \o q \in Seq(Bounded)
  BY <1>1, <1>3, <1>4, <1>5, <1>6, JoinsChain, ConcatProperties
<1> DEFINE E == A \o q
<1>8. E \in Seq(ProtocolMessage) /\ Chain(E, b, out) /\ E \in Seq(Bounded)
  BY <1>7
<1> HIDE DEF E
<1>9. /\ before \o E \in Seq(ProtocolMessage) /\ Chain(before \o E, b, out)
      /\ before \o E \in Seq(Bounded)
  BY <1>1, <1>3, <1>4, <1>6, <1>8, JoinsChain, ConcatProperties
<1> DEFINE B == before \o E
<1>10. B \in Seq(ProtocolMessage) /\ Chain(B, b, out) /\ B \in Seq(Bounded)
  BY <1>9
<1> HIDE DEF B
<1>11. Chain(B \o after, b, out) /\ B \o after \in Seq(Bounded)
  BY <1>1, <1>3, <1>4, <1>6, <1>10, JoinsChain, ConcatProperties
<1> QED BY <1>11 DEF B, E, A, q, b, out, EndAcceptReconnection

\* The server moves to the socket s: it drops the rest of its old stream and the
\* messages it has read from the new one, and writes W.
LEMMA AcceptIs ==
  ASSUME IndInv, NEW s \in Sockets, NEW skip \in Nat, NEW n \in Nat,
         skip + n <= Len(wire[s]["server"]),
         NEW before \in Seq(From["server"]), NEW after \in Seq(From["server"]),
         NoRegular(before), NoRegular(after),
         AcceptReconnection(s, skip, n, before, after)
  PROVE  /\ wire'[s]["server"] =
                SubSeq(wire[s]["server"], skip + n + 1, Len(wire[s]["server"]))
         /\ sock["server"] # s => wire'[sock["server"]]["server"] = <<>>
         /\ \A r \in Sockets \ {s, sock["server"]} : wire'[r]["server"] = wire[r]["server"]
         /\ \A r \in Sockets \ {s} : wire'[r]["client"] = wire[r]["client"]
         /\ s \in closed => wire'[s]["client"] = wire[s]["client"]
         /\ \E W \in Seq(Bounded) :
               /\ Chain(W, inMsgId["client"], outMsgId["server"])
               /\ s \notin closed => wire'[s]["client"] = wire[s]["client"] \o W
         /\ sock'["client"] = sock["client"] /\ sock'["server"] = s
         /\ held'["client"] = held["client"] /\ held'["server"] = <<>>
         /\ paused'["client"] = paused["client"]
         /\ closed' = closed \cup {sock["server"]}
         /\ \A i \in 1..n : wire[s]["server"][skip + i].type \in {"Ack", "KeepAlive"}
         /\ UNCHANGED <<inMsgId, reconnecting, outMsgId>>
<1> DEFINE t == sock["server"]
           stream == wire[s]["server"]
           ack == IF n = 0 THEN 0 ELSE stream[skip + n].ack
           written == before \o EndAcceptReconnection("server", PopConfirmed("server", ack)) \o after
           rest == SubSeq(stream, skip + n + 1, Len(stream))
           w == [wire EXCEPT ![t]["server"] = <<>>]
           v == [w EXCEPT ![s]["server"] = rest]
           b == inMsgId["client"]
           L == wire[s]["client"]
<1>1. /\ t \in Sockets /\ b \in Nat /\ outMsgId["server"] \in Nat
      /\ wire \in [Sockets -> Streams] /\ Sides = {"client", "server"}
      /\ Peer("client") = "server" /\ Peer("server") = "client"
      /\ stream \in Seq(ProtocolMessage) /\ L \in Seq(ProtocolMessage)
  BY StreamTypes, Ends DEF IndInv, TypeOK
<1>2. /\ AcceptAck("server", ack)
      /\ \A i \in 1..n : stream[skip + i].type \in {"Ack", "KeepAlive"}
      /\ paused' = [paused EXCEPT !["server"] = FALSE]
      /\ held' = [held EXCEPT !["server"] = <<>>]
      /\ sock' = [sock EXCEPT !["server"] = s]
      /\ closed' = closed \cup {t}
      /\ wire' = Sent(v, s, "client", written)
      /\ UNCHANGED <<inMsgId, reconnecting, outMsgId>>
  BY DEF AcceptReconnection, AcceptAck
<1>3. ack \in Nat /\ ack <= b
  <2>1. CASE n = 0
    BY <1>1, <2>1
  <2>2. CASE n # 0
    <3>1. stream \in Seq(From["client"])
      BY <1>1, Facts DEF WireIn
    <3>2. skip + n \in 1..Len(stream)
      BY <1>1, <2>2
    <3>3. stream[skip + n] \in From["client"]
      BY <3>1, <3>2
    <3>4. stream[skip + n] \in ProtocolMessage /\ stream[skip + n].ack <= inMsgId["client"]
      BY <1>1, <3>3 DEF From, FromOf, Msgs
    <3> QED BY <2>2, <3>4 DEF ProtocolMessage
  <2> QED BY <2>1, <2>2
<1> HIDE DEF ack
<1>4. written \in Seq(Bounded) /\ Chain(written, b, outMsgId["server"])
  BY <1>2, <1>3, AcceptWrites
<1> HIDE DEF written
<1>5. rest \in Seq(ProtocolMessage) /\ skip + n \in 0..Len(stream)
  <2>1. skip + n \in Nat /\ skip + n <= Len(stream)
    OBVIOUS
  <2> QED BY <1>1, <2>1, DropFirst
<1> HIDE DEF rest
<1>6. /\ v \in [Sockets -> Streams] /\ v[s]["server"] = rest
      /\ \A r \in Sockets : v[r]["client"] = wire[r]["client"]
      /\ \A r \in Sockets \ {s, t} : v[r]["server"] = wire[r]["server"]
      /\ t # s => v[t]["server"] = <<>>
  <2>1. /\ w \in [Sockets -> Streams] /\ w[t]["server"] = <<>>
        /\ \A r \in Sockets : w[r]["client"] = wire[r]["client"]
        /\ \A r \in Sockets \ {t} : w[r]["server"] = wire[r]["server"]
    <3>1. <<>> \in Seq(ProtocolMessage)
      BY EmptySeq
    <3> QED BY <1>1, <3>1 DEF Streams
  <2> HIDE DEF w
  <2>2. /\ v \in [Sockets -> Streams] /\ v[s]["server"] = rest
        /\ \A r \in Sockets : v[r]["client"] = w[r]["client"]
        /\ \A r \in Sockets \ {s} : v[r]["server"] = w[r]["server"]
    BY <1>1, <1>5, <2>1 DEF Streams
  <2> HIDE DEF v
  <2> QED BY <1>1, <2>1, <2>2
<1> HIDE DEF v
<1>7. /\ s \notin closed => wire'[s]["client"] = L \o written
      /\ s \in closed => wire'[s]["client"] = L
      /\ \A r \in Sockets \ {s} : wire'[r]["client"] = wire[r]["client"]
      /\ \A r \in Sockets : wire'[r]["server"] = v[r]["server"]
  <2> DEFINE x == Sent(v, s, Peer("server"), written)
  <2>1. Puts(x, v, s, "server", written)
    BY <1>1, <1>4, <1>6, SentIs
  <2>2. wire' = x
    BY <1>1, <1>2
  <2> HIDE DEF x
  <2> QED BY <1>1, <1>6, <2>1, <2>2 DEF Puts
<1>8. /\ sock'["client"] = sock["client"] /\ sock'["server"] = s
      /\ held'["client"] = held["client"] /\ held'["server"] = <<>>
      /\ paused'["client"] = paused["client"]
  BY <1>1, <1>2 DEF IndInv, TypeOK
<1> QED BY <1>1, <1>2, <1>4, <1>6, <1>7, <1>8 DEF rest

\* The server moves to a new socket, and receivers see no gap.
LEMMA AcceptFlow ==
  ASSUME IndInv, Flows, NEW s \in Sockets, NEW skip \in Nat, NEW n \in Nat,
         skip + n <= Len(wire[s]["server"]),
         \A i \in 1..skip : wire[s]["server"][i].type # "Regular",
         NEW before \in Seq(From["server"]), NEW after \in Seq(From["server"]),
         NoRegular(before), NoRegular(after),
         AcceptReconnection(s, skip, n, before, after)
  PROVE  Flows'
<1> DEFINE t == sock["server"]
           stream == wire[s]["server"]
           b == inMsgId["client"]
           L == wire[s]["client"]
<1>1. /\ t \in Sockets /\ b \in Nat /\ outMsgId["server"] \in Nat
      /\ Sides = {"client", "server"}
      /\ Peer("client") = "server" /\ Peer("server") = "client"
      /\ stream \in Seq(ProtocolMessage) /\ L \in Seq(ProtocolMessage)
  BY StreamTypes, Ends
<1>2. /\ wire'[s]["server"] = SubSeq(stream, skip + n + 1, Len(stream))
      /\ t # s => wire'[t]["server"] = <<>>
      /\ \A r \in Sockets \ {s, t} : wire'[r]["server"] = wire[r]["server"]
      /\ \A r \in Sockets \ {s} : wire'[r]["client"] = wire[r]["client"]
      /\ s \in closed => wire'[s]["client"] = L
      /\ sock'["client"] = sock["client"] /\ sock'["server"] = s
      /\ held'["client"] = held["client"] /\ held'["server"] = <<>>
      /\ paused'["client"] = paused["client"]
      /\ closed' = closed \cup {t}
      /\ \A i \in 1..n : stream[skip + i].type \in {"Ack", "KeepAlive"}
      /\ UNCHANGED <<inMsgId, reconnecting, outMsgId>>
  BY AcceptIs
<1>3. PICK W \in Seq(Bounded) :
          /\ Chain(W, b, outMsgId["server"])
          /\ s \notin closed => wire'[s]["client"] = L \o W
  BY AcceptIs
<1>4. skip + n \in 0..Len(stream)
  BY <1>1
<1>5. Flow("client")'
  <2> DEFINE k == skip + n
  <2>1. ASSUME NEW i \in 1..k PROVE stream[i].type # "Regular"
    <3>1. CASE i <= skip
      BY <3>1
    <3>2. CASE ~(i <= skip)
      <4>1. i - skip \in 1..n /\ skip + (i - skip) = i
        BY <3>2
      <4>2. stream[skip + (i - skip)].type \in {"Ack", "KeepAlive"}
        BY <1>2, <4>1
      <4> QED BY <4>1, <4>2
    <3> QED BY <3>1, <3>2
  <2>2. wire'[s]["server"] = SubSeq(stream, k + 1, Len(stream))
    BY <1>2
  <2>3. \A r \in Sockets \ {s} : \/ wire'[r]["server"] = wire[r]["server"]
                                 \/ wire'[r]["server"] = <<>> /\ r \in closed'
    BY <1>1, <1>2
  <2>4. closed \subseteq closed' /\ Flow("client")
    BY <1>1, <1>2 DEF Flows
  <2> HIDE DEF k
  <2>5. k \in 0..Len(stream)
    BY <1>4 DEF k
  <2> QED BY <1>2, <2>1, <2>2, <2>3, <2>4, <2>5, DropFlow
<1>6. Flow("server")'
  <2>1. \A r \in Sockets : GapFree(wire[r]["client"], b)
    BY <1>1 DEF Flows, Flow
  <2>2. Chain(L, b, b)
    BY <1>1, <2>1 DEF Chain, Reaches
  <2>3. Chain(L \o W, b, outMsgId["server"])
    <3>1. W \in Seq(ProtocolMessage)
      BY BoundedMessages
    <3> QED BY <1>1, <1>3, <2>2, <3>1, JoinsChain
  <2>4. \A r \in Sockets : GapFree(wire'[r]["client"], b)
    BY <1>2, <1>3, <2>1, <2>3 DEF Chain
  <2>5. s \notin closed' => Line("server")' = L \o W
    <3>1. W \in Seq(ProtocolMessage)
      BY BoundedMessages
    <3>2. (L \o W) \in Seq(ProtocolMessage)
      BY <1>1, <3>1, ConcatProperties
    <3>3. (L \o W) \o <<>> = L \o W
      BY <3>2, ConcatEmptySeq
    <3> QED BY <1>1, <1>2, <1>3, <3>3 DEF Line
  <2> QED BY <1>1, <1>2, <2>3, <2>4, <2>5 DEF Flow, Chain
<1> QED BY <1>1, <1>5, <1>6 DEF Flows

\* The first message of a stream is dropped.
LEMMA FirstDropped ==
  ASSUME NEW L \in Seq(ProtocolMessage), L # <<>>
  PROVE  /\ Tail(L) = SubSeq(L, 1 + 1, Len(L)) /\ 1 \in 0..Len(L) /\ Head(L) = L[1]
         /\ Tail(L) \in Seq(ProtocolMessage)
OBVIOUS

\* A sequence of two.
LEMMA Pair == ASSUME NEW S, NEW x \in S, NEW y \in S PROVE <<x, y>> \in Seq(S)
  OBVIOUS

\* The messages the server announces the hand-off with.
LEMMA AnnounceMessages ==
  ASSUME IndInv
  PROVE  PauseThenOk \in Seq(From["server"]) /\ PauseThenOk \in Seq(Bounded) /\ NoRegular(PauseThenOk)
<1> DEFINE P == Msg("Pause", 0, Empty)
           O == Msg("Control", 0, "ok")
<1>1. <<P>> \in Seq(From["server"]) /\ <<O>> \in Seq(From["server"])
  BY Ends, ControlMsgs DEF ProtocolMessageType, ControlData
<1>2. P.type # "Regular" /\ O.type # "Regular"
  BY DEF Msg
<1>3. PauseThenOk = <<P, O>>
  BY DEF PauseThenOk
<1> HIDE DEF P, O
<1>4. P \in From["server"] /\ O \in From["server"]
  BY <1>1
<1>5. PauseThenOk \in Seq(From["server"])
  BY <1>3, <1>4, Pair
<1>6. PauseThenOk \in Seq(Bounded)
  BY <1>5, Ends, FromMessages
<1>7. NoRegular(PauseThenOk)
  BY <1>2, <1>3 DEF NoRegular
<1> QED BY <1>5, <1>6, <1>7

\* The server hands the socket s to the extension host: it reads the request and
\* writes on s, which is not its own.
LEMMA HandOffIs ==
  ASSUME IndInv, NEW s \in Sockets, HandOff(s)
  PROVE  /\ wire[s]["server"] # <<>> /\ Head(wire[s]["server"]).type = "Control"
         /\ s # sock["server"] /\ s \notin InTransit
         /\ wire'[s]["server"] = Tail(wire[s]["server"])
         /\ s \in closed => wire'[s]["client"] = wire[s]["client"]
         /\ s \notin closed => wire'[s]["client"] = wire[s]["client"] \o PauseThenOk
         /\ \A r \in Sockets \ {s} : wire'[r] = wire[r]
<1> DEFINE L == wire[s]["server"]
           v == [wire EXCEPT ![s]["server"] = Tail(@)]
<1>1. /\ L # <<>> /\ Head(L).type = "Control" /\ s # sock["server"] /\ s \notin InTransit
      /\ wire' = Sent(v, s, "client", PauseThenOk)
  BY DEF HandOff, Requested
<1>2. /\ wire \in [Sockets -> Streams] /\ Sides = {"client", "server"}
      /\ Peer("client") = "server" /\ Peer("server") = "client"
      /\ L \in Seq(ProtocolMessage)
  BY StreamTypes, Ends DEF IndInv, TypeOK
<1>3. Tail(L) \in Seq(ProtocolMessage)
  BY <1>1, <1>2, FirstDropped
<1>4. /\ v \in [Sockets -> Streams] /\ v[s]["server"] = Tail(L)
      /\ v[s]["client"] = wire[s]["client"]
      /\ \A r \in Sockets \ {s} : v[r] = wire[r]
  BY <1>2, <1>3 DEF Streams
<1> HIDE DEF v
<1>5. PauseThenOk \in Seq(Bounded)
  BY AnnounceMessages
<1> DEFINE x == Sent(v, s, Peer("server"), PauseThenOk)
<1>6. Puts(x, v, s, "server", PauseThenOk)
  BY <1>2, <1>4, <1>5, SentIs
<1>7. wire' = x
  BY <1>1, <1>2
<1> HIDE DEF x
<1> QED BY <1>1, <1>2, <1>4, <1>6, <1>7 DEF Puts

\* The hand-off writes Pause and ok, and no Regular message.
LEMMA HandOffFlow ==
  ASSUME IndInv, Flows, NEW s \in Sockets, HandOff(s)
  PROVE  Flows'
<1> DEFINE L == wire[s]["server"]
           K == wire[s]["client"]
           b == inMsgId["client"]
<1>1. /\ L # <<>> /\ Head(L).type = "Control" /\ s # sock["server"]
      /\ wire'[s]["server"] = Tail(L)
      /\ s \in closed => wire'[s]["client"] = K
      /\ s \notin closed => wire'[s]["client"] = K \o PauseThenOk
      /\ \A r \in Sockets \ {s} : wire'[r] = wire[r]
  BY HandOffIs
<1>2. /\ Sides = {"client", "server"} /\ sock["server"] \in Sockets
      /\ Peer("client") = "server" /\ Peer("server") = "client"
      /\ L \in Seq(ProtocolMessage) /\ K \in Seq(ProtocolMessage) /\ b \in Nat
  BY StreamTypes, Ends
<1>3. UNCHANGED <<inMsgId, outMsgId, held, paused, reconnecting, sock, closed>>
  BY DEF HandOff, incoming, outgoing, writer
<1>4. Flow("client")'
  <2>1. /\ Tail(L) = SubSeq(L, 1 + 1, Len(L)) /\ 1 \in 0..Len(L)
        /\ \A i \in 1..1 : L[i].type # "Regular"
    BY <1>1, <1>2, FirstDropped
  <2> QED BY <1>1, <1>2, <1>3, <2>1, DropFlow DEF Flows
<1>5. Flow("server")'
  <2>1. /\ \A r \in Sockets : GapFree(wire[r]["client"], b)
        /\ Flow("server")
    BY <1>2 DEF Flows, Flow
  <2>2. GapFree(K \o PauseThenOk, b)
    <3>1. Chain(K, b, b)
      BY <1>2, <2>1 DEF Chain, Reaches
    <3>2. PauseThenOk \in Seq(ProtocolMessage)
      BY AnnounceMessages, BoundedMessages
    <3>3. Chain(PauseThenOk, b, b)
      BY <1>2, <3>2, AnnounceMessages, PlainChain
    <3> QED BY <1>2, <3>1, <3>2, <3>3, JoinChain DEF Chain
  <2>3. \A r \in Sockets : GapFree(wire'[r]["client"], b)
    BY <1>1, <2>1, <2>2
  <2>4. Line("server")' = Line("server")
    BY <1>1, <1>2, <1>3 DEF Line
  <2> QED BY <1>2, <1>3, <2>1, <2>3, <2>4 DEF Flow
<1> QED BY <1>2, <1>4, <1>5 DEF Flows

\* The end of a stream of a closed socket is lost, or the beginning of one whose
\* messages are not Regular, or a socket breaks.
LEMMA NetworkFlow ==
  ASSUME IndInv, Flows, NEW s \in Sockets,
         Break(s) \/ (\E p \in Sides : LoseTail(s, p)) \/ (LostInHandOff(s) /\ InHandOff(s))
  PROVE  Flows'
<1>1. CASE Break(s)
  <2>1. /\ closed' = closed \cup {s}
        /\ UNCHANGED <<wire, inMsgId, outMsgId, held, paused, reconnecting, sock>>
    BY <1>1 DEF Break, incoming, outgoing, writer, handshake
  <2>2. \A p \in Sides : Line(p)' = Line(p)
    BY <2>1 DEF Line
  <2> QED BY <2>1, <2>2 DEF Flows, Flow
<1>2. ASSUME NEW p \in Sides, LoseTail(s, p) PROVE Flows'
  <2> DEFINE L == wire[s][p]
             n == inMsgId[p]
             q == Peer(p)
  <2>1. /\ s \in closed /\ L # <<>> /\ wire' = [wire EXCEPT ![s][p] = SubSeq(@, 1, Len(@) - 1)]
        /\ UNCHANGED <<closed, inMsgId, outMsgId, held, paused, reconnecting, sock>>
    BY <1>2 DEF LoseTail, incoming, outgoing, writer, handshake
  <2>2. /\ wire \in [Sockets -> Streams] /\ L \in Seq(ProtocolMessage) /\ n \in Nat
        /\ q \in Sides /\ Peer(q) = p /\ q # p
    BY StreamTypes, Ends DEF IndInv, TypeOK
  <2>3. /\ wire'[s][p] = SubSeq(L, 1, Len(L) - 1)
        /\ \A r \in Sockets, u \in Sides : r # s \/ u # p => wire'[r][u] = wire[r][u]
    BY <2>1, <2>2 DEF Streams
  <2>4. GapFree(wire'[s][p], n)
    <3>1. GapFree(L, n)
      BY <2>2 DEF Flows, Flow
    <3>2. Len(L) - 1 \in 0..Len(L)
      BY <2>1, <2>2
    <3> QED BY <2>2, <2>3, <3>1, <3>2, PrefixChain
  <2>5. ASSUME NEW u \in Sides, NEW r \in Sockets PROVE GapFree(wire'[r][Peer(u)], inMsgId[Peer(u)])
    <3>1. GapFree(wire[r][Peer(u)], inMsgId[Peer(u)])
      BY DEF Flows, Flow
    <3> QED BY <2>3, <2>4, <3>1, Ends
  <2>6. ASSUME NEW u \in Sides, sock[u] \notin closed PROVE Line(u)' = Line(u)
    <3>1. sock[u] \in Sockets /\ Peer(u) \in Sides /\ sock[u] # s
      BY <2>1, <2>6, StreamTypes, Ends
    <3>2. wire'[sock[u]][Peer(u)] = wire[sock[u]][Peer(u)]
      BY <2>3, <3>1
    <3> QED BY <2>1, <3>2 DEF Line
  <2> QED BY <2>1, <2>5, <2>6 DEF Flows, Flow
<1>3. CASE LostInHandOff(s) /\ InHandOff(s)
  <2> DEFINE L == wire[s]["server"]
  <2>1. /\ L # <<>> /\ wire' = [wire EXCEPT ![s]["server"] = Tail(@)]
        /\ UNCHANGED <<closed, inMsgId, outMsgId, held, paused, reconnecting, sock>>
    BY <1>3 DEF LostInHandOff, incoming, outgoing, writer, handshake
  <2>2. /\ wire \in [Sockets -> Streams] /\ L \in Seq(ProtocolMessage)
        /\ Peer("client") = "server" /\ Peer("server") = "client"
        /\ Sides = {"client", "server"} /\ sock["server"] \in Sockets
    BY StreamTypes, Ends DEF IndInv, TypeOK
  <2>3. /\ wire'[s]["server"] = Tail(L)
        /\ \A r \in Sockets : wire'[r]["client"] = wire[r]["client"]
        /\ \A r \in Sockets \ {s} : wire'[r]["server"] = wire[r]["server"]
    BY <2>1, <2>2 DEF Streams
  <2>4. Flow("client")'
    <3>1. /\ Tail(L) = SubSeq(L, 1 + 1, Len(L)) /\ 1 \in 0..Len(L)
      BY <2>1, <2>2, FirstDropped
    <3>2. \A i \in 1..1 : L[i].type # "Regular"
      BY <1>3, <2>1, <2>2 DEF InHandOff, NoRegular
    <3>3. /\ wire'[s]["server"] = SubSeq(L, 1 + 1, Len(L))
          /\ \A r \in Sockets \ {s} : wire'[r]["server"] = wire[r]["server"]
      BY <2>3, <3>1
    <3>5. Flow("client")
      BY <2>2 DEF Flows
    <3>4. /\ closed \subseteq closed'
          /\ UNCHANGED <<closed, inMsgId, outMsgId, held, paused, reconnecting, sock>>
      BY <2>1
    <3> QED BY <3>1, <3>2, <3>3, <3>4, <3>5, DropFlow
  <2>5. Line("server")' = Line("server")
    BY <2>1, <2>2, <2>3 DEF Line
  <2>6. Flow("server")'
    BY <2>1, <2>2, <2>3, <2>5 DEF Flows, Flow
  <2> QED BY <2>2, <2>4, <2>6 DEF Flows
<1> QED BY <1>1, <1>2, <1>3

\* The server's answers to a request, and receivers see no gap.
LEMMA ServerFlow ==
  ASSUME IndInv, Flows, ServerAccepts
  PROVE  Flows'
<1>0. /\ "server" \in Sides /\ <<>> \in Seq(From["server"]) /\ NoRegular(<<>>)
      /\ <<Msg("Control", 0, "ok")>> \in Seq(From["server"])
      /\ ThenResume \in Seq(From["server"])
      /\ NoRegular(<<Msg("Control", 0, "ok")>>) /\ NoRegular(ThenResume)
  <2>1. "server" \in Sides /\ <<>> \in Seq(From["server"]) /\ NoRegular(<<>>)
    BY Ends, EmptySeq, EmptyChain
  <2>2. /\ <<Msg("Control", 0, "ok")>> \in Seq(From["server"])
        /\ ThenResume \in Seq(From["server"])
    BY <2>1, ControlMsgs DEF ProtocolMessageType, ControlData, ThenResume
  <2>3. NoRegular(<<Msg("Control", 0, "ok")>>) /\ NoRegular(ThenResume)
    BY DEF NoRegular, Msg, ThenResume
  <2> QED BY <2>1, <2>2, <2>3
<1>1. ASSUME NEW s \in Sockets, ManagementAccept(s) PROVE Flows'
  <2> DEFINE L == wire[s]["server"]
  <2>1. PICK n \in 0..(Len(L) - 1) :
            AcceptReconnection(s, 1, n, <<Msg("Control", 0, "ok")>>, <<>>)
    BY <1>1 DEF ManagementAccept
  <2>2. L \in Seq(ProtocolMessage) /\ L # <<>> /\ Head(L).type = "Control"
    BY <1>0, <1>1, StreamTypes DEF ManagementAccept, Requested
  <2>3. /\ n \in Nat /\ 1 + n <= Len(L) /\ 1 \in Nat
        /\ \A i \in 1..1 : L[i].type # "Regular"
    BY <2>2
  <2> QED BY <1>0, <2>1, <2>3, AcceptFlow
<1>2. ASSUME NEW s \in Sockets, HandOff(s) PROVE Flows'
  BY <1>2, HandOffFlow
<1>3. CASE ExtHostAccept
  <2> DEFINE s == Head(pending)
             L == wire[s]["server"]
  <2>1. pending # <<>> /\ pending \in Seq(Sockets)
    BY <1>3 DEF ExtHostAccept, IndInv, TypeOK
  <2>2. s \in Sockets
    BY <2>1
  <2>3. PICK n \in 0..Len(L) : AcceptReconnection(s, 0, n, <<>>, ThenResume)
    BY <1>3 DEF ExtHostAccept
  <2> HIDE DEF s
  <2>4. L \in Seq(ProtocolMessage)
    BY <1>0, <2>2, StreamTypes
  <2>5. /\ n \in Nat /\ 0 + n <= Len(L) /\ 0 \in Nat
        /\ \A i \in 1..0 : L[i].type # "Regular"
    BY <2>4
  <2> QED BY <1>0, <2>2, <2>3, <2>5, AcceptFlow
<1> QED BY <1>1, <1>2, <1>3 DEF ServerAccepts
-----------------------------------------------------------------------------
(* What is in a stream, and in its parts.                                    *)

\* The first messages of a stream.
LEMMA PrefixIs ==
  ASSUME NEW L \in Seq(ProtocolMessage), NEW k \in 0..Len(L)
  PROVE  /\ NoRegular(L) => NoRegular(SubSeq(L, 1, k))
         /\ NoControl(L) => NoControl(SubSeq(L, 1, k))
         /\ ControlFirst(L) => ControlFirst(SubSeq(L, 1, k))
         /\ \A r, u : Hushed(L, r, u) => Hushed(SubSeq(L, 1, k), r, u)
<1> DEFINE P == SubSeq(L, 1, k)
<1>1. \A i \in DOMAIN P : i \in DOMAIN L /\ P[i] = L[i] /\ i \in Nat /\ i <= k
  OBVIOUS
<1>2. \A i \in DOMAIN P : \A j \in DOMAIN L : j < i => j \in DOMAIN P /\ P[j] = L[j]
  OBVIOUS
<1> HIDE DEF P
<1>3. /\ NoRegular(L) => NoRegular(P)
      /\ NoControl(L) => NoControl(P)
      /\ ControlFirst(L) => ControlFirst(P)
  BY <1>1 DEF NoRegular, NoControl, ControlFirst
<1>4. \A r, u : Hushed(L, r, u) => Hushed(P, r, u)
  BY <1>1, <1>2 DEF Hushed
<1> QED BY <1>3, <1>4 DEF P

\* What is behind the first messages of a stream.
LEMMA SuffixIs ==
  ASSUME NEW L \in Seq(ProtocolMessage), NEW k \in 0..Len(L)
  PROVE  /\ NoRegular(L) => NoRegular(SubSeq(L, k + 1, Len(L)))
         /\ NoControl(L) => NoControl(SubSeq(L, k + 1, Len(L)))
         /\ ControlFirst(L) /\ k # 0 => NoControl(SubSeq(L, k + 1, Len(L)))
<1> DEFINE R == SubSeq(L, k + 1, Len(L))
<1>1. k \in Nat /\ k <= Len(L) /\ Len(L) \in Nat
  OBVIOUS
<1>2. /\ R \in Seq(ProtocolMessage) /\ Len(R) = Len(L) - k
      /\ \A i \in 1..(Len(L) - k) : R[i] = L[k + i]
  BY <1>1, DropFirst
<1> HIDE DEF R
<1>3. ASSUME NEW i \in DOMAIN R
      PROVE  k + i \in DOMAIN L /\ R[i] = L[k + i] /\ (k # 0 => k + i # 1)
  BY <1>1, <1>2
<1>4. /\ NoRegular(L) => NoRegular(R)
      /\ NoControl(L) => NoControl(R)
      /\ ControlFirst(L) /\ k # 0 => NoControl(R)
  BY <1>3 DEF NoRegular, NoControl, ControlFirst
<1> QED BY <1>4 DEF R

\* A stream behind another.
LEMMA JoinIs ==
  ASSUME NEW L \in Seq(ProtocolMessage), NEW M \in Seq(ProtocolMessage)
  PROVE  /\ NoRegular(L) /\ NoRegular(M) => NoRegular(L \o M)
         /\ NoControl(L) /\ NoControl(M) => NoControl(L \o M)
         /\ ControlFirst(L) /\ NoControl(M) => ControlFirst(L \o M)
<1> DEFINE J == L \o M
<1>1. \A i \in DOMAIN J : \/ i \in DOMAIN L /\ J[i] = L[i]
                          \/ \E j \in DOMAIN M : J[i] = M[j]
  <2>1. /\ J \in Seq(ProtocolMessage) /\ Len(J) = Len(L) + Len(M)
        /\ Len(L) \in Nat /\ Len(M) \in Nat
        /\ DOMAIN L = 1..Len(L) /\ DOMAIN M = 1..Len(M) /\ DOMAIN J = 1..Len(J)
        /\ \A i \in 1..Len(J) : J[i] = IF i <= Len(L) THEN L[i] ELSE M[i - Len(L)]
    OBVIOUS
  <2> HIDE DEF J
  <2> TAKE i \in DOMAIN J
  <2>2. CASE i <= Len(L)
    BY <2>1, <2>2
  <2>3. CASE ~(i <= Len(L))
    <3>1. i - Len(L) \in DOMAIN M
      BY <2>1, <2>3
    <3> QED BY <2>1, <2>3, <3>1
  <2> QED BY <2>2, <2>3
<1> HIDE DEF J
<1>2. /\ NoRegular(L) /\ NoRegular(M) => NoRegular(J)
      /\ NoControl(L) /\ NoControl(M) => NoControl(J)
      /\ ControlFirst(L) /\ NoControl(M) => ControlFirst(J)
  BY <1>1 DEF NoRegular, NoControl, ControlFirst
<1> QED BY <1>2 DEF J

\* A hushed client reads a message.
LEMMA TailHushed ==
  ASSUME NEW L \in Seq(ProtocolMessage), L # <<>>, NEW r, NEW u, Hushed(L, r, u)
  PROVE  /\ Head(L).type \notin {"Resume", "ReplayRequest"}
         /\ Head(L).type = "Control" => u
         /\ \A r2, u2 : (r2 \/ u2) /\ (u => u2) /\ (Head(L).type = "Pause" => u2)
                           => Hushed(Tail(L), r2, u2)
<1> DEFINE T == Tail(L)
<1>1. /\ Head(L) = L[1] /\ 1 \in DOMAIN L /\ \A j \in DOMAIN L : ~(j < 1)
      /\ \A i \in DOMAIN T : i \in Nat /\ i + 1 \in DOMAIN L /\ T[i] = L[i + 1]
      /\ \A i \in DOMAIN L : i \in Nat /\ i >= 1 /\ (i # 1 => i - 1 \in DOMAIN T)
  OBVIOUS
<1> HIDE DEF T
<1>2. /\ Head(L).type \notin {"Resume", "ReplayRequest"}
      /\ Head(L).type = "Control" => u
  BY <1>1 DEF Hushed
<1>3. ASSUME NEW r2, NEW u2, r2 \/ u2, u => u2, Head(L).type = "Pause" => u2
      PROVE  Hushed(T, r2, u2)
  <2> SUFFICES ASSUME NEW i \in DOMAIN T
               PROVE  /\ T[i].type \notin {"Resume", "ReplayRequest"}
                      /\ T[i].type = "Control" =>
                            u2 \/ \E j \in DOMAIN T : j < i /\ T[j].type = "Pause"
    BY <1>3 DEF Hushed
  <2>1. i \in Nat /\ i + 1 \in DOMAIN L /\ T[i] = L[i + 1]
    BY <1>1
  <2>2. T[i].type \notin {"Resume", "ReplayRequest"}
    BY <2>1 DEF Hushed
  <2>3. ASSUME NEW j \in DOMAIN L, j < i + 1, L[j].type = "Pause"
        PROVE  u2 \/ \E l \in DOMAIN T : l < i /\ T[l].type = "Pause"
    <3>1. CASE j = 1
      BY <1>1, <1>3, <2>3, <3>1
    <3>2. CASE j # 1
      <4>1. j - 1 \in DOMAIN T /\ (j - 1) + 1 = j
        BY <1>1, <3>2
      <4>2. j - 1 < i /\ T[j - 1] = L[j]
        BY <1>1, <2>1, <2>3, <4>1
      <4> QED BY <2>3, <4>1, <4>2
    <3> QED BY <3>1, <3>2
  <2>4. T[i].type = "Control" => u \/ \E j \in DOMAIN L : j < i + 1 /\ L[j].type = "Pause"
    BY <2>1 DEF Hushed
  <2> QED BY <1>3, <2>2, <2>3, <2>4
<1> QED BY <1>2, <1>3 DEF T

\* Nothing to read but the announcement of the hand-off, or nothing at all.
LEMMA AnnounceHushed ==
  \A u : Hushed(<<>>, TRUE, u) /\ Hushed(PauseThenOk, TRUE, u)
<1>1. /\ DOMAIN PauseThenOk = 1..2 /\ PauseThenOk[1].type = "Pause"
      /\ PauseThenOk[2].type = "Control"
  BY DEF PauseThenOk, Msg
<1>2. \A i \in 1..2 : i = 1 \/ i = 2
  OBVIOUS
<1>3. 1 < 2 /\ 1 \in 1..2
  OBVIOUS
<1>4. \A u : Hushed(PauseThenOk, TRUE, u)
  BY <1>1, <1>2, <1>3 DEF Hushed
<1>5. \A u : Hushed(<<>>, TRUE, u)
  BY DEF Hushed
<1> QED BY <1>4, <1>5
-----------------------------------------------------------------------------
(* The hand-off of a socket to the extension host.                           *)

\* The sockets on their way are sockets.
LEMMA InTransitSockets == ASSUME IndInv PROVE InTransit \subseteq Sockets /\ pending \in Seq(Sockets)
  BY DEF IndInv, TypeOK, InTransit

\* A step that disturbs at most the stream of a socket that is neither on its way
\* nor holds a request.
LEMMA ElsewhereHandOff ==
  ASSUME HandOffInv, NEW t \in Sockets, t \notin InTransit,
         \A r \in Sockets \ {t} : wire'[r] = wire[r],
         NoControl(wire'[t]["server"]),
         UNCHANGED <<sock, pending>>, held'["client"] = held["client"],
         reconnecting'["client"] = reconnecting["client"],
         paused'["client"] = paused["client"], InTransit \subseteq Sockets
  PROVE  HandOffInv'
<1>1. InTransit' = InTransit
  BY DEF InTransit
<1>2. ASSUME NEW r \in InTransit PROVE InHandOff(r)'
  <2>1. InHandOff(r) /\ wire'[r] = wire[r]
    BY <1>2 DEF HandOffInv
  <2> QED BY <2>1 DEF InHandOff, ClientHushed
<1>3. ASSUME NEW r \in Sockets PROVE RequestInv(r)'
  <2>1. CASE r = t
    BY <2>1 DEF RequestInv
  <2>2. CASE r # t
    <3>1. RequestInv(r) /\ wire'[r] = wire[r]
      BY <2>2 DEF HandOffInv
    <3> QED BY <1>1, <3>1 DEF RequestInv
  <2> QED BY <2>1, <2>2
<1> QED BY <1>1, <1>2, <1>3 DEF HandOffInv

\* The client writes M, if anything, or its writer keeps M, and it may read.
LEMMA ClientHandOff ==
  ASSUME IndInv, HandOffInv,
         NEW M \in Seq(ProtocolMessage), NoControl(M),
         \A r \in Sockets \ {sock["client"]} : wire'[r] = wire[r],
         \/ wire'[sock["client"]]["server"] = wire[sock["client"]]["server"]
         \/ /\ wire'[sock["client"]]["server"] = wire[sock["client"]]["server"] \o M
            /\ \/ NoRegular(M)
               \/ sock["client"] \notin InTransit /\ NoControl(wire[sock["client"]]["server"]),
         \/ held'["client"] = held["client"]
         \/ held'["client"] = <<>>
         \/ held'["client"] = held["client"] \o M,
         sock["client"] \in InTransit => ClientHushed(sock["client"])',
         \/ NoControl(wire[sock["client"]]["server"])
         \/ /\ wire'[sock["client"]]["client"] = wire[sock["client"]]["client"]
            /\ reconnecting'["client"] = reconnecting["client"],
         UNCHANGED <<sock, pending>>
  PROVE  HandOffInv'
<1> DEFINE c == sock["client"]
           L == wire[c]["server"]
<1>0. /\ c \in Sockets /\ L \in Seq(ProtocolMessage) /\ InTransit \subseteq Sockets
      /\ held["client"] \in Seq(ProtocolMessage)
  BY StreamTypes, Ends, InTransitSockets DEF IndInv, TypeOK
<1>1. InTransit' = InTransit
  BY DEF InTransit
<1>2. ASSUME NEW r \in InTransit PROVE InHandOff(r)'
  <2>0. InHandOff(r)
    BY <1>2 DEF HandOffInv
  <2>1. CASE r # c
    BY <1>0, <1>2, <2>0, <2>1 DEF InHandOff
  <2>2. CASE r = c
    <3>1. NoRegular(L)
      BY <2>0, <2>2 DEF InHandOff
    <3>2. NoRegular(wire'[c]["server"])
      BY <1>0, <1>2, <2>2, <3>1, JoinIs
    <3> QED BY <1>2, <2>0, <2>2, <3>2 DEF InHandOff
  <2> QED BY <2>1, <2>2
<1>3. ASSUME NEW r \in Sockets PROVE RequestInv(r)'
  <2>0. RequestInv(r)
    BY DEF HandOffInv
  <2>1. CASE r # c
    BY <1>1, <2>0, <2>1 DEF RequestInv
  <2>2. CASE r = c /\ NoControl(L)
    <3>1. NoControl(wire'[c]["server"])
      BY <1>0, <2>2, JoinIs
    <3> QED BY <2>2, <3>1 DEF RequestInv
  <2>3. CASE r = c /\ ~NoControl(L)
    <3>1. /\ ControlFirst(L) /\ NoRegular(L) /\ c # sock["server"] /\ c \notin InTransit
          /\ reconnecting["client"] /\ wire[c]["client"] = <<>>
      BY <2>0, <2>3 DEF RequestInv
    <3>2. ControlFirst(wire'[c]["server"]) /\ NoRegular(wire'[c]["server"])
      BY <1>0, <2>3, <3>1, JoinIs
    <3> QED BY <1>1, <2>3, <3>1, <3>2 DEF RequestInv
  <2> QED BY <2>1, <2>2, <2>3
<1>4. NoControl(held'["client"])
  <2>1. NoControl(held["client"])
    BY DEF HandOffInv
  <2>2. NoControl(<<>>)
    BY EmptyChain
  <2>3. NoControl(held["client"] \o M)
    BY <1>0, <2>1, JoinIs
  <2> QED BY <2>1, <2>2, <2>3
<1> QED BY <1>1, <1>2, <1>3, <1>4 DEF HandOffInv

\* What the client has to read, and where it stands.
LEMMA ClientStands ==
  ASSUME IndInv, HandOffInv
  PROVE  /\ sock["client"] \in InTransit => ClientHushed(sock["client"])
         /\ \/ NoControl(wire[sock["client"]]["server"])
            \/ reconnecting["client"] /\ wire[sock["client"]]["client"] = <<>>
         /\ sock["client"] \in InTransit => NoControl(wire[sock["client"]]["server"])
         /\ sock["client"] \in Sockets /\ InTransit \subseteq Sockets
<1>1. sock["client"] \in Sockets /\ InTransit \subseteq Sockets
  BY Ends, InTransitSockets DEF IndInv, TypeOK
<1>2. RequestInv(sock["client"])
  BY <1>1 DEF HandOffInv
<1> QED BY <1>1, <1>2 DEF HandOffInv, RequestInv, InHandOff

\* What the client can write: nothing it writes is a Control message.
LEMMA ClientMessages ==
  ASSUME IndInv, HandOffInv
  PROVE  /\ NoControl(<<Msg("Ack", inMsgId["client"], Empty)>>)
         /\ NoControl(<<Msg("KeepAlive", inMsgId["client"], Empty)>>)
         /\ NoControl(<<Msg("ReplayRequest", 0, Empty)>>)
         /\ NoControl(unack["client"]) /\ NoControl(held["client"])
         /\ NoControl(EndAcceptReconnection("client", unack["client"]))
         /\ NoControl(<<>>)
<1>1. /\ NoControl(<<Msg("Ack", inMsgId["client"], Empty)>>)
      /\ NoControl(<<Msg("KeepAlive", inMsgId["client"], Empty)>>)
      /\ NoControl(<<Msg("ReplayRequest", 0, Empty)>>)
  BY DEF NoControl, Msg
<1>2. NoControl(held["client"])
  BY DEF HandOffInv
<1>3. unack["client"] \in Seq(ProtocolMessage) /\ Queue("client", unack["client"], outAckId["client"])
  BY StreamTypes, Ends DEF IndInv
<1>4. NoControl(unack["client"])
  BY <1>3 DEF Queue, NoControl
<1>5. <<Msg("Ack", inMsgId["client"], Empty)>> \in Seq(ProtocolMessage)
  BY Ends, PlainMessages, BoundedMessages
<1>6. NoControl(EndAcceptReconnection("client", unack["client"]))
  BY <1>1, <1>3, <1>4, <1>5, JoinIs DEF EndAcceptReconnection
<1>7. NoControl(<<>>)
  BY EmptyChain
<1> QED BY <1>1, <1>2, <1>4, <1>6, <1>7

\* The server reads and writes on its own socket only.
LEMMA ServerTouches ==
  ASSUME IndInv, EndpointStep("server")
  PROVE  /\ \A r \in Sockets \ {sock["server"]} : wire'[r] = wire[r]
         /\ \/ wire'[sock["server"]]["server"] = wire[sock["server"]]["server"]
            \/ /\ wire[sock["server"]]["server"] # <<>>
               /\ wire'[sock["server"]]["server"] = Tail(wire[sock["server"]]["server"])
         /\ held'["client"] = held["client"] /\ paused'["client"] = paused["client"]
         /\ UNCHANGED <<sock, pending, reconnecting>>
<1> DEFINE t == sock["server"]
           L == wire[t]["server"]
           Touches == /\ \A r \in Sockets \ {t} : wire'[r] = wire[r]
                      /\ wire'[t]["server"] = L \/ (L # <<>> /\ wire'[t]["server"] = Tail(L))
                      /\ held'["client"] = held["client"]
<1>0. /\ t \in Sockets /\ "server" \in Sides /\ Peer("server") = "client"
      /\ wire \in [Sockets -> Streams] /\ Sides = {"client", "server"}
  BY StreamTypes, Ends DEF IndInv, TypeOK
<1>1. L # <<>> =>
        /\ Consumed("server") \in [Sockets -> Streams]
        /\ Consumed("server")[t]["server"] = Tail(L)
        /\ \A r \in Sockets \ {t} : Consumed("server")[r] = wire[r]
  BY <1>0, ConsumedIs
<1>2. ASSUME NEW w, w = wire \/ (L # <<>> /\ w = Consumed("server")),
             NEW M \in Seq(Bounded), Write(w, "server", M)
      PROVE  Touches
  <2>1. /\ w \in [Sockets -> Streams]
        /\ w[t]["server"] = L \/ (L # <<>> /\ w[t]["server"] = Tail(L))
        /\ \A r \in Sockets \ {t} : w[r] = wire[r]
    BY <1>0, <1>1, <1>2
  <2>2. /\ \A r \in Sockets : wire'[r]["server"] = w[r]["server"] /\ (r # t => wire'[r] = w[r])
        /\ held'["client"] = held["client"]
    BY <1>0, <1>2, <2>1, WriteIs
  <2> QED BY <1>0, <2>1, <2>2
<1>3. L # <<>> /\ wire' = Consumed("server") /\ held'["client"] = held["client"] => Touches
  BY <1>1
<1>4. UNCHANGED <<wire, held>> => Touches
  OBVIOUS
<1>5. /\ <<Msg("Ack", inMsgId["server"], Empty)>> \in Seq(Bounded)
      /\ <<Msg("KeepAlive", inMsgId["server"], Empty)>> \in Seq(Bounded)
      /\ <<Msg("ReplayRequest", 0, Empty)>> \in Seq(Bounded)
      /\ unack["server"] \in Seq(Bounded) /\ held["server"] \in Seq(Bounded)
  BY <1>0, PlainMessages, ReplayChain, Facts, FromMessages
<1> HIDE DEF Touches
<1>6. ASSUME NEW d \in Data, Send("server", d)
      PROVE  Touches /\ UNCHANGED <<sock, pending, paused, reconnecting>>
  <2> DEFINE m == Regular(outMsgId["server"] + 1, inMsgId["server"], d)
  <2>1. /\ UNCHANGED <<sock, pending, paused, reconnecting>>
        /\ Write(wire, "server", <<m>>) \/ UNCHANGED <<wire, held>>
    BY <1>6 DEF Send, handshake
  <2>2. outMsgId["server"] < MaxMsgs
    BY <1>6 DEF Send
  <2>3. m \in Bounded
    BY <1>0, <2>2, RegularBounded
  <2> HIDE DEF m
  <2>4. <<m>> \in Seq(Bounded)
    BY <2>3
  <2> QED BY <1>2, <1>4, <2>1, <2>4
<1>7. CASE AckTimerFires("server")
  <2>1. /\ UNCHANGED <<sock, pending, paused, reconnecting>>
        /\ \/ Write(wire, "server", <<Msg("Ack", inMsgId["server"], Empty)>>)
           \/ UNCHANGED <<wire, held>>
    BY <1>7 DEF AckTimerFires, handshake
  <2> QED BY <1>2, <1>4, <1>5, <2>1 DEF Touches
<1>8. CASE KeepAlive("server")
  <2>1. /\ UNCHANGED <<sock, pending, paused, reconnecting>>
        /\ Write(wire, "server", <<Msg("KeepAlive", inMsgId["server"], Empty)>>)
    BY <1>8 DEF KeepAlive, handshake
  <2> QED BY <1>2, <1>5, <2>1 DEF Touches
<1>9. CASE ThrottleExpires("server")
  BY <1>4, <1>9 DEF ThrottleExpires, handshake, writer, network, Touches
<1>10. CASE \/ ReceiveNextRegular("server") \/ ReceiveOldRegular("server")
            \/ ReceiveAck("server")
  <2>1. /\ UNCHANGED <<sock, pending, paused, held, reconnecting>>
        /\ L # <<>> /\ wire' = Consumed("server")
    BY <1>10 DEF ReceiveNextRegular, ReceiveOldRegular, ReceiveAck, Receives, handshake, writer
  <2> QED BY <1>3, <2>1 DEF Touches
<1>11. CASE ReceiveGap("server")
  <2>1. UNCHANGED <<sock, pending, paused, reconnecting>> /\ L # <<>>
    BY <1>11 DEF ReceiveGap, Receives, handshake
  <2>2. \/ wire' = Consumed("server") /\ held' = held
        \/ Write(Consumed("server"), "server", <<Msg("ReplayRequest", 0, Empty)>>)
    BY <1>11 DEF ReceiveGap
  <2>3. Touches
    BY <1>2, <1>3, <1>5, <2>1, <2>2
  <2> QED BY <2>1, <2>3 DEF Touches
<1>12. CASE ReceiveReplayRequest("server")
  <2>1. /\ UNCHANGED <<sock, pending, paused, reconnecting>> /\ L # <<>>
        /\ Write(Consumed("server"), "server", unack["server"])
    BY <1>12 DEF ReceiveReplayRequest, Receives, handshake
  <2> QED BY <1>2, <1>5, <2>1 DEF Touches
<1>13. CASE ReceivePause("server")
  <2>1. /\ UNCHANGED <<sock, pending, held, reconnecting>> /\ L # <<>>
        /\ wire' = Consumed("server") /\ paused' = [paused EXCEPT !["server"] = TRUE]
    BY <1>13 DEF ReceivePause, Receives, handshake
  <2>2. paused'["client"] = paused["client"]
    BY <1>0, <2>1 DEF IndInv, TypeOK
  <2> QED BY <1>3, <2>1, <2>2 DEF Touches
<1>14. CASE ReceiveResume("server")
  <2> DEFINE v == Sent(Consumed("server"), t, Peer("server"), held["server"])
  <2>1. /\ UNCHANGED <<sock, pending, reconnecting>> /\ L # <<>> /\ wire' = v
        /\ paused' = [paused EXCEPT !["server"] = FALSE]
        /\ held' = [held EXCEPT !["server"] = <<>>]
    BY <1>14 DEF ReceiveResume, Receives, handshake
  <2>2. paused'["client"] = paused["client"] /\ held'["client"] = held["client"]
    BY <1>0, <2>1 DEF IndInv, TypeOK
  <2>3. Puts(v, Consumed("server"), t, "server", held["server"])
    BY <1>0, <1>1, <1>5, <2>1, SentIs
  <2> HIDE DEF v
  <2>4. Touches
    BY <1>0, <1>1, <2>1, <2>2, <2>3 DEF Touches, Puts
  <2> QED BY <2>1, <2>2, <2>4 DEF Touches
<1>15. CASE ReceiveOk("server")
  <2>1. /\ UNCHANGED <<sock, pending, paused, held, reconnecting>> /\ L # <<>>
        /\ wire' = Consumed("server")
    BY <1>15 DEF ReceiveOk, Receives
  <2> QED BY <1>3, <2>1 DEF Touches
<1> QED BY <1>6, <1>7, <1>8, <1>9, <1>10, <1>11, <1>12, <1>13, <1>14, <1>15
       DEF EndpointStep, Receive, Touches

\* What the server does on its present socket leaves a hand-off alone.
LEMMA ServerHandOff ==
  ASSUME IndInv, HandOffInv, EndpointStep("server")
  PROVE  HandOffInv'
<1> DEFINE t == sock["server"]
           L == wire[t]["server"]
<1>1. /\ t \in Sockets /\ L \in Seq(ProtocolMessage) /\ InTransit \subseteq Sockets
  BY StreamTypes, Ends, InTransitSockets DEF IndInv, TypeOK
<1>2. t \notin InTransit
  BY DEF HandOffInv, InHandOff
<1>3. NoControl(L)
  BY <1>1 DEF HandOffInv, RequestInv
<1>4. NoControl(wire'[t]["server"])
  <2>1. L # <<>> => NoControl(Tail(L))
    BY <1>1, <1>3, FirstDropped, SuffixIs
  <2> QED BY <1>3, <2>1, ServerTouches
<1> QED BY <1>1, <1>2, <1>4, ServerTouches, ElsewhereHandOff

\* The client writes M, once it has read what is not in w.
LEMMA ClientWrites ==
  ASSUME IndInv, HandOffInv, NEW w \in [Sockets -> Streams],
         \A r \in Sockets : /\ w[r]["server"] = wire[r]["server"]
                            /\ r # sock["client"] => w[r] = wire[r],
         NEW M \in Seq(Bounded), NoControl(M), Write(w, "client", M),
         \/ NoRegular(M) \/ paused["client"]
         \/ sock["client"] \notin InTransit /\ NoControl(wire[sock["client"]]["server"]),
         sock["client"] \in InTransit =>
             Hushed(w[sock["client"]]["client"], reconnecting'["client"], paused'["client"]),
         \/ NoControl(wire[sock["client"]]["server"])
         \/ /\ w[sock["client"]]["client"] = wire[sock["client"]]["client"]
            /\ reconnecting'["client"] = reconnecting["client"],
         UNCHANGED <<sock, pending>>
  PROVE  HandOffInv'
<1> DEFINE c == sock["client"]
           L == wire[c]["server"]
<1>1. /\ c \in Sockets /\ "client" \in Sides /\ Peer("client") = "server"
      /\ M \in Seq(ProtocolMessage)
  BY StreamTypes, Ends, BoundedMessages
<1>2. /\ \A r \in Sockets : wire'[r]["client"] = w[r]["client"] /\ (r # c => wire'[r] = w[r])
      /\ paused["client"] => wire' = w /\ held'["client"] = held["client"] \o M
      /\ ~paused["client"] => held' = held
      /\ ~paused["client"] /\ c \in closed => wire' = w
      /\ ~paused["client"] /\ c \notin closed => wire'[c]["server"] = w[c]["server"] \o M
  <2>1. /\ \A r \in Sockets : wire'[r]["client"] = w[r]["client"] /\ (r # c => wire'[r] = w[r])
        /\ paused["client"] => wire' = w /\ held'["client"] = held["client"] \o M
        /\ ~paused["client"] => held' = held
        /\ ~paused["client"] /\ c \in closed => wire' = w
        /\ ~paused["client"] /\ c \notin closed =>
               wire'[c][Peer("client")] = w[c][Peer("client")] \o M
    BY <1>1, WriteIs
  <2> QED BY <1>1, <2>1
<1>3. \/ wire'[c]["server"] = L
      \/ /\ wire'[c]["server"] = L \o M
         /\ NoRegular(M) \/ (c \notin InTransit /\ NoControl(L))
  BY <1>1, <1>2
<1>4. held'["client"] = held["client"] \/ held'["client"] = held["client"] \o M
  BY <1>2
<1>5. \A r \in Sockets \ {c} : wire'[r] = wire[r]
  BY <1>2
<1>6. c \in InTransit => ClientHushed(c)'
  BY <1>1, <1>2 DEF ClientHushed
<1>7. \/ NoControl(L)
      \/ wire'[c]["client"] = wire[c]["client"] /\ reconnecting'["client"] = reconnecting["client"]
  BY <1>1, <1>2
<1> QED BY <1>1, <1>3, <1>4, <1>5, <1>6, <1>7, ClientHandOff

\* The client reads and writes nothing.
LEMMA ClientReads ==
  ASSUME IndInv, HandOffInv, wire[sock["client"]]["client"] # <<>>, wire' = Consumed("client"),
         held' = held, UNCHANGED <<sock, pending>>,
         sock["client"] \in InTransit =>
             Hushed(Tail(wire[sock["client"]]["client"]), reconnecting'["client"], paused'["client"])
  PROVE  HandOffInv'
<1> DEFINE c == sock["client"]
<1>1. /\ c \in Sockets /\ "client" \in Sides /\ Peer("client") = "server"
      /\ \A r \in Sockets : Consumed("client")[r]["server"] = wire[r]["server"]
      /\ Consumed("client")[c]["client"] = Tail(wire[c]["client"])
      /\ \A r \in Sockets \ {c} : Consumed("client")[r] = wire[r]
  BY StreamTypes, Ends, ConsumedIs
<1>2. <<>> \in Seq(ProtocolMessage) /\ NoControl(<<>>)
  BY EmptySeq, ClientMessages
<1>3. NoControl(wire[c]["server"])
  BY ClientStands
<1>4. c \in InTransit => ClientHushed(c)'
  BY <1>1 DEF ClientHushed
<1>5. wire'[c]["server"] = wire[c]["server"] /\ \A r \in Sockets \ {c} : wire'[r] = wire[r]
  BY <1>1
<1> QED BY <1>2, <1>3, <1>4, <1>5, ClientHandOff

\* Whatever the client does leaves the sockets that are on their way alone.
LEMMA ClientStep ==
  ASSUME IndInv, HandOffInv, EndpointStep("client")
  PROVE  HandOffInv'
<1> DEFINE c == sock["client"]
           L == wire[c]["server"]
           K == wire[c]["client"]
           u == paused["client"]
           r == reconnecting["client"]
<1>0. /\ c \in Sockets /\ "client" \in Sides /\ Peer("client") = "server"
      /\ wire \in [Sockets -> Streams] /\ Sides = {"client", "server"}
      /\ K \in Seq(ProtocolMessage)
  BY StreamTypes, Ends DEF IndInv, TypeOK
<1>1. /\ c \in InTransit => Hushed(K, r, u) /\ NoControl(L)
      /\ NoControl(L) \/ (r /\ K = <<>>)
  BY ClientStands DEF ClientHushed
<1>2. K # <<>> =>
        /\ Consumed("client") \in [Sockets -> Streams]
        /\ Consumed("client")[c]["client"] = Tail(K)
        /\ \A s \in Sockets : Consumed("client")[s]["server"] = wire[s]["server"]
        /\ \A s \in Sockets : s # c => Consumed("client")[s] = wire[s]
  BY <1>0, ConsumedIs
<1>3. K # <<>> /\ c \in InTransit =>
        /\ Head(K).type \notin {"Resume", "ReplayRequest"}
        /\ Head(K).type = "Control" => u
        /\ \A r2, u2 : (r2 \/ u2) /\ (u => u2) /\ (Head(K).type = "Pause" => u2)
                           => Hushed(Tail(K), r2, u2)
  BY <1>0, <1>1, TailHushed
<1>4. K # <<>> => NoControl(L)
  BY <1>1
<1>5. /\ <<Msg("Ack", inMsgId["client"], Empty)>> \in Seq(Bounded)
      /\ <<Msg("KeepAlive", inMsgId["client"], Empty)>> \in Seq(Bounded)
      /\ <<Msg("ReplayRequest", 0, Empty)>> \in Seq(Bounded)
      /\ unack["client"] \in Seq(Bounded) /\ held["client"] \in Seq(Bounded)
      /\ EndAcceptReconnection("client", unack["client"]) \in Seq(Bounded)
      /\ NoRegular(<<Msg("Ack", inMsgId["client"], Empty)>>)
      /\ NoRegular(<<Msg("KeepAlive", inMsgId["client"], Empty)>>)
      /\ NoRegular(<<Msg("ReplayRequest", 0, Empty)>>)
  BY <1>0, PlainMessages, ReplayChain, Facts, FromMessages
<1>6. ASSUME UNCHANGED <<wire, held, sock, pending, paused, reconnecting>> PROVE HandOffInv'
  BY <1>6 DEF HandOffInv, InHandOff, ClientHushed, RequestInv, InTransit
<1>7. ASSUME NEW M \in Seq(Bounded), NoRegular(M), NoControl(M), Write(wire, "client", M),
             UNCHANGED <<sock, pending, paused, reconnecting>>
      PROVE  HandOffInv'
  <2>1. \A s \in Sockets : wire[s]["server"] = wire[s]["server"] /\ (s # c => wire[s] = wire[s])
    OBVIOUS
  <2>2. c \in InTransit => Hushed(wire[c]["client"], reconnecting'["client"], paused'["client"])
    BY <1>1, <1>7
  <2> QED BY <1>0, <1>7, <2>1, <2>2, ClientWrites
<1>8. ASSUME NEW d \in Data, Send("client", d) PROVE HandOffInv'
  <2> DEFINE m == Regular(outMsgId["client"] + 1, inMsgId["client"], d)
  <2>1. /\ UNCHANGED <<sock, pending, paused, reconnecting>>
        /\ ~r => Write(wire, "client", <<m>>)
        /\ r => UNCHANGED <<wire, held>>
    BY <1>8 DEF Send, handshake, WritesAtOnce
  <2>2. CASE r
    BY <1>6, <2>1, <2>2
  <2>3. CASE ~r
    <3>1. outMsgId["client"] < MaxMsgs /\ m.type = "Regular"
      BY <1>8 DEF Send, Regular
    <3>2. m \in Bounded /\ m.type = "Regular"
      BY <1>0, <3>1, RegularBounded
    <3> HIDE DEF m
    <3>3. <<m>> \in Seq(Bounded) /\ NoControl(<<m>>)
      BY <3>2 DEF NoControl
    <3>4. u \/ (c \notin InTransit /\ NoControl(L))
      BY <1>1, <2>3 DEF Hushed
    <3>5. \A s \in Sockets : wire[s]["server"] = wire[s]["server"] /\ (s # c => wire[s] = wire[s])
      OBVIOUS
    <3>6. c \in InTransit => Hushed(wire[c]["client"], reconnecting'["client"], paused'["client"])
      BY <1>1, <2>1
    <3>7. Write(wire, "client", <<m>>) /\ NoControl(L)
      BY <1>1, <2>1, <2>3
    <3> QED BY <1>0, <2>1, <3>3, <3>4, <3>5, <3>6, <3>7, ClientWrites
  <2> QED BY <2>2, <2>3
<1>9. CASE AckTimerFires("client")
  <2>1. /\ UNCHANGED <<sock, pending, paused, reconnecting>>
        /\ \/ Write(wire, "client", <<Msg("Ack", inMsgId["client"], Empty)>>)
           \/ UNCHANGED <<wire, held>>
    BY <1>9 DEF AckTimerFires, handshake
  <2> QED BY <1>5, <1>6, <1>7, <2>1, ClientMessages
<1>10. CASE KeepAlive("client")
  <2>1. /\ UNCHANGED <<sock, pending, paused, reconnecting>>
        /\ Write(wire, "client", <<Msg("KeepAlive", inMsgId["client"], Empty)>>)
    BY <1>10 DEF KeepAlive, handshake
  <2> QED BY <1>5, <1>7, <2>1, ClientMessages
<1>11. CASE ThrottleExpires("client")
  BY <1>6, <1>11 DEF ThrottleExpires, handshake, writer, network
<1>12. CASE \/ ReceiveNextRegular("client") \/ ReceiveOldRegular("client")
            \/ ReceiveAck("client")
  <2>1. /\ UNCHANGED <<sock, pending, paused, held, reconnecting>>
        /\ K # <<>> /\ wire' = Consumed("client") /\ Head(K).type # "Pause"
    BY <1>12 DEF ReceiveNextRegular, ReceiveOldRegular, ReceiveAck, Receives, handshake, writer
  <2>2. c \in InTransit => Hushed(Tail(K), reconnecting'["client"], paused'["client"])
    BY <1>1, <1>3, <2>1 DEF Hushed
  <2> QED BY <2>1, <2>2, ClientReads
<1>13. CASE ReceiveGap("client")
  <2> DEFINE M == <<Msg("ReplayRequest", 0, Empty)>>
  <2>1. /\ UNCHANGED <<sock, pending, paused, reconnecting>>
        /\ K # <<>> /\ Head(K).type # "Pause"
    BY <1>13 DEF ReceiveGap, Receives, handshake
  <2>2. \/ wire' = Consumed("client") /\ held' = held
        \/ Write(Consumed("client"), "client", M)
    BY <1>13 DEF ReceiveGap
  <2>3. c \in InTransit => Hushed(Tail(K), reconnecting'["client"], paused'["client"])
    BY <1>1, <1>3, <2>1 DEF Hushed
  <2>4. CASE wire' = Consumed("client") /\ held' = held
    BY <2>1, <2>3, <2>4, ClientReads
  <2>5. CASE Write(Consumed("client"), "client", M)
    <3>1. M \in Seq(Bounded) /\ NoControl(M) /\ NoRegular(M)
      BY <1>5, ClientMessages
    <3> HIDE DEF M
    <3> QED BY <1>0, <1>2, <1>4, <2>1, <2>3, <2>5, <3>1, ClientWrites
  <2> QED BY <2>2, <2>4, <2>5
<1>14. CASE ReceiveReplayRequest("client")
  <2>1. /\ UNCHANGED <<sock, pending, paused, reconnecting>>
        /\ K # <<>> /\ Head(K).type = "ReplayRequest"
        /\ Write(Consumed("client"), "client", unack["client"])
    BY <1>14 DEF ReceiveReplayRequest, Receives, handshake
  <2>2. c \notin InTransit
    BY <1>3, <2>1
  <2>3. NoControl(unack["client"])
    BY ClientMessages
  <2> QED BY <1>0, <1>2, <1>4, <1>5, <2>1, <2>2, <2>3, ClientWrites
<1>15. CASE ReceivePause("client")
  <2>1. /\ UNCHANGED <<sock, pending, held, reconnecting>> /\ K # <<>>
        /\ wire' = Consumed("client") /\ paused' = [paused EXCEPT !["client"] = TRUE]
    BY <1>15 DEF ReceivePause, Receives, handshake
  <2>2. paused'["client"]
    BY <1>0, <2>1 DEF IndInv, TypeOK
  <2>3. c \in InTransit => Hushed(Tail(K), reconnecting'["client"], paused'["client"])
    BY <1>3, <2>1, <2>2
  <2> QED BY <2>1, <2>3, ClientReads
<1>16. CASE ReceiveResume("client")
  <2> DEFINE v == Sent(Consumed("client"), c, Peer("client"), held["client"])
  <2>1. /\ UNCHANGED <<sock, pending, reconnecting>> /\ K # <<>> /\ wire' = v
        /\ Head(K).type = "Resume" /\ held' = [held EXCEPT !["client"] = <<>>]
    BY <1>16 DEF ReceiveResume, Receives, handshake
  <2>2. c \notin InTransit
    BY <1>3, <2>1
  <2>3. held'["client"] = <<>>
    BY <1>0, <2>1 DEF IndInv, TypeOK
  <2>4. /\ c \in closed => v = Consumed("client")
        /\ c \notin closed =>
              v[c][Peer("client")] = Consumed("client")[c][Peer("client")] \o held["client"]
        /\ \A s \in Sockets : s # c => v[s] = Consumed("client")[s]
    <3> DEFINE w == Consumed("client")
               H == held["client"]
    <3>1. w \in [Sockets -> Streams] /\ H \in Seq(Bounded) /\ c \in Sockets /\ "client" \in Sides
      BY <1>0, <1>2, <1>5, <2>1
    <3> HIDE DEF w, H, c
    <3> DEFINE x == Sent(w, c, Peer("client"), H)
    <3>2. Puts(x, w, c, "client", H)
      BY <3>1, SentIs
    <3> QED BY <3>2 DEF w, H, c, Puts
  <2> HIDE DEF v
  <2>5. wire'[c]["server"] = L \/ wire'[c]["server"] = L \o held["client"]
    BY <1>0, <1>2, <2>1, <2>4
  <2>6. \A s \in Sockets \ {c} : wire'[s] = wire[s]
    BY <1>0, <1>2, <2>1, <2>4
  <2>7. held["client"] \in Seq(ProtocolMessage) /\ NoControl(held["client"])
    BY <1>0, StreamTypes, ClientMessages
  <2> QED BY <1>4, <2>1, <2>2, <2>3, <2>5, <2>6, <2>7, ClientHandOff
<1>17. CASE ReceiveOk("client")
  <2> DEFINE M == EndAcceptReconnection("client", unack["client"])
  <2>1. /\ UNCHANGED <<sock, pending, paused>> /\ K # <<>> /\ Head(K).type = "Control"
    BY <1>17 DEF ReceiveOk, Receives
  <2>2. c \in InTransit => u /\ Hushed(Tail(K), reconnecting'["client"], paused'["client"])
    BY <1>3, <2>1
  <2>3. \/ wire' = Consumed("client") /\ held' = held
        \/ Write(Consumed("client"), "client", M)
    BY <1>17 DEF ReceiveOk
  <2>4. CASE wire' = Consumed("client") /\ held' = held
    BY <2>1, <2>2, <2>4, ClientReads
  <2>5. CASE Write(Consumed("client"), "client", M)
    <3>1. M \in Seq(Bounded) /\ NoControl(M)
      BY <1>5, ClientMessages
    <3> HIDE DEF M
    <3>2. u \/ (c \notin InTransit /\ NoControl(L))
      BY <1>4, <2>1, <2>2
    <3> QED BY <1>0, <1>2, <1>4, <2>1, <2>2, <2>5, <3>1, <3>2, ClientWrites
  <2> QED BY <2>3, <2>4, <2>5
<1> QED BY <1>8, <1>9, <1>10, <1>11, <1>12, <1>13, <1>14, <1>15, <1>16, <1>17
       DEF EndpointStep, Receive

\* The client asks for its connection on a free socket.
LEMMA BeginHandOff ==
  ASSUME IndInv, HandOffInv, NEW s \in Sockets, BeginReconnection(s)
  PROVE  HandOffInv'
<1> DEFINE c == sock["client"]
           t == sock["server"]
           R == <<Msg("Control", 0, "connectionType")>>
<1>1. /\ c \in Sockets /\ t \in Sockets /\ s # c /\ s # t /\ s \notin InTransit
      /\ wire[s]["client"] = <<>>
      /\ wire \in [Sockets -> Streams] /\ Sides = {"client", "server"}
  BY StreamTypes, Ends DEF BeginReconnection, Free, IndInv, TypeOK
<1>2. /\ sock' = [sock EXCEPT !["client"] = s]
      /\ wire' = [wire EXCEPT ![c]["client"] = <<>>, ![s]["server"] = R]
      /\ reconnecting' = [reconnecting EXCEPT !["client"] = TRUE]
      /\ held' = [held EXCEPT !["client"] = <<>>]
      /\ pending' = pending
  BY DEF BeginReconnection
<1>3. /\ sock'["client"] = s /\ sock'["server"] = t /\ held'["client"] = <<>>
      /\ reconnecting'["client"] = TRUE /\ InTransit' = InTransit
  BY <1>1, <1>2 DEF IndInv, TypeOK, InTransit
<1>4. /\ wire'[s]["server"] = R /\ wire'[s]["client"] = <<>>
      /\ \A r \in Sockets \ {s} : wire'[r]["server"] = wire[r]["server"]
  BY <1>1, <1>2 DEF Streams
<1>5. ControlFirst(R) /\ NoRegular(R)
  BY DEF ControlFirst, NoRegular, Msg
<1> HIDE DEF R
<1>6. ASSUME NEW r \in InTransit PROVE InHandOff(r)'
  <2>1. InHandOff(r) /\ r # s /\ r \in Sockets
    BY <1>1, <1>6, InTransitSockets DEF HandOffInv
  <2> QED BY <1>3, <1>4, <2>1 DEF InHandOff
<1>7. ASSUME NEW r \in Sockets PROVE RequestInv(r)'
  <2>1. CASE r = s
    BY <1>1, <1>3, <1>4, <1>5, <2>1 DEF RequestInv
  <2>2. CASE r # s
    <3>1. RequestInv(r)
      BY DEF HandOffInv
    <3> QED BY <1>3, <1>4, <2>2, <3>1 DEF RequestInv
  <2> QED BY <2>1, <2>2
<1>8. NoControl(held'["client"])
  BY <1>3, EmptyChain
<1> QED BY <1>2, <1>3, <1>6, <1>7, <1>8 DEF HandOffInv

\* The server answers a request by handing the socket over.
LEMMA HandOffStarts ==
  ASSUME IndInv, HandOffInv, NEW s \in Sockets, HandOff(s)
  PROVE  HandOffInv'
<1> DEFINE L == wire[s]["server"]
           K == wire[s]["client"]
<1>1. /\ L # <<>> /\ Head(L).type = "Control" /\ s # sock["server"] /\ s \notin InTransit
      /\ wire'[s]["server"] = Tail(L)
      /\ s \in closed => wire'[s]["client"] = K
      /\ s \notin closed => wire'[s]["client"] = K \o PauseThenOk
      /\ \A r \in Sockets \ {s} : wire'[r] = wire[r]
  BY HandOffIs
<1>2. /\ L \in Seq(ProtocolMessage) /\ pending \in Seq(Sockets)
  BY StreamTypes, Ends DEF IndInv, TypeOK
<1>3. /\ UNCHANGED <<held, paused, reconnecting, sock>> /\ pending' = Append(pending, s)
  BY DEF HandOff, writer
<1>4. /\ ControlFirst(L) /\ NoRegular(L)
      /\ sock["client"] = s => reconnecting["client"] /\ K = <<>>
  <2>1. RequestInv(s)
    BY DEF HandOffInv
  <2>2. ~NoControl(L)
    BY <1>1, <1>2, FirstDropped DEF NoControl
  <2> QED BY <2>1, <2>2 DEF RequestInv
<1>5. NoControl(Tail(L)) /\ NoRegular(Tail(L))
  <2>1. Tail(L) = SubSeq(L, 1 + 1, Len(L)) /\ 1 \in 0..Len(L)
    BY <1>1, <1>2, FirstDropped
  <2>2. NoControl(SubSeq(L, 1 + 1, Len(L))) /\ NoRegular(SubSeq(L, 1 + 1, Len(L)))
    BY <1>2, <1>4, <2>1, SuffixIs
  <2> QED BY <2>1, <2>2
<1>6. InTransit' = InTransit \cup {s}
  BY <1>2, <1>3 DEF InTransit
<1>7. \A i, j \in DOMAIN pending' : pending'[i] = pending'[j] => i = j
  <2>1. \A i, j \in DOMAIN pending : pending[i] = pending[j] => i = j
    BY DEF HandOffInv
  <2>2. \A i \in DOMAIN pending : pending[i] # s
    BY <1>1 DEF InTransit
  <2>3. /\ DOMAIN pending' = 1..(Len(pending) + 1) /\ pending'[Len(pending) + 1] = s
        /\ \A i \in 1..Len(pending) : pending'[i] = pending[i]
        /\ DOMAIN pending = 1..Len(pending)
    BY <1>2, <1>3
  <2>4. \A i \in DOMAIN pending' : i \in DOMAIN pending \/ i = Len(pending) + 1
    BY <1>2, <2>3
  <2> QED BY <2>1, <2>2, <2>3, <2>4
<1>8. ASSUME NEW r \in InTransit' PROVE InHandOff(r)'
  <2>1. CASE r = s
    <3>1. sock["client"] = s => wire'[s]["client"] = <<>> \/ wire'[s]["client"] = PauseThenOk
      <4>1. PauseThenOk \in Seq(ProtocolMessage)
        BY AnnounceMessages, BoundedMessages
      <4>2. <<>> \o PauseThenOk = PauseThenOk
        BY <4>1, ConcatEmptySeq
      <4> QED BY <1>1, <1>4, <4>2
    <3>2. sock["client"] = s => Hushed(wire'[s]["client"], reconnecting["client"], paused["client"])
      <4>1. sock["client"] = s => reconnecting["client"] = TRUE
        BY <1>4 DEF IndInv, TypeOK
      <4> QED BY <3>1, <4>1, AnnounceHushed
    <3> QED BY <1>1, <1>3, <1>5, <2>1, <3>2 DEF InHandOff, ClientHushed
  <2>2. CASE r # s
    <3>1. r \in InTransit /\ r \in Sockets /\ InHandOff(r)
      BY <1>6, <1>8, <2>2, InTransitSockets DEF HandOffInv
    <3> QED BY <1>1, <1>3, <2>2, <3>1 DEF InHandOff, ClientHushed
  <2> QED BY <2>1, <2>2
<1>9. ASSUME NEW r \in Sockets PROVE RequestInv(r)'
  <2>1. CASE r = s
    BY <1>1, <1>5, <2>1 DEF RequestInv
  <2>2. CASE r # s
    <3>1. RequestInv(r) /\ wire'[r] = wire[r]
      BY <1>1, <2>2 DEF HandOffInv
    <3> QED BY <1>3, <1>6, <2>2, <3>1 DEF RequestInv
  <2> QED BY <2>1, <2>2
<1> QED BY <1>3, <1>7, <1>8, <1>9 DEF HandOffInv

\* The server's protocol moves to s, which has no unread request any more, and
\* which is no longer on its way.
LEMMA AcceptHandOff ==
  ASSUME IndInv, HandOffInv, NEW s \in Sockets, NEW skip \in Nat, NEW n \in Nat,
         skip + n <= Len(wire[s]["server"]),
         NEW before \in Seq(From["server"]), NEW after \in Seq(From["server"]),
         NoRegular(before), NoRegular(after),
         AcceptReconnection(s, skip, n, before, after),
         NoControl(wire[s]["server"]) \/ skip # 0,
         s \notin InTransit', InTransit' \subseteq InTransit,
         \A i, j \in DOMAIN pending' : pending'[i] = pending'[j] => i = j
  PROVE  HandOffInv'
<1> DEFINE t == sock["server"]
           L == wire[s]["server"]
           k == skip + n
<1>1. /\ t \in Sockets /\ L \in Seq(ProtocolMessage) /\ InTransit \subseteq Sockets
  BY StreamTypes, Ends, InTransitSockets DEF IndInv, TypeOK
<1>2. k \in 0..Len(L) /\ (skip # 0 => k # 0)
  BY <1>1
<1>3. /\ wire'[s]["server"] = SubSeq(L, k + 1, Len(L))
      /\ t # s => wire'[t]["server"] = <<>>
      /\ \A r \in Sockets \ {s, t} : wire'[r]["server"] = wire[r]["server"]
      /\ \A r \in Sockets \ {s} : wire'[r]["client"] = wire[r]["client"]
      /\ sock'["client"] = sock["client"] /\ sock'["server"] = s
      /\ held'["client"] = held["client"] /\ paused'["client"] = paused["client"]
      /\ UNCHANGED reconnecting
  BY AcceptIs
<1>4. NoControl(wire'[s]["server"])
  <2>1. NoControl(L) \/ (ControlFirst(L) /\ skip # 0)
    BY DEF HandOffInv, RequestInv
  <2> HIDE DEF k
  <2> QED BY <1>1, <1>2, <1>3, <2>1, SuffixIs
<1>5. ASSUME NEW r \in InTransit' PROVE InHandOff(r)'
  <2>1. r # s /\ r # t /\ r \in Sockets /\ InHandOff(r)
    BY <1>1, <1>5 DEF HandOffInv, InHandOff
  <2> QED BY <1>3, <2>1 DEF InHandOff, ClientHushed
<1>6. ASSUME NEW r \in Sockets PROVE RequestInv(r)'
  <2>1. CASE r = s
    BY <1>4, <2>1 DEF RequestInv
  <2>2. CASE r = t /\ r # s
    BY <1>3, <2>2 DEF RequestInv, NoControl
  <2>3. CASE r # s /\ r # t
    <3>1. RequestInv(r)
      BY DEF HandOffInv
    <3> QED BY <1>3, <2>3, <3>1 DEF RequestInv
  <2> QED BY <2>1, <2>2, <2>3
<1> QED BY <1>3, <1>5, <1>6 DEF HandOffInv

\* The server's answers to a request.
LEMMA AnswerHandOff ==
  ASSUME IndInv, HandOffInv, ServerAccepts
  PROVE  HandOffInv'
<1>0. /\ "server" \in Sides /\ <<>> \in Seq(From["server"]) /\ NoRegular(<<>>)
      /\ <<Msg("Control", 0, "ok")>> \in Seq(From["server"])
      /\ ThenResume \in Seq(From["server"])
      /\ NoRegular(<<Msg("Control", 0, "ok")>>) /\ NoRegular(ThenResume)
      /\ pending \in Seq(Sockets)
  <2>1. /\ "server" \in Sides /\ <<>> \in Seq(From["server"]) /\ NoRegular(<<>>)
        /\ pending \in Seq(Sockets)
    BY Ends, EmptySeq, EmptyChain DEF IndInv, TypeOK
  <2>2. /\ <<Msg("Control", 0, "ok")>> \in Seq(From["server"])
        /\ ThenResume \in Seq(From["server"])
    BY <2>1, ControlMsgs DEF ProtocolMessageType, ControlData, ThenResume
  <2>3. NoRegular(<<Msg("Control", 0, "ok")>>) /\ NoRegular(ThenResume)
    BY DEF NoRegular, Msg, ThenResume
  <2> QED BY <2>1, <2>2, <2>3
<1>1. ASSUME NEW s \in Sockets, ManagementAccept(s) PROVE HandOffInv'
  <2> DEFINE L == wire[s]["server"]
  <2>1. PICK n \in 0..(Len(L) - 1) :
            AcceptReconnection(s, 1, n, <<Msg("Control", 0, "ok")>>, <<>>)
    BY <1>1 DEF ManagementAccept
  <2>2. /\ L \in Seq(ProtocolMessage) /\ L # <<>> /\ s \notin InTransit /\ pending' = pending
    BY <1>0, <1>1, StreamTypes DEF ManagementAccept, Requested
  <2>3. n \in Nat /\ 1 + n <= Len(L) /\ 1 \in Nat /\ 1 # 0
    BY <2>2
  <2>4. /\ InTransit' = InTransit
        /\ \A i, j \in DOMAIN pending' : pending'[i] = pending'[j] => i = j
    BY <2>2 DEF InTransit, HandOffInv
  <2> QED BY <1>0, <2>1, <2>2, <2>3, <2>4, AcceptHandOff
<1>2. ASSUME NEW s \in Sockets, HandOff(s) PROVE HandOffInv'
  BY <1>2, HandOffStarts
<1>3. CASE ExtHostAccept
  <2> DEFINE s == Head(pending)
             L == wire[s]["server"]
  <2>1. pending # <<>> /\ pending' = Tail(pending)
    BY <1>3 DEF ExtHostAccept
  <2>2. /\ s \in Sockets /\ s = pending[1] /\ 1 \in DOMAIN pending
        /\ \A i \in DOMAIN pending' : i \in Nat /\ i + 1 \in DOMAIN pending /\ i + 1 # 1
                                      /\ pending'[i] = pending[i + 1]
    BY <1>0, <2>1
  <2>3. PICK n \in 0..Len(L) : AcceptReconnection(s, 0, n, <<>>, ThenResume)
    BY <1>3 DEF ExtHostAccept
  <2> HIDE DEF s
  <2>4. /\ \A i, j \in DOMAIN pending : pending[i] = pending[j] => i = j
        /\ s \in InTransit
    BY <2>2 DEF HandOffInv, InTransit
  <2>5. s \notin InTransit' /\ InTransit' \subseteq InTransit
    BY <2>2, <2>4 DEF InTransit
  <2>6. \A i, j \in DOMAIN pending' : pending'[i] = pending'[j] => i = j
    BY <2>2, <2>4
  <2>7. L \in Seq(ProtocolMessage) /\ NoControl(L)
    <3>1. RequestInv(s) /\ L \in Seq(ProtocolMessage)
      BY <1>0, <2>2, StreamTypes DEF HandOffInv
    <3> QED BY <2>4, <3>1 DEF RequestInv
  <2>8. n \in Nat /\ 0 + n <= Len(L) /\ 0 \in Nat
    BY <2>7
  <2> QED BY <1>0, <2>2, <2>3, <2>5, <2>6, <2>7, <2>8, AcceptHandOff
<1> QED BY <1>1, <1>2, <1>3 DEF ServerAccepts

\* The network loses the beginning or the end of a stream.
LEMMA NetworkHandOff ==
  ASSUME IndInv, HandOffInv, NEW s \in Sockets,
         Break(s) \/ (\E p \in Sides : LoseTail(s, p)) \/ LostInHandOff(s)
  PROVE  HandOffInv'
<1> DEFINE L == wire[s]["server"]
           K == wire[s]["client"]
<1>0. /\ wire \in [Sockets -> Streams] /\ Sides = {"client", "server"}
      /\ L \in Seq(ProtocolMessage) /\ K \in Seq(ProtocolMessage)
      /\ InTransit \subseteq Sockets
  BY StreamTypes, Ends, InTransitSockets DEF IndInv, TypeOK
<1>1. /\ UNCHANGED <<held, paused, reconnecting, sock, pending>> /\ InTransit' = InTransit
  BY DEF Break, LoseTail, LostInHandOff, writer, handshake, InTransit
<1>2. ASSUME \A r \in Sockets \ {s} : wire'[r] = wire[r],
             NoRegular(L) => NoRegular(wire'[s]["server"]),
             NoControl(L) => NoControl(wire'[s]["server"]),
             ControlFirst(L) => ControlFirst(wire'[s]["server"]),
             \A r, u : Hushed(K, r, u) => Hushed(wire'[s]["client"], r, u),
             K = <<>> => wire'[s]["client"] = <<>>
      PROVE  HandOffInv'
  <2>1. ASSUME NEW r \in InTransit PROVE InHandOff(r)'
    <3>1. InHandOff(r)
      BY DEF HandOffInv
    <3> QED BY <1>0, <1>1, <1>2, <3>1 DEF InHandOff, ClientHushed
  <2>2. ASSUME NEW r \in Sockets PROVE RequestInv(r)'
    <3>1. RequestInv(r)
      BY DEF HandOffInv
    <3>2. CASE r # s
      BY <1>1, <1>2, <3>1, <3>2 DEF RequestInv
    <3>3. CASE r = s
      BY <1>1, <1>2, <3>1, <3>3 DEF RequestInv
    <3> QED BY <3>2, <3>3
  <2> QED BY <1>1, <2>1, <2>2 DEF HandOffInv
<1>3. CASE Break(s)
  BY <1>2, <1>3 DEF Break
<1>4. CASE LoseTail(s, "server")
  <2>1. L # <<>> /\ wire' = [wire EXCEPT ![s]["server"] = SubSeq(@, 1, Len(@) - 1)]
    BY <1>4 DEF LoseTail
  <2>2. Len(L) - 1 \in 0..Len(L)
    BY <1>0, <2>1
  <2>3. /\ wire'[s]["server"] = SubSeq(L, 1, Len(L) - 1) /\ wire'[s]["client"] = K
        /\ \A r \in Sockets \ {s} : wire'[r] = wire[r]
    BY <1>0, <2>1 DEF Streams
  <2> QED BY <1>0, <1>2, <2>2, <2>3, PrefixIs
<1>5. CASE LoseTail(s, "client")
  <2>1. K # <<>> /\ wire' = [wire EXCEPT ![s]["client"] = SubSeq(@, 1, Len(@) - 1)]
    BY <1>5 DEF LoseTail
  <2>2. Len(K) - 1 \in 0..Len(K)
    BY <1>0, <2>1
  <2>3. /\ wire'[s]["client"] = SubSeq(K, 1, Len(K) - 1) /\ wire'[s]["server"] = L
        /\ \A r \in Sockets \ {s} : wire'[r] = wire[r]
    BY <1>0, <2>1 DEF Streams
  <2>4. \A r, u : Hushed(K, r, u) => Hushed(wire'[s]["client"], r, u)
    BY <1>0, <2>2, <2>3, PrefixIs
  <2> QED BY <1>2, <2>1, <2>3, <2>4
<1>6. CASE LostInHandOff(s)
  <2>1. /\ s \in InTransit /\ L # <<>> /\ wire' = [wire EXCEPT ![s]["server"] = Tail(@)]
    BY <1>6 DEF LostInHandOff
  <2>2. /\ wire'[s]["server"] = Tail(L) /\ wire'[s]["client"] = K
        /\ \A r \in Sockets \ {s} : wire'[r] = wire[r]
    BY <1>0, <2>1 DEF Streams
  <2>3. /\ NoRegular(L) => NoRegular(Tail(L))
        /\ NoControl(L) => NoControl(Tail(L))
    BY <1>0, <2>1, FirstDropped, SuffixIs
  <2>4. NoControl(L)
    <3>1. RequestInv(s)
      BY DEF HandOffInv
    <3> QED BY <2>1, <3>1 DEF RequestInv
  <2>5. ControlFirst(Tail(L))
    BY <2>3, <2>4 DEF NoControl, ControlFirst
  <2> QED BY <1>2, <2>2, <2>3, <2>5
<1> QED BY <1>0, <1>3, <1>4, <1>5, <1>6
-----------------------------------------------------------------------------
(* The invariant of a network that keeps its promises.                       *)

\* At first nothing is written, and nobody reconnects.
LEMMA LossFreeInit ==
  ASSUME Init
  PROVE  LossFree
<1>1. /\ pending = <<>> /\ held = [p \in Sides |-> <<>>]
      /\ wire = [s \in Sockets |-> [p \in Sides |-> <<>>]]
      /\ sock = [p \in Sides |-> FirstSocket] /\ FirstSocket \in Sockets
      /\ reconnecting = [p \in Sides |-> FALSE]
      /\ outMsgId = [p \in Sides |-> 0] /\ inMsgId = [p \in Sides |-> 0]
  BY ConstantsAssumption DEF Init
<1>2. /\ \A p \in Sides : Peer(p) \in Sides
      /\ "client" \in Sides /\ "server" \in Sides
  BY Ends
<1>3. /\ \A s \in Sockets, p \in Sides : wire[s][p] = <<>>
      /\ \A p \in Sides : held[p] = <<>> /\ sock[p] \in Sockets
      /\ \A p \in Sides : outMsgId[p] = 0 /\ inMsgId[p] = 0
      /\ ~reconnecting["server"]
  BY <1>1, <1>2
<1>4. HandOffInv
  <2>1. InTransit = {} /\ DOMAIN pending = {}
    BY <1>1 DEF InTransit
  <2>2. NoControl(<<>>)
    BY EmptyChain
  <2> QED BY <1>2, <1>3, <2>1, <2>2 DEF HandOffInv, RequestInv
<1>5. ASSUME NEW p \in Sides PROVE Flow(p)
  <2>1. /\ \A s \in Sockets : wire[s][Peer(p)] = <<>>
        /\ sock[p] \in Sockets /\ held[p] = <<>> /\ outMsgId[p] = 0 /\ inMsgId[Peer(p)] = 0
    BY <1>2, <1>3
  <2>2. <<>> \o <<>> = <<>>
    OBVIOUS
  <2>3. Line(p) = <<>>
    BY <2>1, <2>2 DEF Line
  <2>4. Reaches(<<>>, 0, 0)
    BY DEF Reaches
  <2> QED BY <2>1, <2>3, <2>4, EmptyChain DEF Flow
<1> QED BY <1>3, <1>4, <1>5 DEF LossFree

\* The server's protocol is never in the state of a reconnection between two steps.
LEMMA ServerSettled ==
  ASSUME IndInv, [Next]_vars, ~reconnecting["server"]
  PROVE  ~reconnecting'["server"]
<1>0. reconnecting \in [Sides -> BOOLEAN] /\ "client" # "server" /\ "server" \in Sides
  BY Ends DEF IndInv, TypeOK
<1>1. ASSUME NEW p \in Sides, EndpointStep(p) PROVE ~reconnecting'["server"]
  <2>1. \/ reconnecting' = reconnecting
        \/ p = "client" /\ reconnecting' = [reconnecting EXCEPT ![p] = FALSE]
    BY <1>1 DEF EndpointStep, Send, AckTimerFires, KeepAlive, ThrottleExpires, Receive,
       ReceiveNextRegular, ReceiveOldRegular, ReceiveGap, ReceiveAck, ReceiveReplayRequest,
       ReceivePause, ReceiveResume, ReceiveOk, handshake
  <2> QED BY <1>0, <2>1
<1>2. ASSUME NEW s \in Sockets, BeginReconnection(s) PROVE ~reconnecting'["server"]
  BY <1>0, <1>2 DEF BeginReconnection
<1>3. CASE GiveUp \/ NetworkStep \/ UNCHANGED vars
  BY <1>3 DEF GiveUp, NetworkStep, Break, LostInHandOff, LoseTail, Lose, handshake, vars
<1>4. CASE ServerAccepts
  BY <1>4 DEF ServerAccepts, ExtHostAccept, ManagementAccept, HandOff, AcceptReconnection
<1> QED BY <1>1, <1>2, <1>3, <1>4 DEF Next, Reconnect, SpuriousTimeout

\* Every step on a network without losses keeps both parts.
LEMMA LossFreeStep ==
  ASSUME IndInv, LossFree, [Next]_vars
  PROVE  LossFree'
<1>0. ~reconnecting'["server"]
  BY ServerSettled DEF LossFree
<1> SUFFICES ASSUME losses' = 0 PROVE HandOffInv' /\ Flows'
  BY <1>0 DEF LossFree, Flows
<1>1. losses \in Nat
  BY ConstantsAssumption DEF IndInv, TypeOK
<1>2. ASSUME losses' = losses PROVE HandOffInv /\ Flows
  BY <1>2 DEF LossFree, Flows
<1>3. ASSUME NEW p \in Sides, EndpointStep(p) PROVE HandOffInv' /\ Flows'
  <2>1. losses' = losses
    BY <1>3 DEF EndpointStep, Send, AckTimerFires, KeepAlive, ThrottleExpires, Receive,
       ReceiveNextRegular, ReceiveOldRegular, ReceiveGap, ReceiveAck, ReceiveReplayRequest,
       ReceivePause, ReceiveResume, ReceiveOk, network
  <2>2. HandOffInv /\ Flows
    BY <1>2, <2>1
  <2> QED BY <1>3, <2>2, EndpointFlow, ClientStep, ServerHandOff, Ends
<1>4. ASSUME NEW s \in Sockets, BeginReconnection(s) PROVE HandOffInv' /\ Flows'
  <2>1. HandOffInv /\ Flows
    BY <1>2, <1>4 DEF BeginReconnection
  <2> QED BY <1>4, <2>1, BeginFlow, BeginHandOff
<1>5. CASE ServerAccepts
  <2>1. losses' = losses
    BY <1>5 DEF ServerAccepts, ExtHostAccept, ManagementAccept, HandOff, AcceptReconnection
  <2>2. HandOffInv /\ Flows
    BY <1>2, <2>1
  <2> QED BY <1>5, <2>2, ServerFlow, AnswerHandOff
<1>6. CASE GiveUp \/ UNCHANGED vars
  <2>1. UNCHANGED <<wire, held, paused, closed, reconnecting, sock, pending, outMsgId, inMsgId,
                    losses>>
    BY <1>6 DEF GiveUp, vars, outgoing, incoming, writer, handshake, network
  <2>2. HandOffInv /\ Flows
    BY <1>2, <2>1
  <2>3. HandOffInv'
    BY <2>1, <2>2 DEF HandOffInv, InHandOff, ClientHushed, RequestInv, InTransit
  <2> QED BY <2>1, <2>2, <2>3 DEF Flows, Flow, Line
<1>7. ASSUME NEW s \in Sockets,
             Break(s) \/ (\E p \in Sides : LoseTail(s, p)) \/ LostInHandOff(s)
      PROVE  HandOffInv' /\ Flows'
  <2>1. losses' = losses
    BY <1>7 DEF Break, LoseTail, LostInHandOff
  <2>2. HandOffInv /\ Flows
    BY <1>2, <2>1
  <2>3. LostInHandOff(s) => InHandOff(s)
    BY <2>2 DEF LostInHandOff, HandOffInv
  <2> QED BY <1>7, <2>2, <2>3, NetworkFlow, NetworkHandOff
<1>8. ASSUME NEW s \in Sockets, NEW p \in Sides, Lose(s, p) PROVE FALSE
  BY <1>1, <1>8 DEF Lose
<1> QED BY <1>3, <1>4, <1>5, <1>6, <1>7, <1>8
       DEF Next, Reconnect, SpuriousTimeout, NetworkStep

\* Without losses the streams are gap-free and hand-offs hushed at all times.
LEMMA LossFreeInvariant == Spec => []LossFree
<1>1. Init => LossFree
  BY LossFreeInit
<1>2. IndInv /\ LossFree /\ [Next]_vars => LossFree'
  BY LossFreeStep
<1> QED BY <1>1, <1>2, Invariance, PTL DEF Spec

\* As long as every socket delivers what is written on it in order, or the first
\* part of it, a receiver never asks for a replay: _receiveMessage finds no gap.
THEOREM GapFreeStreams == Spec => []NoGap
<1>1. IndInv /\ LossFree => NoGap
  <2> SUFFICES ASSUME IndInv, LossFree, losses = 0, NEW p \in Sides, Receives(p, "Regular")
               PROVE  Incoming(p).id <= inMsgId[p] + 1
    BY DEF NoGap
  <2>1. Flow(Peer(p))
    BY Ends DEF LossFree
  <2> QED BY <2>1, FirstInLine
<1> QED BY <1>1, Invariance, LossFreeInvariant, PTL

\* On the same condition the server process drops nothing that matters while it
\* hands a socket to the extension host: the client writes no Regular message on it
\* before it has read Pause.
THEOREM HandOffLosesNothing == Spec => [](losses = 0 => NothingRegularInHandOff)
<1>1. IndInv /\ LossFree => (losses = 0 => NothingRegularInHandOff)
  BY DEF LossFree, HandOffInv, InHandOff, NoRegular, NothingRegularInHandOff
<1> QED BY <1>1, Invariance, LossFreeInvariant, PTL
=============================================================================
