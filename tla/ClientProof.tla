----------------------------- MODULE ClientProof -----------------------------
(***************************************************************************)
(* Theorems about Client: the drain loop of WritePump never waits, and the *)
(* client implements Outbox.  The invariant says what the writer holds     *)
(* (Pumping), where the accepted events are while the connection is open   *)
(* (Flow), and how many calls have been made (Numbered).                   *)
(***************************************************************************)
EXTENDS Client, SequenceTheorems, TLAPS

\* A frame is one event and those that were counted after it.
Pumping ==
    /\ writer \in {"unborn", "select", "exit"} => frame = <<>>
    /\ writer = "count" => Len(frame) = 1
    /\ writer = "drain" => Len(frame) >= 1 /\ Len(frame) + left <= Cap + 1 /\ left <= Len(queue)

\* Delivered, in the frame, in the channel: in this order.
Flow == open => accepted = delivered \o (frame \o queue)

Numbered ==
    /\ offered <= MaxOffered
    /\ reader \in {"handshake", "register", "sync start", "reply"} => offered <= MaxEvents
    /\ reader = "sync complete" => offered <= MaxEvents + 1

\* The writer is started once, by the reader.
Started == reader \in {"handshake", "register", "sync start", "sync complete", "start"} => writer = "unborn"

\* The type invariant in two parts, for the provers' sake.
DataOK ==
    /\ reader \in Reader
    /\ writer \in Writer
    /\ left \in Nat
    /\ frame \in Seq(Nat)
    /\ queue \in Seq(Nat) /\ Len(queue) <= Cap
    /\ offered \in Nat
    /\ accepted \in Seq(Nat)
    /\ delivered \in Seq(Nat)

FlagsOK == closed \in BOOLEAN /\ open \in BOOLEAN /\ registered \in BOOLEAN

Inv == DataOK /\ FlagsOK /\ Pumping /\ Flow /\ Numbered /\ Started

LEMMA InvType == Inv => TypeOK
BY Zenon DEF Inv, DataOK, FlagsOK, TypeOK

-----------------------------------------------------------------------------
(* Sequences.                                                              *)

LEMMA Associative == \A s, t, u \in Seq(Nat) : (s \o t) \o u = s \o (t \o u)
BY ConcatAssociative, SMTT(60)

LEMMA AppendMoves ==
    ASSUME NEW d \in Seq(Nat), NEW f \in Seq(Nat), NEW q \in Seq(Nat), NEW e \in Nat
    PROVE  Append(d \o (f \o q), e) = d \o (f \o Append(q, e))
<1>1. <<e>> \in Seq(Nat)
  OBVIOUS
<1>2. PICK one \in Seq(Nat) : one = <<e>>
  BY <1>1, Zenon
<1>3. f \o q \in Seq(Nat) /\ d \o (f \o q) \in Seq(Nat)
  BY ConcatProperties
<1>4. Append(d \o (f \o q), e) = (d \o (f \o q)) \o one
  BY <1>2, <1>3, AppendIsConcat
<1>5. Append(q, e) = q \o one
  BY <1>2, AppendIsConcat
<1>6. (f \o q) \o one = f \o (q \o one)
  BY Associative
<1>7. (d \o (f \o q)) \o one = d \o ((f \o q) \o one)
  BY <1>3, Associative, SMTT(60)
<1> QED
  BY <1>4, <1>5, <1>6, <1>7

LEMMA HeadMoves ==
    ASSUME NEW f \in Seq(Nat), NEW q \in Seq(Nat), q # <<>>
    PROVE  /\ Head(q) \in Nat /\ Tail(q) \in Seq(Nat) /\ Len(Tail(q)) = Len(q) - 1
           /\ Append(f, Head(q)) \o Tail(q) = f \o q
<1>1. Head(q) \in Nat /\ Tail(q) \in Seq(Nat) /\ Len(Tail(q)) = Len(q) - 1
  BY HeadTailProperties
<1>2. <<Head(q)>> \in Seq(Nat) /\ <<Head(q)>> \o Tail(q) = q
  BY <1>1
<1>3. Append(f, Head(q)) = f \o <<Head(q)>>
  BY <1>1, AppendIsConcat
<1>4. (f \o <<Head(q)>>) \o Tail(q) = f \o (<<Head(q)>> \o Tail(q))
  BY <1>1, <1>2, Associative, SMTT(60)
<1> QED
  BY <1>1, <1>2, <1>3, <1>4

LEMMA FrameIsNext ==
    ASSUME NEW d \in Seq(Nat), NEW f \in Seq(Nat), NEW q \in Seq(Nat)
    PROVE  d \o f = SubSeq(d \o (f \o q), 1, Len(d) + Len(f))
<1> DEFINE all == d \o (f \o q)
<1>1. /\ f \o q \in Seq(Nat) /\ Len(f \o q) = Len(f) + Len(q)
      /\ d \o f \in Seq(Nat) /\ Len(d \o f) = Len(d) + Len(f)
  BY ConcatProperties
<1>2. (d \o f) \o q = all
  BY <1>1, Associative, Zenon
<1>3. Len(d) \in Nat /\ Len(f) \in Nat
  OBVIOUS
<1>4. CASE Len(d) + Len(f) = 0
  <2>1. d \o f = <<>>
    BY <1>1, <1>4
  <2>2. SubSeq(all, 1, 0) = <<>>
    BY SubSeqEmpty
  <2> QED
    BY <1>4, <2>1, <2>2
<1>5. CASE Len(d) + Len(f) # 0
  <2>1. 1 \in 1..Len(d \o f) /\ Len(d \o f) \in 1..Len(d \o f)
    BY <1>1, <1>3, <1>5
  <2>2. SubSeq((d \o f) \o q, 1, Len(d \o f)) = SubSeq(d \o f, 1, Len(d \o f))
    BY <1>1, <2>1, SubSeqOfConcat1
  <2>3. SubSeq(d \o f, 1, Len(d \o f)) = d \o f
    BY <1>1, SubSeqFull
  <2> QED
    BY <1>1, <1>2, <2>2, <2>3
<1> QED
  BY <1>4, <1>5

-----------------------------------------------------------------------------
LEMMA InitInv == Init => Inv
<1> SUFFICES ASSUME Init PROVE Inv
  OBVIOUS
<1>1. <<>> \in Seq(Nat) /\ Len(<<>>) = 0 /\ <<>> \o (<<>> \o <<>>) = <<>>
  BY EmptySeq, ConcatEmptySeq
<1>2. DataOK
  BY <1>1, ClientAssumption DEF Init, DataOK, Reader, Writer
<1>3. FlagsOK
  BY Zenon DEF Init, FlagsOK
<1>4. Pumping /\ Flow
  BY <1>1 DEF Init, Pumping, Flow
<1>5. Numbered /\ Started
  BY ClientAssumption DEF Init, Numbered, Started, MaxOffered
<1> QED
  BY <1>2, <1>3, <1>4, <1>5 DEF Inv

\* What a SendJSON leaves: the channel's part of the invariant.
LEMMA SendKeeps ==
    ASSUME Inv, SendJSON, UNCHANGED pump
    PROVE  /\ queue' \in Seq(Nat) /\ Len(queue') <= Cap
           /\ accepted' \in Seq(Nat)
           /\ offered' = offered + 1
           /\ closed' \in BOOLEAN /\ open' \in BOOLEAN
           /\ Pumping'
           /\ Flow'
<1>0. /\ queue \in Seq(Nat) /\ Len(queue) <= Cap /\ Len(queue) \in Nat
      /\ accepted \in Seq(Nat) /\ delivered \in Seq(Nat) /\ frame \in Seq(Nat)
      /\ offered \in Nat /\ offered + 1 \in Nat /\ left \in Nat /\ Cap \in Nat
      /\ UNCHANGED <<writer, left, frame, delivered>>
      /\ offered' = offered + 1
      /\ Pumping /\ Flow
  BY ClientAssumption DEF Inv, DataOK, SendJSON, pump
<1>1. closed' \in BOOLEAN /\ open' \in BOOLEAN
  <2>1. closed \in BOOLEAN /\ open \in BOOLEAN
    BY Zenon DEF Inv, FlagsOK
  <2> QED
    BY <2>1, Zenon DEF SendJSON, Enqueue, Evict
<1>2. CASE Enqueue(offered + 1)
  <2>1. /\ queue' = Append(queue, offered + 1) /\ Len(queue) < Cap
        /\ accepted' = Append(accepted, offered + 1)
        /\ UNCHANGED <<closed, open>>
    BY <1>2 DEF Enqueue
  <2>2. /\ queue' \in Seq(Nat) /\ Len(queue') = Len(queue) + 1
        /\ accepted' \in Seq(Nat)
    BY <1>0, <2>1, AppendProperties
  <2>3. Flow'
    <3>1. \A e \in Nat : Append(delivered \o (frame \o queue), e) = delivered \o (frame \o Append(queue, e))
      <4> TAKE e \in Nat
      <4>1. delivered \in Seq(Nat) /\ frame \in Seq(Nat) /\ queue \in Seq(Nat)
        BY <1>0
      <4> QED
        BY <4>1, AppendMoves, Zenon
    <3> QED
      BY <1>0, <2>1, <3>1 DEF Flow
  <2>4. Pumping'
    BY <1>0, <2>2 DEF Pumping
  <2> QED
    BY <1>0, <1>1, <2>1, <2>2, <2>3, <2>4
<1>3. CASE ~Enqueue(offered + 1)
  <2>1. UNCHANGED <<queue, accepted>> /\ (open' = FALSE \/ open' = open)
    BY <1>3 DEF SendJSON, Evict
  <2>2. Flow'
    BY <1>0, <2>1 DEF Flow
  <2>3. Pumping'
    BY <1>0, <2>1 DEF Pumping
  <2> QED
    BY <1>0, <1>1, <2>1, <2>2, <2>3
<1> QED
  BY <1>2, <1>3

-----------------------------------------------------------------------------
LEMMA NextInv == Inv /\ [Next]_vars => Inv'
<1> SUFFICES ASSUME Inv, [Next]_vars PROVE Inv'
  OBVIOUS
<1>0. /\ reader \in Reader /\ writer \in Writer /\ left \in Nat
      /\ frame \in Seq(Nat) /\ queue \in Seq(Nat) /\ Len(queue) <= Cap /\ Len(queue) \in Nat
      /\ offered \in Nat /\ accepted \in Seq(Nat) /\ delivered \in Seq(Nat)
      /\ Cap \in Nat \ {0} /\ MaxEvents \in Nat
      /\ Pumping /\ Flow /\ Numbered /\ Started
  BY ClientAssumption DEF Inv, DataOK
<1>f. FlagsOK
  BY Zenon DEF Inv
\* Steps of the reader that send nothing; they may close the connection.
<1>1. ASSUME UNCHANGED <<queue, offered, accepted, left, frame, delivered>>,
             open' = FALSE \/ open' = open,
             FlagsOK',
             reader' \in Reader,
             writer' = writer \/ (writer' = "select" /\ writer = "unborn"),
             reader' \in {"handshake", "register", "sync start", "reply"} => offered <= MaxEvents,
             reader' # "sync complete",
             Started'
      PROVE  Inv'
  <2>1. DataOK'
    BY <1>0, <1>1 DEF DataOK, Writer
  <2>2. Pumping'
    BY <1>0, <1>1 DEF Pumping
  <2>3. Flow'
    BY <1>0, <1>1 DEF Flow
  <2>4. Numbered'
    BY <1>0, <1>1 DEF Numbered
  <2> QED
    BY <1>1, <2>1, <2>2, <2>3, <2>4, Zenon DEF Inv
<1>2. CASE HandshakeFails \/ HandshakeOK
  <2>1. FlagsOK'
    BY <1>2, <1>f, Zenon DEF HandshakeFails, HandshakeOK, FlagsOK, channel
  <2> QED
    BY <1>0, <1>1, <1>2, <2>1 DEF HandshakeFails, HandshakeOK, Go, Reader, pump, channel, Numbered, Started
<1>3. CASE Register \/ Unregister
  <2>1. FlagsOK'
    BY <1>3, <1>f, Zenon DEF Register, Unregister, FlagsOK, channel
  <2> QED
    BY <1>0, <1>1, <1>3, <2>1 DEF Register, Unregister, Go, Reader, pump, channel, Numbered, Started
<1>4. CASE ReadMessage \/ PeerLost \/ ReadFails \/ CloseConn
  <2>1. FlagsOK'
    BY <1>4, <1>f, Zenon DEF ReadMessage, PeerLost, ReadFails, CloseConn, FlagsOK, channel
  <2>2. /\ reader \in {"read", "close"}
        /\ reader' \in {"unregister", "exit"} \/ (reader' = "reply" /\ offered < MaxEvents)
        /\ UNCHANGED <<queue, offered, accepted, pump>>
        /\ open' = FALSE \/ open' = open
    BY <1>4 DEF ReadMessage, PeerLost, ReadFails, CloseConn, Go, channel
  <2> QED
    <3>1. UNCHANGED <<queue, offered, accepted, left, frame, delivered>> /\ writer' = writer
      BY <2>2, Zenon DEF pump
    <3>2. reader' \in Reader /\ Started' /\ reader' # "sync complete"
      BY <2>2 DEF Reader, Started
    <3>3. reader' \in {"handshake", "register", "sync start", "reply"} => offered <= MaxEvents
      <4>1. reader' \in {"handshake", "register", "sync start", "reply"} => offered < MaxEvents
        BY <2>2
      <4>2. offered < MaxEvents => offered <= MaxEvents
        BY <1>0
      <4> QED
        BY <4>1, <4>2, Zenon
    <3> QED
      BY <1>1, <2>1, <2>2, <3>1, <3>2, <3>3
<1>5. CASE StartPumps
  <2>1. FlagsOK'
    BY <1>5, <1>f, Zenon DEF StartPumps, FlagsOK, channel
  <2> QED
    BY <1>0, <1>1, <1>5, <2>1 DEF StartPumps, Go, Reader, channel, Started
\* Steps that send.
<1>6. ASSUME SendJSON, UNCHANGED <<registered, pump>>,
             reader' \in Reader,
             offered + 1 <= MaxOffered,
             reader' \in {"handshake", "register", "sync start", "reply"} => offered + 1 <= MaxEvents,
             reader' = "sync complete" => offered + 1 <= MaxEvents + 1,
             Started'
      PROVE  Inv'
  <2>1. /\ queue' \in Seq(Nat) /\ Len(queue') <= Cap
        /\ accepted' \in Seq(Nat)
        /\ offered' = offered + 1
        /\ Pumping' /\ Flow'
    BY <1>6, SendKeeps
  <2>2. closed' \in BOOLEAN /\ open' \in BOOLEAN
    BY <1>6, SendKeeps, Zenon
  <2>3. FlagsOK'
    BY <1>6, <1>f, <2>2, Zenon DEF FlagsOK
  <2>4. DataOK'
    <3>1. UNCHANGED <<writer, left, frame, delivered>>
      BY <1>6, Zenon DEF pump
    <3>2. offered + 1 \in Nat
      BY <1>0
    <3> QED
      BY <1>0, <1>6, <2>1, <3>1, <3>2 DEF DataOK
  <2>5. Numbered'
    BY <1>0, <1>6, <2>1 DEF Numbered
  <2> QED
    BY <1>6, <2>1, <2>3, <2>4, <2>5, Zenon DEF Inv
<1>7. CASE SyncStart \/ SyncComplete
  <2>1. /\ SendJSON /\ UNCHANGED <<registered, pump>>
        /\ \/ reader = "sync start" /\ reader' = "sync complete"
           \/ reader = "sync complete" /\ reader' = "start"
    BY <1>7 DEF SyncStart, SyncComplete, Go
  <2>2. /\ offered + 1 <= MaxOffered /\ offered + 1 <= MaxEvents + 2
        /\ reader = "sync start" => offered + 1 <= MaxEvents + 1
    <3>1. \/ reader = "sync start" /\ offered <= MaxEvents
          \/ reader = "sync complete" /\ offered <= MaxEvents + 1
      BY <1>0, <2>1 DEF Numbered
    <3>2. /\ offered <= MaxEvents => offered <= MaxEvents + 1
          /\ offered <= MaxEvents => offered + 1 <= MaxEvents + 1
          /\ offered <= MaxEvents + 1 => offered + 1 <= MaxEvents + 2
      BY <1>0
    <3>3. reader # "sync start" \/ offered <= MaxEvents
      BY <3>1
    <3> QED
      BY <3>1, <3>2, <3>3, Zenon DEF MaxOffered
  <2>3. Started'
    BY <1>0, <2>1 DEF Started, pump
  <2> QED
    BY <1>6, <2>1, <2>2, <2>3 DEF Reader
<1>8. CASE Reply
  <2>1. reader = "reply" /\ reader' = "read" /\ offered <= MaxEvents /\ Started'
        /\ UNCHANGED <<registered, pump>>
    BY <1>0, <1>8 DEF Reply, Go, Numbered, Started
  <2>2. CASE SendJSON
    BY <1>0, <1>6, <2>1, <2>2 DEF Reader, MaxOffered
  <2>3. CASE UNCHANGED channel
    <3>1. FlagsOK'
      BY <1>f, <2>1, <2>3, Zenon DEF FlagsOK, channel
    <3> QED
      BY <1>0, <1>1, <2>1, <2>3, <3>1 DEF Reader, pump, channel
  <2> QED
    BY <1>8, <2>2, <2>3 DEF Reply
<1>9. CASE Broadcast
  <2>1. SendJSON /\ UNCHANGED <<reader, registered, pump>> /\ offered < MaxEvents
    BY <1>9 DEF Broadcast
  <2>2. Started'
    BY <1>0, <2>1 DEF Started, pump
  <2>3. offered + 1 <= MaxEvents /\ offered + 1 <= MaxEvents + 1 /\ offered + 1 <= MaxOffered
    BY <1>0, <2>1 DEF MaxOffered
  <2> QED
    BY <1>0, <1>6, <2>1, <2>2, <2>3
\* The writer.
<1>10. ASSUME UNCHANGED <<reader, registered, closed, open, offered, accepted>>,
              writer' \in Writer \ {"unborn"}, writer # "unborn",
              left' \in Nat, frame' \in Seq(Nat), queue' \in Seq(Nat), Len(queue') <= Len(queue),
              delivered' \in Seq(Nat),
              Pumping', Flow'
       PROVE  Inv'
  <2>1. FlagsOK'
    BY <1>10, <1>f, Zenon DEF FlagsOK
  <2>2. DataOK'
    <3>1. Len(queue') \in Nat
      BY <1>10
    <3> QED
      BY <1>0, <1>10, <3>1 DEF DataOK
  <2>3. Numbered' /\ Started'
    BY <1>0, <1>10 DEF Numbered, Started
  <2> QED
    BY <1>10, <2>1, <2>2, <2>3, Zenon DEF Inv
<1>11. CASE Take
  <2>1. /\ writer = "select" /\ writer' = "count" /\ queue # <<>>
        /\ frame' = <<Head(queue)>> /\ queue' = Tail(queue)
        /\ UNCHANGED <<reader, registered, closed, open, offered, accepted, left, delivered>>
    BY <1>11 DEF Take
  <2>2. frame = <<>>
    BY <1>0, <2>1 DEF Pumping
  <2>3. /\ Head(queue) \in Nat /\ queue' \in Seq(Nat) /\ Len(queue') = Len(queue) - 1
        /\ frame' \in Seq(Nat) /\ Len(frame') = 1
        /\ frame' = Append(frame, Head(queue))
    BY <1>0, <2>1, <2>2, HeadTailProperties
  <2>4. frame' \o queue' = frame \o queue
    BY <1>0, <2>1, <2>3, HeadMoves
  <2>5. Flow'
    BY <1>0, <2>1, <2>4 DEF Flow
  <2>6. Pumping'
    BY <2>1, <2>3 DEF Pumping
  <2> QED
    BY <1>0, <1>10, <2>1, <2>3, <2>5, <2>6 DEF Writer
<1>12. CASE Count
  <2>1. /\ writer = "count" /\ writer' = "drain" /\ left' = Len(queue)
        /\ UNCHANGED <<reader, registered, channel, frame, delivered>>
    BY <1>12 DEF Count
  <2>2. Flow'
    BY <1>0, <2>1 DEF Flow, channel
  <2>3. Pumping'
    <3>1. writer = "count" /\ writer' = "drain" /\ left' = Len(queue) /\ frame' = frame /\ queue' = queue
      BY <2>1 DEF channel
    <3>2. Len(frame) = 1
      BY <1>0, <3>1 DEF Pumping
    <3> QED
      BY <1>0, <3>1, <3>2 DEF Pumping
  <2> QED
    BY <1>0, <1>10, <2>1, <2>2, <2>3 DEF Writer, channel
<1>13. CASE Drain
  <2>1. /\ writer = "drain" /\ left > 0 /\ queue # <<>>
        /\ frame' = Append(frame, Head(queue)) /\ queue' = Tail(queue) /\ left' = left - 1
        /\ UNCHANGED <<reader, registered, writer, closed, open, offered, accepted, delivered>>
    BY <1>13 DEF Drain
  <2>2. /\ Head(queue) \in Nat /\ queue' \in Seq(Nat) /\ Len(queue') = Len(queue) - 1
        /\ frame' \o queue' = frame \o queue
    BY <1>0, <2>1, HeadMoves
  <2>3. frame' \in Seq(Nat) /\ Len(frame') = Len(frame) + 1
    BY <1>0, <2>1, <2>2, AppendProperties
  <2>4. Flow'
    BY <1>0, <2>1, <2>2 DEF Flow
  <2>5. Pumping' /\ left' \in Nat
    <3>1. Len(frame) \in Nat
      BY <1>0
    <3> QED
      BY <1>0, <2>1, <2>2, <2>3, <3>1 DEF Pumping
  <2> QED
    BY <1>0, <1>10, <2>1, <2>2, <2>3, <2>4, <2>5 DEF Writer
<1>14. CASE Flush
  <2>1. /\ writer = "drain" /\ writer' = "select" /\ frame' = <<>> /\ delivered' = delivered \o frame
        /\ UNCHANGED <<reader, registered, channel, left>>
    BY <1>14 DEF Flush
  <2>2. delivered' \in Seq(Nat) /\ frame' \in Seq(Nat) /\ <<>> \o queue = queue
    BY <1>0, <2>1, ConcatProperties, ConcatEmptySeq, EmptySeq
  <2>3. (delivered \o frame) \o queue = delivered \o (frame \o queue)
    BY <1>0, Associative
  <2>4. Flow'
    BY <1>0, <2>1, <2>2, <2>3 DEF Flow, channel
  <2>5. Pumping'
    BY <2>1 DEF Pumping
  <2> QED
    BY <1>0, <1>10, <2>1, <2>2, <2>4, <2>5 DEF Writer, channel
<1>15. CASE WriteFails
  <2>1. /\ writer \in {"select", "drain"} /\ writer' = "exit" /\ frame' = <<>>
        /\ UNCHANGED <<reader, registered, queue, closed, offered, accepted, left, delivered>>
    BY <1>15 DEF WriteFails
  <2>2. open' = FALSE
    BY <1>15 DEF WriteFails
  <2>3. FlagsOK'
    BY <1>f, <2>1, <2>2, Zenon DEF FlagsOK
  <2>4. DataOK'
    BY <1>0, <2>1, EmptySeq DEF DataOK, Writer
  <2>5. Flow'
    BY <2>2 DEF Flow
  <2>6. Pumping' /\ Numbered' /\ Started'
    BY <1>0, <2>1 DEF Pumping, Numbered, Started
  <2> QED
    BY <2>3, <2>4, <2>5, <2>6, Zenon DEF Inv
<1>16. CASE UNCHANGED vars
  <2>1. UNCHANGED <<reader, writer, left, frame, queue, closed, open, registered, offered, accepted, delivered>>
    BY <1>16, Zenon DEF vars, channel, pump
  <2> QED
    BY <2>1, Zenon DEF Inv, DataOK, FlagsOK, Pumping, Flow, Numbered, Started
<1>17. CASE ReaderStep
  BY <1>2, <1>3, <1>4, <1>5, <1>7, <1>8, <1>17, Zenon DEF ReaderStep
<1>18. CASE WriterStep
  BY <1>11, <1>12, <1>13, <1>14, <1>15, <1>18, Zenon DEF WriterStep
<1> QED
  BY <1>4, <1>9, <1>15, <1>16, <1>17, <1>18, Zenon DEF Next

-----------------------------------------------------------------------------
LEMMA Invariance == Spec => []Inv
BY InitInv, NextInv, PTL DEF Spec

\* The channel, the frame and the histories keep their type; the channel
\* never holds more than its capacity.
THEOREM TypeCorrect == Spec => []TypeOK
BY Invariance, InvType, PTL

\* The events that WritePump has counted are there when it receives them:
\* its drain loop never waits, for any capacity.
THEOREM DrainIsImmediate == Spec => []DrainNeverWaits
<1>1. Inv => DrainNeverWaits
  BY DEF Inv, Pumping, DrainNeverWaits
<1> QED
  BY <1>1, Invariance, PTL

\* No accepted event is dropped, and none overtakes another: as long as the
\* connection lives, what was accepted is what was delivered, the frame that
\* is being written and the channel.  What remains for AcceptedArrives is
\* that the writer goes on.
THEOREM NothingIsDropped == Spec => [](open => accepted = delivered \o (frame \o queue))
<1>1. Inv => (open => accepted = delivered \o (frame \o queue))
  BY DEF Inv, Flow
<1> QED
  BY <1>1, Invariance, PTL

-----------------------------------------------------------------------------
(* The refinement.                                                         *)

\* What has been accepted and not delivered is less than the limit as long
\* as there is room in the channel.
LEMMA RoomIsBelowLimit ==
    ASSUME Inv, open, Len(queue) < Cap
    PROVE  Len(accepted) - Len(delivered) < 2 * Cap + 1
<1>1. /\ accepted = delivered \o (frame \o queue)
      /\ delivered \in Seq(Nat) /\ frame \in Seq(Nat) /\ queue \in Seq(Nat)
      /\ writer \in Writer /\ left \in Nat /\ Cap \in Nat \ {0}
      /\ Pumping
  BY ClientAssumption DEF Inv, DataOK, Flow
<1>2. frame \o queue \in Seq(Nat) /\ Len(frame \o queue) = Len(frame) + Len(queue)
  BY <1>1, ConcatProperties
<1>3. Len(accepted) = Len(delivered) + (Len(frame) + Len(queue))
  BY <1>1, <1>2, ConcatProperties
<1>4. Len(frame) <= Cap + 1
  <2>1. CASE writer \in {"unborn", "select", "exit"}
    <3>1. Len(frame) = 0
      BY <1>1, <2>1, EmptySeq DEF Pumping
    <3> QED
      BY <1>1, <3>1
  <2>2. CASE writer = "count"
    <3>1. Len(frame) = 1
      BY <1>1, <2>2 DEF Pumping
    <3> QED
      BY <1>1, <3>1
  <2>3. CASE writer = "drain"
    <3>1. Len(frame) \in Nat /\ Len(frame) + left <= Cap + 1
      BY <1>1, <2>3 DEF Pumping
    <3> QED
      BY <1>1, <3>1
  <2> QED
    BY <1>1, <2>1, <2>2, <2>3 DEF Writer
<1>5. Len(delivered) \in Nat /\ Len(frame) \in Nat /\ Len(queue) \in Nat
  BY <1>1
<1> QED
  BY <1>1, <1>3, <1>4, <1>5

LEMMA SendRefines ==
    ASSUME Inv, SendJSON, offered + 1 <= MaxOffered, UNCHANGED delivered
    PROVE  [Promise!Next]_<<accepted, delivered, open>>
<1>1. CASE Enqueue(offered + 1)
  <2>1. accepted' = Append(accepted, offered + 1) /\ UNCHANGED <<delivered, open>> /\ Len(queue) < Cap
    BY <1>1 DEF Enqueue
  <2>2. offered + 1 \in 1..MaxOffered
    BY ClientAssumption DEF Inv, DataOK, MaxOffered
  <2>3. open => Len(accepted) - Len(delivered) < 2 * Cap + 1
    BY <2>1, RoomIsBelowLimit
  <2>4. Promise!Accept(offered + 1)
    BY <2>1, <2>3 DEF Promise!Accept
  <2> QED
    BY <2>2, <2>4 DEF Promise!Next
<1>2. CASE Evict
  BY <1>2 DEF Evict, Promise!Next, Promise!End
<1>3. CASE UNCHANGED <<accepted, open>>
  BY <1>3
<1> QED
  BY <1>1, <1>2, <1>3 DEF SendJSON

LEMMA FlushRefines ==
    ASSUME Inv, Flush
    PROVE  [Promise!Next]_<<accepted, delivered, open>>
<1>1. /\ writer = "drain" /\ open = TRUE
      /\ delivered' = delivered \o frame
      /\ UNCHANGED <<accepted, open>>
  <2>1. open \in BOOLEAN
    BY Zenon DEF Inv, FlagsOK
  <2> QED
    BY <2>1, Zenon DEF Flush, channel
<1>2. /\ accepted = delivered \o (frame \o queue)
      /\ delivered \in Seq(Nat) /\ frame \in Seq(Nat) /\ queue \in Seq(Nat)
      /\ Len(frame) >= 1
  BY <1>1 DEF Inv, DataOK, Flow, Pumping
<1>3. delivered' = SubSeq(accepted, 1, Len(delivered) + Len(frame))
  BY <1>1, <1>2, FrameIsNext
<1>4. Len(frame) \in 1..(Len(accepted) - Len(delivered))
  <2>1. frame \o queue \in Seq(Nat) /\ Len(frame \o queue) = Len(frame) + Len(queue)
    BY <1>2, ConcatProperties
  <2>2. Len(accepted) = Len(delivered) + (Len(frame) + Len(queue))
    BY <1>2, <2>1, ConcatProperties
  <2>3. Len(delivered) \in Nat /\ Len(frame) \in Nat /\ Len(queue) \in Nat
    BY <1>2
  <2> QED
    BY <1>2, <2>2, <2>3
<1>5. Promise!Deliver(Len(frame))
  BY <1>1, <1>3, Zenon DEF Promise!Deliver
<1> QED
  BY <1>4, <1>5, Zenon DEF Promise!Next

LEMMA NextRefines ==
    ASSUME Inv, [Next]_vars
    PROVE  [Promise!Next]_<<accepted, delivered, open>>
<1>1. CASE SyncStart \/ SyncComplete \/ Reply \/ Broadcast
  <2>1. /\ SendJSON \/ UNCHANGED channel
        /\ UNCHANGED pump
    BY <1>1 DEF SyncStart, SyncComplete, Reply, Broadcast
  <2>2. offered + 1 <= MaxOffered
    <3>1. reader \in {"sync start", "sync complete", "reply"} \/ offered < MaxEvents
      BY <1>1 DEF SyncStart, SyncComplete, Reply, Broadcast, Go
    <3>2. offered <= MaxEvents \/ offered <= MaxEvents + 1 \/ offered < MaxEvents
      BY <3>1 DEF Inv, Numbered
    <3> QED
      BY <3>2, ClientAssumption DEF Inv, DataOK, MaxOffered
  <2>3. UNCHANGED delivered
    BY <2>1, Zenon DEF pump
  <2>4. CASE SendJSON
    BY <2>2, <2>3, <2>4, SendRefines
  <2>5. CASE UNCHANGED channel
    BY <2>3, <2>5, Zenon DEF channel
  <2> QED
    BY <2>1, <2>4, <2>5
<1>2. CASE HandshakeFails \/ CloseConn \/ WriteFails
  BY <1>2 DEF HandshakeFails, CloseConn, WriteFails, pump, Promise!Next, Promise!End
<1>3. CASE Flush
  BY <1>3, FlushRefines
<1>4. CASE HandshakeOK \/ Register \/ StartPumps \/ ReadMessage \/ PeerLost \/ ReadFails \/ Unregister
  BY <1>4, Zenon DEF HandshakeOK, Register, StartPumps, ReadMessage, PeerLost, ReadFails, Unregister,
     channel, pump
<1>5. CASE Take \/ Count \/ Drain
  BY <1>5, Zenon DEF Take, Count, Drain, channel
<1>6. CASE UNCHANGED vars
  BY <1>6, Zenon DEF vars, channel, pump
<1> QED
  BY <1>1, <1>2, <1>3, <1>4, <1>5, <1>6, Zenon DEF Next, ReaderStep, WriterStep

\* A client is an outbox: whatever the goroutines do, what reaches the peer
\* is what was accepted, in order, once, until the connection ends.
THEOREM ClientIsOutbox == Spec => ImplementsOutbox
<1>1. Init => Promise!Init
  BY DEF Init, Promise!Init
<1>2. Inv /\ [Next]_vars => [Promise!Next]_<<accepted, delivered, open>>
  BY NextRefines
<1> QED
  BY <1>1, <1>2, Invariance, PTL DEF Spec, ImplementsOutbox, Promise!Spec
=============================================================================
