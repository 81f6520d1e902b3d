------------------------------- MODULE Client -------------------------------
(***************************************************************************)
(* One WebSocket client (internal/ws/client.go) and the handler that       *)
(* serves it (internal/ws/handler.go): the reader goroutine (handshake,    *)
(* Register, ReadPump), the writer goroutine (WritePump) and the           *)
(* goroutines that call SendJSON on it, around a bounded channel.          *)
(*                                                                         *)
(* Events are numbered in the order of the SendJSON calls.  Data on the    *)
(* wire is what the peer can read as whole frames: a frame is delivered    *)
(* when its writer is closed without an error.                             *)
(***************************************************************************)
EXTENDS Sequences, Naturals

CONSTANTS Cap,        \* capacity of the channel, 256 in the code
          MaxEvents   \* bound of the SendJSON calls, except for the two of Register

ASSUME ClientAssumption == Cap \in Nat \ {0} /\ MaxEvents \in Nat

VARIABLES reader,     \* where the reader goroutine is
          writer,     \* where the writer goroutine is
          left,       \* how many events it still has to add to the frame
          frame,      \* the events of the frame being written
          queue,      \* chan send
          closed,     \* Client.closed: evicted
          open,       \* the connection, until somebody closes it
          registered, \* the client is in the hub's map
          offered,    \* number of SendJSON calls
          accepted,   \* events put into the channel (history)
          delivered   \* events the peer got (history)

channel    == <<queue, closed, open, offered, accepted>>
pump       == <<writer, left, frame, delivered>>
vars       == <<reader, registered, channel, pump>>

Reader == {"handshake", "register", "sync start", "sync complete", "start", "read", "reply",
           "unregister", "close", "exit"}
Writer == {"unborn", "select", "count", "drain", "exit"}

TypeOK ==
    /\ reader \in Reader
    /\ writer \in Writer
    /\ left \in Nat
    /\ frame \in Seq(Nat)
    /\ queue \in Seq(Nat) /\ Len(queue) <= Cap
    /\ closed \in BOOLEAN
    /\ open \in BOOLEAN
    /\ registered \in BOOLEAN
    /\ offered \in Nat
    /\ accepted \in Seq(Nat)
    /\ delivered \in Seq(Nat)

Init ==
    /\ reader = "handshake"
    /\ writer = "unborn"
    /\ left = 0
    /\ frame = <<>>
    /\ queue = <<>>
    /\ closed = FALSE
    /\ open = TRUE
    /\ registered = FALSE
    /\ offered = 0
    /\ accepted = <<>>
    /\ delivered = <<>>

-----------------------------------------------------------------------------
\* SendJSON holds c.mu: dropped once evicted, else queued if there is room,
\* else the client is evicted.  It never waits.
Enqueue_NoLimit(e) ==
    /\ ~closed
    /\ queue' = Append(queue, e)
    /\ accepted' = Append(accepted, e)
    /\ UNCHANGED <<closed, open>>
Enqueue(e) ==
    /\ ~closed
    /\ Len(queue) < Cap
    /\ queue' = Append(queue, e)
    /\ accepted' = Append(accepted, e)
    /\ UNCHANGED <<closed, open>>

\* An eviction that leaves the connection to the pumps.
Evict_KeepsConn ==
    /\ ~closed
    /\ Len(queue) = Cap
    /\ closed' = TRUE
    /\ UNCHANGED <<queue, open, accepted>>
Evict ==
    /\ ~closed
    /\ Len(queue) = Cap
    /\ closed' = TRUE
    /\ open' = FALSE
    /\ UNCHANGED <<queue, accepted>>

SendJSON ==
    /\ offered' = offered + 1
    /\ \/ Enqueue(offered + 1)
       \/ Evict
       \/ closed /\ UNCHANGED <<queue, closed, open, accepted>>

-----------------------------------------------------------------------------
(* The reader goroutine: ServeHTTP, then ReadPump.                         *)

Go(from, to) == reader = from /\ reader' = to

\* A bad envelope or token, or the 5 seconds are over.
HandshakeFails ==
    /\ Go("handshake", "exit")
    /\ open' = FALSE
    /\ UNCHANGED <<registered, queue, closed, offered, accepted, pump>>

HandshakeOK ==
    /\ Go("handshake", "register")
    /\ UNCHANGED <<registered, channel, pump>>

\* Once in the map the client may be sent to, before its own sync events.
Register ==
    /\ Go("register", "sync start")
    /\ registered' = TRUE
    /\ UNCHANGED <<channel, pump>>

SyncStart ==
    /\ Go("sync start", "sync complete")
    /\ SendJSON
    /\ UNCHANGED <<registered, pump>>

SyncComplete ==
    /\ Go("sync complete", "start")
    /\ SendJSON
    /\ UNCHANGED <<registered, pump>>

StartPumps ==
    /\ Go("start", "read")
    /\ writer' = "select"
    /\ UNCHANGED <<registered, channel, left, frame, delivered>>

\* A message is read; it is refused by the rate limiter or handled, and
\* either may answer the client itself.
ReadMessage ==
    /\ Go("read", "reply")
    /\ open
    /\ offered < MaxEvents
    /\ UNCHANGED <<registered, channel, pump>>

Reply ==
    /\ Go("reply", "read")
    /\ SendJSON \/ UNCHANGED channel
    /\ UNCHANGED <<registered, pump>>

\* The peer left, or no pong came for 90 seconds.
PeerLost ==
    /\ open
    /\ Go("read", "unregister")
    /\ UNCHANGED <<registered, channel, pump>>

\* Somebody has closed the connection.
ReadFails ==
    /\ ~open
    /\ Go("read", "unregister")
    /\ UNCHANGED <<registered, channel, pump>>

Unregister ==
    /\ Go("unregister", "close")
    /\ registered' = FALSE
    /\ UNCHANGED <<channel, pump>>

CloseConn ==
    /\ Go("close", "exit")
    /\ open' = FALSE
    /\ UNCHANGED <<registered, queue, closed, offered, accepted, pump>>

-----------------------------------------------------------------------------
(* The writer goroutine: WritePump.                                        *)

\* The first event of a frame.
Take ==
    /\ writer = "select"
    /\ queue # <<>>
    /\ writer' = "count"
    /\ frame' = <<Head(queue)>>
    /\ queue' = Tail(queue)
    /\ UNCHANGED <<reader, registered, closed, open, offered, accepted, left, delivered>>

\* n := len(c.send), or n counts a place that is not filled.
Count_OffByOne ==
    /\ writer = "count"
    /\ writer' = "drain"
    /\ left' = Len(queue) + 1
    /\ UNCHANGED <<reader, registered, channel, frame, delivered>>
Count ==
    /\ writer = "count"
    /\ writer' = "drain"
    /\ left' = Len(queue)
    /\ UNCHANGED <<reader, registered, channel, frame, delivered>>

\* A blocking receive: it waits if the channel is empty.
Drain_Reverses ==
    /\ writer = "drain"
    /\ left > 0
    /\ queue # <<>>
    /\ frame' = <<Head(queue)>> \o frame
    /\ queue' = Tail(queue)
    /\ left' = left - 1
    /\ UNCHANGED <<reader, registered, writer, closed, open, offered, accepted, delivered>>
Drain ==
    /\ writer = "drain"
    /\ left > 0
    /\ queue # <<>>
    /\ frame' = Append(frame, Head(queue))
    /\ queue' = Tail(queue)
    /\ left' = left - 1
    /\ UNCHANGED <<reader, registered, writer, closed, open, offered, accepted, delivered>>

Flush ==
    /\ writer = "drain"
    /\ left = 0
    /\ open
    /\ writer' = "select"
    /\ frame' = <<>>
    /\ delivered' = delivered \o frame
    /\ UNCHANGED <<reader, registered, channel, left>>

\* A write or a ping fails: always when the connection is closed, and when
\* the network fails or the peer stops reading for 10 seconds.
WriteFails ==
    /\ \/ writer = "select"                  \* NextWriter or ping
       \/ writer = "drain" /\ left = 0       \* Close of the frame
    /\ writer' = "exit"
    /\ frame' = <<>>
    /\ open' = FALSE
    /\ UNCHANGED <<reader, registered, queue, closed, offered, accepted, left, delivered>>

-----------------------------------------------------------------------------
\* Another goroutine sends: a broadcast that found the client in the map,
\* perhaps before it was removed from it.
Broadcast ==
    /\ registered \/ (reader \in {"close", "exit"} /\ writer # "unborn")
    /\ offered < MaxEvents
    /\ SendJSON
    /\ UNCHANGED <<reader, registered, pump>>

\* What a goroutine does without waiting for the peer.
ReaderStep ==
    \/ HandshakeFails \/ HandshakeOK
    \/ Register \/ SyncStart \/ SyncComplete \/ StartPumps
    \/ Reply \/ ReadFails \/ Unregister \/ CloseConn
WriterStep == Take \/ Count \/ Drain \/ Flush \/ (~open /\ WriteFails)

Next ==
    \/ ReaderStep \/ WriterStep
    \/ ReadMessage \/ PeerLost \/ (open /\ WriteFails) \/ Broadcast

Spec == Init /\ [][Next]_vars

\* Goroutines run; the handshake has a deadline, the ticker fires.
FairSpec == Spec /\ WF_vars(ReaderStep) /\ WF_vars(WriterStep)

-----------------------------------------------------------------------------
MaxOffered == MaxEvents + 2

\* The receives of the drain loop never wait: the writer is the only
\* receiver, so that the len(c.send) events it has counted are still there.
DrainNeverWaits == writer = "drain" => left <= Len(queue)

\* The client is an outbox.  Beside the channel one frame of at most Cap + 1
\* events is waiting for the network.
Promise == INSTANCE Outbox WITH Event <- 1..MaxOffered, Limit <- 2 * Cap + 1

ImplementsOutbox == Promise!Spec

\* Once the client is evicted or its connection closed, by whomever, both
\* goroutines end and the client leaves the hub.
CloseEndsClient ==
    closed \/ ~open ~> /\ reader = "exit" /\ ~registered
             /\ writer \in {"unborn", "exit"}

\* What is accepted is delivered, or the connection ends.
AcceptedArrives ==
    \A n \in 1..MaxOffered :
        Len(accepted) >= n ~> Len(delivered) >= n \/ ~open
=============================================================================
