------------------------------ MODULE PacketPath ------------------------------
(***************************************************************************)
(* Packets between wireguard-go and the sessions (pkg/proxy/proxy.go       *)
(* SendPacket, enqueueRecv, ReceivePacket, the pumps of the sessions;      *)
(* writepacket.go; turnbind/bind.go).  Both directions hand packets over   *)
(* in pooled buffers, through one queue each.  A writer may be one of many *)
(* sessions; the pacer before its dequeue is UplinkPace.                   *)
(***************************************************************************)
EXTENDS Integers, Sequences, FiniteSets

CONSTANTS
  Producers,   \* callers of SendPacket: wireguard-go's senders, the synthetic load
  Conns,       \* connections, each with a writer and a reader
  TxBufs, RxBufs, \* buffers the two pools have made, enough for every holder
  QueueLen,    \* capacity of sendCh and of recvCh
  MaxPackets   \* bound: packets each way

ASSUME PacketAssumption ==
  /\ QueueLen \in Nat \ {0} /\ MaxPackets \in Nat
  /\ IsFiniteSet(Producers) /\ IsFiniteSet(Conns)
  /\ "none" \notin TxBufs \cup RxBufs  \* a pump that holds no buffer

VARIABLES
  pool,      \* per buffer: how often it lies in its pool
  holds,     \* per buffer: the packet it was last filled with
  sender,    \* per producer: where it is, and its buffer
  sendCh, recvCh, \* queues of [buf, was]: was is what was put in (history)
  writer, reader, \* per connection: where its pumps are, and their buffer
  connUp,    \* connections whose context is not cancelled
  stopped,   \* p.ctx is cancelled
  sentUp, readDown, \* packets produced so far, up and down
  garbled    \* a packet arrived as something else than was sent (history)

packetVars == <<pool, holds, sender, sendCh, recvCh, writer, reader, connUp, stopped, sentUp,
                readDown, garbled>>

Bufs == TxBufs \cup RxBufs
NoBuf == "none"
Resting == [at |-> "idle", buf |-> NoBuf]
Ended == [at |-> "ended", buf |-> NoBuf]
With(b, place) == [at |-> place, buf |-> b]

queues == <<sendCh, recvCh>>
pumps == <<writer, reader>>
life == <<connUp, stopped>>
counts == <<sentUp, readDown>>

PacketInit ==
  /\ pool = [b \in Bufs |-> 1] /\ holds = [b \in Bufs |-> 0]
  /\ sender = [p \in Producers |-> Resting]
  /\ sendCh = << >> /\ recvCh = << >>
  /\ writer = [c \in Conns |-> Resting] /\ reader = [c \in Conns |-> Resting]
  /\ connUp = Conns /\ stopped = FALSE
  /\ sentUp = 0 /\ readDown = 0 /\ garbled = FALSE

Puts(b) == pool' = [pool EXCEPT ![b] = @ + 1]
Gets(b) == pool[b] > 0 /\ pool' = [pool EXCEPT ![b] = @ - 1]
Carries(b) == [buf |-> b, was |-> holds[b]]

-----------------------------------------------------------------------------
\* SendPacket: the caller's bytes are copied into a pooled buffer, which goes
\* to the queue at once if there is room ...
Copy(p, b) ==
  /\ sender[p] = Resting /\ sentUp < MaxPackets
  /\ b \in TxBufs /\ Gets(b)
  /\ sentUp' = sentUp + 1
  /\ holds' = [holds EXCEPT ![b] = sentUp + 1]
  /\ sender' = [sender EXCEPT ![p] = With(b, "copied")]
  /\ UNCHANGED <<queues, pumps, life, readDown, garbled>>

Enqueue(p) ==
  /\ sender[p].at \in {"copied", "blocked"}
  /\ Len(sendCh) < QueueLen
  /\ sendCh' = Append(sendCh, Carries(sender[p].buf))
  /\ sender' = [sender EXCEPT ![p] = Resting]
  /\ UNCHANGED <<pool, holds, recvCh, pumps, life, counts, garbled>>

\* ... else it waits for room, or for the end of the tunnel.
Block(p) ==
  /\ sender[p].at = "copied" /\ Len(sendCh) = QueueLen
  /\ sender' = [sender EXCEPT ![p].at = "blocked"]
  /\ UNCHANGED <<pool, holds, queues, pumps, life, counts, garbled>>

SendCancelled(p) ==
  /\ sender[p].at = "blocked" /\ stopped
  /\ Puts(sender[p].buf)
  /\ sender' = [sender EXCEPT ![p] = Resting]
  /\ UNCHANGED <<holds, queues, pumps, life, counts, garbled>>

-----------------------------------------------------------------------------
\* The writer pump.  The select takes a packet or sees the cancel, whichever
\* it likes when it could do both.
Dequeue(c) ==
  /\ writer[c] = Resting /\ sendCh # << >>
  /\ writer' = [writer EXCEPT ![c] = [at |-> "writes", buf |-> Head(sendCh).buf,
                                      was |-> Head(sendCh).was]]
  /\ sendCh' = Tail(sendCh)
  /\ UNCHANGED <<pool, holds, sender, recvCh, reader, life, counts, garbled>>

\* writePacket: the transport copies; the buffer goes back on every outcome,
\* and an error ends the pump and the session.
BugPutBack(b, ok) == pool' = [pool EXCEPT ![b] = @ + (IF ok THEN 1 ELSE 2)]
PutBack(b, ok) == Puts(b)
Write(c, ok) ==
  /\ writer[c].at = "writes"
  /\ garbled' = (garbled \/ holds[writer[c].buf] # writer[c].was)
  /\ PutBack(writer[c].buf, ok)
  /\ writer' = [writer EXCEPT ![c] = IF ok THEN Resting ELSE Ended]
  /\ connUp' = IF ok THEN connUp ELSE connUp \ {c}
  /\ UNCHANGED <<holds, sender, queues, reader, stopped, counts>>

WriterEnds(c) ==
  /\ writer[c] = Resting /\ c \notin connUp
  /\ writer' = [writer EXCEPT ![c] = Ended]
  /\ UNCHANGED <<pool, holds, sender, queues, reader, life, counts, garbled>>

-----------------------------------------------------------------------------
\* The reader pump.  Probe echoes and one-byte keepalives go no further.
ReadPacket(c, b) ==
  /\ reader[c] = Resting /\ c \in connUp /\ readDown < MaxPackets
  /\ b \in RxBufs /\ Gets(b)
  /\ readDown' = readDown + 1
  /\ holds' = [holds EXCEPT ![b] = readDown + 1]
  /\ reader' = [reader EXCEPT ![c] = With(b, "read")]
  /\ UNCHANGED <<sender, queues, writer, life, sentUp, garbled>>

\* A read error or timeout, after which this session is over.
ReadFails(c) ==
  /\ reader[c] = Resting
  /\ reader' = [reader EXCEPT ![c] = Ended]
  /\ connUp' = connUp \ {c}
  /\ UNCHANGED <<pool, holds, sender, queues, writer, stopped, counts, garbled>>

\* enqueueRecv.
EnqueueRecv(c) ==
  /\ reader[c].at \in {"read", "blocked"}
  /\ Len(recvCh) < QueueLen
  /\ recvCh' = Append(recvCh, Carries(reader[c].buf))
  /\ reader' = [reader EXCEPT ![c] = Resting]
  /\ UNCHANGED <<pool, holds, sender, sendCh, writer, life, counts, garbled>>

BlockRecv(c) ==
  /\ reader[c].at = "read" /\ Len(recvCh) = QueueLen
  /\ reader' = [reader EXCEPT ![c].at = "blocked"]
  /\ UNCHANGED <<pool, holds, sender, queues, writer, life, counts, garbled>>

RecvCancelled(c) ==
  /\ reader[c].at = "blocked" /\ c \notin connUp
  /\ Puts(reader[c].buf)
  /\ reader' = [reader EXCEPT ![c] = Ended]
  /\ UNCHANGED <<holds, sender, queues, writer, life, counts, garbled>>

\* ReceivePacket, of one receive routine: copied out, then back to the pool.
ReceivePacket ==
  /\ recvCh # << >>
  /\ garbled' = (garbled \/ holds[Head(recvCh).buf] # Head(recvCh).was)
  /\ Puts(Head(recvCh).buf)
  /\ recvCh' = Tail(recvCh)
  /\ UNCHANGED <<holds, sender, sendCh, pumps, life, counts>>

-----------------------------------------------------------------------------
\* Pause or a zombie verdict cancels a session; both pumps over, the next may
\* start; Stop cancels all for good.
CancelConn(c) ==
  /\ c \in connUp
  /\ connUp' = connUp \ {c}
  /\ UNCHANGED <<pool, holds, sender, queues, pumps, stopped, counts, garbled>>

NextSession(c) ==
  /\ writer[c] = Ended /\ reader[c] = Ended /\ ~stopped
  /\ writer' = [writer EXCEPT ![c] = Resting] /\ reader' = [reader EXCEPT ![c] = Resting]
  /\ connUp' = connUp \cup {c}
  /\ UNCHANGED <<pool, holds, sender, queues, stopped, counts, garbled>>

StopTunnel ==
  /\ ~stopped /\ stopped' = TRUE /\ connUp' = {}
  /\ UNCHANGED <<pool, holds, sender, queues, pumps, counts, garbled>>

PacketNext ==
  \/ \E p \in Producers :
       Enqueue(p) \/ Block(p) \/ SendCancelled(p) \/ \E b \in TxBufs : Copy(p, b)
  \/ \E c \in Conns :
       \/ Dequeue(c) \/ WriterEnds(c) \/ ReadFails(c) \/ EnqueueRecv(c) \/ BlockRecv(c)
       \/ RecvCancelled(c) \/ CancelConn(c) \/ NextSession(c)
       \/ \E ok \in BOOLEAN : Write(c, ok)
       \/ \E b \in RxBufs : ReadPacket(c, b)
  \/ ReceivePacket \/ StopTunnel

PacketSpec == PacketInit /\ [][PacketNext]_packetVars

-----------------------------------------------------------------------------
\* Types of the queues and of the pumps.
PacketTypeOK ==
  /\ pool \in [Bufs -> Nat] /\ connUp \subseteq Conns
  /\ Len(sendCh) <= QueueLen /\ Len(recvCh) <= QueueLen
  /\ \A c \in Conns : reader[c].at \in {"idle", "read", "blocked", "ended"}

\* proxy.go, sendPktPool: "returns it EXACTLY ONCE on every outcome ... exactly
\* TWO Put sites": a buffer is in a pool, with a goroutine or in a queue, never
\* in two of them and never twice in one, and what a transport or WireGuard
\* gets is the packet that was put in.
InQueue(q, b) == Cardinality({i \in 1 .. Len(q) : q[i].buf = b})
Owners(b) ==
  pool[b] + InQueue(sendCh, b) + InQueue(recvCh, b)
  + Cardinality({p \in Producers : sender[p].buf = b})
  + Cardinality({c \in Conns : writer[c].buf = b})
  + Cardinality({c \in Conns : reader[c].buf = b})
BuffersIntact == (\A b \in Bufs : Owners(b) = 1) /\ ~garbled
=============================================================================
