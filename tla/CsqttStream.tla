----------------------------- MODULE CsqttStream -----------------------------
(***************************************************************************)
(* The data path of csqtt (pkg/csqtt: frame.go, dispatch.go and the data   *)
(* half of client.go): TCP packets are numbered per flow, striped over the *)
(* workers, lost, overtaken and duplicated on the way, and put in order by *)
(* the reassembler at the other end, whose output the worker's read loop   *)
(* then queues for the TUN without the reassembler's lock.                 *)
(*                                                                         *)
(* Both ends are the same code.  The index of a packet in its flow, n, is  *)
(* not on the wire: the wire carries n modulo SeqSpace.                      *)
(***************************************************************************)
EXTENDS Integers, Sequences, FiniteSets, SequencesExt

CONSTANTS
  StreamWorkers,      \* how many workers carry the packets
  Flows,              \* TCP flows
  SeqSpace,             \* size of the sequence space (2^32)
  SenderTable,        \* flows the sequencer tracks (maxTrackedFlows)
  ReceiverTable,      \* flows the reassembler tracks (maxTrackedFlows)
  MaxPendingPerFlow, MaxPendingTotal,
  Chunk,              \* packets a worker takes in a row (DefaultChunks)
  DuplicateTCP,       \* Config.DuplicateTCP
  StartAt,            \* index one flow has reached at the start
  MaxPackets,         \* bound: packets sent
  MaxSenders          \* bound: sender ids used

ASSUME StreamAssumption ==
  /\ IsFiniteSet(Flows)
  /\ StreamWorkers \in Nat \ {0} /\ SeqSpace \in Nat \ {0}
  /\ SenderTable \in Nat \ {0} /\ ReceiverTable \in Nat \ {0}
  /\ MaxPendingPerFlow \in Nat \ {0} /\ MaxPendingTotal \in Nat \ {0}
  /\ Chunk \in Nat \ {0} /\ DuplicateTCP \in BOOLEAN
  /\ StartAt \in Nat
  /\ MaxPackets \in Nat /\ MaxSenders \in Nat \ {0}

Carriers == 0 .. StreamWorkers - 1
Senders == 1 .. MaxSenders
Keys == Senders \X Flows
Half == SeqSpace \div 2

VARIABLES
  seqs,       \* Sequencer.seqs: the next number of each tracked flow
  sender,     \* Sequencer.senderID
  taken,      \* how many packets of each key were numbered; what n counts
  sent,       \* packets numbered since the start (bounded)
  cursor,     \* Striper.cursor: the worker of the chunk and what is left of it
  up,         \* the workers that are ready
  wire,       \* what each worker has under way
  flows,      \* Reassembler.flows
  pendingTotal,
  out,        \* indices released, per key and in order (history)
  handoff,    \* per worker: released, not yet queued for the TUN
  tun         \* newest index queued for the TUN, per key (history)

senderVars == <<seqs, sender, taken, sent, cursor>>
receiverVars == <<flows, pendingTotal, out>>
streamVars == <<senderVars, up, wire, receiverVars, handoff, tun>>

Packets == [key : Keys, seq : 0 .. SeqSpace - 1, n : Nat]
Gaps == {"none", "open", "due"}
FlowStates == [expected : 0 .. SeqSpace - 1, gap : Gaps, pending : SUBSET Packets]
MaxIndex == MaxPackets + StartAt
NewFlow == [expected |-> 0, gap |-> "none", pending |-> {}]

\* A table with the entry of key k set.
Put(table, k, entry) ==
  [x \in DOMAIN table \cup {k} |-> IF x = k THEN entry ELSE table[x]]

\* Nothing is under way; one flow may have been in use for a while.
StreamInit ==
  /\ sender = 1 /\ sent = 0
  /\ \E f \in Flows :
       /\ seqs = IF StartAt = 0 THEN << >> ELSE [g \in {f} |-> StartAt % SeqSpace]
       /\ taken = [k \in Keys |-> IF k = <<1, f>> THEN StartAt ELSE 0]
       /\ flows = IF StartAt = 0 THEN << >>
                  ELSE [k \in {<<1, f>>} |-> [NewFlow EXCEPT !.expected = StartAt % SeqSpace]]
  /\ out = [k \in Keys |-> IF taken[k] = 0 THEN << >> ELSE <<taken[k] - 1>>]
  /\ cursor = [worker |-> 0, remaining |-> 0]
  /\ up = Carriers
  /\ wire = [w \in Carriers |-> {}]
  /\ pendingTotal = 0
  /\ handoff = [w \in Carriers |-> << >>]
  /\ tun = [k \in Keys |-> taken[k] - 1]

-----------------------------------------------------------------------------
\* Sender: Striper.Pick, Sequencer.Next, WritePacket.

\* The next live worker after the cursor's, the cursor's own last.
NextLive ==
  LET dist(w) == IF w = cursor.worker THEN StreamWorkers
                 ELSE (w - cursor.worker) % StreamWorkers
  IN  CHOOSE w \in up : \A v \in up : dist(w) <= dist(v)

\* Pick's cursor for the next packet: the chunk goes on, or moves to a live
\* worker.  A chunk a dead worker breaks off is started afresh.
Picked ==
  IF cursor.remaining > 0 /\ cursor.worker \in up
  THEN [cursor EXCEPT !.remaining = @ - 1]
  ELSE [worker |-> NextLive, remaining |-> Chunk - 1]

\* The flow table is full and f is not in it: the table is dropped and the
\* sender id changed.
TableFull(f) == f \notin DOMAIN seqs /\ Cardinality(DOMAIN seqs) >= SenderTable
BugSenderFor(f) == sender  \* the id is not re-mixed
SenderFor(f) == IF TableFull(f) THEN sender + 1 ELSE sender
BugTracked(f) == seqs  \* a full table still takes the flow
Tracked(f) == IF TableFull(f) THEN << >> ELSE seqs

\* Sequencer.Next.
Numbered(f) ==
  LET seq == IF f \in DOMAIN Tracked(f) THEN Tracked(f)[f] ELSE 0
      key == <<SenderFor(f), f>>
  IN  [key |-> key, seq |-> seq, n |-> taken[key]]

\* WritePacket of a packet of flow f; the copy of DuplicateTCP goes through
\* another live worker.  Nothing is sent when no worker is alive.
WritePacket(f) ==
  LET p == Numbered(f)
      w == Picked.worker
  IN  /\ up # {}
      /\ sent < MaxPackets /\ sent' = sent + 1
      /\ SenderFor(f) \in Senders
      /\ cursor' = Picked
      /\ sender' = SenderFor(f)
      /\ seqs' = Put(Tracked(f), f, (p.seq + 1) % SeqSpace)
      /\ taken' = [taken EXCEPT ![p.key] = @ + 1]
      /\ \/ /\ ~DuplicateTCP \/ up = {w}
            /\ wire' = [wire EXCEPT ![w] = @ \cup {p}]
         \/ /\ DuplicateTCP
            /\ \E v \in up \ {w} :
                 wire' = [wire EXCEPT ![w] = @ \cup {p}, ![v] = @ \cup {p}]
      /\ UNCHANGED <<up, receiverVars, handoff, tun>>

-----------------------------------------------------------------------------
\* The workers and the network between the two ends.

WorkerUp(w) ==
  /\ w \notin up
  /\ up' = up \cup {w}
  /\ UNCHANGED <<senderVars, wire, receiverVars, handoff, tun>>

WorkerDown(w) ==
  /\ w \in up
  /\ up' = up \ {w}
  /\ UNCHANGED <<senderVars, wire, receiverVars, handoff, tun>>

Lose(w) ==
  /\ \E p \in wire[w] : wire' = [wire EXCEPT ![w] = @ \ {p}]
  /\ UNCHANGED <<senderVars, up, receiverVars, handoff, tun>>

-----------------------------------------------------------------------------
\* Receiver.  A push works on r: the flow's state, the reassembler's total
\* and what comes out.

\* isForward: ahead of e by less than half the sequence space.
BugAhead(seq, e) == seq > e  \* the numbers are compared, not their distance
Ahead(seq, e) == (seq - e) % SeqSpace \in 1 .. Half - 1

\* drainContiguous.
DrainContiguous(r) ==
  LET at(i) == {p \in r.pending : p.seq = (r.expected + i) % SeqSpace}
      run == Max({i \in 0 .. Cardinality(r.pending) : \A j \in 0 .. i - 1 : at(j) # {}})
      freed == UNION {at(j) : j \in 0 .. run - 1}
  IN  [r EXCEPT !.expected = (@ + run) % SeqSpace,
                !.pending = @ \ freed,
                !.total = @ - run,
                !.out = @ \o [j \in 1 .. run |-> CHOOSE p \in at(j - 1) : TRUE]]

\* What is held and ahead of its turn, how far, and the closest of it.
Forward(r) == {p \in r.pending : Ahead(p.seq, r.expected)}
Distance(r, p) == (p.seq - r.expected) % SeqSpace
Closest(r) ==
  CHOOSE p \in Forward(r) : \A q \in Forward(r) : Distance(r, p) <= Distance(r, q)

\* releaseLowest: give up on the gap and jump to the pending packet closest
\* ahead; what is left opens a new gap.
JumpTo(r, p) == [r EXCEPT !.pending = @ \ {p}, !.total = @ - 1,
                          !.expected = (p.seq + 1) % SeqSpace, !.out = Append(@, p)]
ReleaseLowest(r) ==
  LET rest == DrainContiguous(JumpTo(r, Closest(r)))
  IN  IF Forward(r) = {} THEN [r EXCEPT !.gap = "none"]
      ELSE [rest EXCEPT !.gap = IF rest.pending = {} THEN "none" ELSE "open"]

ReleaseExpired(r) == IF r.gap = "due" THEN ReleaseLowest(r) ELSE r

InOrder(r, p) == DrainContiguous([r EXCEPT !.out = Append(@, p), !.gap = "none",
                                   !.expected = (@ + 1) % SeqSpace])

\* A packet ahead of its turn: room is made in a full flow, then in a full
\* reassembler, and it is kept -- or comes out at once when this flow has
\* nothing to give up.
Kept(r, p) ==
  LET flow == IF Cardinality(r.pending) >= MaxPendingPerFlow THEN ReleaseLowest(r) ELSE r
      full == flow.total >= MaxPendingTotal
      room == IF full THEN ReleaseLowest(flow) ELSE flow
      held == [room EXCEPT !.pending = @ \cup {p}, !.total = @ + 1]
      fits == IF held.total > MaxPendingTotal THEN ReleaseLowest(held) ELSE held
  IN  IF full /\ flow.pending = {}
      THEN [flow EXCEPT !.out = Append(@, p), !.expected = (p.seq + 1) % SeqSpace, !.gap = "none"]
      ELSE [fits EXCEPT !.gap = IF @ = "none" THEN "open" ELSE @]

\* PushAt, from the flow's state on: in order, late or twice, or ahead.
Pushed(r0, p) ==
  LET r == ReleaseExpired(r0)
  IN  IF p.seq = r.expected THEN InOrder(r, p)
      ELSE IF ~Ahead(p.seq, r.expected) \/ (\E q \in r.pending : q.seq = p.seq) THEN r
      ELSE Kept(r, p)

Dropping(k) == k \notin DOMAIN flows /\ Cardinality(DOMAIN flows) >= ReceiverTable
BugTotalBefore(k) == pendingTotal  \* the total survives the drop of the table
TotalBefore(k) == IF Dropping(k) THEN 0 ELSE pendingTotal

\* deliver: the read loop of worker w pushes p under reasmMu; what comes out
\* is its own until it is queued.
Deliver(w) ==
  /\ handoff[w] = << >>
  /\ \E p \in wire[w] :
       LET k == p.key
           st == IF k \in DOMAIN flows THEN flows[k] ELSE NewFlow
           r == Pushed([expected |-> st.expected, gap |-> st.gap, pending |-> st.pending,
                        total |-> TotalBefore(k), out |-> << >>], p)
       IN  /\ wire' = [wire EXCEPT ![w] = @ \ {p}]
           /\ flows' = Put(IF Dropping(k) THEN << >> ELSE flows, k,
                           [expected |-> r.expected, gap |-> r.gap, pending |-> r.pending])
           /\ pendingTotal' = r.total
           /\ handoff' = [handoff EXCEPT ![w] = r.out]
           /\ out' = [(IF Dropping(k) THEN [j \in Keys |-> << >>] ELSE out)
                        EXCEPT ![k] = @ \o [i \in DOMAIN r.out |-> r.out[i].n]]
  /\ UNCHANGED <<senderVars, up, tun>>

\* gapRelease passes; nothing happens until the flow's next packet.
GapDue(k) ==
  /\ k \in DOMAIN flows
  /\ flows[k].gap = "open"
  /\ flows' = [flows EXCEPT ![k].gap = "due"]
  /\ UNCHANGED <<senderVars, up, wire, pendingTotal, out, handoff, tun>>

\* enqueue of the next released packet, without reasmMu; a full queue drops it.
Enqueue(w) ==
  /\ handoff[w] # << >>
  /\ handoff' = [handoff EXCEPT ![w] = Tail(@)]
  /\ \/ tun' = [tun EXCEPT ![Head(handoff[w]).key] = Head(handoff[w]).n]
     \/ UNCHANGED tun
  /\ UNCHANGED <<senderVars, up, wire, receiverVars>>

StreamNext ==
  \/ \E f \in Flows : WritePacket(f)
  \/ \E w \in Carriers : WorkerUp(w) \/ WorkerDown(w) \/ Lose(w) \/ Deliver(w) \/ Enqueue(w)
  \/ \E k \in Keys : GapDue(k)

StreamSpec == StreamInit /\ [][StreamNext]_streamVars

-----------------------------------------------------------------------------
\* The tables and the totals stay within frame.go's limits, each field within
\* its type.
StreamTypeOK ==
  /\ DOMAIN seqs \subseteq Flows /\ \A f \in DOMAIN seqs : seqs[f] \in 0 .. SeqSpace - 1
  /\ Cardinality(DOMAIN seqs) <= SenderTable
  /\ sender \in Senders
  /\ taken \in [Keys -> Nat] /\ sent \in 0 .. MaxPackets
  /\ cursor \in [worker : Carriers, remaining : 0 .. Chunk]
  /\ up \subseteq Carriers
  /\ \A w \in Carriers : wire[w] \subseteq Packets /\ ToSet(handoff[w]) \subseteq Packets
  /\ DOMAIN flows \subseteq Keys /\ \A k \in DOMAIN flows : flows[k] \in FlowStates
  /\ Cardinality(DOMAIN flows) <= ReceiverTable
  /\ pendingTotal \in 0 .. MaxPendingTotal
  /\ \A k \in Keys : ToSet(out[k]) \subseteq 0 .. MaxIndex - 1
  /\ tun \in [Keys -> -1 .. MaxIndex - 1]

\* frame.go's pendingTotal is a count kept by hand next to the lists it
\* counts, across releases and the drop of the table: were it ever too high
\* the reassembler would stop holding gaps, were it too low it would hold
\* without bound.
PendingAccounted ==
  pendingTotal = Cardinality(UNION {flows[k].pending : k \in DOMAIN flows})

\* Sequencer.Next re-mixes the sender id when it drops a full flow table "so
\* stale receiver state cannot collide with the new numbering": under one
\* sender id the n-th packet of a flow always carries n, whatever was dropped
\* in between.
NumberedOnce ==
  \A p \in UNION Range(wire) : p.seq = p.n % SeqSpace

\* What either end keeps by hand agrees with what there is.
CountsAgree == PendingAccounted /\ NumberedOnce

\* What the two ends do together is the channel of FlowChannel: whatever was
\* lost, overtaken or duplicated, whichever worker carried it, whenever a gap
\* was given up, and across the drops of either table.
Channel == INSTANCE FlowChannel WITH MaxTracked <- ReceiverTable
OrderedFlows == Channel!ChannelSpec

-----------------------------------------------------------------------------
(* What the comments promise and the code does not keep *)

\* frame.go:220-221: a push "appends everything now deliverable, in order":
\* the packet a flow waits for is never among those it holds.  It fails: a full
\* list is released up to its first gap, then the packet that found it full is
\* added, though it may be the very next one.
NothingDeliverableHeld ==
  \A k \in DOMAIN flows : \A p \in flows[k].pending : p.seq # flows[k].expected

\* frame.go:1-9: packets overtake each other on the way, so both ends
\* "reassemble": the TUN gets a flow's packets in order.  It fails: deliver
\* queues them after unlocking reasmMu (client.go:458), two workers in any order.
TunInOrder == [][\A k \in Keys : tun'[k] >= tun[k]]_tun
=============================================================================
