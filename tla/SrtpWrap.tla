------------------------------- MODULE SrtpWrap -------------------------------
(***************************************************************************)
(* One SRTP connection over a relay (pkg/proxy/srtpwrap/srtp.go, client    *)
(* side, and srtpSessionConn of pkg/proxy/proxy.go): the demultiplexer     *)
(* between DTLS and media, their two queues, the pooled buffers, and the   *)
(* Close that must end all of it over a relay that takes no more bytes.    *)
(* Keys, framing and replay windows are left out.  A read that times out   *)
(* is SrtpDeadline's matter.  Nobody but the demultiplexer sets the        *)
(* relay's read deadline, so its spurious-timeout branch has no step.      *)
(***************************************************************************)
EXTENDS Integers, Sequences, FiniteSets

CONSTANTS
  WrapBufs,   \* the buffers of pktPool
  DtlsCap, RtpCap, \* capacities of dtlsCh and of rtpCh
  MaxArrivals \* bound: packets off the relay

ASSUME WrapAssumption ==
  /\ {DtlsCap, RtpCap} \subseteq Nat \ {0} /\ MaxArrivals \in Nat
  /\ "none" \notin WrapBufs  \* a demultiplexer that holds no buffer

VARIABLES
  pktPool,   \* per buffer: how often it lies in the pool
  demux,     \* the demultiplexer: where it is, its buffer and the packet's class
  dtlsCh, rtpCh, \* queues of buffers
  arrivals,  \* packets so far
  stage,     \* "handshake", "open", "failed"
  dtlsLoop,  \* pion still reads DTLS records
  rtpReader, rtpWriter, \* the session's pumps: "idle", "busy", "ended"
  demuxDone, \* the demultiplexer's context is cancelled
  relayWoken,\* the relay's read deadline is now
  relayDead, \* the relay takes no more bytes
  ctlBound,  \* the control socket's writes have a deadline
  closing    \* steps of Close taken, plus one; 0 before it

wrapVars == <<pktPool, demux, dtlsCh, rtpCh, arrivals, stage, dtlsLoop, rtpReader, rtpWriter,
              demuxDone, relayWoken, relayDead, ctlBound, closing>>

NoPkt == "none"
Reading == [at |-> "reads", buf |-> NoPkt, class |-> "other"]
DemuxOver == [at |-> "ended", buf |-> NoPkt, class |-> "other"]

fabric == <<pktPool, demux, dtlsCh, rtpCh, arrivals>>
wire == <<demuxDone, relayWoken, relayDead, ctlBound>>

WrapInit ==
  /\ pktPool = [b \in WrapBufs |-> 1]
  /\ demux = Reading /\ dtlsCh = << >> /\ rtpCh = << >> /\ arrivals = 0
  /\ stage = "handshake" /\ dtlsLoop = TRUE /\ rtpReader = "idle" /\ rtpWriter = "idle"
  /\ demuxDone = FALSE /\ relayWoken = FALSE /\ relayDead = FALSE /\ ctlBound = FALSE
  /\ closing = 0

PktPut(b) == pktPool' = [pktPool EXCEPT ![b] = @ + 1]

\* The order of srtpSessionConn.Close and, inside "closed" .. "unwind", of
\* wrappedConn.Close: the deadline of the control socket comes first.
BugCloseSteps == <<"closed", "notify", "bound", "unwind", "relay", "ctl">>
CloseSteps == <<"bound", "closed", "notify", "unwind", "relay", "ctl">>
CloseDid(step) == \E i \in 1 .. closing - 1 : CloseSteps[i] = step
CloseOver == closing = Len(CloseSteps) + 1

-----------------------------------------------------------------------------
\* runDemuxFromPacketConn: read, copy into a pooled buffer, classify by the
\* first byte; what is neither DTLS nor media goes back.
DemuxReads(b, class) ==
  /\ demux = Reading /\ ~CloseDid("relay") /\ arrivals < MaxArrivals
  /\ pktPool[b] > 0
  /\ arrivals' = arrivals + 1
  /\ IF class = "other"
       THEN UNCHANGED <<pktPool, demux>>
       ELSE /\ pktPool' = [pktPool EXCEPT ![b] = @ - 1]
            /\ demux' = [at |-> "puts", buf |-> b, class |-> class]
  /\ UNCHANGED <<dtlsCh, rtpCh, stage, dtlsLoop, rtpReader, rtpWriter, wire, closing>>

\* It waits for room in the queue of the class ...
DemuxPuts ==
  /\ demux.at = "puts" /\ demux' = Reading
  /\ \/ /\ demux.class = "dtls" /\ Len(dtlsCh) < DtlsCap
        /\ dtlsCh' = Append(dtlsCh, demux.buf) /\ UNCHANGED rtpCh
     \/ /\ demux.class = "rtp" /\ Len(rtpCh) < RtpCap
        /\ rtpCh' = Append(rtpCh, demux.buf) /\ UNCHANGED dtlsCh
  /\ UNCHANGED <<pktPool, arrivals, stage, dtlsLoop, rtpReader, rtpWriter, wire, closing>>

\* ... or for the cancel, which also ends the read, through the deadline.
DemuxEnds ==
  /\ demux' = DemuxOver
  /\ \/ demux.at = "puts" /\ demuxDone /\ PktPut(demux.buf)
     \/ demux.at = "reads" /\ demuxDone /\ (relayWoken \/ CloseDid("relay")) /\ UNCHANGED pktPool
  /\ UNCHANGED <<dtlsCh, rtpCh, arrivals, stage, dtlsLoop, rtpReader, rtpWriter, wire, closing>>

WakeRelay ==
  /\ demuxDone /\ ~relayWoken /\ relayWoken' = TRUE
  /\ UNCHANGED <<fabric, stage, dtlsLoop, rtpReader, rtpWriter, demuxDone, relayDead, ctlBound,
                 closing>>

\* packetConnAdapter.ReadFrom, for pion: it copies the record and leaves the
\* buffer to the garbage collector.
DtlsReads ==
  /\ dtlsLoop /\ dtlsCh # << >> /\ dtlsCh' = Tail(dtlsCh)
  /\ UNCHANGED <<pktPool, demux, rtpCh, arrivals, stage, dtlsLoop, rtpReader, rtpWriter, wire,
                 closing>>

-----------------------------------------------------------------------------
\* Client: the handshake works, or everything made for it is undone and
\* setupSRTPSession closes relay and control socket, without a deadline.
SrtpHandshakeWorks ==
  /\ stage = "handshake" /\ ~relayDead /\ stage' = "open"
  /\ UNCHANGED <<fabric, dtlsLoop, rtpReader, rtpWriter, wire, closing>>

SrtpHandshakeFails ==
  /\ stage = "handshake" /\ stage' = "failed"
  /\ dtlsLoop' = FALSE /\ demuxDone' = TRUE /\ closing' = 5
  /\ rtpReader' = "ended" /\ rtpWriter' = "ended"
  /\ UNCHANGED <<fabric, relayWoken, relayDead, ctlBound>>

\* The peer's close_notify ends pion's loop; media may still come.
DtlsEnds ==
  /\ stage = "open" /\ dtlsLoop /\ dtlsLoop' = FALSE
  /\ UNCHANGED <<fabric, stage, rtpReader, rtpWriter, wire, closing>>

RelayDies ==
  /\ ~relayDead /\ relayDead' = TRUE
  /\ UNCHANGED <<fabric, stage, dtlsLoop, rtpReader, rtpWriter, demuxDone, relayWoken, ctlBound,
                 closing>>

\* wrappedConn.Read: the buffer goes back whether or not the packet decrypts.
BugReadPuts(b, good) == IF good THEN PktPut(b) ELSE pktPool' = [pktPool EXCEPT ![b] = @ + 2]
ReadPuts(b, good) == PktPut(b)
ReadRtp(good) ==
  /\ stage = "open" /\ rtpReader = "idle" /\ rtpCh # << >>
  /\ ReadPuts(Head(rtpCh), good) /\ rtpCh' = Tail(rtpCh)
  /\ rtpReader' = IF good THEN "busy" ELSE "idle"
  /\ UNCHANGED <<demux, dtlsCh, arrivals, stage, dtlsLoop, rtpWriter, wire, closing>>

\* The packet reaches recvCh, or the session is cancelled meanwhile; a read
\* ends with the closed connection, or with a stale tunnel.
Delivered ==
  /\ rtpReader = "busy" /\ rtpReader' \in {"idle", "ended"}
  /\ rtpReader' = "ended" => closing > 0
  /\ UNCHANGED <<fabric, stage, dtlsLoop, rtpWriter, wire, closing>>

ReadEnds ==
  /\ stage = "open" /\ rtpReader = "idle" /\ rtpReader' = "ended"
  /\ UNCHANGED <<fabric, stage, dtlsLoop, rtpWriter, wire, closing>>

\* wrappedConn.Write: on a relay that takes no bytes it waits for the control
\* socket's deadline.
WriteReturns == ~relayDead \/ ctlBound
WriteRtp ==
  /\ stage = "open" /\ rtpWriter = "idle" /\ rtpWriter' = "busy"
  /\ UNCHANGED <<fabric, stage, dtlsLoop, rtpReader, wire, closing>>

WriteOver ==
  /\ rtpWriter = "busy" /\ WriteReturns
  /\ rtpWriter' \in {"idle", "ended"}
  /\ rtpWriter' = "idle" => ~relayDead /\ ~CloseDid("relay")
  /\ UNCHANGED <<fabric, stage, dtlsLoop, rtpReader, wire, closing>>

WriterCancelled ==
  /\ rtpWriter = "idle" /\ closing > 0 /\ rtpWriter' = "ended"
  /\ UNCHANGED <<fabric, stage, dtlsLoop, rtpReader, wire, closing>>

\* Close, on the cancel of the connection's context or after both pumps.
CloseBegins ==
  /\ stage = "open" /\ closing = 0 /\ closing' = 1
  /\ UNCHANGED <<fabric, stage, dtlsLoop, rtpReader, rtpWriter, wire>>

CloseStep ==
  /\ closing \in 1 .. Len(CloseSteps) /\ closing' = closing + 1
  /\ LET step == CloseSteps[closing] IN
       /\ step \in {"notify", "relay"} => WriteReturns
       /\ ctlBound' = (ctlBound \/ step = "bound")
       /\ dtlsLoop' = (dtlsLoop /\ step # "notify")
       /\ demuxDone' = (demuxDone \/ step = "unwind")
  /\ UNCHANGED <<fabric, stage, rtpReader, rtpWriter, relayWoken, relayDead>>

WrapNext ==
  \/ \E b \in WrapBufs, class \in {"dtls", "rtp", "other"} : DemuxReads(b, class)
  \/ SrtpHandshakeWorks \/ SrtpHandshakeFails \/ DtlsEnds \/ RelayDies \/ CloseBegins
  \/ \E good \in BOOLEAN : ReadRtp(good)
  \/ ReadEnds \/ WriteRtp
  \/ DemuxPuts \/ DemuxEnds \/ WakeRelay \/ DtlsReads \/ Delivered \/ CloseStep
  \/ WriteOver \/ WriterCancelled

-----------------------------------------------------------------------------
\* Types of the queues and the stages.
WrapTypeOK ==
  /\ pktPool \in [WrapBufs -> Nat] /\ closing \in 0 .. Len(CloseSteps) + 1
  /\ Len(dtlsCh) <= DtlsCap /\ Len(rtpCh) <= RtpCap
  /\ stage \in {"handshake", "open", "failed"}

\* pktPoolPut "once the slice is no longer needed": a buffer never lies twice
\* in the pool, nor in it and in use.
In(q, b) == Cardinality({i \in 1 .. Len(q) : q[i] = b})
WrapOwned ==
  \A b \in WrapBufs :
    pktPool[b] + In(dtlsCh, b) + In(rtpCh, b) + (IF demux.buf = b THEN 1 ELSE 0) <= 1

\* relayCloseWriteBudget: a Close returns, and with it both pumps and the
\* demultiplexer end, whatever the relay still takes.
SrtpCloseEnds ==
  stage = "open" /\ closing > 0
    ~> CloseOver /\ demux = DemuxOver /\ rtpReader = "ended" /\ rtpWriter = "ended"
=============================================================================
