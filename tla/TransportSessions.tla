-------------------------- MODULE TransportSessions --------------------------
(***************************************************************************)
(* The sessions of one connection and the TURN relays under them           *)
(* (pkg/proxy/proxy.go: runDTLSSession, runWrapASession, runSRTPSession,   *)
(* runTURN).  Under DTLS and WRAP-A the relay is a goroutine of its own    *)
(* that the session does not wait for: a relay of the session before may   *)
(* still be closing under the next one.  Under SRTP the session holds the  *)
(* relay itself.  ConnSessions has who starts and cancels sessions;        *)
(* PacketPath has what the two pumps of a session do with packets.         *)
(***************************************************************************)
EXTENDS Integers

CONSTANTS
  Kinds,       \* transports the configuration may name, of "dtls", "wrapa", "srtp"
  MaxSessions  \* bound: sessions of the connection

ASSUME TransportAssumption ==
  Kinds \subseteq {"dtls", "wrapa", "srtp"} /\ MaxSessions \in Nat \ {0}

VARIABLES
  kind,     \* the transport, for good
  sess,     \* the current session: number and where it is
  ctx,      \* per session: connCtx is not cancelled
  relay,    \* per session: its relay
  seats,    \* seats of the pool the connection holds
  marked,   \* per session: what the pool was told of its slot
  sampled,  \* session whose socket sockStats holds, 0 for none
  localIP,  \* session that set connLocalIPs, 0 for ""
  wasUp,    \* sessions that were established (history)
  killer    \* per session: who cancelled it first (history)

transportVars == <<kind, sess, ctx, relay, seats, marked, sampled, localIP, wasUp, killer>>

Sessions == 1 .. MaxSessions
Refusals == {"quota", "auth"}
FreshRelay == [at |-> "none", up |-> "run", down |-> "run", bounded |-> FALSE,
            err |-> "none", told |-> FALSE]
cur == sess.n
Separate == kind # "srtp"  \* the relay is a goroutine of its own

TransportInit ==
  /\ kind \in Kinds
  /\ sess = [n |-> 0, at |-> "none"]
  /\ ctx = [n \in Sessions |-> FALSE]
  /\ relay = [n \in Sessions |-> FreshRelay]
  /\ seats = 0 /\ marked = [n \in Sessions |-> "none"]
  /\ sampled = 0 /\ localIP = 0
  /\ wasUp = {} /\ killer = [n \in Sessions |-> "none"]

Cancelled(n, who) ==
  /\ ctx' = [ctx EXCEPT ![n] = FALSE]
  /\ killer' = [killer EXCEPT ![n] = IF ctx[n] THEN who ELSE @]

-----------------------------------------------------------------------------
\* The session takes a seat and starts its relay, or fails to get one.
StartSession ==
  /\ sess.at = "none" /\ cur < MaxSessions
  /\ sess' = [n |-> cur + 1, at |-> "handshake"]
  /\ ctx' = [ctx EXCEPT ![cur + 1] = TRUE]
  /\ seats' = seats + 1
  /\ relay' = [relay EXCEPT ![cur + 1].at = "dialing"]
  /\ UNCHANGED <<kind, marked, sampled, localIP, wasUp, killer>>

\* Pause, Stop, the zombie probe or a pump's own error.
CancelSession ==
  /\ sess.at # "none" /\ ctx[cur]
  /\ Cancelled(cur, "other")
  /\ UNCHANGED <<kind, sess, relay, seats, marked, sampled, localIP, wasUp>>

-----------------------------------------------------------------------------
\* runTURN; setupSRTPSession takes the first two steps in the session.
RelayAt(n, place) == relay[n].at = place
Fails(n, err) == relay' = [relay EXCEPT ![n].at = "failed", ![n].err = err]

RelayDials(n) ==
  /\ RelayAt(n, "dialing")
  /\ \/ /\ relay' = [relay EXCEPT ![n].at = "allocating"]
        /\ sampled' = n
     \/ Fails(n, "other") /\ UNCHANGED sampled
  /\ UNCHANGED <<kind, sess, ctx, seats, marked, localIP, wasUp, killer>>

\* Allocate knows nothing of the context.
RelayAllocates(n) ==
  /\ RelayAt(n, "allocating")
  /\ \/ /\ relay' = [relay EXCEPT ![n].at = "forwarding"]
        /\ localIP' = IF Separate THEN n ELSE localIP
     \/ \E err \in Refusals \cup {"other"} : Fails(n, err) /\ UNCHANGED localIP
  /\ UNCHANGED <<kind, sess, ctx, seats, marked, sampled, wasUp, killer>>

\* The forwarders (SRTP: the pumps): toward the relay one may sit in a write
\* that a dead socket never takes; either may fail.
Forwarding(n) == RelayAt(n, "forwarding") /\ (Separate \/ sess.at = "up")
ForwarderSticks(n) ==
  /\ Forwarding(n) /\ relay[n].up = "run" /\ ~relay[n].bounded
  /\ relay' = [relay EXCEPT ![n].up = "stuck"]
  /\ UNCHANGED <<kind, sess, ctx, seats, marked, sampled, localIP, wasUp, killer>>

ForwarderFails(n) ==
  /\ Forwarding(n)
  /\ \/ relay[n].up = "run" /\ relay' = [relay EXCEPT ![n].up = "done"]
     \/ relay[n].down = "run" /\ relay' = [relay EXCEPT ![n].down = "done"]
  /\ IF Separate THEN UNCHANGED <<ctx, killer>> ELSE Cancelled(n, "other")
  /\ UNCHANGED <<kind, sess, seats, marked, sampled, localIP, wasUp>>

\* The callback of the cancelled context: deadlines for the reads, and one for
\* every write on the control socket itself.
TurnCtxDead(n) == ~ctx[n] \/ relay[n].up = "done" \/ relay[n].down = "done"
CancelBounds(n) ==
  /\ Forwarding(n) /\ TurnCtxDead(n) /\ ~relay[n].bounded
  /\ relay' = [relay EXCEPT ![n].bounded = TRUE]
  /\ UNCHANGED <<kind, sess, ctx, seats, marked, sampled, localIP, wasUp, killer>>

BugReached == {"run"}  \* the deadlines reach reads only
Reached == {"run", "stuck"}
ForwarderEnds(n) ==
  /\ Forwarding(n) /\ relay[n].bounded
  /\ \/ relay[n].up \in Reached /\ relay' = [relay EXCEPT ![n].up = "done"]
     \/ relay[n].down = "run" /\ relay' = [relay EXCEPT ![n].down = "done"]
  /\ UNCHANGED <<kind, sess, ctx, seats, marked, sampled, localIP, wasUp, killer>>

BothDone(n) == relay[n].up = "done" /\ relay[n].down = "done"

\* runTURN returns: its defers clear what stands under the connection's index,
\* whoever put it there.
RelayReturns(n) ==
  /\ Separate
  /\ RelayAt(n, "failed") \/ (RelayAt(n, "forwarding") /\ BothDone(n))
  /\ localIP' = IF RelayAt(n, "forwarding") THEN 0 ELSE localIP
  /\ sampled' = 0
  /\ relay' = [relay EXCEPT ![n].at = "returned"]
  /\ UNCHANGED <<kind, sess, ctx, seats, marked, wasUp, killer>>

\* spawnTURN: the error into the channel, then the cancel.
RelayReports(n) ==
  /\ relay[n].at \in {"returned", "gone"} /\ ~relay[n].told /\ Separate
  /\ relay' = [relay EXCEPT ![n].told = TRUE]
  /\ UNCHANGED <<kind, sess, ctx, seats, marked, sampled, localIP, wasUp, killer>>
BugRelayCancels(n) ==  \* without waiting for the report
  /\ RelayAt(n, "returned")
  /\ relay' = [relay EXCEPT ![n].at = "gone"]
  /\ Cancelled(n, "relay")
  /\ UNCHANGED <<kind, sess, seats, marked, sampled, localIP, wasUp>>
RelayCancels(n) ==
  /\ RelayAt(n, "returned") /\ relay[n].told
  /\ relay' = [relay EXCEPT ![n].at = "gone"]
  /\ Cancelled(n, "relay")
  /\ UNCHANGED <<kind, sess, seats, marked, sampled, localIP, wasUp>>

-----------------------------------------------------------------------------
\* dialDTLS and what follows it, up to the pumps: the Client-ID of WRAP-S, the
\* GETCONF of WRAP-A.
Established ==
  /\ sess.at = (IF kind = "wrapa" THEN "getconf" ELSE "handshake")
  /\ ctx[cur] /\ RelayAt(cur, "forwarding")
  /\ sess' = [sess EXCEPT !.at = "up"]
  /\ wasUp' = wasUp \cup {cur}
  /\ UNCHANGED <<kind, ctx, relay, seats, marked, sampled, localIP, killer>>

HandshakeDone ==
  /\ kind = "wrapa" /\ sess.at = "handshake" /\ ctx[cur] /\ RelayAt(cur, "forwarding")
  /\ sess' = [sess EXCEPT !.at = "getconf"]
  /\ UNCHANGED <<kind, ctx, relay, seats, marked, sampled, localIP, wasUp, killer>>

\* GETCONF or the Client-ID fails.
FirstMessageFails ==
  /\ \/ sess.at = "getconf"
     \/ kind = "dtls" /\ sess.at = "handshake" /\ ctx[cur] /\ RelayAt(cur, "forwarding")
  /\ sess' = [sess EXCEPT !.at = "closing"]
  /\ UNCHANGED <<kind, ctx, relay, seats, marked, sampled, localIP, wasUp, killer>>

\* The handshake fails, cancelled or by itself.  If the relay has reported,
\* its refusal is charged to the slot.
Charge(n) == IF relay[n].err \in Refusals THEN relay[n].err ELSE "none"
HandshakeFails ==
  /\ Separate /\ sess.at = "handshake"
  /\ sess' = [sess EXCEPT !.at = "closing"]
  /\ Cancelled(cur, "other")
  /\ marked' = [marked EXCEPT ![cur] = IF relay[cur].told THEN Charge(cur) ELSE @]
  /\ UNCHANGED <<kind, relay, seats, sampled, localIP, wasUp>>

\* setupSRTPSession fails, at any of its steps; it closes what it opened, and
\* leaves the socket with the sampler.
SetupFails ==
  /\ ~Separate /\ sess.at = "handshake"
  /\ relay[cur].at \in {"failed", "forwarding"}
  /\ sess' = [sess EXCEPT !.at = "closing"]
  /\ marked' = [marked EXCEPT ![cur] = Charge(cur)]
  /\ relay' = [relay EXCEPT ![cur].at = "gone"]
  /\ UNCHANGED <<kind, ctx, seats, sampled, localIP, wasUp, killer>>

\* The pumps of an established session end when its context does.
PumpsEnd ==
  /\ sess.at = "up" /\ ~ctx[cur]
  /\ IF Separate THEN UNCHANGED <<relay, sampled>>
     ELSE /\ BothDone(cur)
          /\ relay' = [relay EXCEPT ![cur].at = "gone"]
          /\ sampled' = 0
  /\ sess' = [sess EXCEPT !.at = "closing"]
  /\ UNCHANGED <<kind, ctx, seats, marked, localIP, wasUp, killer>>

\* The defers: the seat goes back, the context is cancelled.
SessionReturns ==
  /\ sess.at = "closing"
  /\ sess' = [sess EXCEPT !.at = "none"]
  /\ seats' = seats - 1
  /\ Cancelled(cur, "other")
  /\ UNCHANGED <<kind, relay, marked, sampled, localIP, wasUp>>

RelaySteps(n) ==
  \/ RelayDials(n) \/ RelayAllocates(n) \/ CancelBounds(n) \/ ForwarderEnds(n)
  \/ RelayReturns(n) \/ RelayReports(n) \/ RelayCancels(n)
SessionSteps ==
  \/ HandshakeFails \/ SetupFails \/ FirstMessageFails \/ PumpsEnd \/ SessionReturns

TransportNext ==
  \/ StartSession \/ CancelSession \/ Established \/ HandshakeDone \/ SessionSteps
  \/ \E n \in Sessions : RelaySteps(n) \/ ForwarderSticks(n) \/ ForwarderFails(n)

\* Every goroutine runs; the dial, the allocation and the handshake have
\* timeouts of their own.
TransportFairness ==
  /\ \A n \in Sessions : WF_transportVars(RelaySteps(n))
  /\ WF_transportVars(SessionSteps)

TransportSpec == TransportInit /\ [][TransportNext]_transportVars /\ TransportFairness

-----------------------------------------------------------------------------
\* Types; a seat is held exactly while a session runs.
TransportTypeOK ==
  /\ sess.n \in 0 .. MaxSessions
  /\ sess.at \in {"none", "handshake", "getconf", "up", "closing"}
  /\ seats = (IF sess.at = "none" THEN 0 ELSE 1)
  /\ sampled \in 0 .. MaxSessions /\ localIP \in 0 .. MaxSessions
  /\ \A n \in Sessions : marked[n] \in Refusals \cup {"none"}

\* proxy.go, runDTLSSession: "Without this, a quota error during the first
\* allocation on this conn would surface as a generic DTLS failed": if VK's
\* refusal is what ended a session before it was established, the pool was told
\* of the very slot.
RefusalCharged ==
  \A n \in Sessions :
    /\ relay[n].err \in Refusals /\ n \notin wasUp
    /\ ~Separate \/ killer[n] = "relay"
    /\ ~(sess.n = n /\ sess.at # "none")
    => marked[n] = relay[n].err

\* proxy.go, relayCloseWriteBudget: "a bounded stop": a cancelled session's
\* relay ends, though its forwarder sits in a write nobody will take.
CancelledRelayEnds ==
  \A n \in Sessions : killer[n] # "none" ~> relay[n].at = "gone"

-----------------------------------------------------------------------------
(* What the comments promise and the code does not keep *)

\* proxy.go, runTURN: "Cleared on this conn's runTURN exit ... so pathstats only
\* counts currently-allocated conns": an allocated session is counted.
\* It fails: an old relay that is slow to leave clears what the new session's
\* relay has stored under the same connection.
AllocatedCounted ==
  sess.at = "up" /\ ctx[cur] /\ RelayAt(cur, "forwarding") /\ Separate => localIP = cur
=============================================================================
