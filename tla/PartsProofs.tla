---------------------------- MODULE PartsProofs ----------------------------
(***************************************************************************)
(* Proofs about MCParts, for any constants: that a refusal of a session is *)
(* charged to its slot (RefusalCharged of TransportSessions), that         *)
(* deadlines and pauses fit (ReadDeadlineHolds of SrtpDeadline, PauseFits  *)
(* of PathCascade), and that no buffer and no relay has two owners         *)
(* (BuffersIntact of PacketPath, WrapOwned of SrtpWrap, SlotsApart of      *)
(* CookieRelays).  The parts share no state: a step of the whole is a step *)
(* or a stutter of each (PartsSteps), and each part has an inductive       *)
(* invariant of its own.                                                   *)
(***************************************************************************)
EXTENDS MCParts, FiniteSetTheorems, TLAPS

partsVars == <<part, paceVars, rxVars, cookieVars, cascadeVars, packetVars, transportVars,
               wrapVars, deadlineVars>>

LEMMA PartsSteps ==
  ASSUME [PartsNext]_partsVars
  PROVE  /\ [PaceNext]_paceVars /\ [RxNext]_rxVars /\ [CookieNext]_cookieVars
         /\ [CascadeNext]_cascadeVars /\ [PacketNext]_packetVars
         /\ [TransportNext]_transportVars /\ [WrapNext]_wrapVars /\ [DlNext]_deadlineVars
<1> USE DEF partsVars, Only
<1>1. CASE UNCHANGED partsVars
  BY <1>1
<1>2. CASE PartsNext
  BY <1>2 DEF PartsNext
<1>3. QED
  BY <1>1, <1>2

-----------------------------------------------------------------------------
(* Sessions of one connection: a refusal reaches the pool                  *)

Places == {"none", "handshake", "getconf", "up", "closing"}
RelayPlaces == {"none", "dialing", "allocating", "forwarding", "failed", "returned", "gone"}
PumpStates == {"run", "stuck", "done"}
Relay == [at : RelayPlaces, up : PumpStates, down : PumpStates, bounded : BOOLEAN,
          err : Refusals \cup {"none", "other"}, told : BOOLEAN]

\* Session n has left its handshake behind and is not up either.
Left(n) == n < cur \/ (n = cur /\ sess.at \in {"closing", "none"})
Refused(n) == relay[n].err \in Refusals

SessTypes ==
  /\ kind \in {"dtls", "wrapa", "srtp"}
  /\ sess \in [n : 0 .. MaxSessions, at : Places]
  /\ ctx \in [Sessions -> BOOLEAN] /\ relay \in [Sessions -> Relay]
  /\ marked \in [Sessions -> Refusals \cup {"none"}]
  /\ killer \in [Sessions -> {"none", "other", "relay"}]
\* A session that has not begun has left no trace.
LaterFresh ==
  \A n \in Sessions :
    n > cur => relay[n].at = "none" /\ relay[n].err = "none" /\ ~ctx[n] /\ killer[n] = "none"
\* An allocation that was refused is never used ...
RefusedUnused ==
  \A n \in Sessions : Refused(n) => relay[n].at \in {"failed", "returned", "gone"}
\* ... and a session that went on had one.
BeyondAllocated ==
  \A n \in Sessions :
    (n = cur /\ sess.at \in {"getconf", "up"}) \/ n \in wasUp
      => relay[n].at \notin {"none", "dialing", "allocating"} /\ ~Refused(n)
UpCounted == /\ sess.at # "none" => cur \in Sessions
             /\ sess.at = "up" => cur \in wasUp
             /\ sess.at = "getconf" => kind = "wrapa"
\* The relay that cancels has reported.
KillerTold ==
  \A n \in Sessions : killer[n] = "relay" => relay[n].at = "gone" /\ relay[n].told /\ ~ctx[n]
\* Where a session that never was up has ended: its context is cancelled or its
\* relay was allocated, and a relay that cancelled it has been heard.
LeftCharged ==
  \A n \in Sessions :
    Left(n) =>
      IF Separate
        THEN /\ ctx[n] => relay[n].at \notin {"none", "dialing", "allocating"} /\ ~Refused(n)
             /\ Refused(n) /\ n \notin wasUp /\ killer[n] = "relay" => marked[n] = relay[n].err
        ELSE /\ relay[n].at = "gone"
             /\ Refused(n) /\ n \notin wasUp => marked[n] = relay[n].err
RefusalInv ==
  /\ SessTypes /\ LaterFresh /\ RefusedUnused /\ BeyondAllocated /\ UpCounted /\ KillerTold
  /\ LeftCharged

\* What a step does to one relay, as far as the invariant looks.
Moved(n, place, err, heard) ==
  /\ relay' \in [Sessions -> Relay]
  /\ relay'[n].at = place /\ relay'[n].err = err /\ (relay'[n].told <=> heard)
  /\ \A m \in Sessions \ {n} : relay'[m] = relay[m]

LEMMA RelayPlaced ==
  ASSUME relay \in [Sessions -> Relay], NEW n \in Sessions, NEW place \in RelayPlaces,
         relay' = [relay EXCEPT ![n].at = place]
  PROVE  Moved(n, place, relay[n].err, relay[n].told)
<1>1. [relay[n] EXCEPT !.at = place] \in Relay
  BY DEF Relay
<1>2. relay' = [relay EXCEPT ![n] = [relay[n] EXCEPT !.at = place]]
  OBVIOUS
<1>3. QED
  BY <1>1, <1>2 DEF Moved, Relay

LEMMA RelayFailed ==
  ASSUME relay \in [Sessions -> Relay], NEW n \in Sessions,
         NEW err \in Refusals \cup {"other"}, Fails(n, err)
  PROVE  Moved(n, "failed", err, relay[n].told)
<1>1. [relay[n] EXCEPT !.at = "failed", !.err = err] \in Relay
  BY DEF Relay, RelayPlaces
<1>2. relay' = [relay EXCEPT ![n] = [relay[n] EXCEPT !.at = "failed", !.err = err]]
  BY DEF Fails
<1>3. QED
  BY <1>1, <1>2 DEF Moved, Relay

LEMMA RelayHeard ==
  ASSUME relay \in [Sessions -> Relay], NEW n \in Sessions,
         relay' = [relay EXCEPT ![n].told = TRUE]
  PROVE  Moved(n, relay[n].at, relay[n].err, TRUE)
<1>1. [relay[n] EXCEPT !.told = TRUE] \in Relay
  BY DEF Relay
<1>2. relay' = [relay EXCEPT ![n] = [relay[n] EXCEPT !.told = TRUE]]
  OBVIOUS
<1>3. QED
  BY <1>1, <1>2 DEF Moved, Relay

LEMMA RelayPumped ==
  ASSUME relay \in [Sessions -> Relay], NEW n \in Sessions, NEW state \in PumpStates,
         \/ relay' = [relay EXCEPT ![n].up = state]
         \/ relay' = [relay EXCEPT ![n].down = state]
         \/ relay' = [relay EXCEPT ![n].bounded = TRUE]
  PROVE  Moved(n, relay[n].at, relay[n].err, relay[n].told)
<1>1. /\ [relay[n] EXCEPT !.up = state] \in Relay
      /\ [relay[n] EXCEPT !.down = state] \in Relay
      /\ [relay[n] EXCEPT !.bounded = TRUE] \in Relay
  BY DEF Relay, PumpStates
<1>2. CASE relay' = [relay EXCEPT ![n].up = state]
  <2>1. relay' = [relay EXCEPT ![n] = [relay[n] EXCEPT !.up = state]]
    BY <1>2
  <2>2. QED
    BY <1>1, <2>1 DEF Moved, Relay
<1>3. CASE relay' = [relay EXCEPT ![n].down = state]
  <2>1. relay' = [relay EXCEPT ![n] = [relay[n] EXCEPT !.down = state]]
    BY <1>3
  <2>2. QED
    BY <1>1, <2>1 DEF Moved, Relay
<1>4. CASE relay' = [relay EXCEPT ![n].bounded = TRUE]
  <2>1. relay' = [relay EXCEPT ![n] = [relay[n] EXCEPT !.bounded = TRUE]]
    BY <1>4
  <2>2. QED
    BY <1>1, <2>1 DEF Moved, Relay
<1>5. QED
  BY <1>2, <1>3, <1>4

LEMMA RefusalInit == TransportInit /\ TransportAssumption => RefusalInv
<1> SUFFICES ASSUME TransportInit, TransportAssumption
             PROVE  RefusalInv
  OBVIOUS
<1> USE DEF TransportInit, TransportAssumption, Sessions
<1>1. FreshRelay \in Relay
  BY DEF FreshRelay, Relay, RelayPlaces, PumpStates
<1>2. relay \in [Sessions -> Relay]
  BY <1>1
<1>3. \A n \in Sessions : relay[n].at = "none" /\ relay[n].err = "none"
  BY DEF FreshRelay
<1>4. QED
  BY <1>2, <1>3 DEF RefusalInv, SessTypes, LaterFresh, RefusedUnused, BeyondAllocated, UpCounted,
     KillerTold, LeftCharged, Left, Refused, Refusals, Places, cur

LEMMA RefusalNext ==
  ASSUME TransportAssumption, RefusalInv, [TransportNext]_transportVars
  PROVE  RefusalInv'
<1> USE DEF TransportAssumption, RefusalInv, cur, Refusals, Sessions, Separate, Refused, Left
<1> relay \in [Sessions -> Relay]
  BY DEF SessTypes
<1>1. CASE CancelSession
  <2>1. SessTypes'
    BY <1>1 DEF SessTypes, Places, CancelSession, Cancelled
  <2>2. LaterFresh'
    BY <1>1 DEF SessTypes, LaterFresh, KillerTold, CancelSession, Cancelled
  <2>3. RefusedUnused'
    BY <1>1 DEF SessTypes, RefusedUnused, LaterFresh, CancelSession, Cancelled
  <2>4. BeyondAllocated'
    BY <1>1 DEF SessTypes, BeyondAllocated, UpCounted, RefusedUnused, LaterFresh, CancelSession,
       Cancelled
  <2>5. UpCounted'
    BY <1>1 DEF SessTypes, UpCounted, CancelSession, Cancelled
  <2>6. KillerTold'
    BY <1>1 DEF SessTypes, KillerTold, LaterFresh, CancelSession, Cancelled
  <2>7. LeftCharged'
    BY <1>1 DEF SessTypes, LaterFresh, RefusedUnused, BeyondAllocated, UpCounted, KillerTold,
       LeftCharged, CancelSession, Cancelled
  <2>8. QED
    BY <2>1, <2>2, <2>3, <2>4, <2>5, <2>6, <2>7
<1>2. CASE Established
  <2>1. SessTypes'
    BY <1>2 DEF SessTypes, Places, Established, RelayAt
  <2>2. LaterFresh'
    BY <1>2 DEF SessTypes, LaterFresh, KillerTold, Established, RelayAt
  <2>3. RefusedUnused'
    BY <1>2 DEF SessTypes, RefusedUnused, LaterFresh, Established, RelayAt
  <2>4. BeyondAllocated'
    BY <1>2 DEF SessTypes, BeyondAllocated, UpCounted, RefusedUnused, LaterFresh, Established,
       RelayAt
  <2>5. UpCounted'
    BY <1>2 DEF SessTypes, UpCounted, Established, RelayAt
  <2>6. KillerTold'
    BY <1>2 DEF SessTypes, KillerTold, LaterFresh, Established, RelayAt
  <2>7. LeftCharged'
    BY <1>2 DEF SessTypes, LaterFresh, RefusedUnused, BeyondAllocated, UpCounted, KillerTold,
       LeftCharged, Established, RelayAt
  <2>8. QED
    BY <2>1, <2>2, <2>3, <2>4, <2>5, <2>6, <2>7
<1>3. CASE HandshakeDone
  <2>1. SessTypes'
    BY <1>3 DEF SessTypes, Places, HandshakeDone, RelayAt
  <2>2. LaterFresh'
    BY <1>3 DEF SessTypes, LaterFresh, KillerTold, HandshakeDone, RelayAt
  <2>3. RefusedUnused'
    BY <1>3 DEF SessTypes, RefusedUnused, LaterFresh, HandshakeDone, RelayAt
  <2>4. BeyondAllocated'
    BY <1>3 DEF SessTypes, BeyondAllocated, UpCounted, RefusedUnused, LaterFresh, HandshakeDone,
       RelayAt
  <2>5. UpCounted'
    BY <1>3 DEF SessTypes, UpCounted, HandshakeDone, RelayAt
  <2>6. KillerTold'
    BY <1>3 DEF SessTypes, KillerTold, LaterFresh, HandshakeDone, RelayAt
  <2>7. LeftCharged'
    BY <1>3 DEF SessTypes, LaterFresh, RefusedUnused, BeyondAllocated, UpCounted, KillerTold,
       LeftCharged, HandshakeDone, RelayAt
  <2>8. QED
    BY <2>1, <2>2, <2>3, <2>4, <2>5, <2>6, <2>7
<1>4. CASE FirstMessageFails
  <2>1. SessTypes'
    BY <1>4 DEF SessTypes, Places, FirstMessageFails, RelayAt
  <2>2. LaterFresh'
    BY <1>4 DEF SessTypes, LaterFresh, KillerTold, FirstMessageFails, RelayAt
  <2>3. RefusedUnused'
    BY <1>4 DEF SessTypes, RefusedUnused, LaterFresh, FirstMessageFails, RelayAt
  <2>4. BeyondAllocated'
    BY <1>4 DEF SessTypes, BeyondAllocated, UpCounted, RefusedUnused, LaterFresh,
       FirstMessageFails, RelayAt
  <2>5. UpCounted'
    BY <1>4 DEF SessTypes, UpCounted, FirstMessageFails, RelayAt
  <2>6. KillerTold'
    BY <1>4 DEF SessTypes, KillerTold, LaterFresh, FirstMessageFails, RelayAt
  <2>7. LeftCharged'
    BY <1>4 DEF SessTypes, LaterFresh, RefusedUnused, BeyondAllocated, UpCounted, KillerTold,
       LeftCharged, FirstMessageFails, RelayAt
  <2>8. QED
    BY <2>1, <2>2, <2>3, <2>4, <2>5, <2>6, <2>7
<1>5. CASE HandshakeFails
  <2>1. SessTypes'
    BY <1>5 DEF SessTypes, Places, HandshakeFails, Cancelled, Charge
  <2>2. LaterFresh'
    BY <1>5 DEF SessTypes, LaterFresh, KillerTold, HandshakeFails, Cancelled, Charge
  <2>3. RefusedUnused'
    BY <1>5 DEF SessTypes, RefusedUnused, LaterFresh, HandshakeFails, Cancelled, Charge
  <2>4. BeyondAllocated'
    BY <1>5 DEF SessTypes, BeyondAllocated, UpCounted, RefusedUnused, LaterFresh, HandshakeFails,
       Cancelled, Charge
  <2>5. UpCounted'
    BY <1>5 DEF SessTypes, UpCounted, HandshakeFails, Cancelled, Charge
  <2>6. KillerTold'
    BY <1>5 DEF SessTypes, KillerTold, LaterFresh, HandshakeFails, Cancelled, Charge
  <2>7. LeftCharged'
    BY <1>5 DEF SessTypes, LaterFresh, RefusedUnused, BeyondAllocated, UpCounted, KillerTold,
       LeftCharged, HandshakeFails, Cancelled, Charge
  <2>8. QED
    BY <2>1, <2>2, <2>3, <2>4, <2>5, <2>6, <2>7
<1>6. CASE SessionReturns
  <2>1. SessTypes'
    BY <1>6 DEF SessTypes, Places, SessionReturns, Cancelled
  <2>2. LaterFresh'
    BY <1>6 DEF SessTypes, LaterFresh, KillerTold, SessionReturns, Cancelled
  <2>3. RefusedUnused'
    BY <1>6 DEF SessTypes, RefusedUnused, LaterFresh, SessionReturns, Cancelled
  <2>4. BeyondAllocated'
    BY <1>6 DEF SessTypes, BeyondAllocated, UpCounted, RefusedUnused, LaterFresh, SessionReturns,
       Cancelled
  <2>5. UpCounted'
    BY <1>6 DEF SessTypes, UpCounted, SessionReturns, Cancelled
  <2>6. KillerTold'
    BY <1>6 DEF SessTypes, KillerTold, LaterFresh, SessionReturns, Cancelled
  <2>7. LeftCharged'
    BY <1>6 DEF SessTypes, LaterFresh, RefusedUnused, BeyondAllocated, UpCounted, KillerTold,
       LeftCharged, SessionReturns, Cancelled
  <2>8. QED
    BY <2>1, <2>2, <2>3, <2>4, <2>5, <2>6, <2>7
<1>7. CASE StartSession
  <2>1. cur + 1 \in Sessions /\ cur \in Nat
    BY <1>7 DEF StartSession, SessTypes
  <2>2. Moved(cur + 1, "dialing", relay[cur + 1].err, relay[cur + 1].told)
    BY <1>7, <2>1, RelayPlaced DEF StartSession, RelayPlaces
  <2>3. /\ sess.at = "none" /\ sess' = [n |-> cur + 1, at |-> "handshake"]
       /\ ctx' = [ctx EXCEPT ![cur + 1] = TRUE]
       /\ UNCHANGED <<kind, marked, wasUp, killer>>
    BY <1>7 DEF StartSession
  <2>4. SessTypes'
    BY <2>1, <2>2, <2>3 DEF SessTypes, Places, Moved
  <2>5. LaterFresh'
    BY <2>1, <2>2, <2>3 DEF SessTypes, LaterFresh, KillerTold, Moved
  <2>6. RefusedUnused'
    BY <2>1, <2>2, <2>3 DEF SessTypes, RefusedUnused, LaterFresh, Moved
  <2>7. BeyondAllocated'
    BY <2>1, <2>2, <2>3 DEF SessTypes, BeyondAllocated, UpCounted, RefusedUnused, LaterFresh,
       Moved
  <2>8. UpCounted'
    BY <2>1, <2>2, <2>3 DEF SessTypes, UpCounted, Moved
  <2>9. KillerTold'
    BY <2>1, <2>2, <2>3 DEF SessTypes, KillerTold, LaterFresh, Moved
  <2>10. LeftCharged'
    BY <2>1, <2>2, <2>3 DEF SessTypes, LaterFresh, RefusedUnused, BeyondAllocated, UpCounted,
       KillerTold, LeftCharged, Moved
  <2>11. QED
    BY <2>4, <2>5, <2>6, <2>7, <2>8, <2>9, <2>10
<1>8. CASE SetupFails
  <2>1. cur \in Sessions
    BY <1>8 DEF SetupFails, UpCounted
  <2>2. Moved(cur, "gone", relay[cur].err, relay[cur].told)
    BY <1>8, <2>1, RelayPlaced DEF SetupFails, RelayPlaces
  <2>3. /\ ~Separate /\ sess.at = "handshake" /\ relay[cur].at \in {"failed", "forwarding"}
       /\ sess' = [sess EXCEPT !.at = "closing"]
       /\ marked' = [marked EXCEPT ![cur] = Charge(cur)]
       /\ UNCHANGED <<kind, ctx, wasUp, killer>>
    BY <1>8 DEF SetupFails
  <2>4. SessTypes'
    BY <2>1, <2>2, <2>3 DEF SessTypes, Places, Moved, Charge
  <2>5. LaterFresh'
    BY <2>1, <2>2, <2>3 DEF SessTypes, LaterFresh, KillerTold, Moved, Charge
  <2>6. RefusedUnused'
    BY <2>1, <2>2, <2>3 DEF SessTypes, RefusedUnused, LaterFresh, Moved, Charge
  <2>7. BeyondAllocated'
    BY <2>1, <2>2, <2>3 DEF SessTypes, BeyondAllocated, UpCounted, RefusedUnused, LaterFresh,
       Moved, Charge
  <2>8. UpCounted'
    BY <2>1, <2>2, <2>3 DEF SessTypes, UpCounted, Moved, Charge
  <2>9. KillerTold'
    BY <2>1, <2>2, <2>3 DEF SessTypes, KillerTold, LaterFresh, Moved, Charge
  <2>10. LeftCharged'
    BY <2>1, <2>2, <2>3 DEF SessTypes, LaterFresh, RefusedUnused, BeyondAllocated, UpCounted,
       KillerTold, LeftCharged, Moved, Charge
  <2>11. QED
    BY <2>4, <2>5, <2>6, <2>7, <2>8, <2>9, <2>10
<1>9. CASE PumpsEnd /\ Separate
  <2>1. SessTypes'
    BY <1>9 DEF SessTypes, Places, PumpsEnd
  <2>2. LaterFresh'
    BY <1>9 DEF SessTypes, LaterFresh, KillerTold, PumpsEnd
  <2>3. RefusedUnused'
    BY <1>9 DEF SessTypes, RefusedUnused, LaterFresh, PumpsEnd
  <2>4. BeyondAllocated'
    BY <1>9 DEF SessTypes, BeyondAllocated, UpCounted, RefusedUnused, LaterFresh, PumpsEnd
  <2>5. UpCounted'
    BY <1>9 DEF SessTypes, UpCounted, PumpsEnd
  <2>6. KillerTold'
    BY <1>9 DEF SessTypes, KillerTold, LaterFresh, PumpsEnd
  <2>7. LeftCharged'
    BY <1>9 DEF SessTypes, LaterFresh, RefusedUnused, BeyondAllocated, UpCounted, KillerTold,
       LeftCharged, PumpsEnd
  <2>8. QED
    BY <2>1, <2>2, <2>3, <2>4, <2>5, <2>6, <2>7
<1>10. CASE PumpsEnd /\ ~Separate
  <2>1. cur \in Sessions
    BY <1>10 DEF PumpsEnd, UpCounted
  <2>2. Moved(cur, "gone", relay[cur].err, relay[cur].told)
    BY <1>10, <2>1, RelayPlaced DEF PumpsEnd, RelayPlaces
  <2>3. /\ sess.at = "up" /\ ~ctx[cur] /\ ~Separate /\ sess' = [sess EXCEPT !.at = "closing"]
       /\ UNCHANGED <<kind, ctx, marked, wasUp, killer>>
    BY <1>10 DEF PumpsEnd
  <2>4. SessTypes'
    BY <2>1, <2>2, <2>3 DEF SessTypes, Places, Moved
  <2>5. LaterFresh'
    <3>1. cur' = cur /\ cur \in Nat
      BY <2>3 DEF SessTypes
    <3>2. \A m \in Sessions : m > cur => m # cur /\ relay'[m] = relay[m]
      BY <2>1, <2>2, <3>1 DEF Moved
    <3>3. QED
      BY <2>3, <3>1, <3>2 DEF LaterFresh
  <2>6. RefusedUnused'
    BY <2>1, <2>2, <2>3 DEF SessTypes, RefusedUnused, LaterFresh, Moved
  <2>7. BeyondAllocated'
    BY <2>1, <2>2, <2>3 DEF SessTypes, BeyondAllocated, UpCounted, RefusedUnused, LaterFresh,
       Moved
  <2>8. UpCounted'
    BY <2>1, <2>2, <2>3 DEF SessTypes, UpCounted, Moved
  <2>9. KillerTold'
    BY <2>1, <2>2, <2>3 DEF SessTypes, KillerTold, LaterFresh, Moved
  <2>10. LeftCharged'
    BY <2>1, <2>2, <2>3 DEF SessTypes, LaterFresh, RefusedUnused, BeyondAllocated, UpCounted,
       KillerTold, LeftCharged, Moved
  <2>11. QED
    BY <2>4, <2>5, <2>6, <2>7, <2>8, <2>9, <2>10
<1>11. ASSUME NEW n \in Sessions, RelayDials(n)
      PROVE  RefusalInv'
  <2>1. \/ Moved(n, "allocating", relay[n].err, relay[n].told)
       \/ Moved(n, "failed", "other", relay[n].told)
    BY <1>11, RelayPlaced, RelayFailed DEF RelayDials, RelayPlaces
  <2>2. RelayAt(n, "dialing") /\ UNCHANGED <<kind, sess, ctx, marked, wasUp, killer>>
    BY <1>11 DEF RelayDials
  <2>3. SessTypes'
    BY <2>1, <2>2 DEF SessTypes, Places, Moved, RelayAt
  <2>4. LaterFresh'
    BY <2>1, <2>2 DEF SessTypes, LaterFresh, KillerTold, Moved, RelayAt
  <2>5. RefusedUnused'
    BY <2>1, <2>2 DEF SessTypes, RefusedUnused, LaterFresh, Moved, RelayAt
  <2>6. BeyondAllocated'
    BY <2>1, <2>2 DEF SessTypes, BeyondAllocated, UpCounted, RefusedUnused, LaterFresh, Moved,
       RelayAt
  <2>7. UpCounted'
    BY <2>1, <2>2 DEF SessTypes, UpCounted, Moved, RelayAt
  <2>8. KillerTold'
    BY <2>1, <2>2 DEF SessTypes, KillerTold, LaterFresh, Moved, RelayAt
  <2>9. LeftCharged'
    BY <2>1, <2>2 DEF SessTypes, LaterFresh, RefusedUnused, BeyondAllocated, UpCounted,
       KillerTold, LeftCharged, Moved, RelayAt
  <2>10. QED
    BY <2>3, <2>4, <2>5, <2>6, <2>7, <2>8, <2>9
<1>12. ASSUME NEW n \in Sessions, RelayAllocates(n)
      PROVE  RefusalInv'
  <2>1. \/ Moved(n, "forwarding", relay[n].err, relay[n].told)
       \/ \E err \in Refusals \cup {"other"} : Moved(n, "failed", err, relay[n].told)
    BY <1>12, RelayPlaced, RelayFailed DEF RelayAllocates, RelayPlaces
  <2>2. RelayAt(n, "allocating") /\ UNCHANGED <<kind, sess, ctx, marked, wasUp, killer>>
    BY <1>12 DEF RelayAllocates
  <2>3. SessTypes'
    BY <2>1, <2>2 DEF SessTypes, Places, Moved, RelayAt
  <2>4. LaterFresh'
    BY <2>1, <2>2 DEF SessTypes, LaterFresh, KillerTold, Moved, RelayAt
  <2>5. RefusedUnused'
    BY <2>1, <2>2 DEF SessTypes, RefusedUnused, LaterFresh, Moved, RelayAt
  <2>6. BeyondAllocated'
    BY <2>1, <2>2 DEF SessTypes, BeyondAllocated, UpCounted, RefusedUnused, LaterFresh, Moved,
       RelayAt
  <2>7. UpCounted'
    BY <2>1, <2>2 DEF SessTypes, UpCounted, Moved, RelayAt
  <2>8. KillerTold'
    BY <2>1, <2>2 DEF SessTypes, KillerTold, LaterFresh, Moved, RelayAt
  <2>9. LeftCharged'
    BY <2>1, <2>2 DEF SessTypes, LaterFresh, RefusedUnused, BeyondAllocated, UpCounted,
       KillerTold, LeftCharged, Moved, RelayAt
  <2>10. QED
    BY <2>3, <2>4, <2>5, <2>6, <2>7, <2>8, <2>9
<1>13. ASSUME NEW n \in Sessions, RelayReturns(n)
      PROVE  RefusalInv'
  <2>1. Moved(n, "returned", relay[n].err, relay[n].told)
    BY <1>13, RelayPlaced DEF RelayReturns, RelayPlaces
  <2>2. /\ Separate /\ relay[n].at \in {"failed", "forwarding"}
        /\ UNCHANGED <<kind, sess, ctx, marked, wasUp, killer>>
    BY <1>13 DEF RelayReturns, RelayAt
  <2>3. SessTypes'
    BY <2>1, <2>2 DEF SessTypes, Places, Moved
  <2>4. LaterFresh'
    BY <2>1, <2>2 DEF SessTypes, LaterFresh, KillerTold, Moved
  <2>5. RefusedUnused'
    BY <2>1, <2>2 DEF SessTypes, RefusedUnused, LaterFresh, Moved
  <2>6. BeyondAllocated'
    BY <2>1, <2>2 DEF SessTypes, BeyondAllocated, UpCounted, RefusedUnused, LaterFresh, Moved
  <2>7. UpCounted'
    BY <2>1, <2>2 DEF SessTypes, UpCounted, Moved
  <2>8. KillerTold'
    BY <2>1, <2>2 DEF SessTypes, KillerTold, LaterFresh, Moved
  <2>9. LeftCharged'
    BY <2>1, <2>2 DEF SessTypes, LaterFresh, RefusedUnused, BeyondAllocated, UpCounted,
       KillerTold, LeftCharged, Moved
  <2>10. QED
    BY <2>3, <2>4, <2>5, <2>6, <2>7, <2>8, <2>9
<1>14. ASSUME NEW n \in Sessions, RelayReports(n)
      PROVE  RefusalInv'
  <2>1. Moved(n, relay[n].at, relay[n].err, TRUE)
    BY <1>14, RelayHeard DEF RelayReports
  <2>2. UNCHANGED <<kind, sess, ctx, marked, wasUp, killer>>
    BY <1>14 DEF RelayReports
  <2>3. SessTypes'
    BY <2>1, <2>2 DEF SessTypes, Places, Moved
  <2>4. LaterFresh'
    BY <2>1, <2>2 DEF SessTypes, LaterFresh, KillerTold, Moved
  <2>5. RefusedUnused'
    BY <2>1, <2>2 DEF SessTypes, RefusedUnused, LaterFresh, Moved
  <2>6. BeyondAllocated'
    BY <2>1, <2>2 DEF SessTypes, BeyondAllocated, UpCounted, RefusedUnused, LaterFresh, Moved
  <2>7. UpCounted'
    BY <2>1, <2>2 DEF SessTypes, UpCounted, Moved
  <2>8. KillerTold'
    BY <2>1, <2>2 DEF SessTypes, KillerTold, LaterFresh, Moved
  <2>9. LeftCharged'
    BY <2>1, <2>2 DEF SessTypes, LaterFresh, RefusedUnused, BeyondAllocated, UpCounted,
       KillerTold, LeftCharged, Moved
  <2>10. QED
    BY <2>3, <2>4, <2>5, <2>6, <2>7, <2>8, <2>9
<1>15. ASSUME NEW n \in Sessions, RelayCancels(n)
      PROVE  RefusalInv'
  <2>1. Moved(n, "gone", relay[n].err, relay[n].told)
    BY <1>15, RelayPlaced DEF RelayCancels, RelayPlaces
  <2>2. /\ RelayAt(n, "returned") /\ relay[n].told /\ Cancelled(n, "relay")
       /\ UNCHANGED <<kind, sess, marked, wasUp>>
    BY <1>15 DEF RelayCancels
  <2>3. SessTypes'
    BY <2>1, <2>2 DEF SessTypes, Places, Moved, RelayAt, Cancelled
  <2>4. LaterFresh'
    BY <2>1, <2>2 DEF SessTypes, LaterFresh, KillerTold, Moved, RelayAt, Cancelled
  <2>5. RefusedUnused'
    BY <2>1, <2>2 DEF SessTypes, RefusedUnused, LaterFresh, Moved, RelayAt, Cancelled
  <2>6. BeyondAllocated'
    BY <2>1, <2>2 DEF SessTypes, BeyondAllocated, UpCounted, RefusedUnused, LaterFresh, Moved,
       RelayAt, Cancelled
  <2>7. UpCounted'
    BY <2>1, <2>2 DEF SessTypes, UpCounted, Moved, RelayAt, Cancelled
  <2>8. KillerTold'
    BY <2>1, <2>2 DEF SessTypes, KillerTold, LaterFresh, Moved, RelayAt, Cancelled
  <2>9. LeftCharged'
    BY <2>1, <2>2 DEF SessTypes, LaterFresh, RefusedUnused, BeyondAllocated, UpCounted,
       KillerTold, LeftCharged, Moved, RelayAt, Cancelled
  <2>10. QED
    BY <2>3, <2>4, <2>5, <2>6, <2>7, <2>8, <2>9
<1>16. ASSUME NEW n \in Sessions, CancelBounds(n) \/ ForwarderEnds(n) \/ ForwarderSticks(n)
      PROVE  RefusalInv'
  <2>1. {"run", "stuck", "done"} \subseteq PumpStates
    BY DEF PumpStates
  <2>2. Moved(n, relay[n].at, relay[n].err, relay[n].told)
    BY <1>16, <2>1, RelayPumped DEF CancelBounds, ForwarderEnds, ForwarderSticks
  <2>3. UNCHANGED <<kind, sess, ctx, marked, wasUp, killer>>
    BY <1>16 DEF CancelBounds, ForwarderEnds, ForwarderSticks
  <2>4. SessTypes'
    BY <2>1, <2>2, <2>3 DEF SessTypes, Places, Moved
  <2>5. LaterFresh'
    BY <2>1, <2>2, <2>3 DEF SessTypes, LaterFresh, KillerTold, Moved
  <2>6. RefusedUnused'
    BY <2>1, <2>2, <2>3 DEF SessTypes, RefusedUnused, LaterFresh, Moved
  <2>7. BeyondAllocated'
    BY <2>1, <2>2, <2>3 DEF SessTypes, BeyondAllocated, UpCounted, RefusedUnused, LaterFresh,
       Moved
  <2>8. UpCounted'
    BY <2>1, <2>2, <2>3 DEF SessTypes, UpCounted, Moved
  <2>9. KillerTold'
    BY <2>1, <2>2, <2>3 DEF SessTypes, KillerTold, LaterFresh, Moved
  <2>10. LeftCharged'
    BY <2>1, <2>2, <2>3 DEF SessTypes, LaterFresh, RefusedUnused, BeyondAllocated, UpCounted,
       KillerTold, LeftCharged, Moved
  <2>11. QED
    BY <2>4, <2>5, <2>6, <2>7, <2>8, <2>9, <2>10
<1>17. ASSUME NEW n \in Sessions, ForwarderFails(n)
      PROVE  RefusalInv'
  <2>1. "done" \in PumpStates
    BY DEF PumpStates
  <2>2. Moved(n, relay[n].at, relay[n].err, relay[n].told)
    BY <1>17, <2>1, RelayPumped DEF ForwarderFails
  <2>3. /\ RelayAt(n, "forwarding") /\ UNCHANGED <<kind, sess, marked, wasUp>>
       /\ IF Separate THEN UNCHANGED <<ctx, killer>> ELSE Cancelled(n, "other")
    BY <1>17 DEF ForwarderFails, Forwarding
  <2>4. SessTypes'
    BY <2>1, <2>2, <2>3 DEF SessTypes, Places, Moved, RelayAt, Cancelled
  <2>5. LaterFresh'
    BY <2>1, <2>2, <2>3 DEF SessTypes, LaterFresh, KillerTold, Moved, RelayAt, Cancelled
  <2>6. RefusedUnused'
    BY <2>1, <2>2, <2>3 DEF SessTypes, RefusedUnused, LaterFresh, Moved, RelayAt, Cancelled
  <2>7. BeyondAllocated'
    BY <2>1, <2>2, <2>3 DEF SessTypes, BeyondAllocated, UpCounted, RefusedUnused, LaterFresh,
       Moved, RelayAt, Cancelled
  <2>8. UpCounted'
    BY <2>1, <2>2, <2>3 DEF SessTypes, UpCounted, Moved, RelayAt, Cancelled
  <2>9. KillerTold'
    BY <2>1, <2>2, <2>3 DEF SessTypes, KillerTold, LaterFresh, Moved, RelayAt, Cancelled
  <2>10. LeftCharged'
    BY <2>1, <2>2, <2>3 DEF SessTypes, LaterFresh, RefusedUnused, BeyondAllocated, UpCounted,
       KillerTold, LeftCharged, Moved, RelayAt, Cancelled
  <2>11. QED
    BY <2>4, <2>5, <2>6, <2>7, <2>8, <2>9, <2>10
<1>18. CASE UNCHANGED transportVars
  BY <1>18 DEF SessTypes, LaterFresh, RefusedUnused, BeyondAllocated, UpCounted, KillerTold,
     LeftCharged, transportVars
<1>19. QED
  BY <1>1, <1>2, <1>3, <1>4, <1>5, <1>6, <1>7, <1>8, <1>9, <1>10, <1>11, <1>12, <1>13, <1>14,
     <1>15, <1>16, <1>17, <1>18 DEF TransportNext, SessionSteps, RelaySteps

LEMMA RefusalHeld == RefusalInv => RefusalCharged
BY DEF RefusalInv, SessTypes, LaterFresh, LeftCharged, Left, Refused, RefusalCharged, Refusals,
       Sessions, Separate, cur

\* proxy.go, runDTLSSession and setupSRTPSession: for every number of sessions
\* and every transport, a session that VK's refusal ended before it was up has
\* told the pool which refusal it was, of the very slot.
THEOREM RefusalsCharged == TransportSpec => []RefusalCharged
<1>1. TransportInit => RefusalInv
  BY RefusalInit, TransportAssumption
<1>2. RefusalInv /\ [TransportNext]_transportVars => RefusalInv'
  BY RefusalNext, TransportAssumption
<1>3. QED
  BY <1>1, <1>2, RefusalHeld, PTL DEF TransportSpec

-----------------------------------------------------------------------------
(* Read deadlines: a reader is woken for an expiry, and for nothing else    *)

Timer == [ch : Nat, at : Nat]
DlTypes ==
  /\ style \in {"wrapped", "adapter"} /\ dlNow \in Nat /\ dlExp \in {NoDl} \cup Nat
  /\ dlCh \in Nat \ {0} /\ dlClosed \subseteq 1 .. dlCh
  /\ dlTimers \subseteq Timer /\ dlFiring \subseteq Timer
\* Which goroutine will close the channel of a deadline that stands: the one
\* timer of wrappedConn, whatever an older goroutine of it still does; the
\* timer packetConnAdapter made for this channel.
WillClose ==
  dlExp # NoDl /\ dlCh \notin dlClosed =>
    IF style = "wrapped"
      THEN \/ [ch |-> 0, at |-> dlExp] \in dlTimers
           \/ Expired /\ dlFiring # {}
      ELSE [ch |-> dlCh, at |-> dlExp] \in dlTimers \cup dlFiring
\* A timer of the adapter's present channel is for the present deadline.
TimersOfChannel ==
  style = "adapter" =>
    /\ \A tm \in dlTimers \cup dlFiring : tm.ch <= dlCh /\ (tm.ch = dlCh => tm.at = dlExp)
    /\ \A tm \in dlFiring : tm.ch = dlCh => Expired
DlInv ==
  /\ DlTypes /\ WillClose /\ TimersOfChannel
  /\ ~twiceClosed /\ dlWaits \in {0, dlCh} \cup dlClosed /\ (dlCh \in dlClosed => Expired)

LEMMA DeadlineInit == DlInit => DlInv
BY DEF DlInit, DlInv, DlTypes, WillClose, TimersOfChannel, NoDl, Expired

LEMMA DeadlineHeld == DlInv => ReadDeadlineHolds
BY DEF DlInv, DlTypes, WillClose, ReadDeadlineHolds, Expired

LEMMA DeadlineNext ==
  ASSUME DeadlineAssumption, DlInv, [DlNext]_deadlineVars
  PROVE  DlInv'
<1> USE DEF DeadlineAssumption, DlInv, DlTypes, NoDl, Expired
<1>1. CASE DlTick
  <2>1. DlTypes' /\ WillClose' /\ (dlCh' \in dlClosed' => Expired')
    BY <1>1 DEF DlTick, WillClose
  <2>2. TimersOfChannel'
    BY <1>1 DEF DlTick, TimersOfChannel, Timer
  <2>3. QED
    BY <1>1, <2>1, <2>2 DEF DlTick
<1>2. CASE ReadWaits \/ ReadWoken \/ ReadGetsPacket \/ UNCHANGED deadlineVars
  <2>1. UNCHANGED <<style, dlNow, dlExp, dlCh, dlClosed, dlTimers, dlFiring, dlSets, twiceClosed>>
    BY <1>2 DEF ReadWaits, ReadWoken, ReadGetsPacket, deadlineVars
  <2>2. dlWaits' \in {0, dlCh, dlWaits}
    BY <1>2 DEF ReadWaits, ReadWoken, ReadGetsPacket, deadlineVars
  <2>3. QED
    BY <2>1, <2>2 DEF WillClose, TimersOfChannel
<1>3. ASSUME NEW t \in {NoDl} \cup 0 .. DlHorizon, SetDl(t), style = "wrapped"
      PROVE  DlInv'
  <2> DEFINE ch == IF dlCh \in dlClosed THEN dlCh + 1 ELSE dlCh
             past == t # NoDl /\ t <= dlNow
  <2>1. /\ dlExp' = t /\ dlCh' = ch
        /\ dlClosed' = IF past THEN dlClosed \cup {ch} ELSE dlClosed
        /\ twiceClosed' = (twiceClosed \/ (past /\ ch \in dlClosed))
        /\ dlTimers' = IF t = NoDl \/ past THEN {} ELSE {[ch |-> 0, at |-> t]}
        /\ UNCHANGED <<style, dlNow, dlFiring, dlWaits>>
    BY <1>3 DEF SetDl, SetOneTimer, Renews
  <2>2. ch \in Nat \ {0} /\ ch \notin dlClosed /\ t \in {NoDl} \cup Nat
    OBVIOUS
  <2>3. DlTypes'
    BY <2>1, <2>2 DEF Timer
  <2>4. WillClose' /\ TimersOfChannel'
    BY <1>3, <2>1, <2>2 DEF WillClose, TimersOfChannel
  <2>5. ~twiceClosed'
    BY <2>1, <2>2
  <2>6. dlWaits' \in {0, dlCh'} \cup dlClosed'
    BY <2>1
  <2>7. dlCh' \in dlClosed' => Expired'
    <3>1. past => dlExp' # NoDl /\ dlExp' <= dlNow'
      BY <2>1
    <3>2. QED
      BY <2>1, <2>2, <3>1
  <2>8. QED
    BY <2>3, <2>4, <2>5, <2>6, <2>7
<1>4. ASSUME NEW t \in {NoDl} \cup 0 .. DlHorizon, SetDl(t), style = "adapter"
      PROVE  DlInv'
  <2> DEFINE past == t # NoDl /\ t <= dlNow
             made == IF t = NoDl \/ past THEN {} ELSE {[ch |-> dlCh + 1, at |-> t]}
  <2>1. /\ dlExp' = t /\ dlCh' = dlCh + 1
        /\ dlClosed' = dlClosed \cup {dlCh} \cup (IF past THEN {dlCh + 1} ELSE {})
        /\ dlTimers' = dlTimers \cup made
        /\ UNCHANGED <<style, dlNow, dlFiring, dlWaits, twiceClosed>>
    BY <1>4 DEF SetDl, SetEachTimer
  <2>2. made \subseteq Timer /\ t \in {NoDl} \cup Nat
    BY DEF Timer
  <2>3. DlTypes'
    BY <2>1, <2>2
  <2>4. WillClose'
    BY <1>4, <2>1 DEF WillClose
  <2>5. TimersOfChannel'
    <3>1. \A tm \in dlTimers \cup dlFiring : tm.ch \in Nat /\ tm.ch <= dlCh
      BY <1>4 DEF TimersOfChannel, Timer
    <3>2. \A tm \in made : tm.ch = dlCh + 1 /\ tm.at = t
      OBVIOUS
    <3>3. QED
      BY <2>1, <3>1, <3>2 DEF TimersOfChannel
  <2>6. ~twiceClosed' /\ dlWaits' \in {0, dlCh'} \cup dlClosed' /\ (dlCh' \in dlClosed' => Expired')
    BY <2>1
  <2>7. QED
    BY <2>3, <2>4, <2>5, <2>6
<1>5. ASSUME NEW tm \in dlTimers, TimerRuns(tm)
      PROVE  DlInv'
  BY <1>5 DEF TimerRuns, WillClose, TimersOfChannel, Timer
<1>6. ASSUME NEW tm \in dlFiring, Fire(tm)
      PROVE  DlInv'
  <2>1. /\ dlFiring' = dlFiring \ {tm}
        /\ dlClosed' = IF StillDue(tm) THEN dlClosed \cup {dlCh} ELSE dlClosed
        /\ twiceClosed' => twiceClosed \/ (StillDue(tm) /\ dlCh \in dlClosed)
        /\ UNCHANGED <<style, dlNow, dlExp, dlCh, dlTimers, dlWaits>>
    BY <1>6 DEF Fire
  <2>2. StillDue(tm) => Expired /\ dlCh \notin dlClosed
    BY DEF StillDue, TimersOfChannel
  <2>3. DlTypes' /\ TimersOfChannel'
    BY <2>1 DEF TimersOfChannel
  <2>4. WillClose'
    BY <2>1 DEF WillClose, StillDue
  <2>5. ~twiceClosed'
    BY <2>1, <2>2
  <2>6. dlWaits' \in {0, dlCh'} \cup dlClosed' /\ (dlCh' \in dlClosed' => Expired')
    BY <2>1, <2>2
  <2>7. QED
    BY <2>3, <2>4, <2>5, <2>6
<1>7. QED
  BY <1>1, <1>2, <1>3, <1>4, <1>5, <1>6 DEF DlNext

-----------------------------------------------------------------------------
(* Path events: the long pause for a chain that began on live sessions      *)

Event == [live : BOOLEAN, long : BOOLEAN, gap : 0 .. CascadeWindow]
\* An unbroken chain leads from an event that met live sessions to the last.
Followed == \E i \in 1 .. Len(events) : events[i].live /\ Chained(i, Len(events))
\* The stamp is the age of the last event exactly while such a chain goes on.
Stamped == stamp # Unset /\ stamp < CascadeWindow
StampTells == /\ Stamped => stamp = since /\ Followed
              /\ Followed /\ since < CascadeWindow => stamp = since
CascadeInv ==
  CascadeTypeOK /\ events \in Seq(Event) /\ StampTells /\ CascadeJudged /\ PauseKept

LEMMA MinMaxOfTwo ==
  ASSUME NEW a \in Int, NEW b \in Int
  PROVE  /\ Max({a, b}) = IF a < b THEN b ELSE a
         /\ Min({a, b}) = IF a < b THEN a ELSE b
BY DEF Max, Min

LEMMA DownValue == \A n \in Nat : Down(n) = IF n = 0 THEN 0 ELSE n - 1
BY MinMaxOfTwo DEF Down

LEMMA PauseForValue ==
  ASSUME NEW d \in Nat, pauseLeft \in Nat, timerLeft = pauseLeft, PauseFor(d)
  PROVE  pauseLeft' = timerLeft' /\ pauseLeft' \in Nat /\ pauseLeft' >= d /\ pauseLeft' >= pauseLeft
BY DEF PauseFor

LEMMA CascadeConstants ==
  CascadeAssumption => /\ {DualGap, CascadePause, CascadeWindow, TransitionPause} \subseteq Nat
                       /\ {VkLifetime, SafetyBuffer, MinRealUse, RecentUse} \subseteq Nat
                       /\ DualGap > 0 /\ RecentUse > 0
BY DEF CascadeAssumption

LEMMA CascadeInitial == CascadeInit /\ CascadeAssumption => CascadeInv
<1> SUFFICES ASSUME CascadeInit, CascadeAssumption
             PROVE  CascadeInv
  OBVIOUS
<1> USE DEF CascadeInit, Unset, Never
<1>1. CascadeWindow \in Nat /\ RecentUse \in Nat /\ RecentUse > 0
  BY CascadeConstants
<1>2. seat \in Seats
  <2>1. seat \in [live : {FALSE}, idle : {1, RecentUse}, saturated : {0}, loading : {0, 1}]
    OBVIOUS
  <2>2. /\ {1, RecentUse} \subseteq 0 .. RecentUse
        /\ {0} \subseteq Nat /\ {0, 1} \subseteq Nat /\ {FALSE} \subseteq BOOLEAN
    BY <1>1
  <2>3. QED
    BY <2>1, <2>2 DEF Seats
<1>3. CascadeTypeOK
  <2>1. stamp \in Unset .. CascadeWindow /\ since \in 0 .. CascadeWindow
    BY <1>1
  <2>2. pauseLeft \in Nat /\ timerLeft \in Nat /\ parked \in BOOLEAN
    OBVIOUS
  <2>3. QED
    BY <1>2, <2>1, <2>2 DEF CascadeTypeOK
<1>4. events \in Seq(Event) /\ Len(events) = 0
  OBVIOUS
<1>5. QED
  BY <1>3, <1>4 DEF CascadeInv, StampTells, Stamped, Followed, CascadeJudged, PauseKept

\* What an event adds to the history, and what it leaves.
LEMMA EventAdded ==
  ASSUME events \in Seq(Event), NEW e \in Event, NEW last \in Nat, last = Len(events),
         events' = Append(events, e)
  PROVE  /\ Len(events') = last + 1 /\ events'[last + 1] = e
         /\ \A i \in 1 .. last : events'[i] = events[i]
         /\ \A i, j \in 1 .. last : Chained(i, j)' <=> Chained(i, j)
         /\ \A i \in 1 .. last :
              Chained(i, last + 1)' <=> Chained(i, last) /\ e.gap < CascadeWindow
         /\ Chained(last + 1, last + 1)'
<1>1. /\ Len(events') = last + 1 /\ events'[last + 1] = e
      /\ \A i \in 1 .. last : events'[i] = events[i]
  OBVIOUS
<1>2. \A i, j \in 1 .. last : Chained(i, j)' <=> Chained(i, j)
  BY <1>1 DEF Chained
<1>3. ASSUME NEW i \in 1 .. last
      PROVE  Chained(i, last + 1)' <=> Chained(i, last) /\ e.gap < CascadeWindow
  <2>1. i + 1 .. last + 1 = (i + 1 .. last) \cup {last + 1}
    OBVIOUS
  <2>2. \A k \in i + 1 .. last : events'[k] = events[k]
    BY <1>1
  <2>3. QED
    BY <1>1, <2>1, <2>2 DEF Chained
<1>4. Chained(last + 1, last + 1)'
  BY DEF Chained
<1>5. QED
  BY <1>1, <1>2, <1>3, <1>4

LEMMA CascadeNextInv ==
  ASSUME CascadeAssumption, CascadeInv, [CascadeNext]_cascadeVars
  PROVE  CascadeInv'
<1> /\ {DualGap, CascadePause, CascadeWindow, TransitionPause} \subseteq Nat
    /\ {VkLifetime, SafetyBuffer, MinRealUse, RecentUse} \subseteq Nat
    /\ DualGap > 0 /\ RecentUse > 0
  BY CascadeConstants
<1> USE DEF CascadeInv, Unset
<1>1. CASE PathEvent
  <2> PICK last \in Nat : last = Len(events)
    OBVIOUS
  <2> DEFINE e == [live |-> seat.live, long |-> Cascade, gap |-> since]
             d == IF Cascade THEN CascadePause ELSE DualGap
  <2>1. e \in Event
    BY DEF CascadeTypeOK, Seats, Event, Cascade
  <2>2. /\ seat' = MarkedSeat /\ PauseFor(d) /\ stamp' = IF Arms THEN 0 ELSE stamp
        /\ events' = Append(events, e) /\ since' = 0 /\ UNCHANGED parked
    BY <1>1 DEF PathEvent
  <2>3. seat' \in Seats
    <3>1. CASE seat' = seat
      BY <3>1 DEF CascadeTypeOK
    <3>2. CASE Remaining > 0 /\ seat' = [seat EXCEPT !.saturated = Remaining]
      <4>1. seat.idle \in Int
        BY DEF CascadeTypeOK, Seats
      <4>2. Anchor \in Int
        BY <4>1 DEF Anchor
      <4>3. Remaining \in Int
        BY <4>2 DEF Remaining
      <4>4. Remaining > 0
        BY <3>2
      <4>5. Remaining \in Nat
        BY <4>3, <4>4
      <4>6. QED
        BY <3>2, <4>5 DEF CascadeTypeOK, Seats
    <3>3. QED
      BY <2>2, <3>1, <3>2 DEF MarkedSeat
  <2>4. pauseLeft' = timerLeft' /\ pauseLeft' \in Nat /\ pauseLeft' >= d /\ pauseLeft' >= pauseLeft
    BY <2>2, PauseForValue DEF CascadeTypeOK, PauseKept
  <2>5. CascadeTypeOK' /\ events' \in Seq(Event)
    BY <2>1, <2>2, <2>3, <2>4 DEF CascadeTypeOK
  <2>6. PauseKept'
    BY <2>1, <2>2, <2>4, EventAdded DEF PauseKept, CascadeTypeOK
  <2>7. Stamped \in BOOLEAN /\ (Stamped => stamp = since /\ Followed)
        /\ (Followed /\ since < CascadeWindow => Stamped)
    BY DEF StampTells, Stamped, CascadeTypeOK
  <2>8. Arms <=> seat.live \/ Stamped
    BY DEF Arms, Cascade, Dual, Stamped, CascadeTypeOK
  <2>9. /\ Len(events') = last + 1 /\ events'[last + 1] = e
        /\ \A i \in 1 .. last : events'[i] = events[i]
        /\ \A i, j \in 1 .. last : Chained(i, j)' <=> Chained(i, j)
        /\ \A i \in 1 .. last :
             Chained(i, last + 1)' <=> Chained(i, last) /\ since < CascadeWindow
        /\ Chained(last + 1, last + 1)'
    BY <2>1, <2>2, EventAdded
  <2>10. Followed' <=> seat.live \/ (Followed /\ since < CascadeWindow)
    <3>1. Followed' <=> \E i \in 1 .. last + 1 : events'[i].live /\ Chained(i, last + 1)'
      BY <2>9 DEF Followed
    <3>2. Followed <=> \E i \in 1 .. last : events[i].live /\ Chained(i, last)
      BY DEF Followed
    <3>3. \A i \in 1 .. last + 1 : i \in 1 .. last \/ i = last + 1
      OBVIOUS
    <3>4. ASSUME Followed'
          PROVE  seat.live \/ (Followed /\ since < CascadeWindow)
      <4>1. PICK i \in 1 .. last + 1 : events'[i].live /\ Chained(i, last + 1)'
        BY <3>1, <3>4
      <4>2. CASE i = last + 1
        BY <2>9, <4>1, <4>2
      <4>3. CASE i \in 1 .. last
        BY <2>9, <3>2, <4>1, <4>3
      <4>4. QED
        BY <3>3, <4>2, <4>3
    <3>5. ASSUME seat.live
          PROVE  Followed'
      BY <2>9, <3>1, <3>5
    <3>6. ASSUME Followed, since < CascadeWindow
          PROVE  Followed'
      <4>1. PICK i \in 1 .. last : events[i].live /\ Chained(i, last)
        BY <3>2, <3>6
      <4>2. i \in 1 .. last + 1 /\ events'[i].live /\ Chained(i, last + 1)'
        BY <2>9, <3>6, <4>1
      <4>3. QED
        BY <3>1, <4>2
    <3>7. QED
      BY <3>4, <3>5, <3>6
  <2>11. StampTells'
    BY <2>2, <2>7, <2>8, <2>10 DEF StampTells, Stamped, CascadeTypeOK
  <2>12. CascadeJudged'
    <3>1. ASSUME NEW j \in 1 .. last
          PROVE  events'[j].long <=>
                   events'[j].gap >= DualGap /\
                   \E i \in 1 .. j - 1 : events'[i].live /\ Chained(i, j)'
      <4>1. \A i \in 1 .. j - 1 : i \in 1 .. last
        OBVIOUS
      <4>2. \A i \in 1 .. j - 1 :
              events'[i] = events[i] /\ (Chained(i, j)' <=> Chained(i, j))
        BY <2>9, <4>1
      <4>3. events[j].long <=>
              events[j].gap >= DualGap /\ \E i \in 1 .. j - 1 : events[i].live /\ Chained(i, j)
        BY DEF CascadeJudged, AfterABurst
      <4>4. events'[j] = events[j]
        BY <2>9
      <4>5. QED
        BY <4>2, <4>3, <4>4
    <3>2. Cascade <=> since >= DualGap /\ Followed /\ since < CascadeWindow
      BY <2>7 DEF Cascade, Stamped, CascadeTypeOK
    <3>3. Followed /\ since < CascadeWindow <=>
            \E i \in 1 .. (last + 1) - 1 : events'[i].live /\ Chained(i, last + 1)'
      BY <2>9 DEF Followed
    <3>4. QED
      BY <2>9, <3>1, <3>2, <3>3 DEF CascadeJudged, AfterABurst
  <2>13. QED
    BY <2>5, <2>6, <2>11, <2>12
<1>2. CASE PathTransition
  BY <1>2, PauseForValue DEF PathTransition, CascadeTypeOK, PauseKept, StampTells, Stamped,
     Followed, Chained, CascadeJudged, AfterABurst
<1>3. CASE Ask
  <2>1. UNCHANGED <<stamp, pauseLeft, timerLeft, events, since>>
    BY <1>3 DEF Ask
  <2>2. StampTells' /\ CascadeJudged'
    BY <2>1 DEF StampTells, Stamped, Followed, Chained, CascadeJudged, AfterABurst
  <2>3. seat' \in Seats
    <3>1. seat' = seat \/ seat' = [seat EXCEPT !.live = TRUE, !.idle = 0]
      BY <1>3 DEF Ask
    <3>2. 0 \in 0 .. RecentUse
      OBVIOUS
    <3>3. [seat EXCEPT !.live = TRUE, !.idle = 0] \in Seats
      BY <3>2 DEF CascadeTypeOK, Seats
    <3>4. QED
      BY <3>1, <3>3 DEF CascadeTypeOK
  <2>4. parked' \in BOOLEAN /\ (parked' => pauseLeft > 0 \/ parked)
    BY <1>3 DEF Ask, CascadeTypeOK
  <2>5. QED
    BY <2>1, <2>2, <2>3, <2>4 DEF CascadeTypeOK, PauseKept
<1>4. CASE GiveBack
  BY <1>4 DEF GiveBack, CascadeTypeOK, Seats, PauseKept, StampTells, Stamped, Followed, Chained,
     CascadeJudged, AfterABurst
<1>5. CASE Tick
  <2>1. \A n \in Nat : Down(n) \in Nat /\ Down(n) = IF n = 0 THEN 0 ELSE n - 1
    BY DownValue
  <2>2. /\ since' = IF CascadeWindow < since + 1 THEN CascadeWindow ELSE since + 1
        /\ stamp' = IF stamp = Unset THEN Unset
                    ELSE IF CascadeWindow < stamp + 1 THEN CascadeWindow ELSE stamp + 1
    <3>1. since + 1 \in Int /\ stamp + 1 \in Int /\ CascadeWindow \in Int
      BY DEF CascadeTypeOK
    <3>2. /\ Min({CascadeWindow, since + 1}) =
               IF CascadeWindow < since + 1 THEN CascadeWindow ELSE since + 1
          /\ Min({CascadeWindow, stamp + 1}) =
               IF CascadeWindow < stamp + 1 THEN CascadeWindow ELSE stamp + 1
      BY <3>1, MinMaxOfTwo
    <3>3. QED
      BY <1>5, <3>2 DEF Tick
  <2>3. /\ pauseLeft' = Down(pauseLeft) /\ timerLeft' = Down(timerLeft)
        /\ parked' = (parked /\ timerLeft # 1) /\ UNCHANGED events
    BY <1>5 DEF Tick
  <2>4. seat' \in Seats
    <3>1. seat.idle \in 0 .. RecentUse /\ seat.saturated \in Nat /\ seat.loading \in Nat
      BY DEF CascadeTypeOK, Seats
    <3>2. Min({RecentUse, seat.idle + 1}) \in 0 .. RecentUse
      <4>1. RecentUse \in Int /\ seat.idle + 1 \in Int
        BY <3>1
      <4>2. Min({RecentUse, seat.idle + 1}) =
              IF RecentUse < seat.idle + 1 THEN RecentUse ELSE seat.idle + 1
        BY <4>1, MinMaxOfTwo
      <4>3. QED
        BY <3>1, <4>2
    <3>3. Down(seat.saturated) \in Nat /\ Down(seat.loading) \in Nat
      BY <2>1, <3>1
    <3>4. 0 \in 0 .. RecentUse
      OBVIOUS
    <3>5. PICK i \in 0 .. RecentUse :
            seat' = [seat EXCEPT !.idle = i, !.saturated = Down(@), !.loading = Down(@)]
      BY <1>5, <3>2, <3>4 DEF Tick
    <3>6. QED
      BY <3>3, <3>5 DEF CascadeTypeOK, Seats
  <2>5. CascadeTypeOK'
    <3>1. pauseLeft' \in Nat /\ timerLeft' \in Nat /\ parked' \in BOOLEAN
      BY <2>1, <2>3 DEF CascadeTypeOK
    <3>2. stamp' \in Unset .. CascadeWindow /\ since' \in 0 .. CascadeWindow
      BY <2>2 DEF CascadeTypeOK
    <3>3. QED
      BY <2>4, <3>1, <3>2 DEF CascadeTypeOK
  <2>6. StampTells'
    <3>1. Followed' <=> Followed
      BY <2>3 DEF Followed, Chained
    <3>2. since \in Int /\ stamp \in Int /\ CascadeWindow \in Int
      BY DEF CascadeTypeOK
    <3>3. Stamped' => Stamped /\ (stamp = since => stamp' = since')
      BY <2>2, <3>2 DEF Stamped
    <3>4. since' < CascadeWindow => since < CascadeWindow
      BY <2>2, <3>2
    <3>5. stamp = since /\ since # Unset => stamp' = since'
      BY <2>2
    <3>6. since # Unset
      BY DEF CascadeTypeOK, Unset
    <3>7. QED
      BY <3>1, <3>3, <3>4, <3>5, <3>6 DEF StampTells
  <2>7. CascadeJudged'
    BY <2>3 DEF CascadeJudged, AfterABurst, Chained
  <2>8. PauseKept'
    <3>1. CascadePause < CascadeWindow /\ DualGap < CascadeWindow
      BY DEF CascadeAssumption
    <3>2. /\ pauseLeft' = IF pauseLeft = 0 THEN 0 ELSE pauseLeft - 1
          /\ timerLeft' = pauseLeft'
      BY <2>1, <2>3 DEF PauseKept, CascadeTypeOK
    <3>3. parked' => timerLeft' > 0
      <4>1. parked' => parked /\ timerLeft # 1
        BY <2>3
      <4>2. parked => timerLeft > 0
        BY DEF PauseKept
      <4>3. timerLeft = pauseLeft /\ pauseLeft \in Nat
        BY DEF PauseKept, CascadeTypeOK
      <4>4. QED
        BY <3>2, <4>1, <4>2, <4>3
    <3>4. ASSUME events # << >>
          PROVE  pauseLeft' + since' >= IF events[Len(events)].long THEN CascadePause ELSE DualGap
      BY <2>2, <3>1, <3>2, <3>4 DEF PauseKept, CascadeTypeOK
    <3>5. QED
      BY <2>3, <3>2, <3>3, <3>4 DEF PauseKept
  <2>9. QED
    BY <2>3, <2>5, <2>6, <2>7, <2>8
<1>6. CASE UNCHANGED cascadeVars
  BY <1>6 DEF cascadeVars, CascadeTypeOK, PauseKept, StampTells, Stamped, Followed, Chained,
     CascadeJudged, AfterABurst
<1>7. QED
  BY <1>1, <1>2, <1>3, <1>4, <1>5, <1>6 DEF CascadeNext

-----------------------------------------------------------------------------
(* Both, of the eight parts                                                *)

TimersInv == DlInv /\ CascadeInv

LEMMA TimersNext == TimersInv /\ [PartsNext]_partsVars => TimersInv'
BY PartsSteps, DeadlineNext, CascadeNextInv, DeadlineAssumption, CascadeAssumption DEF TimersInv

\* srtp.go, setDl and fireDeadline; creds.go, the ARMING note: in every run, with
\* any lengths of the pauses, the readers' deadlines hold and each path event
\* pays the pause its history asks for.
THEOREM TimersAlwaysFit == PartsSpec => []TimersFit
<1>1. PartsInit => TimersInv
  BY DeadlineInit, CascadeInitial, CascadeAssumption DEF PartsInit, TimersInv
<1>2. TimersInv => TimersFit
  BY DeadlineHeld DEF TimersInv, CascadeInv, TimersFit, PauseFits
<1>3. QED
  BY <1>1, <1>2, TimersNext, PTL DEF PartsSpec, partsVars

-----------------------------------------------------------------------------
(* Counting                                                                *)

\* Whether x has buffer b, as a number.
Has(x, b) == IF x.buf = b THEN 1 ELSE 0
\* How many elements of a queue lie in T.
Count(q, T) == Cardinality({i \in 1 .. Len(q) : q[i] \in T})

LEMMA CountIsNat ==
  ASSUME NEW S, NEW q \in Seq(S), NEW T
  PROVE  /\ IsFiniteSet({i \in 1 .. Len(q) : q[i] \in T}) /\ Count(q, T) \in Nat
         /\ Count(q, T) = 0 => \A i \in 1 .. Len(q) : q[i] \notin T
<1>1. 1 \in Int /\ Len(q) \in Int
  OBVIOUS
<1>2. IsFiniteSet(1 .. Len(q))
  BY <1>1, FS_Interval
<1>3. IsFiniteSet({i \in 1 .. Len(q) : q[i] \in T})
  BY <1>2, FS_Subset
<1>4. QED
  BY <1>3, FS_CardinalityType, FS_EmptySet DEF Count

LEMMA CountAppend ==
  ASSUME NEW S, NEW q \in Seq(S), NEW e \in S, NEW T
  PROVE  Count(Append(q, e), T) = Count(q, T) + (IF e \in T THEN 1 ELSE 0)
<1> DEFINE I == {i \in 1 .. Len(q) : q[i] \in T}
           J == {i \in 1 .. Len(Append(q, e)) : Append(q, e)[i] \in T}
<1>1. IsFiniteSet(I) /\ Cardinality(I) \in Nat
  BY CountIsNat DEF Count
<1>2. Len(q) \in Nat /\ Len(Append(q, e)) = Len(q) + 1 /\ Len(q) + 1 \notin I
  OBVIOUS
<1>3. \A i \in 1 .. Len(q) + 1 :
        Append(q, e)[i] = IF i = Len(q) + 1 THEN e ELSE q[i]
  OBVIOUS
<1> Count(q, T) = Cardinality(I) /\ Count(Append(q, e), T) = Cardinality(J)
  BY DEF Count
<1>4. CASE e \in T
  <2>1. J = I \cup {Len(q) + 1}
    BY <1>2, <1>3, <1>4
  <2>2. QED
    <3> HIDE DEF I, J
    <3>1. Cardinality(I \cup {Len(q) + 1}) = Cardinality(I) + 1
      BY <1>1, <1>2, FS_AddElement
    <3>2. QED
      BY <1>4, <2>1, <3>1
<1>5. CASE e \notin T
  <2>1. J = I
    BY <1>2, <1>3, <1>5
  <2>2. QED
    <3> HIDE DEF I, J
    <3>1. QED
      BY <1>1, <1>5, <2>1
<1>6. QED
  BY <1>4, <1>5

LEMMA CountTail ==
  ASSUME NEW S, NEW q \in Seq(S), NEW T, q # << >>
  PROVE  Count(q, T) = Count(Tail(q), T) + (IF Head(q) \in T THEN 1 ELSE 0)
<1> DEFINE I == {i \in 1 .. Len(Tail(q)) : Tail(q)[i] \in T}
           J == {i \in 1 .. Len(q) : q[i] \in T}
           f == [i \in J \ {1} |-> i - 1]
<1>1. /\ Len(q) \in Nat \ {0} /\ Len(Tail(q)) = Len(q) - 1 /\ Head(q) = q[1]
      /\ \A i \in 1 .. Len(q) - 1 : Tail(q)[i] = q[i + 1]
  OBVIOUS
<1>2. IsFiniteSet(J) /\ Cardinality(J) \in Nat
  BY CountIsNat DEF Count
<1>3. f \in Bijection(J \ {1}, I)
  <2>1. f \in [J \ {1} -> I]
    BY <1>1
  <2>2. f \in Injection(J \ {1}, I)
    BY <2>1 DEF Injection, IsInjective
  <2>3. \A i \in I : i + 1 \in J \ {1} /\ f[i + 1] = i
    BY <1>1
  <2>4. QED
    BY <2>1, <2>2, <2>3 DEF Bijection, Surjection
<1>4. /\ IsFiniteSet(J \ {1})
      /\ Cardinality(J \ {1}) = IF 1 \in J THEN Cardinality(J) - 1 ELSE Cardinality(J)
  BY <1>2, FS_RemoveElement
<1>5. Cardinality(I) = Cardinality(J \ {1})
  <2>1. ExistsBijection(J \ {1}, I)
    BY <1>3 DEF ExistsBijection
  <2> HIDE DEF I, J
  <2>2. QED
    BY <1>4, <2>1, FS_Bijection
<1>6. 1 \in J <=> Head(q) \in T
  BY <1>1
<1>7. Count(q, T) = Cardinality(J) /\ Count(Tail(q), T) = Cardinality(I)
  BY DEF Count
<1> HIDE DEF I, J
<1>8. QED
  BY <1>2, <1>4, <1>5, <1>6, <1>7

\* Who of P holds b, when one of them changes hands.
Holding(P, f, b) == Cardinality({x \in P : f[x].buf = b})

LEMMA HoldingIsNat ==
  ASSUME NEW P, NEW f, NEW b, IsFiniteSet(P)
  PROVE  /\ IsFiniteSet({x \in P : f[x].buf = b}) /\ Holding(P, f, b) \in Nat
         /\ Holding(P, f, b) = 0 => \A x \in P : f[x].buf # b
<1>1. IsFiniteSet({x \in P : f[x].buf = b})
  BY FS_Subset
<1>2. QED
  BY <1>1, FS_CardinalityType, FS_EmptySet DEF Holding

LEMMA HoldingMoves ==
  ASSUME NEW P, NEW f, NEW g, NEW p \in P, NEW b, IsFiniteSet(P),
         \A x \in P \ {p} : g[x] = f[x]
  PROVE  Holding(P, g, b) + Has(f[p], b) = Holding(P, f, b) + Has(g[p], b)
<1> DEFINE H == {x \in P : f[x].buf = b}
           G == {x \in P : g[x].buf = b}
           R == H \ {p}
<1>1. IsFiniteSet(H) /\ Cardinality(H) \in Nat
  BY FS_Subset, FS_CardinalityType
<1>2. IsFiniteSet(R) /\ Cardinality(R) = IF p \in H THEN Cardinality(H) - 1 ELSE Cardinality(H)
  BY <1>1, FS_RemoveElement
<1>3. Cardinality(R) \in Nat /\ p \notin R
  BY <1>2, FS_CardinalityType
<1>4. p \in H <=> f[p].buf = b
  OBVIOUS
<1>5. CASE g[p].buf = b
  <2>1. G = R \cup {p}
    BY <1>5
  <2>2. Cardinality(G) = Cardinality(R) + 1
    BY <1>2, <1>3, <2>1, FS_AddElement
  <2>3. QED
    BY <1>1, <1>2, <1>4, <1>5, <2>2 DEF Holding, Has
<1>6. CASE g[p].buf # b
  <2>1. G = R
    BY <1>6
  <2>2. Holding(P, f, b) = Cardinality(H) /\ Holding(P, g, b) = Cardinality(G)
    BY DEF Holding
  <2> HIDE DEF G, H, R
  <2>3. QED
    BY <1>1, <1>2, <1>4, <1>6, <2>1, <2>2 DEF Has
<1>7. QED
  BY <1>5, <1>6

\* The same, as a quantified formula.
LEMMA HoldingMoved ==
  \A P, f, g, p, b :
    p \in P /\ IsFiniteSet(P) /\ (\A x \in P \ {p} : g[x] = f[x])
    => Holding(P, g, b) + Has(f[p], b) = Holding(P, f, b) + Has(g[p], b)
BY HoldingMoves

-----------------------------------------------------------------------------
(* The packet buffers                                                      *)

Item == [buf : Bufs, was : Nat]
SenderStates == {Resting} \cup [at : {"copied", "blocked"}, buf : Bufs]
ReaderStates == {Resting, Ended} \cup [at : {"read", "blocked"}, buf : Bufs]
WriterStates == {Resting, Ended} \cup [at : {"writes"}, buf : Bufs, was : Nat]
PkTypes ==
  /\ pool \in [Bufs -> Nat] /\ holds \in [Bufs -> Nat]
  /\ sendCh \in Seq(Item) /\ recvCh \in Seq(Item)
  /\ sender \in [Producers -> SenderStates]
  /\ reader \in [Conns -> ReaderStates] /\ writer \in [Conns -> WriterStates]
  /\ sentUp \in Nat /\ readDown \in Nat
\* What is on its way is what was put in: a buffer is filled anew only when
\* nobody else has it.
StillThere ==
  /\ \A i \in 1 .. Len(sendCh) : holds[sendCh[i].buf] = sendCh[i].was
  /\ \A i \in 1 .. Len(recvCh) : holds[recvCh[i].buf] = recvCh[i].was
  /\ \A c \in Conns : writer[c].at = "writes" => holds[writer[c].buf] = writer[c].was
OneOwner == \A b \in Bufs : Owners(b) = 1
PacketInv == PkTypes /\ StillThere /\ OneOwner /\ ~garbled

Of(b) == {e \in Item : e.buf = b}

LEMMA InQueueIsCount ==
  ASSUME NEW q \in Seq(Item), NEW b
  PROVE  InQueue(q, b) = Count(q, Of(b))
<1>1. \A i \in 1 .. Len(q) : q[i] \in Item
  OBVIOUS
<1>2. {i \in 1 .. Len(q) : q[i].buf = b} = {i \in 1 .. Len(q) : q[i] \in Of(b)}
  BY <1>1 DEF Of
<1>3. QED
  BY <1>2 DEF InQueue, Count

LEMMA QueueAppend ==
  ASSUME NEW q \in Seq(Item), NEW e \in Item, NEW b
  PROVE  /\ InQueue(Append(q, e), b) = InQueue(q, b) + Has(e, b)
         /\ Append(q, e) \in Seq(Item)
<1>1. Append(q, e) \in Seq(Item)
  OBVIOUS
<1>2. e \in Of(b) <=> e.buf = b
  BY DEF Of
<1>3. Count(Append(q, e), Of(b)) = Count(q, Of(b)) + (IF e \in Of(b) THEN 1 ELSE 0)
  BY CountAppend
<1>4. InQueue(Append(q, e), b) = Count(Append(q, e), Of(b)) /\ InQueue(q, b) = Count(q, Of(b))
  BY <1>1, InQueueIsCount
<1>5. QED
  BY <1>1, <1>2, <1>3, <1>4 DEF Has

LEMMA QueueTail ==
  ASSUME NEW q \in Seq(Item), NEW b, q # << >>
  PROVE  /\ InQueue(q, b) = InQueue(Tail(q), b) + Has(Head(q), b)
         /\ Tail(q) \in Seq(Item) /\ Head(q) \in Item
<1>1. Tail(q) \in Seq(Item) /\ Head(q) \in Item
  OBVIOUS
<1>2. Head(q) \in Of(b) <=> Head(q).buf = b
  BY <1>1 DEF Of
<1>3. Count(q, Of(b)) = Count(Tail(q), Of(b)) + (IF Head(q) \in Of(b) THEN 1 ELSE 0)
  BY CountTail
<1>4. InQueue(Tail(q), b) = Count(Tail(q), Of(b)) /\ InQueue(q, b) = Count(q, Of(b))
  BY <1>1, InQueueIsCount
<1>5. QED
  BY <1>1, <1>2, <1>3, <1>4 DEF Has

LEMMA QueueCountIsNat ==
  ASSUME NEW q \in Seq(Item), NEW b
  PROVE  /\ InQueue(q, b) \in Nat
         /\ InQueue(q, b) = 0 => \A i \in 1 .. Len(q) : q[i].buf # b
<1>1. \A i \in 1 .. Len(q) : q[i] \in Item
  OBVIOUS
<1>2. /\ Count(q, Of(b)) \in Nat
      /\ Count(q, Of(b)) = 0 => \A i \in 1 .. Len(q) : q[i] \notin Of(b)
  BY CountIsNat
<1>3. InQueue(q, b) = Count(q, Of(b))
  BY InQueueIsCount
<1>4. QED
  BY <1>1, <1>2, <1>3 DEF Of


LEMMA OwnersAre ==
  ASSUME PacketAssumption, PkTypes, NEW b \in Bufs
  PROVE  /\ Owners(b) = pool[b] + InQueue(sendCh, b) + InQueue(recvCh, b)
                        + Holding(Producers, sender, b) + Holding(Conns, writer, b)
                        + Holding(Conns, reader, b)
         /\ pool[b] \in Nat /\ InQueue(sendCh, b) \in Nat /\ InQueue(recvCh, b) \in Nat
         /\ Holding(Producers, sender, b) \in Nat /\ Holding(Conns, writer, b) \in Nat
         /\ Holding(Conns, reader, b) \in Nat
BY HoldingIsNat, QueueCountIsNat DEF Owners, Holding, PkTypes, PacketAssumption

\* A buffer that lies in its pool is on no queue and with no writer.
LEMMA PooledIsFree ==
  ASSUME PacketAssumption, PacketInv, NEW b \in Bufs, pool[b] > 0
  PROVE  /\ \A i \in 1 .. Len(sendCh) : sendCh[i].buf # b
         /\ \A i \in 1 .. Len(recvCh) : recvCh[i].buf # b
         /\ \A c \in Conns : writer[c].buf # b
<1>1. PkTypes /\ Owners(b) = 1
  BY DEF PacketInv, OneOwner
<1>2. InQueue(sendCh, b) = 0 /\ InQueue(recvCh, b) = 0 /\ Holding(Conns, writer, b) = 0
  BY <1>1, OwnersAre
<1>3. QED
  BY <1>1, <1>2, QueueCountIsNat, HoldingIsNat DEF PkTypes, PacketAssumption

\* Filling a pooled buffer disturbs nothing that is on its way.
LEMMA FilledAnew ==
  ASSUME PacketAssumption, PacketInv, NEW b0 \in Bufs, pool[b0] > 0, NEW n,
         holds' = [holds EXCEPT ![b0] = n], UNCHANGED <<sendCh, recvCh, writer>>
  PROVE  StillThere'
<1>1. PkTypes /\ StillThere
  BY DEF PacketInv
<1>2. /\ \A i \in 1 .. Len(sendCh) : sendCh[i].buf # b0
      /\ \A i \in 1 .. Len(recvCh) : recvCh[i].buf # b0
      /\ \A c \in Conns : writer[c].buf # b0
  BY PooledIsFree
<1>3. \A b \in Bufs : b # b0 => holds'[b] = holds[b]
  BY <1>1 DEF PkTypes
<1>4. /\ \A i \in 1 .. Len(sendCh) : sendCh[i].buf \in Bufs
      /\ \A i \in 1 .. Len(recvCh) : recvCh[i].buf \in Bufs
  <2>1. /\ \A i \in 1 .. Len(sendCh) : sendCh[i] \in Item
        /\ \A i \in 1 .. Len(recvCh) : recvCh[i] \in Item
    BY <1>1 DEF PkTypes
  <2>2. QED
    BY <2>1 DEF Item
<1>5. ASSUME NEW c \in Conns, writer[c].at = "writes"
      PROVE  writer[c].buf \in Bufs
  <2>1. writer[c] \in WriterStates
    BY <1>1 DEF PkTypes
  <2>2. QED
    BY <1>5, <2>1 DEF WriterStates, Resting, Ended
<1>6. QED
  BY <1>1, <1>2, <1>3, <1>4, <1>5 DEF StillThere

LEMMA PacketInitial == PacketInit /\ PacketAssumption => PacketInv
<1> SUFFICES ASSUME PacketInit, PacketAssumption
             PROVE  PacketInv
  OBVIOUS
<1> USE DEF PacketInit
<1>1. NoBuf \notin Bufs
  BY DEF PacketAssumption, NoBuf, Bufs
<1>2. PkTypes
  BY DEF PkTypes, SenderStates, ReaderStates, WriterStates
<1>3. ASSUME NEW b \in Bufs
      PROVE  Owners(b) = 1
  <2>1. /\ {p \in Producers : sender[p].buf = b} = {}
        /\ {c \in Conns : writer[c].buf = b} = {} /\ {c \in Conns : reader[c].buf = b} = {}
    BY <1>1 DEF Resting
  <2>2. {i \in 1 .. Len(sendCh) : sendCh[i].buf = b} = {}
        /\ {i \in 1 .. Len(recvCh) : recvCh[i].buf = b} = {}
    OBVIOUS
  <2>3. InQueue(sendCh, b) = 0 /\ InQueue(recvCh, b) = 0
    BY <2>2, FS_EmptySet DEF InQueue
  <2>4. /\ Cardinality({p \in Producers : sender[p].buf = b}) = 0
        /\ Cardinality({c \in Conns : writer[c].buf = b}) = 0
        /\ Cardinality({c \in Conns : reader[c].buf = b}) = 0
    BY <2>1, FS_EmptySet
  <2>5. pool[b] = 1
    OBVIOUS
  <2>6. QED
    BY <2>3, <2>4, <2>5 DEF Owners
<1>4. StillThere
  BY DEF StillThere, Resting
<1>5. QED
  BY <1>2, <1>3, <1>4 DEF PacketInv, OneOwner

\* How many hold b after one producer, writer or reader changed hands.
LEMMA SenderMoves ==
  ASSUME PacketAssumption, NEW s \in Producers, NEW b,
         \A x \in Producers \ {s} : sender'[x] = sender[x]
  PROVE  Holding(Producers, sender', b) + Has(sender[s], b)
           = Holding(Producers, sender, b) + Has(sender'[s], b)
<1>1. IsFiniteSet(Producers)
  BY DEF PacketAssumption
<1>2. QED
  BY <1>1, HoldingMoved

LEMMA WriterMoves ==
  ASSUME PacketAssumption, NEW c \in Conns, NEW b,
         \A x \in Conns \ {c} : writer'[x] = writer[x]
  PROVE  Holding(Conns, writer', b) + Has(writer[c], b)
           = Holding(Conns, writer, b) + Has(writer'[c], b)
<1>1. IsFiniteSet(Conns)
  BY DEF PacketAssumption
<1>2. QED
  BY <1>1, HoldingMoved

LEMMA ReaderMoves ==
  ASSUME PacketAssumption, NEW c \in Conns, NEW b,
         \A x \in Conns \ {c} : reader'[x] = reader[x]
  PROVE  Holding(Conns, reader', b) + Has(reader[c], b)
           = Holding(Conns, reader, b) + Has(reader'[c], b)
<1>1. IsFiniteSet(Conns)
  BY DEF PacketAssumption
<1>2. QED
  BY <1>1, HoldingMoved

LEMMA HasIsNat == \A x, b : Has(x, b) \in {0, 1}
BY DEF Has

LEMMA OwnersWillBe ==
  ASSUME PacketAssumption, PkTypes', NEW b \in Bufs
  PROVE  /\ Owners(b)' = pool'[b] + InQueue(sendCh', b) + InQueue(recvCh', b)
                        + Holding(Producers, sender', b) + Holding(Conns, writer', b)
                        + Holding(Conns, reader', b)
         /\ pool'[b] \in Nat /\ InQueue(sendCh', b) \in Nat /\ InQueue(recvCh', b) \in Nat
         /\ Holding(Producers, sender', b) \in Nat /\ Holding(Conns, writer', b) \in Nat
         /\ Holding(Conns, reader', b) \in Nat
<1>1. sendCh' \in Seq(Item) /\ recvCh' \in Seq(Item) /\ pool' \in [Bufs -> Nat]
  BY DEF PkTypes
<1>2. QED
  BY <1>1, HoldingIsNat, QueueCountIsNat DEF Owners, Holding, InQueue, PacketAssumption

\* What one party gives, another has got.
LEMMA Balance ==
  \A p, q, w, p1, q1, w1 \in Nat : \A h, h1 \in {0, 1} :
    p1 + q1 + h1 = p + q + h /\ w1 + h = w + h1 => p1 + q1 + w1 = p + q + w
OBVIOUS

\* A step is fair to a buffer that changes hands.
LEMMA SenderTransfer ==
  ASSUME PacketAssumption, PkTypes, PkTypes', NEW b \in Bufs, NEW p \in Producers,
         \A x \in Producers \ {p} : sender'[x] = sender[x],
         pool'[b] + InQueue(sendCh', b) + Has(sender'[p], b)
           = pool[b] + InQueue(sendCh, b) + Has(sender[p], b),
         UNCHANGED <<recvCh, writer, reader>>
  PROVE  Owners(b)' = Owners(b)
<1>1. Has(sender[p], b) \in {0, 1} /\ Has(sender'[p], b) \in {0, 1}
  BY HasIsNat
<1>2. Holding(Producers, sender', b) + Has(sender[p], b)
        = Holding(Producers, sender, b) + Has(sender'[p], b)
  BY SenderMoves
<1>3. /\ Owners(b) = pool[b] + InQueue(sendCh, b) + InQueue(recvCh, b)
                       + Holding(Producers, sender, b) + Holding(Conns, writer, b)
                       + Holding(Conns, reader, b)
      /\ pool[b] \in Nat /\ InQueue(sendCh, b) \in Nat /\ InQueue(recvCh, b) \in Nat
      /\ Holding(Producers, sender, b) \in Nat /\ Holding(Conns, writer, b) \in Nat
      /\ Holding(Conns, reader, b) \in Nat
  BY OwnersAre
<1>4. /\ Owners(b)' = pool'[b] + InQueue(sendCh', b) + InQueue(recvCh', b)
                       + Holding(Producers, sender', b) + Holding(Conns, writer', b)
                       + Holding(Conns, reader', b)
      /\ pool'[b] \in Nat /\ InQueue(sendCh', b) \in Nat /\ InQueue(recvCh', b) \in Nat
      /\ Holding(Producers, sender', b) \in Nat /\ Holding(Conns, writer', b) \in Nat
      /\ Holding(Conns, reader', b) \in Nat
  BY OwnersWillBe
<1>5. QED
  BY <1>1, <1>2, <1>3, <1>4

LEMMA WriterTransfer ==
  ASSUME PacketAssumption, PkTypes, PkTypes', NEW b \in Bufs, NEW c \in Conns,
         \A x \in Conns \ {c} : writer'[x] = writer[x],
         pool'[b] + InQueue(sendCh', b) + Has(writer'[c], b)
           = pool[b] + InQueue(sendCh, b) + Has(writer[c], b),
         UNCHANGED <<recvCh, sender, reader>>
  PROVE  Owners(b)' = Owners(b)
<1>1. Has(writer[c], b) \in {0, 1} /\ Has(writer'[c], b) \in {0, 1}
  BY HasIsNat
<1>2. Holding(Conns, writer', b) + Has(writer[c], b)
        = Holding(Conns, writer, b) + Has(writer'[c], b)
  BY WriterMoves
<1>3. /\ Owners(b) = pool[b] + InQueue(sendCh, b) + InQueue(recvCh, b)
                       + Holding(Producers, sender, b) + Holding(Conns, writer, b)
                       + Holding(Conns, reader, b)
      /\ pool[b] \in Nat /\ InQueue(sendCh, b) \in Nat /\ InQueue(recvCh, b) \in Nat
      /\ Holding(Producers, sender, b) \in Nat /\ Holding(Conns, writer, b) \in Nat
      /\ Holding(Conns, reader, b) \in Nat
  BY OwnersAre
<1>4. /\ Owners(b)' = pool'[b] + InQueue(sendCh', b) + InQueue(recvCh', b)
                       + Holding(Producers, sender', b) + Holding(Conns, writer', b)
                       + Holding(Conns, reader', b)
      /\ pool'[b] \in Nat /\ InQueue(sendCh', b) \in Nat /\ InQueue(recvCh', b) \in Nat
      /\ Holding(Producers, sender', b) \in Nat /\ Holding(Conns, writer', b) \in Nat
      /\ Holding(Conns, reader', b) \in Nat
  BY OwnersWillBe
<1>5. /\ InQueue(recvCh', b) = InQueue(recvCh, b)
      /\ Holding(Producers, sender', b) = Holding(Producers, sender, b)
      /\ Holding(Conns, reader', b) = Holding(Conns, reader, b)
  OBVIOUS
<1>6. pool'[b] + InQueue(sendCh', b) + Holding(Conns, writer', b)
        = pool[b] + InQueue(sendCh, b) + Holding(Conns, writer, b)
  BY <1>1, <1>2, <1>3, <1>4, Balance
<1>7. QED
  BY <1>3, <1>4, <1>5, <1>6

LEMMA ReaderTransfer ==
  ASSUME PacketAssumption, PkTypes, PkTypes', NEW b \in Bufs, NEW c \in Conns,
         \A x \in Conns \ {c} : reader'[x] = reader[x],
         pool'[b] + InQueue(recvCh', b) + Has(reader'[c], b)
           = pool[b] + InQueue(recvCh, b) + Has(reader[c], b),
         UNCHANGED <<sendCh, sender, writer>>
  PROVE  Owners(b)' = Owners(b)
<1>1. Has(reader[c], b) \in {0, 1} /\ Has(reader'[c], b) \in {0, 1}
  BY HasIsNat
<1>2. Holding(Conns, reader', b) + Has(reader[c], b)
        = Holding(Conns, reader, b) + Has(reader'[c], b)
  BY ReaderMoves
<1>3. /\ Owners(b) = pool[b] + InQueue(sendCh, b) + InQueue(recvCh, b)
                       + Holding(Producers, sender, b) + Holding(Conns, writer, b)
                       + Holding(Conns, reader, b)
      /\ pool[b] \in Nat /\ InQueue(sendCh, b) \in Nat /\ InQueue(recvCh, b) \in Nat
      /\ Holding(Producers, sender, b) \in Nat /\ Holding(Conns, writer, b) \in Nat
      /\ Holding(Conns, reader, b) \in Nat
  BY OwnersAre
<1>4. /\ Owners(b)' = pool'[b] + InQueue(sendCh', b) + InQueue(recvCh', b)
                       + Holding(Producers, sender', b) + Holding(Conns, writer', b)
                       + Holding(Conns, reader', b)
      /\ pool'[b] \in Nat /\ InQueue(sendCh', b) \in Nat /\ InQueue(recvCh', b) \in Nat
      /\ Holding(Producers, sender', b) \in Nat /\ Holding(Conns, writer', b) \in Nat
      /\ Holding(Conns, reader', b) \in Nat
  BY OwnersWillBe
<1>5. /\ InQueue(sendCh', b) = InQueue(sendCh, b)
      /\ Holding(Producers, sender', b) = Holding(Producers, sender, b)
      /\ Holding(Conns, writer', b) = Holding(Conns, writer, b)
  OBVIOUS
<1>6. QED
  BY <1>1, <1>2, <1>3, <1>4, <1>5

LEMMA PacketProducers ==
  ASSUME PacketAssumption, PacketInv, NEW p \in Producers,
         Enqueue(p) \/ Block(p) \/ SendCancelled(p) \/ \E b \in TxBufs : Copy(p, b)
  PROVE  PacketInv'
<1> USE DEF pumps, queues, life, counts
<1> /\ PkTypes /\ StillThere /\ OneOwner /\ ~garbled
    /\ NoBuf \notin Bufs /\ TxBufs \subseteq Bufs
  BY DEF PacketInv, PacketAssumption, NoBuf, Bufs
<1> sender[p] \in SenderStates
  BY DEF PkTypes
<1> sender[p].at \in {"copied", "blocked"} => sender[p].buf \in Bufs
  BY DEF SenderStates, Resting
<1>1. CASE Enqueue(p)
  <2> DEFINE e == Carries(sender[p].buf)
  <2>1. /\ sender[p].buf \in Bufs /\ sendCh' = Append(sendCh, e)
        /\ sender' = [sender EXCEPT ![p] = Resting]
        /\ UNCHANGED <<pool, holds, recvCh, writer, reader, sentUp, readDown, garbled>>
    BY <1>1 DEF Enqueue
  <2>2. e \in Item /\ e.was = holds[e.buf] /\ e.buf = sender[p].buf
    BY <2>1 DEF Carries, Item, PkTypes
  <2>3. PkTypes'
    BY <2>1, <2>2, QueueAppend DEF PkTypes, SenderStates
  <2>4. sender'[p] = Resting /\ \A x \in Producers \ {p} : sender'[x] = sender[x]
    BY <2>1 DEF PkTypes
  <2>5. ASSUME NEW b \in Bufs
        PROVE  Owners(b)' = Owners(b)
    <3>1. InQueue(sendCh', b) = InQueue(sendCh, b) + Has(e, b)
      BY <2>1, <2>2, QueueAppend DEF PkTypes
    <3>2. Has(e, b) = Has(sender[p], b) /\ Has(sender'[p], b) = 0
      BY <2>2, <2>4 DEF Has, Resting
    <3>3. pool[b] \in Nat /\ InQueue(sendCh, b) \in Nat /\ Has(sender[p], b) \in {0, 1}
      BY OwnersAre, HasIsNat
    <3>4. pool'[b] = pool[b]
      BY <2>1
    <3>5. pool'[b] + InQueue(sendCh', b) + Has(sender'[p], b)
            = pool[b] + InQueue(sendCh, b) + Has(sender[p], b)
      BY <3>1, <3>2, <3>3, <3>4
    <3>6. QED
      BY <2>1, <2>3, <2>4, <3>5, SenderTransfer
  <2>6. StillThere'
    <3>1. /\ Len(sendCh') = Len(sendCh) + 1 /\ sendCh'[Len(sendCh) + 1] = e
          /\ \A i \in 1 .. Len(sendCh) : sendCh'[i] = sendCh[i]
          /\ Len(sendCh) \in Nat
      BY <2>1, <2>2 DEF PkTypes
    <3>2. \A i \in 1 .. Len(sendCh') : i \in 1 .. Len(sendCh) \/ i = Len(sendCh) + 1
      BY <3>1
    <3>3. QED
      BY <2>1, <2>2, <3>1, <3>2 DEF StillThere
  <2>7. QED
    BY <2>1, <2>3, <2>5, <2>6 DEF PacketInv, OneOwner
<1>2. CASE Block(p)
  <2>1. /\ sender[p].at = "copied" /\ sender' = [sender EXCEPT ![p].at = "blocked"]
        /\ UNCHANGED <<pool, holds, sendCh, recvCh, writer, reader, sentUp, readDown, garbled>>
    BY <1>2 DEF Block
  <2>2. /\ sender'[p] = [at |-> "blocked", buf |-> sender[p].buf] /\ sender[p].buf \in Bufs
        /\ \A x \in Producers \ {p} : sender'[x] = sender[x]
    BY <2>1 DEF PkTypes, SenderStates, Resting
  <2>3. PkTypes'
    <3>1. sender'[p] \in SenderStates
      BY <2>2 DEF SenderStates
    <3>2. sender' \in [Producers -> SenderStates]
      BY <2>1, <2>2, <3>1 DEF PkTypes
    <3>3. QED
      BY <2>1, <3>2 DEF PkTypes
  <2>4. ASSUME NEW b \in Bufs
        PROVE  Owners(b)' = Owners(b)
    <3>1. Has(sender'[p], b) = Has(sender[p], b)
      BY <2>2 DEF Has
    <3>2. QED
      BY <2>1, <2>2, <2>3, <3>1, SenderTransfer
  <2>5. QED
    BY <2>1, <2>3, <2>4 DEF PacketInv, StillThere, OneOwner
<1>3. CASE SendCancelled(p)
  <2>1. /\ sender[p].buf \in Bufs /\ pool' = [pool EXCEPT ![sender[p].buf] = @ + 1]
        /\ sender' = [sender EXCEPT ![p] = Resting]
        /\ UNCHANGED <<holds, sendCh, recvCh, writer, reader, sentUp, readDown, garbled>>
    BY <1>3 DEF SendCancelled, Puts
  <2>2. PkTypes'
    BY <2>1 DEF PkTypes, SenderStates
  <2>3. sender'[p] = Resting /\ \A x \in Producers \ {p} : sender'[x] = sender[x]
    BY <2>1 DEF PkTypes
  <2>4. ASSUME NEW b \in Bufs
        PROVE  Owners(b)' = Owners(b)
    <3>1. pool'[b] = pool[b] + Has(sender[p], b) /\ Has(sender'[p], b) = 0
      BY <2>1, <2>3 DEF Has, Resting, PkTypes
    <3>2. pool[b] \in Nat /\ InQueue(sendCh, b) \in Nat /\ Has(sender[p], b) \in {0, 1}
      BY OwnersAre, HasIsNat
    <3>3. pool'[b] + InQueue(sendCh', b) + Has(sender'[p], b)
            = pool[b] + InQueue(sendCh, b) + Has(sender[p], b)
      BY <2>1, <3>1, <3>2
    <3>4. QED
      BY <2>1, <2>2, <2>3, <3>3, SenderTransfer
  <2>5. QED
    BY <2>1, <2>2, <2>4 DEF PacketInv, StillThere, OneOwner
<1>4. ASSUME NEW b0 \in TxBufs, Copy(p, b0)
      PROVE  PacketInv'
  <2>1. /\ sender[p] = Resting /\ b0 \in Bufs /\ pool[b0] > 0
        /\ pool' = [pool EXCEPT ![b0] = @ - 1]
        /\ holds' = [holds EXCEPT ![b0] = sentUp + 1] /\ sentUp' = sentUp + 1
        /\ sender' = [sender EXCEPT ![p] = With(b0, "copied")]
        /\ UNCHANGED <<sendCh, recvCh, writer, reader, readDown, garbled>>
    BY <1>4 DEF Copy, Gets
  <2>2. PkTypes'
    <3>1. With(b0, "copied") \in SenderStates
      BY <2>1 DEF With, SenderStates
    <3>2. pool' \in [Bufs -> Nat] /\ holds' \in [Bufs -> Nat] /\ sentUp' \in Nat
      BY <2>1 DEF PkTypes
    <3>3. QED
      BY <2>1, <3>1, <3>2 DEF PkTypes
  <2>3. sender'[p] = With(b0, "copied") /\ \A x \in Producers \ {p} : sender'[x] = sender[x]
    BY <2>1 DEF PkTypes
  <2>4. ASSUME NEW b \in Bufs
        PROVE  Owners(b)' = Owners(b)
    <3>1. pool'[b] + Has(sender'[p], b) = pool[b] /\ Has(sender[p], b) = 0
      BY <2>1, <2>3 DEF Has, Resting, With, PkTypes
    <3>2. /\ pool[b] \in Nat /\ pool'[b] \in Nat /\ InQueue(sendCh, b) \in Nat
          /\ Has(sender'[p], b) \in {0, 1}
      BY <2>2, OwnersAre, OwnersWillBe, HasIsNat
    <3>3. pool'[b] + InQueue(sendCh', b) + Has(sender'[p], b)
            = pool[b] + InQueue(sendCh, b) + Has(sender[p], b)
      BY <2>1, <3>1, <3>2
    <3>4. QED
      BY <2>1, <2>2, <2>3, <3>3, SenderTransfer
  <2>5. StillThere'
    BY <2>1, FilledAnew DEF Item
  <2>6. QED
    BY <2>1, <2>2, <2>4, <2>5 DEF PacketInv, OneOwner
<1>5. QED
  BY <1>1, <1>2, <1>3, <1>4

LEMMA PacketWriters ==
  ASSUME PacketAssumption, PacketInv, NEW c \in Conns,
         Dequeue(c) \/ WriterEnds(c) \/ \E ok \in BOOLEAN : Write(c, ok)
  PROVE  PacketInv'
<1> USE DEF pumps, queues, life, counts
<1> /\ PkTypes /\ StillThere /\ OneOwner /\ ~garbled /\ NoBuf \notin Bufs
  BY DEF PacketInv, PacketAssumption, NoBuf, Bufs
<1> writer[c] \in WriterStates
  BY DEF PkTypes
<1>1. CASE Dequeue(c)
  <2> DEFINE e == Head(sendCh)
             w == [at |-> "writes", buf |-> e.buf, was |-> e.was]
  <2>1. /\ writer[c] = Resting /\ sendCh # << >> /\ sendCh' = Tail(sendCh)
        /\ writer' = [writer EXCEPT ![c] = w]
        /\ UNCHANGED <<pool, holds, sender, recvCh, reader, sentUp, readDown, garbled>>
    BY <1>1 DEF Dequeue
  <2>2. e \in Item /\ Tail(sendCh) \in Seq(Item)
    BY <2>1, QueueTail DEF PkTypes
  <2>3. PkTypes'
    <3>1. w \in WriterStates
      BY <2>2 DEF Item, WriterStates
    <3>2. QED
      BY <2>1, <2>2, <3>1 DEF PkTypes
  <2>4. writer'[c] = w /\ \A x \in Conns \ {c} : writer'[x] = writer[x]
    BY <2>1 DEF PkTypes
  <2>5. ASSUME NEW b \in Bufs
        PROVE  Owners(b)' = Owners(b)
    <3>1. InQueue(sendCh, b) = InQueue(sendCh', b) + Has(e, b)
      BY <2>1, QueueTail DEF PkTypes
    <3>2. Has(writer'[c], b) = Has(e, b) /\ Has(writer[c], b) = 0
      BY <2>1, <2>4 DEF Has, Resting
    <3>3. pool[b] \in Nat /\ InQueue(sendCh', b) \in Nat /\ Has(e, b) \in {0, 1}
      BY <2>3, OwnersAre, OwnersWillBe, HasIsNat
    <3>4. pool'[b] = pool[b]
      BY <2>1
    <3>5. pool'[b] + InQueue(sendCh', b) + Has(writer'[c], b)
            = pool[b] + InQueue(sendCh, b) + Has(writer[c], b)
      BY <3>1, <3>2, <3>3, <3>4
    <3>6. QED
      BY <2>1, <2>3, <2>4, <3>5, WriterTransfer
  <2>6. StillThere'
    <3>1. /\ e = sendCh[1] /\ Len(sendCh') = Len(sendCh) - 1 /\ Len(sendCh) \in Nat
          /\ \A i \in 1 .. Len(sendCh) - 1 : sendCh'[i] = sendCh[i + 1]
          /\ \A i \in 1 .. Len(sendCh) - 1 : i + 1 \in 1 .. Len(sendCh)
          /\ 1 \in 1 .. Len(sendCh)
      BY <2>1 DEF PkTypes
    <3>2. holds[e.buf] = e.was
      BY <3>1 DEF StillThere
    <3>3. \A x \in Conns : writer'[x].at = "writes" => holds[writer'[x].buf] = writer'[x].was
      BY <2>4, <3>2 DEF StillThere
    <3>4. \A i \in 1 .. Len(sendCh') : holds[sendCh'[i].buf] = sendCh'[i].was
      BY <3>1 DEF StillThere
    <3>5. QED
      BY <2>1, <3>3, <3>4 DEF StillThere
  <2>7. QED
    BY <2>1, <2>3, <2>5, <2>6 DEF PacketInv, OneOwner
<1>2. CASE WriterEnds(c)
  <2>1. /\ writer[c] = Resting /\ writer' = [writer EXCEPT ![c] = Ended]
        /\ UNCHANGED <<pool, holds, sender, sendCh, recvCh, reader, sentUp, readDown, garbled>>
    BY <1>2 DEF WriterEnds
  <2>2. PkTypes'
    BY <2>1 DEF PkTypes, WriterStates
  <2>3. writer'[c] = Ended /\ \A x \in Conns \ {c} : writer'[x] = writer[x]
    BY <2>1 DEF PkTypes
  <2>4. ASSUME NEW b \in Bufs
        PROVE  Owners(b)' = Owners(b)
    <3>1. Has(writer'[c], b) = Has(writer[c], b)
      BY <2>1, <2>3 DEF Has, Resting, Ended
    <3>2. QED
      BY <2>1, <2>2, <2>3, <3>1, WriterTransfer
  <2>5. StillThere'
    BY <2>1, <2>3 DEF StillThere, Ended
  <2>6. QED
    BY <2>1, <2>2, <2>4, <2>5 DEF PacketInv, OneOwner
<1>3. ASSUME NEW ok \in BOOLEAN, Write(c, ok)
      PROVE  PacketInv'
  <2>1. /\ writer[c].at = "writes" /\ pool' = [pool EXCEPT ![writer[c].buf] = @ + 1]
        /\ garbled' = (garbled \/ holds[writer[c].buf] # writer[c].was)
        /\ writer' = [writer EXCEPT ![c] = IF ok THEN Resting ELSE Ended]
        /\ UNCHANGED <<holds, sender, sendCh, recvCh, reader, sentUp, readDown>>
    BY <1>3 DEF Write, PutBack, Puts
  <2>2. writer[c].buf \in Bufs /\ ~garbled'
    <3>1. writer[c].buf \in Bufs
      BY <2>1 DEF WriterStates, Resting, Ended
    <3>2. holds[writer[c].buf] = writer[c].was
      BY <2>1 DEF StillThere
    <3>3. QED
      BY <2>1, <3>1, <3>2
  <2>3. PkTypes'
    <3>1. pool' \in [Bufs -> Nat]
      BY <2>1, <2>2 DEF PkTypes
    <3>2. QED
      BY <2>1, <3>1 DEF PkTypes, WriterStates
  <2>4. /\ writer'[c] \in {Resting, Ended}
        /\ \A x \in Conns \ {c} : writer'[x] = writer[x]
    BY <2>1 DEF PkTypes
  <2>5. ASSUME NEW b \in Bufs
        PROVE  Owners(b)' = Owners(b)
    <3>1. Has(writer'[c], b) = 0
      BY <2>4 DEF Has, Resting, Ended
    <3>2. pool'[b] = pool[b] + Has(writer[c], b)
      BY <2>1, <2>2 DEF Has, PkTypes
    <3>3. pool[b] \in Nat /\ InQueue(sendCh, b) \in Nat /\ Has(writer[c], b) \in {0, 1}
      BY OwnersAre, HasIsNat
    <3>4. sendCh' = sendCh
      BY <2>1
    <3>5. pool'[b] + InQueue(sendCh', b) + Has(writer'[c], b)
            = pool[b] + InQueue(sendCh, b) + Has(writer[c], b)
      BY <3>1, <3>2, <3>3, <3>4
    <3>6. QED
      BY <2>1, <2>3, <2>4, <3>5, WriterTransfer
  <2>6. StillThere'
    BY <2>1, <2>4 DEF StillThere, Resting, Ended
  <2>7. QED
    BY <2>2, <2>3, <2>5, <2>6 DEF PacketInv, OneOwner
<1>4. QED
  BY <1>1, <1>2, <1>3

LEMMA PacketReaders ==
  ASSUME PacketAssumption, PacketInv, NEW c \in Conns,
         \/ ReadFails(c) \/ EnqueueRecv(c) \/ BlockRecv(c) \/ RecvCancelled(c)
         \/ \E b \in RxBufs : ReadPacket(c, b)
  PROVE  PacketInv'
<1> USE DEF pumps, queues, life, counts
<1> /\ PkTypes /\ StillThere /\ OneOwner /\ ~garbled
    /\ NoBuf \notin Bufs /\ RxBufs \subseteq Bufs
  BY DEF PacketInv, PacketAssumption, NoBuf, Bufs
<1> reader[c] \in ReaderStates
  BY DEF PkTypes
<1> reader[c].at \in {"read", "blocked"} => reader[c].buf \in Bufs
  BY DEF ReaderStates, Resting, Ended
<1>1. CASE EnqueueRecv(c)
  <2> DEFINE e == Carries(reader[c].buf)
  <2>1. /\ reader[c].buf \in Bufs /\ recvCh' = Append(recvCh, e)
        /\ reader' = [reader EXCEPT ![c] = Resting]
        /\ UNCHANGED <<pool, holds, sendCh, sender, writer, sentUp, readDown, garbled>>
    BY <1>1 DEF EnqueueRecv
  <2>2. e \in Item /\ e.was = holds[e.buf] /\ e.buf = reader[c].buf
    BY <2>1 DEF Carries, Item, PkTypes
  <2>3. PkTypes'
    BY <2>1, <2>2, QueueAppend DEF PkTypes, ReaderStates
  <2>4. reader'[c] = Resting /\ \A x \in Conns \ {c} : reader'[x] = reader[x]
    BY <2>1 DEF PkTypes
  <2>5. ASSUME NEW b \in Bufs
        PROVE  Owners(b)' = Owners(b)
    <3>1. InQueue(recvCh', b) = InQueue(recvCh, b) + Has(e, b)
      BY <2>1, <2>2, QueueAppend DEF PkTypes
    <3>2. Has(e, b) = Has(reader[c], b) /\ Has(reader'[c], b) = 0
      BY <2>2, <2>4 DEF Has, Resting
    <3>3. pool[b] \in Nat /\ InQueue(recvCh, b) \in Nat /\ Has(reader[c], b) \in {0, 1}
      BY OwnersAre, HasIsNat
    <3>4. pool'[b] = pool[b]
      BY <2>1
    <3>5. pool'[b] + InQueue(recvCh', b) + Has(reader'[c], b)
            = pool[b] + InQueue(recvCh, b) + Has(reader[c], b)
      BY <3>1, <3>2, <3>3, <3>4
    <3>6. QED
      BY <2>1, <2>3, <2>4, <3>5, ReaderTransfer
  <2>6. StillThere'
    <3>1. /\ Len(recvCh') = Len(recvCh) + 1 /\ recvCh'[Len(recvCh) + 1] = e
          /\ \A i \in 1 .. Len(recvCh) : recvCh'[i] = recvCh[i]
          /\ Len(recvCh) \in Nat
      BY <2>1, <2>2 DEF PkTypes
    <3>2. \A i \in 1 .. Len(recvCh') : i \in 1 .. Len(recvCh) \/ i = Len(recvCh) + 1
      BY <3>1
    <3>3. QED
      BY <2>1, <2>2, <3>1, <3>2 DEF StillThere
  <2>7. QED
    BY <2>1, <2>3, <2>5, <2>6 DEF PacketInv, OneOwner
<1>2. CASE BlockRecv(c)
  <2>1. /\ reader[c].at = "read" /\ reader' = [reader EXCEPT ![c].at = "blocked"]
        /\ UNCHANGED <<pool, holds, sendCh, recvCh, sender, writer, sentUp, readDown, garbled>>
    BY <1>2 DEF BlockRecv
  <2>2. /\ reader'[c] = [at |-> "blocked", buf |-> reader[c].buf] /\ reader[c].buf \in Bufs
        /\ \A x \in Conns \ {c} : reader'[x] = reader[x]
    BY <2>1 DEF PkTypes, ReaderStates, Resting, Ended
  <2>3. PkTypes'
    <3>1. reader'[c] \in ReaderStates
      BY <2>2 DEF ReaderStates
    <3>2. reader' \in [Conns -> ReaderStates]
      BY <2>1, <2>2, <3>1 DEF PkTypes
    <3>3. QED
      BY <2>1, <3>2 DEF PkTypes
  <2>4. ASSUME NEW b \in Bufs
        PROVE  Owners(b)' = Owners(b)
    <3>1. Has(reader'[c], b) = Has(reader[c], b)
      BY <2>2 DEF Has
    <3>2. QED
      BY <2>1, <2>2, <2>3, <3>1, ReaderTransfer
  <2>5. QED
    BY <2>1, <2>3, <2>4 DEF PacketInv, StillThere, OneOwner
<1>3. CASE RecvCancelled(c)
  <2>1. /\ reader[c].buf \in Bufs /\ pool' = [pool EXCEPT ![reader[c].buf] = @ + 1]
        /\ reader' = [reader EXCEPT ![c] = Ended]
        /\ UNCHANGED <<holds, sendCh, recvCh, sender, writer, sentUp, readDown, garbled>>
    BY <1>3 DEF RecvCancelled, Puts
  <2>2. PkTypes'
    BY <2>1 DEF PkTypes, ReaderStates
  <2>3. reader'[c] = Ended /\ \A x \in Conns \ {c} : reader'[x] = reader[x]
    BY <2>1 DEF PkTypes
  <2>4. ASSUME NEW b \in Bufs
        PROVE  Owners(b)' = Owners(b)
    <3>1. pool'[b] = pool[b] + Has(reader[c], b) /\ Has(reader'[c], b) = 0
      BY <2>1, <2>3 DEF Has, Ended, PkTypes
    <3>2. pool[b] \in Nat /\ InQueue(recvCh, b) \in Nat /\ Has(reader[c], b) \in {0, 1}
      BY OwnersAre, HasIsNat
    <3>3. pool'[b] + InQueue(recvCh', b) + Has(reader'[c], b)
            = pool[b] + InQueue(recvCh, b) + Has(reader[c], b)
      BY <2>1, <3>1, <3>2
    <3>4. QED
      BY <2>1, <2>2, <2>3, <3>3, ReaderTransfer
  <2>5. QED
    BY <2>1, <2>2, <2>4 DEF PacketInv, StillThere, OneOwner
<1>4. CASE ReadFails(c)
  <2>1. /\ reader[c] = Resting /\ reader' = [reader EXCEPT ![c] = Ended]
        /\ UNCHANGED <<pool, holds, sendCh, recvCh, sender, writer, sentUp, readDown, garbled>>
    BY <1>4 DEF ReadFails
  <2>2. PkTypes'
    BY <2>1 DEF PkTypes, ReaderStates
  <2>3. reader'[c] = Ended /\ \A x \in Conns \ {c} : reader'[x] = reader[x]
    BY <2>1 DEF PkTypes
  <2>4. ASSUME NEW b \in Bufs
        PROVE  Owners(b)' = Owners(b)
    <3>1. Has(reader'[c], b) = Has(reader[c], b)
      BY <2>1, <2>3 DEF Has, Resting, Ended
    <3>2. QED
      BY <2>1, <2>2, <2>3, <3>1, ReaderTransfer
  <2>5. QED
    BY <2>1, <2>2, <2>4 DEF PacketInv, StillThere, OneOwner
<1>5. ASSUME NEW b0 \in RxBufs, ReadPacket(c, b0)
      PROVE  PacketInv'
  <2>1. /\ reader[c] = Resting /\ b0 \in Bufs /\ pool[b0] > 0
        /\ pool' = [pool EXCEPT ![b0] = @ - 1]
        /\ holds' = [holds EXCEPT ![b0] = readDown + 1] /\ readDown' = readDown + 1
        /\ reader' = [reader EXCEPT ![c] = With(b0, "read")]
        /\ UNCHANGED <<sendCh, recvCh, writer, sender, sentUp, garbled>>
    BY <1>5 DEF ReadPacket, Gets
  <2>2. PkTypes'
    <3>1. With(b0, "read") \in ReaderStates
      BY <2>1 DEF With, ReaderStates
    <3>2. pool' \in [Bufs -> Nat] /\ holds' \in [Bufs -> Nat] /\ readDown' \in Nat
      BY <2>1 DEF PkTypes
    <3>3. QED
      BY <2>1, <3>1, <3>2 DEF PkTypes
  <2>3. reader'[c] = With(b0, "read") /\ \A x \in Conns \ {c} : reader'[x] = reader[x]
    BY <2>1 DEF PkTypes
  <2>4. ASSUME NEW b \in Bufs
        PROVE  Owners(b)' = Owners(b)
    <3>1. pool'[b] + Has(reader'[c], b) = pool[b] /\ Has(reader[c], b) = 0
      BY <2>1, <2>3 DEF Has, Resting, With, PkTypes
    <3>2. /\ pool[b] \in Nat /\ pool'[b] \in Nat /\ InQueue(recvCh, b) \in Nat
          /\ Has(reader'[c], b) \in {0, 1}
      BY <2>2, OwnersAre, OwnersWillBe, HasIsNat
    <3>3. pool'[b] + InQueue(recvCh', b) + Has(reader'[c], b)
            = pool[b] + InQueue(recvCh, b) + Has(reader[c], b)
      BY <2>1, <3>1, <3>2
    <3>4. QED
      BY <2>1, <2>2, <2>3, <3>3, ReaderTransfer
  <2>5. StillThere'
    BY <2>1, FilledAnew DEF Item
  <2>6. QED
    BY <2>1, <2>2, <2>4, <2>5 DEF PacketInv, OneOwner
<1>6. QED
  BY <1>1, <1>2, <1>3, <1>4, <1>5

LEMMA PacketReceived ==
  ASSUME PacketAssumption, PacketInv, ReceivePacket
  PROVE  PacketInv'
<1> USE DEF pumps, queues, life, counts
<1> /\ PkTypes /\ StillThere /\ OneOwner /\ ~garbled
  BY DEF PacketInv
<1> DEFINE e == Head(recvCh)
<1>1. /\ recvCh # << >> /\ recvCh' = Tail(recvCh) /\ pool' = [pool EXCEPT ![e.buf] = @ + 1]
      /\ garbled' = (garbled \/ holds[e.buf] # e.was)
      /\ UNCHANGED <<holds, sender, sendCh, writer, reader, sentUp, readDown>>
  BY DEF ReceivePacket, Puts
<1>2. e \in Item /\ Tail(recvCh) \in Seq(Item) /\ e.buf \in Bufs
  BY <1>1, QueueTail DEF PkTypes, Item
<1>3. PkTypes'
  <2>1. pool' \in [Bufs -> Nat]
    BY <1>1, <1>2 DEF PkTypes
  <2>2. QED
    BY <1>1, <1>2, <2>1 DEF PkTypes
<1>4. /\ e = recvCh[1] /\ Len(recvCh') = Len(recvCh) - 1 /\ Len(recvCh) \in Nat
      /\ \A i \in 1 .. Len(recvCh) - 1 : recvCh'[i] = recvCh[i + 1]
      /\ \A i \in 1 .. Len(recvCh) - 1 : i + 1 \in 1 .. Len(recvCh)
      /\ 1 \in 1 .. Len(recvCh)
  BY <1>1 DEF PkTypes
<1>5. ~garbled'
  <2>1. holds[e.buf] = e.was
    BY <1>4 DEF StillThere
  <2>2. QED
    BY <1>1, <2>1
<1>6. ASSUME NEW b \in Bufs
      PROVE  Owners(b)' = Owners(b)
  <2>1. InQueue(recvCh, b) = InQueue(recvCh', b) + Has(e, b)
    BY <1>1, QueueTail DEF PkTypes
  <2>2. pool'[b] = pool[b] + Has(e, b)
    BY <1>1, <1>2 DEF Has, PkTypes
  <2>3. pool[b] \in Nat /\ InQueue(recvCh', b) \in Nat /\ Has(e, b) \in {0, 1}
    BY <1>3, OwnersAre, OwnersWillBe, HasIsNat
  <2>4. pool'[b] + InQueue(recvCh', b) = pool[b] + InQueue(recvCh, b)
    BY <2>1, <2>2, <2>3
  <2>5. /\ InQueue(sendCh', b) = InQueue(sendCh, b)
        /\ Holding(Producers, sender', b) = Holding(Producers, sender, b)
        /\ Holding(Conns, writer', b) = Holding(Conns, writer, b)
        /\ Holding(Conns, reader', b) = Holding(Conns, reader, b)
    BY <1>1
  <2>6. /\ Owners(b) = pool[b] + InQueue(sendCh, b) + InQueue(recvCh, b)
                       + Holding(Producers, sender, b) + Holding(Conns, writer, b)
                       + Holding(Conns, reader, b)
        /\ pool[b] \in Nat /\ InQueue(sendCh, b) \in Nat /\ InQueue(recvCh, b) \in Nat
        /\ Holding(Producers, sender, b) \in Nat /\ Holding(Conns, writer, b) \in Nat
        /\ Holding(Conns, reader, b) \in Nat
    BY OwnersAre
  <2>7. /\ Owners(b)' = pool'[b] + InQueue(sendCh', b) + InQueue(recvCh', b)
                       + Holding(Producers, sender', b) + Holding(Conns, writer', b)
                       + Holding(Conns, reader', b)
        /\ pool'[b] \in Nat /\ InQueue(recvCh', b) \in Nat
    BY <1>3, OwnersWillBe
  <2>8. QED
    BY <2>4, <2>5, <2>6, <2>7
<1>7. StillThere'
  <2>1. \A i \in 1 .. Len(recvCh') : holds[recvCh'[i].buf] = recvCh'[i].was
    BY <1>4 DEF StillThere
  <2>2. QED
    BY <1>1, <2>1 DEF StillThere
<1>8. QED
  BY <1>3, <1>5, <1>6, <1>7 DEF PacketInv, OneOwner

LEMMA PacketNextSession ==
  ASSUME PacketAssumption, PacketInv, NEW c \in Conns, NextSession(c)
  PROVE  PacketInv'
<1> USE DEF pumps, queues, life, counts
<1> /\ PkTypes /\ StillThere /\ OneOwner /\ ~garbled /\ NoBuf \notin Bufs
  BY DEF PacketInv, PacketAssumption, NoBuf, Bufs
<1>1. /\ writer[c] = Ended /\ reader[c] = Ended
      /\ writer' = [writer EXCEPT ![c] = Resting] /\ reader' = [reader EXCEPT ![c] = Resting]
      /\ UNCHANGED <<pool, holds, sender, sendCh, recvCh, sentUp, readDown, garbled>>
  BY DEF NextSession
<1>2. PkTypes'
  BY <1>1 DEF PkTypes, WriterStates, ReaderStates
<1>3. /\ writer'[c] = Resting /\ \A x \in Conns \ {c} : writer'[x] = writer[x]
      /\ reader'[c] = Resting /\ \A x \in Conns \ {c} : reader'[x] = reader[x]
  BY <1>1 DEF PkTypes
<1>4. ASSUME NEW b \in Bufs
      PROVE  Owners(b)' = Owners(b)
  <2>1. /\ Has(writer[c], b) = 0 /\ Has(writer'[c], b) = 0
        /\ Has(reader[c], b) = 0 /\ Has(reader'[c], b) = 0
    BY <1>1, <1>3 DEF Has, Resting, Ended
  <2>2. /\ Holding(Conns, writer', b) + 0 = Holding(Conns, writer, b) + 0
        /\ Holding(Conns, reader', b) + 0 = Holding(Conns, reader, b) + 0
    BY <1>3, <2>1, WriterMoves, ReaderMoves
  <2>3. /\ Owners(b) = pool[b] + InQueue(sendCh, b) + InQueue(recvCh, b)
                       + Holding(Producers, sender, b) + Holding(Conns, writer, b)
                       + Holding(Conns, reader, b)
        /\ Holding(Conns, writer, b) \in Nat /\ Holding(Conns, reader, b) \in Nat
    BY OwnersAre
  <2>4. /\ Owners(b)' = pool'[b] + InQueue(sendCh', b) + InQueue(recvCh', b)
                       + Holding(Producers, sender', b) + Holding(Conns, writer', b)
                       + Holding(Conns, reader', b)
        /\ Holding(Conns, writer', b) \in Nat /\ Holding(Conns, reader', b) \in Nat
    BY <1>2, OwnersWillBe
  <2>5. /\ Holding(Conns, writer', b) = Holding(Conns, writer, b)
        /\ Holding(Conns, reader', b) = Holding(Conns, reader, b)
    BY <2>2, <2>3, <2>4
  <2>6. QED
    BY <1>1, <2>3, <2>4, <2>5
<1>5. StillThere'
  BY <1>1, <1>3 DEF StillThere, Resting
<1>6. QED
  BY <1>1, <1>2, <1>4, <1>5 DEF PacketInv, OneOwner

\* Where nothing of it changes.
LEMMA PacketUntouched ==
  ASSUME PacketInv,
         UNCHANGED <<pool, holds, sender, sendCh, recvCh, writer, reader, sentUp, readDown,
                     garbled>>
  PROVE  PacketInv'
<1>1. PkTypes' /\ StillThere' /\ ~garbled'
  BY DEF PacketInv, PkTypes, StillThere
<1>2. \A b \in Bufs : Owners(b)' = Owners(b)
  BY DEF Owners, InQueue
<1>3. QED
  BY <1>1, <1>2 DEF PacketInv, OneOwner

LEMMA PacketKept == PacketInv /\ [PacketNext]_packetVars /\ PacketAssumption => PacketInv'
<1> SUFFICES ASSUME PacketInv, [PacketNext]_packetVars, PacketAssumption
             PROVE  PacketInv'
  OBVIOUS
<1>1. CASE UNCHANGED packetVars
  BY <1>1, PacketUntouched DEF packetVars
<1>2. CASE ReceivePacket
  BY <1>2, PacketReceived
<1>3. CASE StopTunnel \/ \E c \in Conns : CancelConn(c)
  BY <1>3, PacketUntouched DEF StopTunnel, CancelConn, pumps, queues, counts
<1>4. ASSUME NEW p \in Producers,
             Enqueue(p) \/ Block(p) \/ SendCancelled(p) \/ \E b \in TxBufs : Copy(p, b)
      PROVE  PacketInv'
  BY <1>4, PacketProducers
<1>5. ASSUME NEW c \in Conns,
             Dequeue(c) \/ WriterEnds(c) \/ \E ok \in BOOLEAN : Write(c, ok)
      PROVE  PacketInv'
  BY <1>5, PacketWriters
<1>6. ASSUME NEW c \in Conns,
             \/ ReadFails(c) \/ EnqueueRecv(c) \/ BlockRecv(c) \/ RecvCancelled(c)
             \/ \E b \in RxBufs : ReadPacket(c, b)
      PROVE  PacketInv'
  BY <1>6, PacketReaders
<1>7. ASSUME NEW c \in Conns, NextSession(c)
      PROVE  PacketInv'
  BY <1>7, PacketNextSession
<1>8. QED
  BY <1>1, <1>2, <1>3, <1>4, <1>5, <1>6, <1>7 DEF PacketNext

-----------------------------------------------------------------------------
(* The buffers of an SRTP connection                                       *)

WrapTypes ==
  /\ pktPool \in [WrapBufs -> Nat] /\ dtlsCh \in Seq(WrapBufs) /\ rtpCh \in Seq(WrapBufs)
  /\ demux \in {Reading, DemuxOver}
       \cup [at : {"puts"}, buf : WrapBufs, class : {"dtls", "rtp"}]
WrapInv == WrapTypes /\ WrapOwned
\* Where buffer b is, counted; a record that pion has read is nowhere.
WrapPlaces(b) == pktPool[b] + In(dtlsCh, b) + In(rtpCh, b) + Has(demux, b)

LEMMA WrapPlacesAre ==
  /\ WrapOwned <=> \A b \in WrapBufs : WrapPlaces(b) <= 1
  /\ WrapOwned' <=> \A b \in WrapBufs : WrapPlaces(b)' <= 1
BY DEF WrapOwned, WrapPlaces, Has

LEMMA InIsCount == \A q, b : In(q, b) = Count(q, {b})
<1>1. ASSUME NEW q, NEW b
      PROVE  In(q, b) = Count(q, {b})
  <2>1. {i \in 1 .. Len(q) : q[i] = b} = {i \in 1 .. Len(q) : q[i] \in {b}}
    OBVIOUS
  <2>2. QED
    BY <2>1 DEF In, Count
<1>2. QED
  BY <1>1

LEMMA InIsNat ==
  ASSUME NEW q \in Seq(WrapBufs), NEW b
  PROVE  In(q, b) \in Nat
<1>1. Count(q, {b}) \in Nat
  BY CountIsNat
<1>2. QED
  BY <1>1, InIsCount

LEMMA InAppend ==
  ASSUME NEW q \in Seq(WrapBufs), NEW e \in WrapBufs, NEW b
  PROVE  In(Append(q, e), b) = In(q, b) + (IF e = b THEN 1 ELSE 0)
<1>1. Count(Append(q, e), {b}) = Count(q, {b}) + (IF e \in {b} THEN 1 ELSE 0)
  BY CountAppend
<1>2. QED
  BY <1>1, InIsCount

LEMMA InTail ==
  ASSUME NEW q \in Seq(WrapBufs), NEW b, q # << >>
  PROVE  In(q, b) = In(Tail(q), b) + (IF Head(q) = b THEN 1 ELSE 0)
<1>1. Count(q, {b}) = Count(Tail(q), {b}) + (IF Head(q) \in {b} THEN 1 ELSE 0)
  BY CountTail
<1>2. QED
  BY <1>1, InIsCount

LEMMA WrapInitial == WrapInit /\ WrapAssumption => WrapInv
<1> SUFFICES ASSUME WrapInit, WrapAssumption
             PROVE  WrapInv
  OBVIOUS
<1> USE DEF WrapInit
<1>1. WrapTypes
  BY DEF WrapTypes
<1>2. ASSUME NEW b \in WrapBufs
      PROVE  WrapPlaces(b) <= 1
  <2>1. Has(demux, b) = 0 /\ pktPool[b] = 1
    BY DEF WrapAssumption, Reading, NoPkt, Has
  <2>2. {i \in 1 .. Len(dtlsCh) : dtlsCh[i] = b} = {} /\ {i \in 1 .. Len(rtpCh) : rtpCh[i] = b} = {}
    OBVIOUS
  <2>3. In(dtlsCh, b) = 0 /\ In(rtpCh, b) = 0
    BY <2>2, FS_EmptySet DEF In
  <2>4. QED
    BY <2>1, <2>3 DEF WrapPlaces
<1>3. QED
  BY <1>1, <1>2, WrapPlacesAre DEF WrapInv

LEMMA WrapKept == WrapInv /\ [WrapNext]_wrapVars /\ WrapAssumption => WrapInv'
<1> SUFFICES ASSUME WrapInv, [WrapNext]_wrapVars, WrapAssumption
             PROVE  WrapInv'
  OBVIOUS
<1> USE DEF fabric
<1> WrapTypes /\ (\A b \in WrapBufs : WrapPlaces(b) <= 1) /\ NoPkt \notin WrapBufs
  BY WrapPlacesAre DEF WrapInv, WrapAssumption, NoPkt
<1>a. ASSUME NEW b \in WrapBufs
      PROVE  /\ pktPool[b] \in Nat /\ In(dtlsCh, b) \in Nat /\ In(rtpCh, b) \in Nat
             /\ Has(demux, b) \in {0, 1} /\ Has(demux', b) \in {0, 1}
  BY InIsNat, HasIsNat DEF WrapTypes
<1>b. ASSUME NEW b \in WrapBufs, WrapTypes'
      PROVE  pktPool'[b] \in Nat /\ In(dtlsCh', b) \in Nat /\ In(rtpCh', b) \in Nat
  <2>1. pktPool' \in [WrapBufs -> Nat] /\ dtlsCh' \in Seq(WrapBufs) /\ rtpCh' \in Seq(WrapBufs)
    BY <1>b DEF WrapTypes
  <2>2. QED
    BY <2>1, InIsNat
<1>c. ASSUME WrapTypes',
             \A b \in WrapBufs :
               pktPool'[b] + In(dtlsCh', b) + In(rtpCh', b) + Has(demux', b)
                 <= pktPool[b] + In(dtlsCh, b) + In(rtpCh, b) + Has(demux, b)
      PROVE  WrapInv'
  <2>1. ASSUME NEW b \in WrapBufs
        PROVE  WrapPlaces(b)' <= 1
    <3>1. /\ WrapPlaces(b) <= 1
          /\ WrapPlaces(b) = pktPool[b] + In(dtlsCh, b) + In(rtpCh, b) + Has(demux, b)
          /\ WrapPlaces(b)' = pktPool'[b] + In(dtlsCh', b) + In(rtpCh', b) + Has(demux', b)
      BY DEF WrapPlaces, In, Has
    <3>2. /\ pktPool'[b] \in Nat /\ In(dtlsCh', b) \in Nat /\ In(rtpCh', b) \in Nat
          /\ Has(demux', b) \in {0, 1}
          /\ pktPool[b] \in Nat /\ In(dtlsCh, b) \in Nat /\ In(rtpCh, b) \in Nat
          /\ Has(demux, b) \in {0, 1}
      BY <1>a, <1>b, <1>c
    <3>3. QED
      BY <1>c, <3>1, <3>2
  <2>2. QED
    BY <1>c, <2>1, WrapPlacesAre DEF WrapInv
<1>1. ASSUME UNCHANGED fabric
      PROVE  WrapInv'
  BY <1>1 DEF WrapInv, WrapTypes, WrapOwned, In
<1>2. ASSUME NEW b0 \in WrapBufs, NEW class \in {"dtls", "rtp", "other"}, DemuxReads(b0, class)
      PROVE  WrapInv'
  <2>1. CASE class = "other"
    <3>1. UNCHANGED <<pktPool, demux, dtlsCh, rtpCh>>
      BY <1>2, <2>1 DEF DemuxReads
    <3>2. QED
      BY <3>1 DEF WrapInv, WrapTypes, WrapOwned, In
  <2>2. CASE class # "other"
    <3>1. /\ demux = Reading /\ pktPool[b0] > 0 /\ pktPool' = [pktPool EXCEPT ![b0] = @ - 1]
          /\ demux' = [at |-> "puts", buf |-> b0, class |-> class]
          /\ UNCHANGED <<dtlsCh, rtpCh>>
      BY <1>2, <2>2 DEF DemuxReads
    <3>2. WrapTypes'
      <4>1. pktPool' \in [WrapBufs -> Nat]
        BY <3>1 DEF WrapTypes
      <4>2. QED
        BY <2>2, <3>1, <4>1 DEF WrapTypes
    <3>3. ASSUME NEW b \in WrapBufs
          PROVE  pktPool'[b] + In(dtlsCh', b) + In(rtpCh', b) + Has(demux', b)
                   <= pktPool[b] + In(dtlsCh, b) + In(rtpCh, b) + Has(demux, b)
      <4>1. pktPool'[b] + Has(demux', b) = pktPool[b] /\ Has(demux, b) = 0
        BY <3>1 DEF Has, Reading, WrapTypes
      <4>2. QED
        BY <1>a, <1>b, <3>1, <3>2, <4>1
    <3>4. QED
      BY <1>c, <3>2, <3>3
  <2>3. QED
    BY <2>1, <2>2
<1>3. CASE DemuxPuts
  <2>1. demux.at = "puts" /\ demux' = Reading /\ pktPool' = pktPool
        /\ \/ dtlsCh' = Append(dtlsCh, demux.buf) /\ rtpCh' = rtpCh
           \/ rtpCh' = Append(rtpCh, demux.buf) /\ dtlsCh' = dtlsCh
    BY <1>3 DEF DemuxPuts
  <2>2. demux.buf \in WrapBufs
    BY <2>1 DEF WrapTypes, Reading, DemuxOver
  <2>3. WrapTypes'
    <3>1. Append(dtlsCh, demux.buf) \in Seq(WrapBufs) /\ Append(rtpCh, demux.buf) \in Seq(WrapBufs)
      BY <2>2 DEF WrapTypes
    <3>2. QED
      BY <2>1, <3>1 DEF WrapTypes
  <2>4. ASSUME NEW b \in WrapBufs
        PROVE  pktPool'[b] + In(dtlsCh', b) + In(rtpCh', b) + Has(demux', b)
                 <= pktPool[b] + In(dtlsCh, b) + In(rtpCh, b) + Has(demux, b)
    <3>1. Has(demux', b) = 0
      BY <2>1 DEF Has, Reading
    <3>2. CASE dtlsCh' = Append(dtlsCh, demux.buf) /\ rtpCh' = rtpCh
      <4>1. In(dtlsCh', b) = In(dtlsCh, b) + Has(demux, b)
        BY <2>2, <3>2, InAppend DEF WrapTypes, Has
      <4>2. pktPool'[b] = pktPool[b] /\ rtpCh' = rtpCh
        BY <2>1, <3>2
      <4>3. pktPool[b] \in Nat /\ In(dtlsCh, b) \in Nat /\ In(rtpCh, b) \in Nat /\ Has(demux, b) \in {0, 1}
        BY <1>a
      <4>4. QED
        BY <3>1, <4>1, <4>2, <4>3
    <3>3. CASE rtpCh' = Append(rtpCh, demux.buf) /\ dtlsCh' = dtlsCh
      <4>1. In(rtpCh', b) = In(rtpCh, b) + Has(demux, b)
        BY <2>2, <3>3, InAppend DEF WrapTypes, Has
      <4>2. pktPool'[b] = pktPool[b] /\ dtlsCh' = dtlsCh
        BY <2>1, <3>3
      <4>3. pktPool[b] \in Nat /\ In(rtpCh, b) \in Nat /\ In(dtlsCh, b) \in Nat /\ Has(demux, b) \in {0, 1}
        BY <1>a
      <4>4. QED
        BY <3>1, <4>1, <4>2, <4>3
    <3>4. QED
      BY <2>1, <3>2, <3>3
  <2>5. QED
    BY <1>c, <2>3, <2>4
<1>4. CASE DemuxEnds
  <2>1. /\ demux' = DemuxOver /\ UNCHANGED <<dtlsCh, rtpCh>>
        /\ \/ demux.at = "puts" /\ pktPool' = [pktPool EXCEPT ![demux.buf] = @ + 1]
           \/ pktPool' = pktPool
    BY <1>4 DEF DemuxEnds, PktPut
  <2>2. demux.at = "puts" => demux.buf \in WrapBufs
    BY DEF WrapTypes, Reading, DemuxOver
  <2>3. WrapTypes'
    <3>1. pktPool' \in [WrapBufs -> Nat]
      BY <2>1, <2>2 DEF WrapTypes
    <3>2. QED
      BY <2>1, <3>1 DEF WrapTypes
  <2>4. ASSUME NEW b \in WrapBufs
        PROVE  pktPool'[b] + In(dtlsCh', b) + In(rtpCh', b) + Has(demux', b)
                 <= pktPool[b] + In(dtlsCh, b) + In(rtpCh, b) + Has(demux, b)
    <3>1. Has(demux', b) = 0
      BY <2>1 DEF Has, DemuxOver
    <3>2. pktPool'[b] <= pktPool[b] + Has(demux, b)
      BY <2>1, <2>2, <1>a DEF Has, WrapTypes
    <3>3. QED
      BY <1>a, <1>b, <2>1, <2>3, <3>1, <3>2
  <2>5. QED
    BY <1>c, <2>3, <2>4
<1>5. CASE DtlsReads
  <2>1. /\ dtlsCh # << >> /\ dtlsCh' = Tail(dtlsCh) /\ UNCHANGED <<pktPool, demux, rtpCh>>
    BY <1>5 DEF DtlsReads
  <2>2. WrapTypes'
    BY <2>1 DEF WrapTypes
  <2>3. ASSUME NEW b \in WrapBufs
        PROVE  pktPool'[b] + In(dtlsCh', b) + In(rtpCh', b) + Has(demux', b)
                 <= pktPool[b] + In(dtlsCh, b) + In(rtpCh, b) + Has(demux, b)
    <3>1. In(dtlsCh, b) = In(dtlsCh', b) + (IF Head(dtlsCh) = b THEN 1 ELSE 0)
      BY <2>1, InTail DEF WrapTypes
    <3>2. In(dtlsCh', b) <= In(dtlsCh, b)
      BY <1>a, <1>b, <2>2, <3>1
    <3>3. pktPool' = pktPool /\ demux' = demux /\ In(rtpCh', b) = In(rtpCh, b)
      BY <2>1
    <3>4. QED
      BY <1>a, <1>b, <2>2, <3>2, <3>3
  <2>4. QED
    BY <1>c, <2>2, <2>3
<1>6. ASSUME NEW good \in BOOLEAN, ReadRtp(good)
      PROVE  WrapInv'
  <2>1. /\ rtpCh # << >> /\ rtpCh' = Tail(rtpCh) /\ UNCHANGED <<demux, dtlsCh>>
        /\ pktPool' = [pktPool EXCEPT ![Head(rtpCh)] = @ + 1]
    BY <1>6 DEF ReadRtp, ReadPuts, PktPut
  <2>2. WrapTypes' /\ Head(rtpCh) \in WrapBufs
    <3>1. Head(rtpCh) \in WrapBufs /\ Tail(rtpCh) \in Seq(WrapBufs)
      BY <2>1 DEF WrapTypes
    <3>2. pktPool' \in [WrapBufs -> Nat]
      BY <2>1, <3>1 DEF WrapTypes
    <3>3. QED
      BY <2>1, <3>1, <3>2 DEF WrapTypes
  <2>3. ASSUME NEW b \in WrapBufs
        PROVE  pktPool'[b] + In(dtlsCh', b) + In(rtpCh', b) + Has(demux', b)
                 <= pktPool[b] + In(dtlsCh, b) + In(rtpCh, b) + Has(demux, b)
    <3>1. In(rtpCh, b) = In(rtpCh', b) + (IF Head(rtpCh) = b THEN 1 ELSE 0)
      BY <2>1, InTail DEF WrapTypes
    <3>2. pktPool'[b] = pktPool[b] + (IF Head(rtpCh) = b THEN 1 ELSE 0)
      BY <2>1, <2>2 DEF WrapTypes
    <3>3. In(dtlsCh', b) = In(dtlsCh, b) /\ Has(demux', b) = Has(demux, b)
      BY <2>1
    <3>4. pktPool'[b] + In(rtpCh', b) = pktPool[b] + In(rtpCh, b)
      <4>1. pktPool[b] \in Nat /\ In(rtpCh', b) \in Nat
        BY <1>a, <1>b, <2>2
      <4>2. QED
        BY <3>1, <3>2, <4>1
    <3>5. /\ pktPool[b] \in Nat /\ In(dtlsCh, b) \in Nat /\ In(rtpCh, b) \in Nat
          /\ Has(demux, b) \in Nat /\ pktPool'[b] \in Nat /\ In(rtpCh', b) \in Nat
      BY <1>a, <1>b, <2>2
    <3>6. QED
      BY <3>3, <3>4, <3>5
  <2>4. QED
    BY <1>c, <2>2, <2>3
<1>7. CASE UNCHANGED wrapVars
  BY <1>1, <1>7 DEF wrapVars
<1>8. CASE \/ SrtpHandshakeWorks \/ SrtpHandshakeFails \/ DtlsEnds \/ RelayDies \/ CloseBegins
           \/ ReadEnds \/ WriteRtp \/ WakeRelay \/ Delivered \/ CloseStep \/ WriteOver
           \/ WriterCancelled
  BY <1>1, <1>8 DEF SrtpHandshakeWorks, SrtpHandshakeFails, DtlsEnds, RelayDies, CloseBegins,
     ReadEnds, WriteRtp, WakeRelay, Delivered, CloseStep, WriteOver, WriterCancelled
<1>9. QED
  BY <1>2, <1>3, <1>4, <1>5, <1>6, <1>7, <1>8 DEF WrapNext

-----------------------------------------------------------------------------
(* The relays of a logged-in session                                       *)

Refs == [relay : Relays, link : Nat]
CookieTypes ==
  /\ config \in Nat \ {0} /\ resetting \in BOOLEAN /\ (resetting => config > 1)
  /\ relayList \in Seq(Refs) /\ discoverIdx \in Nat
  /\ relayOf \in [Slots -> [relay : Relays \cup {"none"}, list : Nat]]
\* The list names no relay twice.
ListApart ==
  \A i, j \in 1 .. Len(relayList) : i # j => relayList[i].relay # relayList[j].relay
\* A slot has the relay of its place in the list it was served from; if that is
\* the list of now, it still stands there.
SlotInPlace(s) ==
  /\ relayOf[s].list = 0 => relayOf[s] = NoRelay
  /\ relayOf[s].list <= ListNumber
  /\ relayOf[s].list = ListNumber =>
       s < Len(relayList) /\ relayOf[s].relay = relayList[s + 1].relay
CookieInv ==
  CookieTypes /\ ListApart /\ (\A s \in Slots : SlotInPlace(s)) /\ SlotsApart

LEMMA Joined ==
  ASSUME NEW S, NEW q \in Seq(S), NEW r \in Seq(S)
  PROVE  /\ q \o r \in Seq(S) /\ Len(q \o r) = Len(q) + Len(r)
         /\ \A i \in 1 .. Len(q) + Len(r) :
              (q \o r)[i] = IF i <= Len(q) THEN q[i] ELSE r[i - Len(q)]
OBVIOUS

LEMMA ListNumberIs ==
  ASSUME CookieTypes
  PROVE  ListNumber \in Nat \ {0}
BY DEF CookieTypes, ListNumber

LEMMA CookieInitial == CookieInit /\ CookieAssumption => CookieInv
<1> SUFFICES ASSUME CookieInit, CookieAssumption
             PROVE  CookieInv
  OBVIOUS
<1> USE DEF CookieInit
<1>1. CookieTypes
  <2>1. relayOf \in [Slots -> [relay : Relays \cup {"none"}, list : Nat]]
    BY DEF NoRelay
  <2>2. relayList \in Seq(Refs)
    OBVIOUS
  <2>3. config \in Nat \ {0} /\ discoverIdx \in Nat
    OBVIOUS
  <2>4. resetting \in BOOLEAN /\ ~resetting
    OBVIOUS
  <2> HIDE DEF CookieInit
  <2>5. QED
    BY <2>1, <2>2, <2>3, <2>4 DEF CookieTypes
<1>2. ListApart
  BY DEF ListApart
<1>3. \A s \in Slots : SlotInPlace(s)
  BY DEF SlotInPlace, NoRelay, ListNumber
<1>4. SlotsApart
  BY DEF SlotsApart
<1>5. QED
  BY <1>1, <1>2, <1>3, <1>4 DEF CookieInv

\* What a link adds: its relays that were not listed, each once.
LEMMA AddedApart ==
  ASSUME CookieAssumption, CookieInv, NEW link \in Nat, NEW added \in NewRelays(link),
         serves[link] \subseteq Relays, relayList' = relayList \o RefsOf(link, added)
  PROVE  /\ relayList' \in Seq(Refs) /\ ListApart'
         /\ Len(relayList') >= Len(relayList)
         /\ \A i \in 1 .. Len(relayList) : relayList'[i] = relayList[i]
<1> relayList \in Seq(Refs) /\ ListApart
  BY DEF CookieInv, CookieTypes
<1> DEFINE new == serves[link] \ Found
           n == Cardinality(new)
           refs == RefsOf(link, added)
<1>1. n \in Nat
  <2>1. IsFiniteSet(new)
    BY FS_Subset DEF CookieAssumption
  <2>2. QED
    BY <2>1, FS_CardinalityType
<1>2. added \in [1 .. n -> new] /\ \A i, j \in 1 .. n : i # j => added[i] # added[j]
  BY DEF NewRelays, SetToSeqs
<1> HIDE DEF n
<1>3. /\ refs = [i \in 1 .. n |-> [relay |-> added[i], link |-> link]]
      /\ \A i \in 1 .. n : added[i] \in Relays /\ added[i] \notin Found
  <2>1. DOMAIN added = 1 .. n
    BY <1>2
  <2>2. refs = [i \in 1 .. n |-> [relay |-> added[i], link |-> link]]
    BY <2>1 DEF RefsOf
  <2>3. QED
    BY <1>2, <2>2
<1> HIDE DEF refs, new
<1>4. refs \in Seq(Refs) /\ Len(refs) = n
  <2>1. refs \in [1 .. n -> Refs]
    BY <1>3 DEF Refs
  <2>2. QED
    BY <1>1, <2>1
<1>5. /\ relayList' \in Seq(Refs) /\ Len(relayList') = Len(relayList) + n /\ Len(relayList) \in Nat
      /\ \A i \in 1 .. Len(relayList) + n :
           relayList'[i] = IF i <= Len(relayList) THEN relayList[i] ELSE refs[i - Len(relayList)]
  <2>1. relayList' = relayList \o refs /\ relayList \in Seq(Refs)
    BY DEF refs
  <2>2. QED
    BY <1>1, <1>4, <2>1, Joined
<1>6. \A i \in 1 .. Len(relayList) : relayList[i].relay \in Found
  BY DEF Found
<1>7. ListApart'
  <2>1. SUFFICES ASSUME NEW i \in 1 .. Len(relayList'), NEW j \in 1 .. Len(relayList'), i # j
                 PROVE  relayList'[i].relay # relayList'[j].relay
    BY DEF ListApart
  <2> DEFINE m == Len(relayList)
  <2>2. i \in 1 .. m + n /\ j \in 1 .. m + n
    BY <1>5, <2>1
  <2>3. \A k \in 1 .. m + n : k > m =>
          /\ k - m \in 1 .. n /\ relayList'[k].relay = added[k - m]
          /\ relayList'[k].relay \notin Found
    BY <1>1, <1>3, <1>5
  <2>4. \A k \in 1 .. m + n : ~(k > m) =>
          k \in 1 .. m /\ relayList'[k] = relayList[k] /\ relayList'[k].relay \in Found
    BY <1>1, <1>5, <1>6
  <2>5. CASE i > m /\ j > m
    <3>1. i - m # j - m
      BY <1>1, <1>5, <2>1, <2>2
    <3>2. QED
      BY <1>2, <2>2, <2>3, <2>5, <3>1
  <2>6. CASE ~(i > m) /\ ~(j > m)
    BY <2>1, <2>2, <2>4, <2>6 DEF ListApart
  <2>7. CASE ~(i > m <=> j > m)
    BY <2>2, <2>3, <2>4, <2>7
  <2>8. QED
    BY <2>5, <2>6, <2>7
<1>8. QED
  BY <1>1, <1>5, <1>7

LEMMA CookieKept ==
  CookieInv /\ serves \in ServesAll /\ [CookieNext]_cookieVars /\ CookieAssumption
  => CookieInv' /\ serves' \in ServesAll
<1> SUFFICES ASSUME CookieInv, serves \in ServesAll, [CookieNext]_cookieVars, CookieAssumption
             PROVE  CookieInv' /\ serves' \in ServesAll
  OBVIOUS
<1> USE DEF listVars
<1> CookieTypes /\ ListApart /\ (\A s \in Slots : SlotInPlace(s)) /\ SlotsApart
  BY DEF CookieInv
<1> Slots \subseteq Nat
  BY DEF CookieAssumption
<1>a. serves' \in ServesAll
  BY DEF CookieNext, cookieVars, SetVKCookieAuth, ClearCaches, CookieCredForSlot, TakeLock,
     DiscoverLink, SlotServed, SlotUnserved, LinkFails, CookieCredStale
<1> SUFFICES CookieInv'
  BY <1>a
<1>b. ListNumber \in Nat \ {0}
  BY ListNumberIs
<1>1. ASSUME UNCHANGED <<config, resetting, relayList, relayOf>>, discoverIdx' \in Nat
      PROVE  CookieInv'
  BY <1>1 DEF CookieInv, CookieTypes, ListApart, SlotInPlace, ListNumber, SlotsApart
<1>2. CASE SetVKCookieAuth
  <2>1. /\ ~resetting /\ config' = config + 1 /\ resetting' = TRUE
        /\ UNCHANGED <<relayList, discoverIdx, relayOf>>
    BY <1>2 DEF SetVKCookieAuth
  <2>2. CookieTypes' /\ ListNumber' = ListNumber
    BY <2>1 DEF CookieTypes, ListNumber
  <2>3. ListApart' /\ SlotsApart'
    BY <2>1 DEF ListApart, SlotsApart
  <2>4. \A s \in Slots : SlotInPlace(s)'
    BY <2>1, <2>2 DEF SlotInPlace
  <2>5. QED
    BY <2>2, <2>3, <2>4 DEF CookieInv
<1>3. CASE ClearCaches
  <2>1. /\ resetting /\ resetting' = FALSE /\ relayList' = << >> /\ discoverIdx' = 0
        /\ UNCHANGED <<config, relayOf>>
    BY <1>3 DEF ClearCaches
  <2>2. CookieTypes' /\ ListNumber' = ListNumber + 1
    <3>1. CookieTypes'
      <4>1. relayList' \in Seq(Refs)
        BY <2>1
      <4>2. QED
        BY <2>1, <4>1 DEF CookieTypes
    <3>2. ListNumber = config - 1 /\ ListNumber' = config /\ config \in Nat
      BY <2>1 DEF CookieTypes, ListNumber
    <3>3. QED
      BY <3>1, <3>2
  <2>3. ASSUME NEW s \in Slots
        PROVE  SlotInPlace(s)'
    <3>1. relayOf'[s] = relayOf[s] /\ SlotInPlace(s) /\ relayOf[s].list \in Nat
      BY <2>1 DEF CookieTypes
    <3>2. relayOf[s].list <= ListNumber
      BY <3>1 DEF SlotInPlace
    <3>3. relayOf[s].list <= ListNumber' /\ relayOf[s].list # ListNumber'
      BY <1>b, <2>2, <3>1, <3>2
    <3>4. QED
      BY <3>1, <3>3 DEF SlotInPlace
  <2>4. ListApart' /\ SlotsApart'
    <3>1. Len(relayList') = 0
      BY <2>1
    <3>2. QED
      BY <2>1, <3>1 DEF ListApart, SlotsApart
  <2>5. QED
    BY <2>2, <2>3, <2>4 DEF CookieInv
<1>4. ASSUME NEW s \in Slots, DiscoverLink(s)
      PROVE  CookieInv'
  <2> DEFINE link == discoverIdx + 1
  <2>1. PICK added \in NewRelays(link) : relayList' = relayList \o RefsOf(link, added)
    BY <1>4 DEF DiscoverLink
  <2>2. link \in Nat /\ serves[link] \subseteq Relays
    <3>1. discoverIdx < NumLinks /\ NumLinks \in Nat
      BY <1>4 DEF DiscoverLink, NeedsLink, CookieAssumption
    <3>2. link \in Links
      BY <3>1 DEF Links, CookieTypes
    <3>3. QED
      BY <3>2 DEF ServesAll, CookieTypes
  <2>3. UNCHANGED <<config, resetting, relayOf>> /\ discoverIdx' = link
    BY <1>4 DEF DiscoverLink
  <2> HIDE DEF link
  <2>4. /\ relayList' \in Seq(Refs) /\ ListApart' /\ Len(relayList') >= Len(relayList)
        /\ \A i \in 1 .. Len(relayList) : relayList'[i] = relayList[i]
    BY <2>1, <2>2, AddedApart
  <2>5. CookieTypes' /\ ListNumber' = ListNumber
    BY <2>2, <2>3, <2>4 DEF CookieTypes, ListNumber
  <2>6. ASSUME NEW t \in Slots
        PROVE  SlotInPlace(t)'
    <3>1. relayOf'[t] = relayOf[t] /\ SlotInPlace(t) /\ t \in Nat
      BY <2>3
    <3>2. Len(relayList) \in Nat /\ Len(relayList') \in Nat
      BY <2>4 DEF CookieTypes
    <3>3. t < Len(relayList) => t < Len(relayList') /\ relayList'[t + 1] = relayList[t + 1]
      BY <2>4, <3>1, <3>2
    <3>4. QED
      BY <2>5, <3>1, <3>3 DEF SlotInPlace
  <2>7. SlotsApart'
    BY <2>3 DEF SlotsApart
  <2>8. QED
    BY <2>4, <2>5, <2>6, <2>7 DEF CookieInv
<1>5. ASSUME NEW s \in Slots, SlotServed(s)
      PROVE  CookieInv'
  <2> DEFINE r == [relay |-> relayList[s + 1].relay, list |-> ListNumber]
  <2>1. /\ s < Len(relayList) /\ relayOf' = [relayOf EXCEPT ![s] = r]
        /\ UNCHANGED <<config, resetting, relayList, discoverIdx>>
    BY <1>5 DEF SlotServed, RefOf
  <2>2. s + 1 \in 1 .. Len(relayList) /\ relayList[s + 1] \in Refs
    <3>1. s \in Nat /\ Len(relayList) \in Nat
      BY DEF CookieTypes
    <3>2. s + 1 \in 1 .. Len(relayList)
      BY <2>1, <3>1
    <3>3. QED
      BY <3>2 DEF CookieTypes
  <2>3. r \in [relay : Relays \cup {"none"}, list : Nat]
    BY <1>b, <2>2 DEF Refs
  <2>4. CookieTypes' /\ ListNumber' = ListNumber
    BY <2>1, <2>3 DEF CookieTypes, ListNumber
  <2>5. relayOf'[s] = r /\ \A t \in Slots \ {s} : relayOf'[t] = relayOf[t]
    BY <2>1 DEF CookieTypes
  <2>6. ASSUME NEW t \in Slots
        PROVE  SlotInPlace(t)'
    <3>1. CASE t = s
      BY <1>b, <2>1, <2>4, <2>5, <3>1 DEF SlotInPlace
    <3>2. CASE t # s
      BY <2>1, <2>4, <2>5, <3>2 DEF SlotInPlace
    <3>3. QED
      BY <3>1, <3>2
  <2>7. SlotsApart'
    <3>1. SUFFICES ASSUME NEW t \in Slots, NEW u \in Slots, t # u,
                          relayOf'[t].list = relayOf'[u].list, relayOf'[t] # NoRelay
                   PROVE  relayOf'[t].relay # relayOf'[u].relay
      BY DEF SlotsApart
    <3>2. CASE t # s /\ u # s
      BY <2>5, <3>1, <3>2 DEF SlotsApart
    <3>3. CASE t = s \/ u = s
      <4>1. relayOf'[t].list = ListNumber /\ relayOf'[u].list = ListNumber
        BY <2>5, <3>1, <3>3
      <4>2. /\ t < Len(relayList) /\ relayOf'[t].relay = relayList[t + 1].relay
            /\ u < Len(relayList) /\ relayOf'[u].relay = relayList[u + 1].relay
        BY <2>1, <2>4, <2>6, <4>1 DEF SlotInPlace
      <4>3. t + 1 \in 1 .. Len(relayList) /\ u + 1 \in 1 .. Len(relayList) /\ t + 1 # u + 1
        <5>1. t \in Nat /\ u \in Nat /\ Len(relayList) \in Nat
          BY DEF CookieTypes
        <5>2. QED
          BY <3>1, <4>2, <5>1
      <4>4. QED
        BY <4>2, <4>3 DEF ListApart
    <3>4. QED
      BY <3>2, <3>3
  <2>8. QED
    BY <2>1, <2>4, <2>6, <2>7 DEF CookieInv, ListApart
<1>6. ASSUME NEW s \in Slots, NEW rejected \in BOOLEAN, LinkFails(s, rejected)
      PROVE  CookieInv'
  <2>1. discoverIdx' \in Nat
    BY <1>6 DEF LinkFails, LookedAt, CookieTypes
  <2>2. QED
    BY <1>1, <1>6, <2>1 DEF LinkFails
<1>7. ASSUME NEW s \in Slots, CookieCredForSlot(s) \/ TakeLock(s) \/ SlotUnserved(s)
      PROVE  CookieInv'
  BY <1>1, <1>7 DEF CookieCredForSlot, TakeLock, SlotUnserved, CookieTypes
<1>8. ASSUME NEW link \in Links, CookieCredStale(link)
      PROVE  CookieInv'
  BY <1>1, <1>8 DEF CookieCredStale, CookieTypes
<1>9. CASE UNCHANGED cookieVars
  BY <1>1, <1>9 DEF cookieVars, CookieTypes
<1>10. QED
  BY <1>2, <1>3, <1>4, <1>5, <1>6, <1>7, <1>8, <1>9 DEF CookieNext

-----------------------------------------------------------------------------
(* All three, of the eight parts                                           *)

OwnedInv == PacketInv /\ WrapInv /\ CookieInv /\ serves \in ServesAll

LEMMA OwnedInitial == PartsInit => OwnedInv
BY PacketInitial, WrapInitial, CookieInitial, PacketAssumption, WrapAssumption,
   CookieAssumption DEF PartsInit, OwnedInv, CookieInit

LEMMA OwnedKept == OwnedInv /\ [PartsNext]_partsVars => OwnedInv'
BY PartsSteps, PacketKept, WrapKept, CookieKept, PacketAssumption, WrapAssumption,
   CookieAssumption DEF OwnedInv

\* proxy.go, sendPktPool ("returns it EXACTLY ONCE on every outcome"); srtp.go,
\* pktPoolPut; creds_vkcookie.go, cookieCredForSlot ("no two slots share a ...
\* bucket"): whatever the packets, the failed writes, the closes, the lists VK
\* gives and the cookies set meanwhile, nothing has two owners, and what arrives
\* is what was sent.
THEOREM NothingOwnedTwice == PartsSpec => []OwnedOnce
<1>1. OwnedInv => OwnedOnce
  BY DEF OwnedInv, OwnedOnce, PacketInv, OneOwner, BuffersIntact, WrapInv, CookieInv
<1>2. QED
  BY <1>1, OwnedInitial, OwnedKept, PTL DEF PartsSpec, partsVars
=============================================================================
