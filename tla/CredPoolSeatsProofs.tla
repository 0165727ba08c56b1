------------------------ MODULE CredPoolSeatsProofs ------------------------
(***************************************************************************)
(* Theorems about the seats, credentials and mints of CredPool: seats are  *)
(* counted as they are held, no credential sits in two slots, the mints at *)
(* once are bounded, nobody is parked beside an empty slot with nothing    *)
(* coming, and no signal of a free seat is lost.  Each step of the pool is *)
(* first reduced to the shape of its effect on slots and seats.            *)
(***************************************************************************)
EXTENDS CredPoolProofs, FiniteSetTheorems

-----------------------------------------------------------------------------
(* The shapes of steps *)

\* The slot keeps its credential, its count and its stamp.
Same(s) ==
  /\ pool'[s].cred = pool[s].cred
  /\ pool'[s].active = pool[s].active
  /\ pool'[s].gen = pool[s].gen

\* The connection keeps its seat, takes none, and starts no mint.
Stays(c) ==
  /\ Seated(c)' <=> Seated(c)
  /\ Seated(c) =>
                               conn'[c].slot = conn[c].slot /\ conn'[c].cred = conn[c].cred
  /\ conn'[c].pc = "seated" => conn[c].pc = "seated"
  /\ Minting(c)' => SameMint(c)

\* The connection is seated in slot s on credential k by this step.
SitsDown(c, s, k) ==
  /\ ~Seated(c)
  /\ Seated(c)'
  /\ ~Minting(c)'
  /\ conn'[c].slot = s /\ conn'[c].cred = k

OthersSame(s) == \A t \in Slots \ {s} : Same(t)
OthersStay(c) == \A d \in Conns \ {c} : Stays(d)

QuietStep ==
  /\ \A s \in Slots : Same(s)
  /\ \A c \in Conns : Stays(c)
  /\ displaced' = displaced
  /\ minted <= minted'

\* A seat of a filled slot is handed out.
SeatStep(c, s) ==
  /\ pool[s].cred # NoCred
  /\ pool'[s].cred = pool[s].cred
  /\ pool'[s].active = pool[s].active + 1
  /\ pool'[s].gen = pool[s].gen
  /\ Available(pool[s])'
  /\ SitsDown(c, s, pool[s].cred)
  /\ OthersSame(s) /\ OthersStay(c)
  /\ displaced' = displaced
  /\ minted <= minted'

\* A mint starts in slot s: a connection's, under the cap, or a grower's.
ClaimStep(s) ==
  /\ pool'[s].cred = pool[s].cred
  /\ pool'[s].active = pool[s].active
  /\ pool'[s].gen > nextGen
  /\ OthersSame(s)
  /\ \/ \A c \in Conns : Stays(c)
     \/ \E c \in Conns : /\ ~CapReached
                         /\ ~Seated(c) /\ ~Seated(c)'
                         /\ conn'[c].slot = s
                         /\ OthersStay(c)
  /\ displaced' = displaced
  /\ minted' = minted

\* A mint's credential k is put into slot s, with a seat for the connection
\* that minted it.
FillStep(s, k) ==
  /\ minted' = minted + 1
  /\ k = (IF cookie THEN Bucket(s) ELSE minted + 1)
  /\ pool'[s].cred = k
  /\ pool'[s].gen = pool[s].gen \/ pool'[s].gen > nextGen
  /\ Available(pool[s])'
  /\ OthersSame(s)
  /\ \/ /\ pool'[s].active = 0
        /\ \A c \in Conns : Stays(c)
     \/ /\ pool'[s].active = 1
        /\ \E c \in Conns : SitsDown(c, s, k) /\ OthersStay(c)
  /\ ~displaced' => ~displaced /\ (pool[s].cred = NoCred \/ Holders(s) = {})

\* The slots of S are emptied.
ClearStep(S) ==
  /\ \A s \in S : /\ pool'[s].cred = NoCred
                  /\ pool'[s].active = 0
                  /\ pool'[s].gen = 0
  /\ \A s \in Slots \ S : Same(s)
  /\ \A c \in Conns : Stays(c)
  /\ ~displaced' => ~displaced /\ \A s \in S : Holders(s) = {}
  /\ minted' = minted

\* A connection gives its seat up.
LeaveStep(c) ==
  /\ Seated(c)
  /\ ~Seated(c)' /\ ~Minting(c)'
  /\ LET s == conn[c].slot IN
     /\ pool'[s].cred = pool[s].cred
     /\ pool'[s].gen = pool[s].gen
     /\ pool'[s].active = IF pool[s].active = 0 THEN 0 ELSE pool[s].active - 1
     /\ OthersSame(s)
  /\ OthersStay(c)
  /\ displaced' = displaced
  /\ minted' = minted

RestartStep == \E recent \in SUBSET Slots : \E seed : Restart(recent, seed)

Shaped ==
  \/ QuietStep
  \/ \E c \in Conns, s \in Slots : SeatStep(c, s)
  \/ \E s \in Slots : ClaimStep(s)
  \/ \E s \in Slots, k \in Creds : FillStep(s, k)
  \/ \E S \in SUBSET Slots : ClearStep(S)
  \/ \E c \in Conns : LeaveStep(c)
  \/ RestartStep

-----------------------------------------------------------------------------
(* Edits of one slot or one connection *)

LEMMA NobodyLeaves ==
  ASSUME UNCHANGED conn
  PROVE  \A c \in Conns : Stays(c)
  BY DEF Stays, Seated, Minting, SameMint, TargetOf, StampOf

LEMMA WokenStay ==
  ASSUME TypeOK, conn' = Woken
  PROVE  \A c \in Conns : Stays(c)
<1>1. \A c \in Conns : conn[c] \in Locations
  BY DEF TypeOK
<1>2. \A c \in Conns : Woken[c].cred = conn[c].cred
  BY <1>1 DEF Woken, Locations
<1>3. QED
  BY <1>2, WokenType DEF Stays, Seated, Minting, SameMint, TargetOf, StampOf

LEMMA OneMoves ==
  ASSUME TypeOK, NEW c \in Conns, NEW r, conn' = [conn EXCEPT ![c] = r]
  PROVE  conn'[c] = r /\ OthersStay(c)
<1>1. conn'[c] = r /\ \A d \in Conns \ {c} : conn'[d] = conn[d]
  BY DEF TypeOK
<1>2. QED
  BY <1>1 DEF OthersStay, Stays, Seated, Minting, SameMint, TargetOf, StampOf

\* A connection without a seat that neither sits down nor mints.
LEMMA OneWaits ==
  ASSUME TypeOK, NEW c \in Conns, NEW r, conn' = [conn EXCEPT ![c] = r],
         ~Seated(c), r.pc \in {"ready", "refused"}
  PROVE  \A d \in Conns : Stays(d)
<1>1. conn'[c] = r /\ OthersStay(c)
  BY OneMoves
<1>2. Stays(c)
  BY <1>1 DEF Stays, Seated, Minting, SameMint, TargetOf, StampOf
<1>3. QED
  BY <1>1, <1>2 DEF OthersStay

LEMMA OneSits ==
  ASSUME TypeOK, NEW c \in Conns, ~Seated(c), NEW s \in Slots, NEW k, Sit(c, s, k)
  PROVE  SitsDown(c, s, k) /\ OthersStay(c)
<1> DEFINE r == [Out EXCEPT !.pc = "seated", !.slot = s, !.cred = k]
<1>1. r.pc = "seated" /\ r.slot = s /\ r.cred = k
  BY DEF Out
<1>2. conn'[c] = r /\ OthersStay(c)
  BY OneMoves DEF Sit
<1>3. QED
  BY <1>1, <1>2 DEF SitsDown, Seated, Minting

LEMMA SlotEdited ==
  ASSUME TypeOK, NEW s \in Slots, NEW e, pool' = [pool EXCEPT ![s] = e]
  PROVE  pool'[s] = e /\ OthersSame(s)
  BY DEF TypeOK, OthersSame, Same

LEMMA SlotRestyled ==
  ASSUME TypeOK, NEW s \in Slots, NEW e, pool' = [pool EXCEPT ![s] = e],
         e.cred = pool[s].cred, e.active = pool[s].active, e.gen = pool[s].gen
  PROVE  \A t \in Slots : Same(t)
  BY SlotEdited DEF OthersSame, Same

LEMMA EditFields ==
  ASSUME NEW e \in Entries
  PROVE  /\ LET f == [e EXCEPT !.active = @ + 1]
            IN  f.active = e.active + 1 /\ f.sat = e.sat /\ f.pending = e.pending
         /\ Released(e).active = IF e.active = 0 THEN 0 ELSE e.active - 1
         /\ \A g \in Nat : LET f == [e EXCEPT !.fetching = TRUE, !.gen = g]
                           IN  f.active = e.active /\ f.gen = g /\ f.fetching = TRUE
  BY DEF Entries, Released

\* A flag of a slot is no part of its shape.
LEMMA FlagEdits ==
  ASSUME NEW e \in Entries, NEW f,
         \/ f = [e EXCEPT !.sat = TRUE] \/ f = [e EXCEPT !.sat = FALSE]
         \/ f = [e EXCEPT !.cooling = FALSE] \/ f = [e EXCEPT !.pending = FALSE]
  PROVE  f.cred = e.cred /\ f.active = e.active /\ f.gen = e.gen
  BY DEF Entries

\* What a claim changes: the stamp and the flag.
LEMMA ClaimEdits ==
  ASSUME TypeOK, NEW s \in Slots, Claim(s)
  PROVE  /\ pool'[s].cred = pool[s].cred
         /\ pool'[s].active = pool[s].active
         /\ pool'[s].gen > nextGen
         /\ pool'[s].fetching
         /\ \A t \in Slots \ {s} : pool'[t] = pool[t]
         /\ OthersSame(s)
<1>1. pool[s] \in Entries /\ nextGen \in Nat /\ nextGen + 1 \in Nat
  BY DEF TypeOK
<1> DEFINE e == [pool[s] EXCEPT !.fetching = TRUE, !.gen = nextGen + 1]
<1>2. pool' = [pool EXCEPT ![s] = e]
  BY DEF Claim, TypeOK
<1>3. e.cred = pool[s].cred /\ e.active = pool[s].active /\ e.gen = nextGen + 1 /\ e.fetching
  BY <1>1, EditFields, CredEdit
<1>4. pool'[s] = e /\ OthersSame(s)
  <2> HIDE DEF e
  <2>1. QED
    BY <1>2, SlotEdited
<1>5. \A t \in Slots \ {s} : pool'[t] = pool[t]
  <2> HIDE DEF e
  <2>1. QED
    BY <1>2 DEF TypeOK
<1>6. QED
  <2> HIDE DEF e
  <2>1. QED
    BY <1>1, <1>3, <1>4, <1>5

-----------------------------------------------------------------------------
(* Every step has one of the shapes *)

LEMMA ShapeAcquire ==
  ASSUME TypeOK, NEW c \in Conns, TakeChannel(c) \/ Acquire(c)
  PROVE  Shaped
<1>1. conn[c] \in Locations /\ minted \in Nat
  BY DEF TypeOK
<1>2. CASE TakeChannel(c)
  <2> DEFINE r == [conn[c] EXCEPT !.ch = "open"]
  <2>1. r.pc = conn[c].pc /\ conn[c].pc \in {"ready", "refused"} /\ ~Seated(c)
    BY <1>1, <1>2 DEF TakeChannel, Locations, Seated
  <2>2. conn' = [conn EXCEPT ![c] = r]
    BY <1>2 DEF TakeChannel, TypeOK
  <2>3. \A d \in Conns : Stays(d)
    BY <2>1, <2>2, OneWaits
  <2>4. QED
    BY <1>1, <1>2, <2>3 DEF Shaped, QuietStep, Same, TakeChannel, shared, vk, history
<1>3. CASE GetPaused(c) \/ GetRefused(c)
  <2> DEFINE r == [Out EXCEPT !.pc = "refused", !.ch = conn[c].ch]
  <2>1. r.pc = "refused" /\ ~Seated(c)
    BY <1>3 DEF Out, GetPaused, GetRefused, Asking, Seated
  <2>2. conn' = [conn EXCEPT ![c] = r]
    BY <1>3 DEF GetPaused, GetRefused, Refuse
  <2>3. \A d \in Conns : Stays(d)
    BY <2>1, <2>2, OneWaits
  <2>4. QED
    BY <1>1, <1>3, <2>3 DEF Shaped, QuietStep, Same, GetPaused, GetRefused, shared, vk, history
<1>4. CASE GetSeat(c)
  <2>1. PICK s \in PickSeat(OwnSlot(c)) : TakeSeat(c, s)
    BY <1>4 DEF GetSeat
  <2>2. s \in Slots /\ s \in Seats /\ pool[s] \in Entries
    BY PickSeatInSeats DEF Seats, TypeOK
  <2>3. ~Seated(c)
    BY <1>4 DEF GetSeat, Asking, Seated
  <2>4. SitsDown(c, s, pool[s].cred) /\ OthersStay(c)
    BY <2>1, <2>2, <2>3, OneSits DEF TakeSeat
  <2> DEFINE e == [pool[s] EXCEPT !.active = @ + 1]
  <2>5. pool'[s] = e /\ OthersSame(s)
    BY <2>1, <2>2, SlotEdited DEF TakeSeat, TypeOK
  <2>6. /\ e.active = pool[s].active + 1 /\ e.cred = pool[s].cred
        /\ e.gen = pool[s].gen /\ e.sat = pool[s].sat /\ e.pending = pool[s].pending
    BY <2>2, EditFields, CredEdit, SeatEdit
  <2>7. expired' = expired /\ minted' = minted /\ displaced' = displaced
    BY <1>4 DEF GetSeat, vk, history
  <2>8. Available(pool[s])' /\ pool[s].cred # NoCred
    <3>1. Available(pool[s])
      BY <2>2 DEF Seats
    <3>2. QED
      BY <2>5, <2>6, <2>7, <3>1 DEF Available, Fresh, Valid
  <2>9. SeatStep(c, s)
    BY <1>1, <2>4, <2>5, <2>6, <2>7, <2>8 DEF SeatStep
  <2>10. QED
    BY <2>2, <2>9 DEF Shaped
<1>5. CASE GetClaim(c)
  <2>1. PICK s \in MintTarget(OwnSlot(c)) :
          /\ Claim(s)
          /\ conn' = [conn EXCEPT ![c] = [Out EXCEPT !.pc = "minting", !.slot = s,
                                                     !.stamp = nextGen + 1,
                                                     !.ch = conn[c].ch]]
    BY <1>5 DEF GetClaim
  <2>2. s \in Slots
    BY MintTargetUntouched
  <2> DEFINE r == [Out EXCEPT !.pc = "minting", !.slot = s, !.stamp = nextGen + 1,
                              !.ch = conn[c].ch]
  <2>3. r.pc = "minting" /\ r.slot = s
    BY DEF Out
  <2>4. conn'[c] = r /\ OthersStay(c)
    BY <2>1, OneMoves
  <2>5. ~Seated(c) /\ ~Seated(c)'
    BY <1>5, <2>3, <2>4 DEF Seated, GetClaim, Asking
  <2>6. /\ pool'[s].cred = pool[s].cred /\ pool'[s].active = pool[s].active
        /\ pool'[s].gen > nextGen /\ pool'[s].fetching
        /\ OthersSame(s)
        /\ \A t \in Slots \ {s} : pool'[t] = pool[t]
    BY <2>1, <2>2, ClaimEdits
  <2>7. ~CapReached /\ displaced' = displaced /\ minted' = minted
    BY <1>5 DEF GetClaim, vk, history
  <2>8. ClaimStep(s)
    BY <2>3, <2>4, <2>5, <2>6, <2>7 DEF ClaimStep
  <2>9. QED
    BY <2>2, <2>8 DEF Shaped
<1>6. QED
  BY <1>2, <1>3, <1>4, <1>5 DEF Acquire

\* The published credential is usable where it lands.
LEMMA FilledFresh ==
  \A k \in Creds :
    /\ k # NoCred
    /\ \A a, g : /\ Filled(k, a, g).cred = k /\ Filled(k, a, g).active = a
                 /\ Filled(k, a, g).gen = g
                 /\ Filled(k, a, g).pending = FALSE /\ Filled(k, a, g).sat = FALSE
<1>1. \A k \in Creds : k # NoCred
  BY ConstantsAssumption DEF Creds, NoCred, Bucket, Slots
<1>2. QED
  BY <1>1 DEF Filled, Blank

\* Publishing has the shape of a fill.
LEMMA ShapePublish ==
  ASSUME TypeOK, NEW m \in Minters, Minting(m), NEW k \in Creds, NEW seat \in {0, 1},
         VKGrants(k, TargetOf(m)), Publish(m, k, seat),
         \/ seat = 0 /\ m \notin Conns /\ UNCHANGED conn
         \/ seat = 1 /\ m \in Conns
  PROVE  Shaped
<1>1. nextGen \in Nat /\ TargetOf(m) \in Slots
  BY MinterType DEF TypeOK
<1>2. minted' = minted + 1 /\ expired' = expired \ {k}
  BY DEF VKGrants
<1>3. ASSUME NEW s \in Slots, NEW g, pool' = [pool EXCEPT ![s] = Filled(k, seat, g)],
             g = pool[s].gen \/ g > nextGen, m \in Conns => Sit(m, s, k),
             k = (IF cookie THEN Bucket(s) ELSE minted + 1),
             ~displaced' => ~displaced /\ (pool[s].cred = NoCred \/ Holders(s) = {})
      PROVE  FillStep(s, k)
  <2>1. pool'[s] = Filled(k, seat, g) /\ OthersSame(s)
    BY <1>3, SlotEdited
  <2>2. /\ pool'[s].cred = k /\ pool'[s].active = seat /\ pool'[s].gen = g
        /\ pool'[s].pending = FALSE /\ pool'[s].sat = FALSE /\ k # NoCred
    <3>1. /\ Filled(k, seat, g).cred = k /\ Filled(k, seat, g).active = seat
          /\ Filled(k, seat, g).gen = g
          /\ Filled(k, seat, g).pending = FALSE /\ Filled(k, seat, g).sat = FALSE
          /\ k # NoCred
      BY FilledFresh DEF Filled, Blank
    <3>2. QED
      BY <2>1, <3>1
  <2>3. Available(pool[s])'
    BY <1>2, <2>2 DEF Available, Fresh, Valid
  <2>4. CASE seat = 0 /\ m \notin Conns /\ UNCHANGED conn
    <3>1. \A c \in Conns : Stays(c)
      BY <2>4, NobodyLeaves
    <3>2. QED
      BY <1>2, <1>3, <2>1, <2>2, <2>3, <2>4, <3>1 DEF FillStep
  <2>5. CASE seat = 1 /\ m \in Conns
    <3>1. ~Seated(m)
      BY <2>5 DEF Minting, Seated
    <3>2. SitsDown(m, s, k) /\ OthersStay(m)
      BY <1>3, <2>5, <3>1, OneSits
    <3>3. QED
      BY <1>2, <1>3, <2>1, <2>2, <2>3, <2>5, <3>2 DEF FillStep
  <2>6. QED
    BY <2>4, <2>5
<1>4. CASE /\ Owns(m)
           /\ pool' = [pool EXCEPT ![TargetOf(m)] = Filled(k, seat, StampOf(m))]
           /\ displaced' = (displaced \/ Holders(TargetOf(m)) # {})
           /\ m \in Conns => Sit(m, TargetOf(m), k)
  <2>1. StampOf(m) = pool[TargetOf(m)].gen
    BY <1>4 DEF Owns
  <2>2. k = (IF cookie THEN Bucket(TargetOf(m)) ELSE minted + 1)
    BY DEF VKGrants
  <2>3. FillStep(TargetOf(m), k)
    BY <1>1, <1>3, <1>4, <2>1, <2>2
  <2>4. QED
    BY <1>1, <2>3 DEF Shaped
<1>5. ASSUME NEW s \in PlaceFor(k), UNCHANGED displaced,
             pool' = [pool EXCEPT ![s] = Filled(k, seat, nextGen + 1)],
             m \in Conns => Sit(m, s, k)
      PROVE  Shaped
  <2>1. s \in Slots /\ pool[s].cred = NoCred /\ ~cookie
    BY PlaceForEmpty DEF PlaceFor
  <2>2. k = (IF cookie THEN Bucket(s) ELSE minted + 1)
    BY <2>1 DEF VKGrants
  <2>3. nextGen + 1 > nextGen
    BY <1>1
  <2>4. FillStep(s, k)
    BY <1>3, <1>5, <2>1, <2>2, <2>3
  <2>5. QED
    BY <2>1, <2>4 DEF Shaped
<1>6. QED
  BY <1>4, <1>5 DEF Publish

\* A failed mint hands out a seat somebody else provided, or nothing.
LEMMA ShapeFallBack ==
  ASSUME TypeOK, NEW c \in Conns, conn[c].pc = "minting", FallBack(c),
         expired' \subseteq expired, minted <= minted', displaced' = displaced
  PROVE  Shaped
<1>1. c \in Minters /\ Minting(c) /\ ~Seated(c)
  BY DEF Minters, Minting, Seated
<1>2. /\ FailedPool(c) \in [Slots -> Entries]
      /\ \A s \in Slots : /\ FailedPool(c)[s].cred = pool[s].cred
                          /\ FailedPool(c)[s].gen = pool[s].gen
                          /\ FailedPool(c)[s].active = pool[s].active
  BY <1>1, FailedPoolType
<1>3. CASE Seats = {} /\ pool' = FailedPool(c) /\ Refuse(c)
  <2> DEFINE r == [Out EXCEPT !.pc = "refused", !.ch = conn[c].ch]
  <2>1. r.pc = "refused" /\ conn' = [conn EXCEPT ![c] = r]
    BY <1>3 DEF Out, Refuse
  <2>2. \A d \in Conns : Stays(d)
    BY <1>1, <2>1, OneWaits
  <2>3. \A s \in Slots : Same(s)
    BY <1>2, <1>3 DEF Same
  <2>4. QED
    BY <2>2, <2>3 DEF Shaped, QuietStep
<1>4. ASSUME NEW s \in PickSeat(OwnSlot(c)),
             pool' = [FailedPool(c) EXCEPT ![s].active = @ + 1],
             Sit(c, s, pool[s].cred)
      PROVE  Shaped
  <2>1. s \in Slots /\ Available(pool[s])
    BY PickSeatInSeats DEF Seats
  <2>2. SitsDown(c, s, pool[s].cred) /\ OthersStay(c)
    BY <1>1, <1>4, <2>1, OneSits
  <2> DEFINE p == FailedPool(c)
             e == [p[s] EXCEPT !.active = @ + 1]
  <2>3. pool'[s] = e /\ \A t \in Slots \ {s} : pool'[t] = p[t]
    BY <1>2, <1>4, <2>1
  <2>4. p[s] \in Entries
    BY <1>2, <2>1
  <2>5. /\ e.active = p[s].active + 1 /\ e.cred = p[s].cred /\ e.gen = p[s].gen
        /\ e.sat = p[s].sat /\ e.pending = p[s].pending
    BY <2>4, EditFields, CredEdit, SeatEdit
  <2>6. p[s].sat = pool[s].sat /\ p[s].pending = pool[s].pending
    <3>1. pool[s] \in Entries /\ pool \in [Slots -> Entries] /\ TargetOf(c) \in Slots
      BY <1>1, <2>1, MinterType DEF TypeOK
    <3>2. ASSUME NEW f \in Entries
          PROVE  LET h == [f EXCEPT !.fetching = FALSE, !.cooling = TRUE]
                 IN  h.sat = f.sat /\ h.pending = f.pending
      BY DEF Entries
    <3>3. CASE Owns(c)
      <4>1. p = [pool EXCEPT ![TargetOf(c)] =
                   [pool[TargetOf(c)] EXCEPT !.fetching = FALSE, !.cooling = TRUE]]
        BY <3>1, <3>3 DEF FailedPool
      <4>2. p[s] = pool[s] \/ p[s] = [pool[s] EXCEPT !.fetching = FALSE, !.cooling = TRUE]
        BY <2>1, <3>1, <4>1
      <4>3. QED
        BY <3>1, <3>2, <4>2
    <3>4. CASE ~Owns(c)
      BY <3>4 DEF FailedPool
    <3>5. QED
      BY <3>3, <3>4
  <2>7. OthersSame(s)
    BY <1>2, <2>3 DEF OthersSame, Same
  <2>8. /\ pool'[s].cred = pool[s].cred
        /\ pool'[s].active = pool[s].active + 1
        /\ pool'[s].gen = pool[s].gen
        /\ pool'[s].sat = pool[s].sat /\ pool'[s].pending = pool[s].pending
    BY <1>2, <2>1, <2>3, <2>5, <2>6
  <2>9. Available(pool[s])' /\ pool[s].cred # NoCred
    BY <2>1, <2>8 DEF Available, Fresh, Valid
  <2>10. SeatStep(c, s)
    BY <2>2, <2>7, <2>8, <2>9 DEF SeatStep
  <2>11. QED
    BY <2>1, <2>10 DEF Shaped
<1>5. QED
  BY <1>3, <1>4 DEF FallBack

LEMMA ShapeConnMint ==
  ASSUME TypeOK, NEW c \in Conns, ConnMinted(c) \/ ConnMintFailed(c)
  PROVE  Shaped
<1>1. c \in Minters /\ Minting(c) /\ TargetOf(c) = conn[c].slot /\ minted \in Nat
  BY DEF Minters, Minting, TargetOf, ConnMinted, ConnMintFailed, TypeOK
<1>2. CASE ConnMintFailed(c)
  BY <1>1, <1>2, ShapeFallBack DEF ConnMintFailed, VKRefuses, vk, history
<1>3. ASSUME NEW k \in Creds, VKGrants(k, conn[c].slot), Publish(c, k, 1)
      PROVE  Shaped
  BY <1>1, <1>3, ShapePublish
<1>4. ASSUME NEW k \in Creds, VKGrants(k, conn[c].slot), FallBack(c), conn[c].pc = "minting",
             UNCHANGED <<cookie, nextGen, paused, grower, duty, cache, history>>
      PROVE  Shaped
  <2>1. expired' \subseteq expired /\ minted <= minted'
    BY <1>1, <1>4 DEF VKGrants
  <2>2. QED
    BY <1>4, <2>1, ShapeFallBack DEF history
<1>5. QED
  BY <1>2, <1>3, <1>4 DEF ConnMinted

LEMMA ShapeGrower ==
  ASSUME TypeOK, NEW g \in Growers, GrowerStep(g)
  PROVE  Shaped
<1>1. g \in Minters /\ g \notin Conns /\ minted \in Nat
  BY GrowersAssumption DEF Minters, Conns, TypeOK
<1>2. ASSUME NEW s \in Slots, NEW guarded \in BOOLEAN, TryFill(g, s, guarded)
      PROVE  Shaped
  <2>1. ClaimStep(s)
    BY <1>2, ClaimEdits, NobodyLeaves DEF TryFill, ClaimStep, vk, history
  <2>2. QED
    BY <2>1 DEF Shaped
<1>3. CASE GrowerMintFailed(g)
  <2>1. Minting(g) /\ pool' = FailedPool(g)
    BY <1>1, <1>3 DEF GrowerMintFailed, Minting
  <2>2. \A s \in Slots : Same(s)
    BY <1>1, <2>1, FailedPoolType DEF Same
  <2>3. QED
    BY <1>1, <1>3, <2>2, NobodyLeaves
       DEF Shaped, QuietStep, GrowerMintFailed, VKRefuses, vk, history
<1>4. CASE GrowerMinted(g)
  <2>1. Minting(g) /\ TargetOf(g) = grower[g].slot
    BY <1>1, <1>4 DEF GrowerMinted, Minting, TargetOf
  <2>2. ASSUME NEW k \in Creds, VKGrants(k, grower[g].slot), Publish(g, k, 0), UNCHANGED conn
        PROVE  Shaped
    BY <1>1, <2>1, <2>2, ShapePublish
  <2>3. ASSUME NEW k \in Creds, VKGrants(k, grower[g].slot),
               UNCHANGED <<shared, conn, duty, cache, history>>
        PROVE  Shaped
    <3>1. minted <= minted'
      BY <1>1, <2>3 DEF VKGrants
    <3>2. QED
      BY <2>3, <3>1, NobodyLeaves DEF Shaped, QuietStep, Same, shared, history
  <2>4. QED
    BY <1>4, <2>2, <2>3 DEF GrowerMinted
<1>5. QED
  BY <1>2, <1>3, <1>4 DEF GrowerStep

LEMMA ShapeSessionEnd ==
  ASSUME TypeOK, NEW c \in Conns,
         MarkSaturated(c) \/ InvalidateEntry(c) \/ Release(c)
  PROVE  Shaped
<1>1. /\ conn[c].slot \in Slots /\ pool[conn[c].slot] \in Entries
      /\ conn[c] \in Locations /\ minted \in Nat
  BY DEF TypeOK, Locations
<1> DEFINE s == conn[c].slot
<1>2. ASSUME conn' = [conn EXCEPT ![c].pc = "closing"], conn[c].pc = "seated"
      PROVE  \A d \in Conns : Stays(d)
  <2> DEFINE r == [conn[c] EXCEPT !.pc = "closing"]
  <2>1. r.pc = "closing" /\ r.slot = conn[c].slot /\ r.cred = conn[c].cred
    BY <1>1 DEF Locations
  <2>2. conn' = [conn EXCEPT ![c] = r]
    BY <1>2 DEF TypeOK
  <2>3. conn'[c] = r /\ OthersStay(c)
    BY <2>2, OneMoves
  <2>4. Stays(c)
    BY <1>2, <2>1, <2>3 DEF Stays, Seated, Minting
  <2>5. QED
    BY <2>3, <2>4 DEF OthersStay
<1>3. CASE MarkSaturated(c)
  <2> DEFINE e == [pool[s] EXCEPT !.sat = TRUE]
  <2>1. pool' = [pool EXCEPT ![s] = e]
    BY <1>1, <1>3 DEF MarkSaturated, TypeOK
  <2>2. e.cred = pool[s].cred /\ e.active = pool[s].active /\ e.gen = pool[s].gen
    BY <1>1, FlagEdits
  <2>3. \A t \in Slots : Same(t)
    BY <1>1, <2>1, <2>2, SlotRestyled
  <2>4. QED
    BY <1>1, <1>2, <1>3, <2>3 DEF Shaped, QuietStep, MarkSaturated, vk, history
<1>4. CASE InvalidateEntry(c)
  <2>1. pool'[s] = Blank /\ OthersSame(s)
    BY <1>1, <1>4, SlotEdited DEF InvalidateEntry
  <2>2. Blank.cred = NoCred /\ Blank.active = 0 /\ Blank.gen = 0
    BY DEF Blank
  <2>3. \A d \in Conns : Stays(d)
    BY <1>2, <1>4 DEF InvalidateEntry
  <2>4. (~displaced' => ~displaced /\ Holders(s) = {}) /\ minted' = minted
    BY <1>4 DEF InvalidateEntry, vk
  <2>5. ClearStep({s})
    BY <2>1, <2>2, <2>3, <2>4 DEF ClearStep, OthersSame
  <2>6. QED
    BY <1>1, <2>5 DEF Shaped
<1>5. CASE Release(c)
  <2>1. pool'[s] = Released(pool[s]) /\ OthersSame(s)
    <3>1. pool' = [pool EXCEPT ![s] = Released(pool[s])]
      BY <1>1, <1>5 DEF Release, TypeOK
    <3>2. QED
      BY <1>1, <3>1, SlotEdited
  <2>2. /\ pool'[s].cred = pool[s].cred /\ pool'[s].gen = pool[s].gen
        /\ pool'[s].active = IF pool[s].active = 0 THEN 0 ELSE pool[s].active - 1
    BY <1>1, <2>1, EditFields, CredEdit, SeatEdit
  <2>3. conn'[c] = Out /\ OthersStay(c)
    BY <1>5, OneMoves DEF Release
  <2>4. Seated(c) /\ ~Seated(c)' /\ ~Minting(c)'
    BY <1>5, <2>3, OutType DEF Release, Seated, Minting
  <2>5. displaced' = displaced /\ minted' = minted
    BY <1>5 DEF Release, vk, history
  <2>6. LeaveStep(c)
    BY <2>1, <2>2, <2>3, <2>4, <2>5 DEF LeaveStep
  <2>7. QED
    BY <2>6 DEF Shaped
<1>6. QED
  BY <1>3, <1>4, <1>5

LEMMA ShapeOthers ==
  ASSUME TypeOK,
         \/ \E p \in Minters \cup {Saver} : DutyStep(p)
         \/ \E c \in Conns : WakeOnSignal(c) \/ WakeOnTimer(c)
         \/ PeriodicSave
         \/ \E s \in Slots : SlotDeadline(s)
         \/ Environment
         \/ UNCHANGED vars
  PROVE  Shaped
<1>1. minted \in Nat
  BY DEF TypeOK
<1>2. ASSUME UNCHANGED <<pool, minted, displaced>>, \A c \in Conns : Stays(c)
      PROVE  Shaped
  BY <1>1, <1>2 DEF Shaped, QuietStep, Same
<1>3. ASSUME NEW p \in Minters \cup {Saver}, DutyStep(p)
      PROVE  Shaped
  BY <1>2, <1>3, NobodyLeaves, WokenStay
     DEF DutyStep, SaveSnapshot, SaveWrite, Broadcast, shared, vk, history
<1>4. ASSUME NEW c \in Conns, WakeOnSignal(c) \/ WakeOnTimer(c)
      PROVE  Shaped
  <2>1. conn' = [conn EXCEPT ![c] = Out] /\ ~Seated(c)
    BY <1>4 DEF WakeOnSignal, WakeOnTimer, Waiting, Seated
  <2>2. \A d \in Conns : Stays(d)
    BY <2>1, OneWaits, OutType
  <2>3. QED
    BY <1>2, <1>4, <2>2 DEF WakeOnSignal, WakeOnTimer, shared, vk, history
<1>5. CASE PeriodicSave \/ UNCHANGED vars
  BY <1>2, <1>5, NobodyLeaves DEF PeriodicSave, vars, shared, vk, history
<1>6. ASSUME NEW s \in Slots, SlotDeadline(s)
      PROVE  Shaped
  <2>1. pool[s] \in Entries
    BY DEF TypeOK
  <2>2. PICK e : /\ pool' = [pool EXCEPT ![s] = e]
                 /\ \/ e = [pool[s] EXCEPT !.sat = FALSE]
                    \/ e = [pool[s] EXCEPT !.cooling = FALSE]
                    \/ e = [pool[s] EXCEPT !.pending = FALSE]
    BY <1>6 DEF SlotDeadline, SaturationEnds, CooldownEnds, PendingEnds, TypeOK
  <2>3. e.cred = pool[s].cred /\ e.active = pool[s].active /\ e.gen = pool[s].gen
    BY <2>1, <2>2, FlagEdits
  <2>4. \A t \in Slots : Same(t)
    BY <2>2, <2>3, SlotRestyled
  <2>5. (UNCHANGED conn \/ conn' = Woken) /\ UNCHANGED <<minted, displaced>>
    BY <1>6 DEF SlotDeadline, SaturationEnds, CooldownEnds, PendingEnds, vk, history
  <2>6. QED
    BY <1>1, <2>4, <2>5, NobodyLeaves, WokenStay DEF Shaped, QuietStep
<1>7. ASSUME NEW recent \in SUBSET Slots, PathChange(recent)
      PROVE  Shaped
  <2>1. ASSUME NEW s \in Slots PROVE Same(s)
    <3>1. pool[s] \in Entries
      BY DEF TypeOK
    <3>2. pool'[s] = pool[s] \/ pool'[s] = [pool[s] EXCEPT !.sat = TRUE]
      BY <1>7 DEF PathChange
    <3>3. QED
      BY <3>1, <3>2, FlagEdits DEF Same
  <2>2. QED
    BY <1>1, <1>7, <2>1, NobodyLeaves DEF Shaped, QuietStep, PathChange, vk, history
<1>8. CASE ExtendPause \/ PauseEnds \/ \E k \in Creds : Expire(k)
  BY <1>2, <1>8, NobodyLeaves, WokenStay DEF ExtendPause, PauseEnds, Expire, shared, vk, history
<1>9. CASE Invalidate
  <2>1. \A s \in Slots : pool'[s] = Blank
    BY <1>9 DEF Invalidate
  <2>2. Blank.cred = NoCred /\ Blank.active = 0 /\ Blank.gen = 0
    BY DEF Blank
  <2>3. /\ ~displaced' => ~displaced /\ \A s \in Slots : Holders(s) = {}
        /\ minted' = minted /\ \A c \in Conns : Stays(c)
    BY <1>9, NobodyLeaves DEF Invalidate, vk
  <2>4. ClearStep(Slots)
    BY <2>1, <2>2, <2>3 DEF ClearStep
  <2>5. QED
    BY <2>4 DEF Shaped
<1>10. CASE \E recent \in SUBSET Slots, seed \in {NoCred} \cup Creds : Restart(recent, seed)
  BY <1>10 DEF Shaped, RestartStep
<1>11. QED
  BY <1>3, <1>4, <1>5, <1>6, <1>7, <1>8, <1>9, <1>10 DEF Environment

\* Every step of the pool has one of the shapes.
LEMMA EveryStepShaped ==
  ASSUME TypeOK, [Next]_vars
  PROVE  Shaped
<1>1. CASE \E c \in Conns : ConnStep(c)
  BY <1>1, ShapeAcquire, ShapeConnMint, ShapeSessionEnd, ShapeOthers DEF ConnStep
<1>2. CASE \E g \in Growers : GrowerStep(g)
  BY <1>2, ShapeGrower
<1>3. QED
  BY <1>1, <1>2, ShapeOthers DEF Next

-----------------------------------------------------------------------------
(* One slot per credential *)

\* A pool, a snapshot or a cache file holds no credential twice.
Apart(f) ==
  \A s, t \in Slots : f[s].cred = f[t].cred /\ f[s].cred # NoCred => s = t

\* It holds credentials VK has issued, in cookie mode each slot its own.
Issued(f) ==
  \A s \in Slots : f[s].cred # NoCred =>
    IF cookie THEN f[s].cred = Bucket(s) ELSE f[s].cred <= minted

\* OneSlotPerCred needs the cache to be inductive: a restart reads the pool
\* back from it.  A fresh credential is in no slot because those hold only
\* what VK has issued.
CredsInv ==
  /\ Apart(pool) /\ Issued(pool)
  /\ Apart(disk) /\ Issued(disk)
  /\ \A p \in Minters \cup {Saver} : Apart(snap[p]) /\ Issued(snap[p])
  /\ ~cookie => \A k \in expired : k <= minted

LEMMA CredIsNat ==
  /\ \A k \in {NoCred} \cup Creds : k \in Nat
  /\ Creds \subseteq Nat /\ NoCred = 0 /\ NoCred \notin Creds
  BY ConstantsAssumption DEF Creds, NoCred, Bucket, Slots

LEMMA CookieFixed == ASSUME [Next]_vars PROVE cookie' = cookie
<1>1. ASSUME NEW c \in Conns, ConnStep(c) PROVE cookie' = cookie
  BY <1>1 DEF ConnStep, TakeChannel, Acquire, GetPaused, GetSeat, GetRefused, GetClaim,
              ConnMinted, ConnMintFailed, MarkSaturated, InvalidateEntry, Release,
              WakeOnSignal, WakeOnTimer, shared
<1>2. ASSUME NEW g \in Growers, GrowerStep(g) PROVE cookie' = cookie
  BY <1>2 DEF GrowerStep, TryFill, GrowerMinted, GrowerMintFailed, shared
<1>3. ASSUME NEW p \in Minters \cup {Saver}, DutyStep(p) PROVE cookie' = cookie
  BY <1>3 DEF DutyStep, SaveSnapshot, SaveWrite, Broadcast, shared
<1>4. ASSUME NEW s \in Slots, SlotDeadline(s) PROVE cookie' = cookie
  BY <1>4 DEF SlotDeadline, SaturationEnds, CooldownEnds, PendingEnds
<1>5. CASE Environment \/ PeriodicSave \/ UNCHANGED vars
  BY <1>5 DEF Environment, PathChange, ExtendPause, PauseEnds, Expire, Invalidate, Restart,
              PeriodicSave, vars, shared
<1>6. QED
  BY <1>1, <1>2, <1>3, <1>4, <1>5 DEF Next

\* Saves move whole snapshots: the pool's to a saver, a saver's to the disk.
LEMMA CacheMoves ==
  ASSUME TypeOK, [Next]_vars, ~RestartStep
  PROVE  /\ disk' = disk \/ \E p \in Minters \cup {Saver} : disk' = snap[p]
         /\ \A p \in Minters \cup {Saver} : snap'[p] \in {snap[p], Snapshot(pool), NoSnapshot}
<1>1. ASSUME UNCHANGED cache
      PROVE  /\ disk' = disk
             /\ \A p \in Minters \cup {Saver} : snap'[p] = snap[p]
  BY <1>1 DEF cache
<1>2. ASSUME NEW c \in Conns, ConnStep(c) PROVE UNCHANGED cache
  BY <1>2 DEF ConnStep, TakeChannel, Acquire, GetPaused, GetSeat, GetRefused, GetClaim,
              ConnMinted, ConnMintFailed, MarkSaturated, InvalidateEntry, Release,
              WakeOnSignal, WakeOnTimer, cache
<1>3. ASSUME NEW g \in Growers, GrowerStep(g) PROVE UNCHANGED cache
  BY <1>3 DEF GrowerStep, TryFill, GrowerMinted, GrowerMintFailed, cache
<1>4. ASSUME NEW s \in Slots, SlotDeadline(s) PROVE UNCHANGED cache
  BY <1>4 DEF SlotDeadline, SaturationEnds, CooldownEnds, PendingEnds
<1>5. CASE Environment \/ PeriodicSave \/ UNCHANGED vars
  <2>1. UNCHANGED cache
    BY <1>5 DEF Environment, PathChange, ExtendPause, PauseEnds, Expire, Invalidate,
                RestartStep, PeriodicSave, vars
  <2>2. QED
    BY <1>1, <2>1
<1>6. ASSUME NEW p \in Minters \cup {Saver}, DutyStep(p)
      PROVE  /\ disk' = disk \/ disk' = snap[p]
             /\ \A q \in Minters \cup {Saver} : snap'[q] \in {snap[q], Snapshot(pool), NoSnapshot}
  BY <1>1, <1>6 DEF DutyStep, SaveSnapshot, SaveWrite, Broadcast, TypeOK
<1>7. QED
  BY <1>1, <1>2, <1>3, <1>4, <1>5, <1>6 DEF Next

\* Only credentials some slot holds expire.
LEMMA WhatExpires ==
  ASSUME TypeOK, [Next]_vars
  PROVE  expired' \subseteq expired \cup {pool[s].cred : s \in Slots}
<1>1. ASSUME NEW c \in Conns, ConnStep(c) PROVE expired' \subseteq expired
  BY <1>1 DEF ConnStep, TakeChannel, Acquire, GetPaused, GetSeat, GetRefused, GetClaim,
              ConnMinted, ConnMintFailed, MarkSaturated, InvalidateEntry, Release,
              WakeOnSignal, WakeOnTimer, VKGrants, VKRefuses, vk
<1>2. ASSUME NEW g \in Growers, GrowerStep(g) PROVE expired' \subseteq expired
  BY <1>2 DEF GrowerStep, TryFill, GrowerMinted, GrowerMintFailed, VKGrants, VKRefuses, vk
<1>3. ASSUME NEW p \in Minters \cup {Saver}, DutyStep(p) PROVE expired' \subseteq expired
  BY <1>3 DEF DutyStep, SaveSnapshot, SaveWrite, Broadcast, vk
<1>4. ASSUME NEW s \in Slots, SlotDeadline(s) PROVE expired' \subseteq expired
  BY <1>4 DEF SlotDeadline, SaturationEnds, CooldownEnds, PendingEnds, vk
<1>5. CASE Environment \/ PeriodicSave \/ UNCHANGED vars
  BY <1>5 DEF Environment, PathChange, ExtendPause, PauseEnds, Expire, Invalidate, Restart,
              PeriodicSave, vars, vk
<1>6. QED
  BY <1>1, <1>2, <1>3, <1>4, <1>5 DEF Next

\* Dropping credentials keeps the rest apart.
LEMMA ApartKept ==
  ASSUME NEW f, NEW g, Apart(f), \A s \in Slots : g[s].cred \in {NoCred, f[s].cred}
  PROVE  Apart(g)
  BY DEF Apart

LEMMA IssuedKept ==
  ASSUME TypeOK, TypeOK', NEW f, NEW g, Issued(f), cookie' = cookie, minted <= minted',
         \A s \in Slots : f[s].cred \in {NoCred} \cup Creds,
         \A s \in Slots : g[s].cred \in {NoCred, f[s].cred}
  PROVE  \A s \in Slots : g[s].cred # NoCred =>
           IF cookie' THEN g[s].cred = Bucket(s) ELSE g[s].cred <= minted'
<1>1. /\ minted \in Nat /\ minted' \in Nat
      /\ \A s \in Slots : f[s].cred \in Nat
  <2>1. minted \in Nat /\ minted' \in Nat
    BY DEF TypeOK
  <2>2. QED
    BY <2>1, CredIsNat
<1>2. CASE cookie
  BY <1>2 DEF Issued
<1>3. CASE ~cookie
  <2>1. \A s \in Slots : f[s].cred # NoCred => f[s].cred <= minted
    BY <1>3 DEF Issued
  <2>2. \A s \in Slots : g[s].cred # NoCred => g[s].cred <= minted'
    BY <1>1, <2>1
  <2>3. QED
    BY <1>3, <2>2
<1>4. QED
  BY <1>2, <1>3

\* Steps of the pool in one process: at most one slot gets a fresh credential.
LEMMA PoolCredsKept ==
  ASSUME TypeOK, TypeOK', CredsInv, Shaped, ~RestartStep, cookie' = cookie
  PROVE  /\ minted <= minted'
         /\ Apart(pool)' /\ Issued(pool)'
<1>1. minted \in Nat /\ minted' \in Nat /\ \A s \in Slots : pool[s].cred \in {NoCred} \cup Creds
  BY DEF TypeOK, Entries
<1>2. ASSUME minted <= minted', \A s \in Slots : pool'[s].cred \in {NoCred, pool[s].cred}
      PROVE  Apart(pool)' /\ Issued(pool)'
  <2>1. Apart(pool) /\ Issued(pool)
    BY DEF CredsInv
  <2>2. Apart(pool)'
    BY <1>2, <2>1 DEF Apart
  <2>3. Issued(pool)'
    BY <1>1, <1>2, <2>1, IssuedKept DEF Issued
  <2>4. QED
    BY <2>2, <2>3
<1>3. CASE QuietStep
  BY <1>2, <1>3 DEF QuietStep, Same
<1>4. ASSUME NEW c \in Conns, NEW s \in Slots, SeatStep(c, s)
      PROVE  minted <= minted' /\ \A t \in Slots : pool'[t].cred \in {NoCred, pool[t].cred}
  BY <1>4 DEF SeatStep, OthersSame, Same
<1>5. ASSUME NEW s \in Slots, ClaimStep(s)
      PROVE  minted <= minted' /\ \A t \in Slots : pool'[t].cred \in {NoCred, pool[t].cred}
  BY <1>1, <1>5 DEF ClaimStep, OthersSame, Same
<1>6. ASSUME NEW S \in SUBSET Slots, ClearStep(S)
      PROVE  minted <= minted' /\ \A t \in Slots : pool'[t].cred \in {NoCred, pool[t].cred}
  BY <1>1, <1>6 DEF ClearStep, Same
<1>7. ASSUME NEW c \in Conns, LeaveStep(c)
      PROVE  minted <= minted' /\ \A t \in Slots : pool'[t].cred \in {NoCred, pool[t].cred}
  BY <1>1, <1>7 DEF LeaveStep, OthersSame, Same
<1>8. ASSUME NEW s \in Slots, NEW k \in Creds, FillStep(s, k)
      PROVE  minted <= minted' /\ Apart(pool)' /\ Issued(pool)'
  <2>1. /\ minted' = minted + 1 /\ k = (IF cookie THEN Bucket(s) ELSE minted + 1)
        /\ pool'[s].cred = k /\ \A t \in Slots \ {s} : pool'[t].cred = pool[t].cred
    BY <1>8 DEF FillStep, OthersSame, Same
  <2>2. \A t \in Slots \ {s} : pool[t].cred # k
    BY <1>1, <2>1, CredIsNat DEF CredsInv, Issued, Bucket, Slots
  <2>3. Apart(pool)'
    BY <2>1, <2>2 DEF CredsInv, Apart
  <2>4. Issued(pool)'
    <3>1. CASE cookie
      BY <2>1, <3>1 DEF CredsInv, Issued
    <3>2. CASE ~cookie
      <4>1. \A t \in Slots : pool[t].cred \in Nat
        BY <1>1, CredIsNat
      <4>2. \A t \in Slots : pool[t].cred # NoCred => pool[t].cred <= minted
        BY <3>2 DEF CredsInv, Issued
      <4>3. \A t \in Slots : pool'[t].cred # NoCred => pool'[t].cred <= minted'
        BY <1>1, <2>1, <3>2, <4>1, <4>2
      <4>4. QED
        BY <3>2, <4>3 DEF Issued
    <3>3. QED
      BY <3>1, <3>2
  <2>5. QED
    BY <1>1, <2>1, <2>3, <2>4
<1>9. QED
  BY <1>2, <1>3, <1>4, <1>5, <1>6, <1>7, <1>8 DEF Shaped, QuietStep

\* The pool read back from the cache file.
LEMMA LoadedCreds ==
  ASSUME TypeOK, NEW recent \in SUBSET Slots
  PROVE  \A s \in Slots : Loaded(recent)[s].cred \in {NoCred, disk[s].cred}
<1>1. \A s \in Slots : Blank.cred = NoCred
  BY DEF Blank
<1>2. ASSUME NEW k, NEW u, NEW w
      PROVE  [Blank EXCEPT !.cred = k, !.used = u, !.pending = w].cred = k
  BY DEF Blank
<1>3. QED
  BY <1>1, <1>2 DEF Loaded

\* The lowest slot is one slot.
LEMMA LowestUnique ==
  ASSUME NEW S, S \subseteq Slots
  PROVE  \A s, t \in Lowest(S) : s = t
  BY ConstantsAssumption DEF Lowest, Slots

\* Seeding moves or drops credentials, and puts the seed in slot 0.
LEMMA SeededCreds ==
  ASSUME NEW p \in [Slots -> Entries], Apart(p), NEW k \in {NoCred} \cup Creds
  PROVE  /\ Apart(Seeded(p, k))
         /\ \A s \in Slots : \/ Seeded(p, k)[s].cred \in {NoCred, k}
                             \/ \E t \in Slots : Seeded(p, k)[s].cred = p[t].cred
<1>1. CASE k = NoCred \/ Fresh(p[0])
  BY <1>1 DEF Seeded
<1>2. CASE ~(k = NoCred \/ Fresh(p[0]))
  <2> DEFINE seeded == [s \in Slots |-> IF s = 0 THEN Filled(k, 0, 0)
                                        ELSE IF p[s].cred = k THEN Blank ELSE p[s]]
             moved == IF p[0].cred \in {NoCred, k} THEN {}
                      ELSE Lowest({s \in Slots : seeded[s].cred = NoCred})
             q == Seeded(p, k)
  <2>1. q = [s \in Slots |-> IF s \in moved THEN p[0] ELSE seeded[s]]
    BY <1>2 DEF Seeded
  <2>2. Filled(k, 0, 0).cred = k /\ Blank.cred = NoCred /\ k # NoCred
    BY <1>2 DEF Filled, Blank
  <2>3. /\ seeded[0].cred = k
        /\ \A s \in Slots \ {0} : seeded[s].cred = (IF p[s].cred = k THEN NoCred ELSE p[s].cred)
    BY <2>2, ZeroSlot
  <2>4. /\ moved \subseteq {s \in Slots : seeded[s].cred = NoCred}
        /\ \A s, t \in moved : s = t
        /\ moved # {} => p[0].cred \notin {NoCred, k}
    BY LowestSubset, LowestUnique
  <2> HIDE DEF seeded, moved, q
  <2>5. /\ 0 \notin moved /\ q[0].cred = k
        /\ \A s \in Slots \ {0} :
             q[s].cred = IF s \in moved THEN p[0].cred
                         ELSE IF p[s].cred = k THEN NoCred ELSE p[s].cred
    BY <2>1, <2>2, <2>3, <2>4, ZeroSlot
  <2>6. ASSUME NEW s \in Slots, NEW t \in Slots, q[s].cred = q[t].cred, q[s].cred # NoCred
        PROVE  s = t
    <3>1. CASE s = 0
      BY <2>4, <2>5, <2>6, <3>1
    <3>2. CASE t = 0
      BY <2>4, <2>5, <2>6, <3>2
    <3>3. CASE s # 0 /\ t # 0
      <4>1. CASE s \in moved /\ t \in moved
        BY <2>4, <4>1
      <4>2. CASE s \in moved /\ t \notin moved
        BY <2>4, <2>5, <2>6, <3>3, <4>2, ZeroSlot DEF Apart
      <4>3. CASE s \notin moved /\ t \in moved
        BY <2>4, <2>5, <2>6, <3>3, <4>3, ZeroSlot DEF Apart
      <4>4. CASE s \notin moved /\ t \notin moved
        BY <2>5, <2>6, <3>3, <4>4 DEF Apart
      <4>5. QED
        BY <4>1, <4>2, <4>3, <4>4
    <3>4. QED
      BY <3>1, <3>2, <3>3
  <2>7. Apart(q)
    BY <2>6 DEF Apart
  <2>8. \A s \in Slots : q[s].cred \in {NoCred, k} \/ \E t \in Slots : q[s].cred = p[t].cred
    BY <2>5, ZeroSlot
  <2>9. QED
    BY <2>7, <2>8 DEF q
<1>3. QED
  BY <1>1, <1>2

LEMMA SnapshotCreds ==
  ASSUME NEW p
  PROVE  \A s \in Slots : Snapshot(p)[s].cred = p[s].cred
  BY DEF Snapshot

LEMMA CredsRestart ==
  ASSUME TypeOK, TypeOK', CredsInv, NEW recent \in SUBSET Slots, NEW seed,
         Restart(recent, seed)
  PROVE  CredsInv'
<1> DEFINE p == Loaded(recent)
<1>1. /\ ~cookie /\ cookie' = cookie /\ expired' = expired /\ seed \in Seeds(p)
      /\ pool' = Seeded(p, seed)
      /\ disk' = disk \/ disk' = Snapshot(pool')
      /\ minted' = IF seed > minted THEN seed ELSE minted
      /\ \A q \in Minters \cup {Saver} : snap'[q] = NoSnapshot
  BY DEF Restart
<1>2. seed \in {NoCred} \cup Creds /\ p \in [Slots -> Entries]
  BY RestartPool, LoadedType
<1>3. /\ minted \in Nat /\ minted' \in Nat /\ seed \in Nat
      /\ \A s \in Slots : disk[s].cred \in {NoCred} \cup Creds
      /\ \A s \in Slots : disk[s].cred \in Nat
  <2>1. /\ minted \in Nat /\ minted' \in Nat
        /\ \A s \in Slots : disk[s].cred \in {NoCred} \cup Creds
    BY DEF TypeOK, CacheFiles
  <2>2. QED
    BY <1>2, <2>1, CredIsNat
<1>4. minted <= minted' /\ seed <= minted'
  BY <1>1, <1>3
<1>5. Apart(disk) /\ \A s \in Slots : disk[s].cred <= minted
  <2>1. \A s \in Slots : disk[s].cred # NoCred => disk[s].cred <= minted
    BY <1>1 DEF CredsInv, Issued
  <2>2. QED
    BY <1>3, <2>1, CredIsNat DEF CredsInv
<1>6. /\ \A s \in Slots : p[s].cred \in {NoCred, disk[s].cred}
      /\ Apart(p)
  BY <1>5, LoadedCreds, ApartKept
<1>7. /\ Apart(pool')
      /\ \A s \in Slots : \/ pool'[s].cred \in {NoCred, seed}
                          \/ \E t \in Slots : pool'[s].cred = p[t].cred
  BY <1>1, <1>2, <1>6, SeededCreds
<1> HIDE DEF p
<1>8. \A s \in Slots : pool'[s].cred <= minted'
  <2>1. \A t \in Slots : p[t].cred <= minted'
    BY <1>3, <1>4, <1>5, <1>6, CredIsNat
  <2>2. QED
    BY <1>3, <1>4, <1>7, <2>1, CredIsNat
<1>9. Apart(pool)' /\ Issued(pool)'
  BY <1>1, <1>7, <1>8 DEF Apart, Issued
<1>10. Apart(disk)' /\ Issued(disk)'
  <2>1. CASE disk' = disk
    <3>1. \A s \in Slots : disk'[s].cred <= minted'
      BY <1>3, <1>4, <1>5, <2>1
    <3>2. QED
      BY <1>1, <1>5, <2>1, <3>1 DEF Apart, Issued
  <2>2. CASE disk' = Snapshot(pool')
    <3>1. \A s \in Slots : disk'[s].cred = pool'[s].cred
      BY <2>2, SnapshotCreds
    <3>2. QED
      BY <1>1, <1>7, <1>8, <3>1 DEF Apart, Issued
  <2>3. QED
    BY <1>1, <2>1, <2>2
<1>11. \A q \in Minters \cup {Saver} : Apart(snap[q])' /\ Issued(snap[q])'
  BY <1>1 DEF NoSnapshot, Apart, Issued
<1>12. \A k \in expired' : k <= minted'
  <2>1. \A k \in expired : k \in Nat /\ k <= minted
    BY <1>1, CredIsNat DEF CredsInv, TypeOK
  <2>2. QED
    BY <1>1, <1>3, <1>4, <2>1
<1>13. QED
  BY <1>9, <1>10, <1>11, <1>12 DEF CredsInv, Minters

LEMMA CredsStep == TypeOK /\ TypeOK' /\ CredsInv /\ [Next]_vars => CredsInv'
<1> SUFFICES ASSUME TypeOK, TypeOK', CredsInv, [Next]_vars PROVE CredsInv'
  OBVIOUS
<1>1. CASE RestartStep
  BY <1>1, CredsRestart DEF RestartStep
<1>2. CASE ~RestartStep
  <2>1. cookie' = cookie /\ Shaped
    BY CookieFixed, EveryStepShaped
  <2>2. minted <= minted' /\ Apart(pool)' /\ Issued(pool)'
    BY <1>2, <2>1, PoolCredsKept
  <2>3. /\ minted \in Nat /\ minted' \in Nat
        /\ \A s \in Slots : pool[s].cred \in {NoCred} \cup Creds /\ pool[s].cred \in Nat
        /\ \A s \in Slots : disk[s].cred \in {NoCred} \cup Creds
        /\ \A p \in Minters \cup {Saver}, s \in Slots : snap[p][s].cred \in {NoCred} \cup Creds
    <3>1. minted \in Nat /\ minted' \in Nat
      BY DEF TypeOK
    <3>2. \A s \in Slots : pool[s].cred \in {NoCred} \cup Creds
      BY DEF TypeOK, Entries
    <3>3. ASSUME NEW f \in CacheFiles
          PROVE  \A s \in Slots : f[s].cred \in {NoCred} \cup Creds
      BY DEF CacheFiles
    <3>4. disk \in CacheFiles /\ \A p \in Minters \cup {Saver} : snap[p] \in CacheFiles
      BY DEF TypeOK
    <3>5. QED
      BY <3>1, <3>2, <3>3, <3>4, CredIsNat
  <2>4. ASSUME NEW f, NEW g, Apart(f), Issued(f),
               \A s \in Slots : f[s].cred \in {NoCred} \cup Creds,
               \A s \in Slots : g[s].cred \in {NoCred, f[s].cred}
        PROVE  /\ Apart(g)
               /\ \A s \in Slots : g[s].cred # NoCred =>
                    IF cookie' THEN g[s].cred = Bucket(s) ELSE g[s].cred <= minted'
    BY <2>1, <2>2, <2>4, ApartKept, IssuedKept
  <2>5. Apart(disk)' /\ Issued(disk)'
    <3>1. disk' = disk \/ \E p \in Minters \cup {Saver} : disk' = snap[p]
      BY <1>2, CacheMoves
    <3>2. /\ Apart(disk')
          /\ \A s \in Slots : disk'[s].cred # NoCred =>
               IF cookie' THEN disk'[s].cred = Bucket(s) ELSE disk'[s].cred <= minted'
      BY <2>3, <2>4, <3>1 DEF CredsInv
    <3>3. QED
      BY <3>2 DEF Apart, Issued
  <2>6. ASSUME NEW p \in Minters \cup {Saver}
        PROVE  Apart(snap[p])' /\ Issued(snap[p])'
    <3>1. snap'[p] \in {snap[p], Snapshot(pool), NoSnapshot}
      BY <1>2, CacheMoves
    <3>2. \E f : /\ Apart(f) /\ Issued(f) /\ \A s \in Slots : f[s].cred \in {NoCred} \cup Creds
                 /\ \A s \in Slots : snap'[p][s].cred \in {NoCred, f[s].cred}
      <4>1. CASE snap'[p] = snap[p] \/ snap'[p] = NoSnapshot
        <5>1. \A s \in Slots : NoSnapshot[s].cred = NoCred
          BY DEF NoSnapshot
        <5>2. QED
          BY <2>3, <4>1, <5>1 DEF CredsInv
      <4>2. CASE snap'[p] = Snapshot(pool)
        BY <2>3, <4>2, SnapshotCreds DEF CredsInv
      <4>3. QED
        BY <3>1, <4>1, <4>2
    <3>3. /\ Apart(snap'[p])
          /\ \A s \in Slots : snap'[p][s].cred # NoCred =>
               IF cookie' THEN snap'[p][s].cred = Bucket(s) ELSE snap'[p][s].cred <= minted'
      BY <2>4, <3>2
    <3>4. QED
      BY <3>3 DEF Apart, Issued
  <2>7. ~cookie' => \A k \in expired' : k <= minted'
    <3> SUFFICES ASSUME ~cookie', NEW k \in expired' PROVE k <= minted'
      OBVIOUS
    <3>1. k \in expired \/ \E s \in Slots : k = pool[s].cred
      BY WhatExpires
    <3>2. k \in Nat
      BY CredIsNat DEF TypeOK
    <3>3. k # NoCred
      BY CredIsNat DEF TypeOK
    <3>4. k <= minted
      BY <2>1, <3>1, <3>3 DEF CredsInv, Issued
    <3>5. QED
      BY <2>2, <2>3, <3>2, <3>4
  <2>8. QED
    BY <2>2, <2>5, <2>6, <2>7 DEF CredsInv, Minters
<1>3. QED
  BY <1>1, <1>2

LEMMA CredsInit == Init => CredsInv
<1> SUFFICES ASSUME Init PROVE CredsInv
  OBVIOUS
<1>1. PICK k \in {NoCred} \cup (IF MaxMints > 0 /\ ~cookie THEN {1} ELSE {}) :
        /\ pool = [s \in Slots |-> IF s = 0 /\ k # NoCred THEN Filled(k, 0, 0) ELSE Blank]
        /\ minted = k
  BY DEF Init
<1>2. Filled(k, 0, 0).cred = k /\ Blank.cred = NoCred
  BY DEF Filled, Blank
<1>3. \A s \in Slots : pool[s].cred = IF s = 0 THEN k ELSE NoCred
  BY <1>1, <1>2
<1>4. k # NoCred => ~cookie
  BY <1>1
<1>5. k \in Nat
  BY <1>1 DEF NoCred
<1>6. ASSUME NEW f, \A s \in Slots : f[s].cred \in {NoCred, pool[s].cred}
      PROVE  Apart(f) /\ Issued(f)
  <2>1. \A s \in Slots : f[s].cred # NoCred => s = 0 /\ f[s].cred = k
    BY <1>3, <1>6
  <2>2. k <= minted
    BY <1>1, <1>5
  <2>3. QED
    BY <1>4, <2>1, <2>2 DEF Apart, Issued
<1>7. \A s \in Slots : NoSnapshot[s].cred = NoCred /\ Snapshot(pool)[s].cred = pool[s].cred
  BY SnapshotCreds DEF NoSnapshot
<1>8. Apart(pool) /\ Issued(pool)
  BY <1>6
<1>9. disk = Snapshot(pool) \/ disk = NoSnapshot
  BY DEF Init
<1>10. Apart(disk) /\ Issued(disk)
  BY <1>6, <1>7, <1>9
<1>11. \A p \in Minters \cup {Saver} : snap[p] = NoSnapshot
  BY DEF Init
<1>12. \A p \in Minters \cup {Saver} : Apart(snap[p]) /\ Issued(snap[p])
  BY <1>6, <1>7, <1>11
<1>13. QED
  BY <1>8, <1>10, <1>12 DEF CredsInv, Init

LEMMA CredsKept == Spec => []CredsInv
  BY TypeCorrect, CredsInit, CredsStep, PTL DEF Spec

\* No credential sits in two slots, after any interleaving of mints, resets,
\* saves and restarts (placeIntoEmptySlotLocked's two refusals, seedSlot's
\* dedup).
THEOREM CredsApart == Spec => []OneSlotPerCred
<1>1. CredsInv => OneSlotPerCred
  BY DEF CredsInv, Apart, OneSlotPerCred
<1>2. QED
  BY <1>1, CredsKept, PTL

\* Nobody sits in a pool read back from the cache file.
LEMMA RestartEmpty ==
  ASSUME TypeOK, NEW recent \in SUBSET Slots, NEW seed, Restart(recent, seed)
  PROVE  \A s \in Slots : pool'[s].active = 0
<1> DEFINE p == Loaded(recent)
<1>1. seed \in {NoCred} \cup Creds /\ p \in [Slots -> Entries] /\ pool' = Seeded(p, seed)
  BY RestartPool, LoadedType DEF Restart
<1>2. \A s \in Slots : p[s].active = 0
  <2>1. Blank.active = 0
    BY DEF Blank
  <2>2. ASSUME NEW k, NEW u, NEW w
        PROVE  [Blank EXCEPT !.cred = k, !.used = u, !.pending = w].active = 0
    BY DEF Blank
  <2>3. QED
    BY <2>1, <2>2 DEF Loaded
<1>3. Filled(seed, 0, 0).active = 0 /\ Blank.active = 0
  BY DEF Filled, Blank
<1> HIDE DEF p
<1>4. CASE seed = NoCred \/ Fresh(p[0])
  BY <1>1, <1>2, <1>4 DEF Seeded
<1>5. CASE ~(seed = NoCred \/ Fresh(p[0]))
  <2> DEFINE seeded == [s \in Slots |-> IF s = 0 THEN Filled(seed, 0, 0)
                                        ELSE IF p[s].cred = seed THEN Blank ELSE p[s]]
             moved == IF p[0].cred \in {NoCred, seed} THEN {}
                      ELSE Lowest({s \in Slots : seeded[s].cred = NoCred})
  <2>1. pool' = [s \in Slots |-> IF s \in moved THEN p[0] ELSE seeded[s]]
    BY <1>1, <1>5 DEF Seeded
  <2>2. \A s \in Slots : seeded[s].active = 0
    BY <1>2, <1>3
  <2> HIDE DEF seeded, moved
  <2>3. QED
    BY <1>2, <2>1, <2>2, ZeroSlot
<1>6. QED
  BY <1>4, <1>5


-----------------------------------------------------------------------------
(* Seats *)

\* The count of a slot is covered by sessions that sit in it, and is exact
\* until a slot was overwritten or cleared under live seats.
Counted(s) ==
  /\ pool[s].active <= Cardinality(Sitting(s))
  /\ ~displaced => /\ Holders(s) = Sitting(s)
                   /\ pool[s].active = Cardinality(Sitting(s))

\* SeatsAccounted needs to know that a session has a credential: a slot that
\* holds none is then a slot nobody sits in.
SeatsInv ==
  /\ \A s \in Slots : Counted(s)
  /\ \A c \in Conns : Seated(c) => conn[c].cred # NoCred

LEMMA ConnsFinite == IsFiniteSet(Conns)
  BY ConstantsAssumption, FS_Interval DEF Conns

LEMMA SittingFinite ==
  \A s : IsFiniteSet(Sitting(s)) /\ Cardinality(Sitting(s)) \in Nat
<1> SUFFICES ASSUME NEW s
             PROVE  IsFiniteSet(Sitting(s)) /\ Cardinality(Sitting(s)) \in Nat
  OBVIOUS
<1>1. Sitting(s) \in SUBSET Conns
  BY DEF Sitting
<1>2. IsFiniteSet(Sitting(s))
  BY <1>1, ConnsFinite, FS_Subset
<1>3. QED
  BY <1>2, FS_CardinalityType

LEMMA NobodySits ==
  ASSUME \A c \in Conns : Stays(c)
  PROVE  /\ \A s \in Slots : Sitting(s)' = Sitting(s)
         /\ \A s \in Slots : pool'[s].cred = pool[s].cred => Holders(s)' = Holders(s)
  BY DEF Sitting, Holders, Stays

LEMMA OneSitsDown ==
  ASSUME NEW c \in Conns, NEW s \in Slots, NEW k, SitsDown(c, s, k), OthersStay(c)
  PROVE  /\ c \notin Sitting(s)
         /\ Sitting(s)' = Sitting(s) \cup {c}
         /\ \A t \in Slots \ {s} : Sitting(t)' = Sitting(t)
         /\ \A t \in Slots \ {s} : pool'[t].cred = pool[t].cred => Holders(t)' = Holders(t)
         /\ pool'[s].cred = k =>
              Holders(s)' = {d \in Sitting(s) : conn[d].cred = k} \cup {c}
  BY DEF Sitting, Holders, SitsDown, OthersStay, Stays

LEMMA OneLeaves ==
  ASSUME NEW c \in Conns, NEW s \in Slots, conn[c].slot = s, LeaveStep(c)
  PROVE  /\ c \in Sitting(s)
         /\ Sitting(s)' = Sitting(s) \ {c}
         /\ Holders(s)' = Holders(s) \ {c}
         /\ \A t \in Slots \ {s} : Sitting(t)' = Sitting(t) /\ Holders(t)' = Holders(t)
<1>1. /\ Seated(c) /\ ~Seated(c)' /\ OthersStay(c)
      /\ \A t \in Slots : pool'[t].cred = pool[t].cred
  BY DEF LeaveStep, OthersSame, Same
<1>2. \A d \in Conns \ {c} : /\ Seated(d)' <=> Seated(d)
                             /\ Seated(d) => /\ conn'[d].slot = conn[d].slot
                                             /\ conn'[d].cred = conn[d].cred
  BY <1>1 DEF OthersStay, Stays
<1>3. Sitting(s)' = Sitting(s) \ {c}
  BY <1>1, <1>2 DEF Sitting
<1>4. \A t \in Slots \ {s} : Sitting(t)' = Sitting(t)
  BY <1>1, <1>2 DEF Sitting
<1>5. \A t \in Slots, d \in Conns \ {c} :
        d \in Sitting(t) => conn'[d].cred = conn[d].cred
  BY <1>2 DEF Sitting
<1>6. Holders(s)' = Holders(s) \ {c}
  BY <1>1, <1>3, <1>5 DEF Holders, Sitting
<1>7. \A t \in Slots \ {s} : Holders(t)' = Holders(t)
  BY <1>1, <1>4, <1>5 DEF Holders, Sitting
<1>8. c \in Sitting(s)
  BY <1>1 DEF Sitting
<1>9. QED
  BY <1>3, <1>4, <1>6, <1>7, <1>8

LEMMA SameCounted ==
  ASSUME NEW s \in Slots, Counted(s), Same(s), ~displaced' => ~displaced,
         Sitting(s)' = Sitting(s), Holders(s)' = Holders(s)
  PROVE  Counted(s)'
  BY DEF Counted, Same

LEMMA SeatsStep == TypeOK /\ TypeOK' /\ SeatsInv /\ [Next]_vars => SeatsInv'
<1> SUFFICES ASSUME TypeOK, TypeOK', SeatsInv, [Next]_vars PROVE SeatsInv'
  OBVIOUS
<1>1. /\ \A s \in Slots : pool[s].active \in 0 .. ConnsPerSlot /\ pool'[s].active \in Nat
      /\ \A c \in Conns : conn[c].slot \in Slots
      /\ ConnsPerSlot \in Nat /\ displaced \in BOOLEAN /\ displaced' \in BOOLEAN
  BY ConstantsAssumption DEF TypeOK, Entries, Locations
<1>2. \A s \in Slots : IsFiniteSet(Sitting(s)) /\ Cardinality(Sitting(s)) \in Nat
  BY SittingFinite
<1>3. CASE QuietStep
  <2>1. \A s \in Slots : Counted(s)'
    BY <1>3, NobodySits, SameCounted DEF QuietStep, SeatsInv, Same
  <2>2. \A c \in Conns : Seated(c)' => conn'[c].cred # NoCred
    BY <1>3 DEF QuietStep, Stays, SeatsInv
  <2>3. QED
    BY <2>1, <2>2 DEF SeatsInv
<1>4. ASSUME NEW c \in Conns, NEW s \in Slots, SeatStep(c, s) PROVE SeatsInv'
  <2>1. SitsDown(c, s, pool[s].cred) /\ OthersStay(c) /\ displaced' = displaced
    BY <1>4 DEF SeatStep
  <2>2. ASSUME NEW t \in Slots \ {s} PROVE Counted(t)'
    <3>1. Same(t) /\ Sitting(t)' = Sitting(t) /\ Holders(t)' = Holders(t)
      BY <1>4, <2>1, OneSitsDown DEF SeatStep, OthersSame, Same
    <3>2. QED
      BY <2>1, <3>1, SameCounted DEF SeatsInv
  <2>3. Counted(s)'
    <3>1. Cardinality(Sitting(s)') = Cardinality(Sitting(s)) + 1
      BY <1>2, <2>1, OneSitsDown, FS_AddElement
    <3>2. pool'[s].active = pool[s].active + 1 /\ pool'[s].cred = pool[s].cred
      BY <1>4 DEF SeatStep
    <3>3. pool'[s].active <= Cardinality(Sitting(s)')
      BY <1>1, <1>2, <3>1, <3>2 DEF SeatsInv, Counted
    <3>4. ASSUME ~displaced'
          PROVE  Holders(s)' = Sitting(s)' /\ pool'[s].active = Cardinality(Sitting(s)')
      <4>1. Holders(s) = Sitting(s) /\ pool[s].active = Cardinality(Sitting(s))
        BY <2>1, <3>4 DEF SeatsInv, Counted
      <4>2. Holders(s)' = Sitting(s)'
        BY <2>1, <3>2, <4>1, OneSitsDown DEF Holders
      <4>3. QED
        BY <3>1, <3>2, <4>1, <4>2
    <3>5. QED
      BY <3>3, <3>4 DEF Counted
  <2>4. \A d \in Conns : Seated(d)' => conn'[d].cred # NoCred
    BY <1>4, <2>1 DEF SeatStep, SitsDown, OthersStay, Stays, SeatsInv
  <2>5. QED
    BY <2>2, <2>3, <2>4 DEF SeatsInv
<1>5. ASSUME NEW s \in Slots, ClaimStep(s) PROVE SeatsInv'
  <2>1. \A c \in Conns : /\ Seated(c)' <=> Seated(c)
                         /\ Seated(c) => /\ conn'[c].slot = conn[c].slot
                                         /\ conn'[c].cred = conn[c].cred
    BY <1>5 DEF ClaimStep, Stays, OthersStay
  <2>2. \A t \in Slots : pool'[t].cred = pool[t].cred /\ pool'[t].active = pool[t].active
    BY <1>5 DEF ClaimStep, OthersSame, Same
  <2>3. \A t \in Slots : Sitting(t)' = Sitting(t) /\ Holders(t)' = Holders(t)
    BY <2>1, <2>2 DEF Sitting, Holders
  <2>4. displaced' = displaced
    BY <1>5 DEF ClaimStep
  <2>5. \A t \in Slots : Counted(t)'
    BY <2>2, <2>3, <2>4 DEF SeatsInv, Counted
  <2>6. QED
    BY <2>1, <2>5 DEF SeatsInv
<1>6. ASSUME NEW s \in Slots, NEW k \in Creds, FillStep(s, k) PROVE SeatsInv'
  <2>1. /\ ~displaced' => ~displaced /\ (pool[s].cred = NoCred \/ Holders(s) = {})
        /\ pool'[s].cred = k /\ OthersSame(s) /\ k # NoCred
    BY <1>6, CredIsNat DEF FillStep
  <2>2. ~displaced' => Sitting(s) = {}
    BY <2>1 DEF SeatsInv, Counted, Sitting, Holders
  <2>3. CASE pool'[s].active = 0 /\ \A c \in Conns : Stays(c)
    <3>1. ASSUME NEW t \in Slots \ {s} PROVE Counted(t)'
      BY <2>1, <2>3, <3>1, NobodySits, SameCounted DEF SeatsInv, OthersSame, Same
    <3>2. Counted(s)'
      BY <1>2, <2>2, <2>3, NobodySits, FS_EmptySet DEF Counted, Holders
    <3>3. \A c \in Conns : Seated(c)' => conn'[c].cred # NoCred
      BY <2>3 DEF SeatsInv, Stays
    <3>4. QED
      BY <3>1, <3>2, <3>3 DEF SeatsInv
  <2>4. ASSUME NEW c \in Conns, SitsDown(c, s, k), OthersStay(c), pool'[s].active = 1
        PROVE  SeatsInv'
    <3>1. ASSUME NEW t \in Slots \ {s} PROVE Counted(t)'
      BY <2>1, <2>4, <3>1, OneSitsDown, SameCounted DEF SeatsInv, OthersSame, Same
    <3>2. Cardinality(Sitting(s)') = Cardinality(Sitting(s)) + 1
      BY <1>2, <2>4, OneSitsDown, FS_AddElement
    <3>3. ~displaced' => Holders(s)' = Sitting(s)' /\ Cardinality(Sitting(s)') = 1
      <4>1. ASSUME Sitting(s) = {} PROVE Holders(s)' = Sitting(s)' /\ Cardinality(Sitting(s)') = 1
        BY <2>1, <2>4, <3>2, <4>1, OneSitsDown, FS_EmptySet
      <4>2. QED
        BY <2>2, <4>1
    <3>4. Counted(s)'
      BY <1>2, <2>4, <3>2, <3>3 DEF Counted
    <3>5. \A d \in Conns : Seated(d)' => conn'[d].cred # NoCred
      BY <2>1, <2>4 DEF SitsDown, OthersStay, Stays, SeatsInv
    <3>6. QED
      BY <3>1, <3>4, <3>5 DEF SeatsInv
  <2>5. QED
    BY <1>6, <2>3, <2>4 DEF FillStep
<1>7. ASSUME NEW S \in SUBSET Slots, ClearStep(S) PROVE SeatsInv'
  <2>1. /\ \A c \in Conns : Stays(c)
        /\ ~displaced' => ~displaced /\ \A s \in S : Holders(s) = {}
    BY <1>7 DEF ClearStep
  <2>2. ASSUME NEW s \in S PROVE Counted(s)'
    <3>1. pool'[s].active = 0 /\ Sitting(s)' = Sitting(s)
      BY <1>7, <2>1, NobodySits DEF ClearStep
    <3>2. ~displaced' => Sitting(s) = {}
      BY <2>1 DEF SeatsInv, Counted
    <3>3. QED
      BY <1>2, <3>1, <3>2, FS_EmptySet DEF Counted, Holders
  <2>3. ASSUME NEW s \in Slots \ S PROVE Counted(s)'
    BY <1>1, <1>7, <2>1, <2>3, NobodySits, SameCounted DEF ClearStep, SeatsInv, Same
  <2>4. \A c \in Conns : Seated(c)' => conn'[c].cred # NoCred
    BY <2>1 DEF SeatsInv, Stays
  <2>5. QED
    BY <2>2, <2>3, <2>4 DEF SeatsInv
<1>8. ASSUME NEW c \in Conns, LeaveStep(c) PROVE SeatsInv'
  <2>0. PICK s \in Slots : s = conn[c].slot
    BY <1>1
  <2>1. /\ s \in Slots /\ c \in Sitting(s)
        /\ Sitting(s)' = Sitting(s) \ {c} /\ Holders(s)' = Holders(s) \ {c}
        /\ \A t \in Slots \ {s} : Sitting(t)' = Sitting(t) /\ Holders(t)' = Holders(t)
    BY <1>8, <2>0, OneLeaves
  <2>2. /\ displaced' = displaced /\ OthersSame(s) /\ OthersStay(c) /\ ~Seated(c)'
        /\ pool'[s].active = IF pool[s].active = 0 THEN 0 ELSE pool[s].active - 1
    BY <1>8, <2>0 DEF LeaveStep
  <2>3. ASSUME NEW t \in Slots \ {s} PROVE Counted(t)'
    BY <2>1, <2>2, <2>3, SameCounted DEF SeatsInv, OthersSame
  <2>4. Cardinality(Sitting(s)') = Cardinality(Sitting(s)) - 1
    BY <1>2, <2>1, FS_RemoveElement
  <2>5. Cardinality(Sitting(s)) # 0
    BY <1>2, <2>1, FS_EmptySet
  <2>6. Counted(s)'
    <3>1. pool'[s].active <= Cardinality(Sitting(s)')
      BY <1>1, <1>2, <2>1, <2>2, <2>4, <2>5 DEF SeatsInv, Counted
    <3>2. ASSUME ~displaced'
          PROVE  Holders(s)' = Sitting(s)' /\ pool'[s].active = Cardinality(Sitting(s)')
      BY <1>1, <1>2, <2>1, <2>2, <2>4, <2>5, <3>2 DEF SeatsInv, Counted
    <3>3. QED
      BY <3>1, <3>2 DEF Counted
  <2>7. \A d \in Conns : Seated(d)' => conn'[d].cred # NoCred
    BY <2>2 DEF OthersStay, Stays, SeatsInv
  <2>8. QED
    BY <2>3, <2>6, <2>7 DEF SeatsInv
<1>9. CASE RestartStep
  <2>1. PICK recent, seed : recent \in SUBSET Slots /\ Restart(recent, seed)
    BY <1>9 DEF RestartStep
  <2>2. conn' = [c \in Conns |-> Out] /\ pool' = Seeded(Loaded(recent), seed)
    BY <2>1 DEF Restart
  <2>3. \A c \in Conns : ~Seated(c)'
    BY <2>2, OutType DEF Seated
  <2>4. \A s \in Slots : pool'[s].active = 0
    BY <2>1, RestartEmpty
  <2>5. \A s \in Slots : Sitting(s)' = {} /\ Holders(s)' = {}
    BY <2>3 DEF Sitting, Holders
  <2>6. ASSUME NEW s \in Slots PROVE Counted(s)'
    <3>1. Cardinality({}) = 0
      BY FS_EmptySet
    <3>2. /\ pool'[s].active = 0 /\ Cardinality(Sitting(s)') = 0
          /\ Holders(s)' = Sitting(s)'
      BY <2>4, <2>5, <3>1
    <3>3. QED
      BY <3>2 DEF Counted
  <2>7. QED
    BY <2>3, <2>6 DEF SeatsInv
<1>10. QED
  BY <1>3, <1>4, <1>5, <1>6, <1>7, <1>8, <1>9, EveryStepShaped DEF Shaped

LEMMA SeatsInit == Init => SeatsInv
<1> SUFFICES ASSUME Init PROVE SeatsInv
  OBVIOUS
<1>1. \A c \in Conns : ~Seated(c)
  BY OutType DEF Init, Seated
<1>2. \A s \in Slots : Sitting(s) = {} /\ Holders(s) = {}
  BY <1>1 DEF Sitting, Holders
<1>3. \A s \in Slots : pool[s].active = 0
  <2>1. PICK k : pool = [s \in Slots |-> IF s = 0 /\ k # NoCred THEN Filled(k, 0, 0) ELSE Blank]
    BY DEF Init
  <2>2. Filled(k, 0, 0).active = 0 /\ Blank.active = 0
    BY DEF Filled, Blank
  <2>3. QED
    BY <2>1, <2>2
<1>4. Cardinality({}) = 0
  BY FS_EmptySet
<1>5. ASSUME NEW s \in Slots PROVE Counted(s)
  BY <1>2, <1>3, <1>4 DEF Counted
<1>6. QED
  BY <1>1, <1>5 DEF SeatsInv

LEMMA SeatsKept == Spec => []SeatsInv
  BY TypeCorrect, SeatsInit, SeatsStep, PTL DEF Spec

\* Two sessions on one credential sit in one slot, as long as no slot was
\* overwritten or cleared under live seats.
LEMMA UsersSitTogether ==
  ASSUME TypeOK, SeatsInv, OneSlotPerCred, ~displaced, NEW k \in Creds
  PROVE  UsersOf(k) = {} \/ \E s \in Slots : UsersOf(k) \subseteq Sitting(s)
<1> SUFFICES ASSUME NEW c \in UsersOf(k)
             PROVE  \E s \in Slots : UsersOf(k) \subseteq Sitting(s)
  OBVIOUS
<1>1. ASSUME NEW d \in UsersOf(k)
      PROVE  /\ conn[d].slot \in Slots /\ d \in Sitting(conn[d].slot)
             /\ pool[conn[d].slot].cred = k
  <2>1. d \in Conns /\ Seated(d) /\ conn[d].cred = k /\ conn[d].slot \in Slots
    BY DEF UsersOf, TypeOK, Locations
  <2>2. d \in Sitting(conn[d].slot)
    BY <2>1 DEF Sitting
  <2>3. d \in Holders(conn[d].slot)
    BY <2>1, <2>2 DEF SeatsInv, Counted
  <2>4. QED
    BY <2>1, <2>2, <2>3 DEF Holders
<1>2. k # NoCred
  BY CredIsNat
<1>3. \A d \in UsersOf(k) : conn[d].slot = conn[c].slot
  BY <1>1, <1>2 DEF OneSlotPerCred
<1>4. QED
  BY <1>1, <1>3

\* Every seat a slot counts is held by a session.  Until a slot is overwritten
\* or cleared under live seats, the count is exact, every session sits on the
\* credential its slot holds, and no credential is over VK's quota (get,
\* release, tryFill, placeIntoEmptySlotLocked, invalidateEntry).
THEOREM SeatsCounted == Spec => []SeatsAccounted
<1>1. ASSUME TypeOK, SeatsInv, OneSlotPerCred
      PROVE  SeatsAccounted
  <2>1. NoSeatLeaked
    BY <1>1 DEF SeatsInv, Counted, NoSeatLeaked
  <2>2. AccountingExact
    BY <1>1 DEF SeatsInv, Counted, AccountingExact
  <2>3. ASSUME ~displaced, NEW k \in Creds
        PROVE  Cardinality(UsersOf(k)) <= ConnsPerSlot
    <3>1. CASE UsersOf(k) = {}
      <4>1. Cardinality(UsersOf(k)) = 0
        BY <3>1, FS_EmptySet
      <4>2. QED
        BY <4>1, ConstantsAssumption
    <3>2. ASSUME NEW s \in Slots, UsersOf(k) \subseteq Sitting(s)
          PROVE  Cardinality(UsersOf(k)) <= ConnsPerSlot
      <4>1. /\ IsFiniteSet(Sitting(s)) /\ Cardinality(Sitting(s)) \in Nat
            /\ UsersOf(k) \in SUBSET Sitting(s)
        BY <3>2, SittingFinite
      <4>2. IsFiniteSet(UsersOf(k)) /\ Cardinality(UsersOf(k)) <= Cardinality(Sitting(s))
        BY <4>1, FS_Subset
      <4>3. Cardinality(UsersOf(k)) \in Nat
        BY <4>2, FS_CardinalityType
      <4>4. pool[s].active = Cardinality(Sitting(s)) /\ pool[s].active \in 0 .. ConnsPerSlot
        BY <1>1, <2>3 DEF SeatsInv, Counted, TypeOK, Entries
      <4>5. QED
        BY <4>1, <4>2, <4>3, <4>4, ConstantsAssumption
    <3>3. QED
      BY <1>1, <2>3, <3>1, <3>2, UsersSitTogether
  <2>4. QED
    BY <2>1, <2>2, <2>3 DEF SeatsAccounted, QuotaKept
<1>2. QED
  BY <1>1, TypeCorrect, SeatsKept, CredsApart, PTL

\* A connection takes its seat on a credential that is valid, out of its disk
\* cooldown and not saturated, whether get() hands out a free seat, publishes
\* what the connection minted, or falls back after a failed mint.
THEOREM SeatsUsable == Spec => SeatsOnUsableCreds
<1> DEFINE Step1 == \A c \in Conns :
                      conn[c].pc # "seated" /\ conn'[c].pc = "seated"
                      => \E s \in Slots : /\ conn'[c].slot = s
                                         /\ conn'[c].cred = pool'[s].cred
                                         /\ Available(pool[s])'
<1>1. ASSUME TypeOK, [Next]_vars PROVE Step1
  <2> SUFFICES ASSUME NEW c \in Conns, conn[c].pc # "seated", conn'[c].pc = "seated"
               PROVE  \E s \in Slots : /\ conn'[c].slot = s
                                      /\ conn'[c].cred = pool'[s].cred
                                      /\ Available(pool[s])'
    OBVIOUS
  <2>1. ~Stays(c)
    BY DEF Stays
  <2>2. CASE QuietStep
    BY <2>1, <2>2 DEF QuietStep
  <2>3. ASSUME NEW d \in Conns, NEW s \in Slots, SeatStep(d, s)
        PROVE  conn'[c].slot = s /\ conn'[c].cred = pool'[s].cred /\ Available(pool[s])'
    BY <2>1, <2>3 DEF SeatStep, SitsDown, OthersStay
  <2>4. ASSUME NEW s \in Slots, ClaimStep(s) PROVE FALSE
    BY <2>1, <2>4 DEF ClaimStep, OthersStay, Seated
  <2>5. ASSUME NEW s \in Slots, NEW k \in Creds, FillStep(s, k)
        PROVE  conn'[c].slot = s /\ conn'[c].cred = pool'[s].cred /\ Available(pool[s])'
    BY <2>1, <2>5 DEF FillStep, SitsDown, OthersStay
  <2>6. ASSUME NEW S \in SUBSET Slots, ClearStep(S) PROVE FALSE
    BY <2>1, <2>6 DEF ClearStep
  <2>7. ASSUME NEW d \in Conns, LeaveStep(d) PROVE FALSE
    BY <2>1, <2>7 DEF LeaveStep, OthersStay, Seated
  <2>8. CASE RestartStep
    <3>1. conn'[c] = Out
      BY <2>8 DEF RestartStep, Restart
    <3>2. QED
      BY <3>1, OutType
  <2>9. QED
    BY <1>1, <2>2, <2>3, <2>4, <2>5, <2>6, <2>7, <2>8, EveryStepShaped DEF Shaped
<1>2. TypeOK /\ [Next]_vars => [Step1]_vars
  BY <1>1
<1> HIDE DEF Step1
<1>3. Spec => [][Step1]_vars
  BY <1>2, TypeCorrect, PTL DEF Spec
<1>4. QED
  BY <1>3 DEF SeatsOnUsableCreds, Step1

-----------------------------------------------------------------------------
(* Mints at once *)

LEMMA ClaimsHold == Spec => []ClaimsInv
  BY TypeCorrect, ClaimsInit, ClaimsStep, PTL DEF Spec

\* Rounding up: enough whole parts of q to cover n.
LEMMA CeilDivides ==
  ASSUME NEW n \in Nat \ {0}, NEW q \in Nat \ {0}
  PROVE  LET w == (n + q - 1) \div q
         IN  w \in Nat \ {0} /\ n <= w * q /\ (w - 1) * q < n
  OBVIOUS

LEMMA TargetBounds ==
  /\ ColdStartTarget \in Nat \ {0}
  /\ ColdStartTarget <= Size
  /\ ColdStartTarget < Size => NumConns <= ColdStartTarget * ConnsPerSlot
<1> DEFINE w == (NumConns + ConnsPerSlot - 1) \div ConnsPerSlot
<1>1. NumConns \in Nat \ {0} /\ ConnsPerSlot \in Nat \ {0} /\ Size \in Nat \ {0}
  BY ConstantsAssumption
<1>2. w \in Nat \ {0} /\ NumConns <= w * ConnsPerSlot
  BY <1>1, CeilDivides
<1>3. ColdStartTarget = IF w > Size THEN Size ELSE w
  BY DEF ColdStartTarget
<1> HIDE DEF w
<1>4. QED
  BY <1>1, <1>2, <1>3

\* The slots connections mint into, and those growers mint into.
HeldByConn == {s \in Slots : \E c \in Conns : HeldBy(s, c)}
HeldByGrower == {s \in Slots : \E g \in Growers : HeldBy(s, g)}

\* Growers may push the mints in flight past the target, connections may not.
MintsInv == Cardinality(HeldByConn) <= ColdStartTarget

LEMMA SlotSetsFinite ==
  \A S \in SUBSET Slots : IsFiniteSet(S) /\ Cardinality(S) \in Nat
<1>1. IsFiniteSet(Slots)
  BY ConstantsAssumption, FS_Interval DEF Slots
<1>2. ASSUME NEW S \in SUBSET Slots PROVE IsFiniteSet(S)
  BY <1>1, FS_Subset
<1>3. QED
  BY <1>2, FS_CardinalityType

\* A step that starts no mint of a connection leaves no more slots to them.
LEMMA HeldByFewer ==
  ASSUME TypeOK, ClaimsInv,
         \A c \in Conns : Minting(c)' => SameMint(c),
         \A s \in Slots : \/ pool'[s].gen = pool[s].gen
                          \/ pool'[s].gen = 0
                          \/ pool'[s].gen > nextGen
  PROVE  HeldByConn' \subseteq HeldByConn
<1> SUFFICES ASSUME NEW s \in Slots, NEW c \in Conns, HeldBy(s, c)'
             PROVE  HeldBy(s, c)
  BY DEF HeldByConn
<1>1. Minting(c) /\ TargetOf(c) = s /\ StampOf(c) = pool'[s].gen
  BY DEF HeldBy, SameMint
<1>2. StampOf(c) \in 1 .. nextGen /\ nextGen \in Nat
  BY <1>1 DEF ClaimsInv, StampsIssued, Minters, TypeOK
<1>3. pool'[s].gen = pool[s].gen
  BY <1>1, <1>2
<1>4. QED
  BY <1>1, <1>3 DEF HeldBy

\* A connection claims slot s under the cap: one more slot at most.
LEMMA HeldByOneMore ==
  ASSUME TypeOK, ClaimsInv, NEW s \in Slots, NEW c \in Conns,
         ~CapReached, conn'[c].slot = s, OthersStay(c), OthersSame(s)
  PROVE  Cardinality(HeldByConn') <= ColdStartTarget
<1>1. HeldByConn' \subseteq InFlight \cup {s}
  <2> SUFFICES ASSUME NEW t \in Slots \ {s}, NEW d \in Conns, HeldBy(t, d)'
               PROVE  pool[t].fetching
    BY DEF HeldByConn, InFlight
  <2>1. d # c
    BY DEF HeldBy, TargetOf
  <2>2. HeldBy(t, d)
    BY <2>1 DEF OthersStay, Stays, SameMint, HeldBy, OthersSame, Same
  <2>3. QED
    BY <2>2 DEF ClaimsInv, ClaimIntegrity, Minters
<1>2. /\ IsFiniteSet(InFlight) /\ Cardinality(InFlight) \in Nat
      /\ Cardinality(ReadySlots) \in Nat
  BY SlotSetsFinite DEF InFlight, ReadySlots
<1>3. Cardinality(InFlight) + 1 <= ColdStartTarget
  BY <1>2, TargetBounds DEF CapReached
<1>4. /\ IsFiniteSet(InFlight \cup {s})
      /\ Cardinality(InFlight \cup {s}) \in Nat
      /\ Cardinality(InFlight \cup {s}) <= Cardinality(InFlight) + 1
  <2>1. /\ IsFiniteSet(InFlight \cup {s})
        /\ \/ Cardinality(InFlight \cup {s}) = Cardinality(InFlight)
           \/ Cardinality(InFlight \cup {s}) = Cardinality(InFlight) + 1
    BY <1>2, FS_AddElement
  <2>2. QED
    BY <1>2, <2>1
<1>5. Cardinality(HeldByConn') <= Cardinality(InFlight \cup {s})
  BY <1>1, <1>4, FS_Subset
<1>6. Cardinality(HeldByConn') \in Nat
  <2>1. HeldByConn' \in SUBSET Slots
    BY DEF HeldByConn
  <2>2. QED
    BY <2>1, SlotSetsFinite
<1>7. QED
  BY <1>2, <1>3, <1>4, <1>5, <1>6, TargetBounds

LEMMA MintsStep == TypeOK /\ TypeOK' /\ ClaimsInv /\ MintsInv /\ [Next]_vars => MintsInv'
<1> SUFFICES ASSUME TypeOK, TypeOK', ClaimsInv, MintsInv, [Next]_vars PROVE MintsInv'
  OBVIOUS
<1>1. nextGen \in Nat /\ \A s \in Slots : pool'[s].gen \in Nat
  BY DEF TypeOK, Entries
<1>2. ASSUME \A c \in Conns : Minting(c)' => SameMint(c),
             \A s \in Slots : \/ pool'[s].gen = pool[s].gen
                              \/ pool'[s].gen = 0
                              \/ pool'[s].gen > nextGen
      PROVE  MintsInv'
  <2>1. HeldByConn \in SUBSET Slots /\ HeldByConn' \in SUBSET HeldByConn
    BY <1>2, HeldByFewer DEF HeldByConn
  <2>2. Cardinality(HeldByConn') <= Cardinality(HeldByConn)
    BY <2>1, SlotSetsFinite, FS_Subset
  <2>3. Cardinality(HeldByConn) \in Nat /\ Cardinality(HeldByConn') \in Nat
    BY <2>1, SlotSetsFinite
  <2>4. ColdStartTarget' = ColdStartTarget
    BY DEF ColdStartTarget
  <2>5. QED
    BY <2>2, <2>3, <2>4, TargetBounds DEF MintsInv
<1>3. CASE QuietStep
  BY <1>2, <1>3 DEF QuietStep, Same, Stays
<1>4. ASSUME NEW c \in Conns, NEW s \in Slots, SeatStep(c, s) PROVE MintsInv'
  BY <1>2, <1>4 DEF SeatStep, SitsDown, OthersSame, OthersStay, Same, Stays
<1>5. ASSUME NEW s \in Slots, ClaimStep(s) PROVE MintsInv'
  <2>1. CASE \A c \in Conns : Stays(c)
    BY <1>2, <1>5, <2>1 DEF ClaimStep, OthersSame, Same, Stays
  <2>2. ASSUME NEW c \in Conns, ~CapReached, conn'[c].slot = s, OthersStay(c)
        PROVE  MintsInv'
    BY <1>5, <2>2, HeldByOneMore DEF ClaimStep, MintsInv, ColdStartTarget
  <2>3. QED
    BY <1>5, <2>1, <2>2 DEF ClaimStep
<1>6. ASSUME NEW s \in Slots, NEW k \in Creds, FillStep(s, k) PROVE MintsInv'
  <2>1. \A c \in Conns : Minting(c)' => SameMint(c)
    BY <1>6 DEF FillStep, SitsDown, OthersStay, Stays
  <2>2. QED
    BY <1>2, <1>6, <2>1 DEF FillStep, OthersSame, Same
<1>7. ASSUME NEW S \in SUBSET Slots, ClearStep(S) PROVE MintsInv'
  BY <1>2, <1>7 DEF ClearStep, Same, Stays
<1>8. ASSUME NEW c \in Conns, LeaveStep(c) PROVE MintsInv'
  <2>1. conn[c].slot \in Slots
    BY DEF TypeOK, Locations
  <2>2. \A s \in Slots : pool'[s].gen = pool[s].gen
    BY <1>8, <2>1 DEF LeaveStep, OthersSame, Same
  <2>3. QED
    BY <1>2, <1>8, <2>2 DEF LeaveStep, OthersStay, Stays
<1>9. CASE RestartStep
  <2>1. conn' = [c \in Conns |-> Out]
    BY <1>9 DEF RestartStep, Restart
  <2>2. HeldByConn' = {}
    BY <2>1, OutType DEF HeldByConn, HeldBy, Minting
  <2>3. QED
    BY <2>2, FS_EmptySet, TargetBounds DEF MintsInv, ColdStartTarget
<1>10. QED
  BY <1>3, <1>4, <1>5, <1>6, <1>7, <1>8, <1>9, EveryStepShaped DEF Shaped

LEMMA MintsInit == Init => MintsInv
<1> SUFFICES ASSUME Init PROVE MintsInv
  OBVIOUS
<1>1. HeldByConn = {}
  BY OutType DEF Init, HeldByConn, HeldBy, Minting
<1>2. QED
  BY <1>1, FS_EmptySet, TargetBounds DEF MintsInv

\* However many connections ask at once, the mints in flight stay under the
\* cold-start target; each background grower, which is not under the cap of
\* get(), adds one at most (claimForFetchLocked, tryFill).
THEOREM MintsCapped == Spec => []MintsBounded
<1>1. ASSUME TypeOK, ClaimsInv, MintsInv
      PROVE  MintsBounded
  <2>1. InFlight = HeldByConn \cup HeldByGrower
    BY <1>1 DEF ClaimsInv, ClaimIntegrity, Minters, InFlight, HeldByConn, HeldByGrower
  <2> DEFINE f == [g \in Growers |-> TargetOf(g)]
             T == {f[g] : g \in Growers}
  <2>2. f \in Surjection(Growers, T)
    BY DEF Surjection
  <2>3. IsFiniteSet(T) /\ Cardinality(T) <= Cardinality(Growers)
    BY <2>2, GrowersAssumption, FS_Surjection
  <2>4. HeldByGrower \in SUBSET T
    BY DEF HeldByGrower, HeldBy
  <2> HIDE DEF f, T
  <2>5. Cardinality(HeldByGrower) <= Cardinality(T)
    BY <2>3, <2>4, FS_Subset
  <2>6. Cardinality(T) \in Nat /\ Cardinality(Growers) \in Nat
    BY <2>3, GrowersAssumption, FS_CardinalityType
  <2>7. /\ HeldByConn \in SUBSET Slots /\ HeldByGrower \in SUBSET Slots
        /\ HeldByConn \cap HeldByGrower \in SUBSET Slots /\ InFlight \in SUBSET Slots
    BY DEF HeldByConn, HeldByGrower, InFlight
  <2>8. Cardinality(InFlight) =
          Cardinality(HeldByConn) + Cardinality(HeldByGrower)
            - Cardinality(HeldByConn \cap HeldByGrower)
    BY <2>1, <2>7, SlotSetsFinite, FS_Union
  <2>9. QED
    BY <1>1, <2>3, <2>5, <2>6, <2>7, <2>8, SlotSetsFinite, TargetBounds
       DEF MintsInv, MintsBounded
<1>2. Spec => []MintsInv
  BY TypeCorrect, ClaimsHold, MintsInit, MintsStep, PTL DEF Spec
<1>3. QED
  BY <1>1, <1>2, TypeCorrect, ClaimsHold, PTL

-----------------------------------------------------------------------------
(* Nobody is parked beside an empty slot *)

LEMMA LowestExists ==
  ASSUME NEW S, S \subseteq Slots, S # {}
  PROVE  Lowest(S) # {}
<1>1. \A s \in S : s \in Nat
  BY ConstantsAssumption DEF Slots
<1> DEFINE T == {0 .. s : s \in S}
<1>2. T \subseteq FiniteSubsetsOf(Nat) /\ T # {}
  <2>1. ASSUME NEW s \in S PROVE 0 .. s \in SUBSET Nat /\ IsFiniteSet(0 .. s)
    BY <1>1, FS_Interval
  <2>2. \A s \in S : 0 .. s \in FiniteSubsetsOf(Nat)
    BY <2>1 DEF FiniteSubsetsOf
  <2>3. QED
    BY <2>2
<1>3. PICK x \in T : \A y \in T : <<y, x>> \notin StrictSubsetOrdering(Nat)
  BY <1>2, FS_StrictSubsetOrderingWellFounded, WFMin
<1>4. PICK s \in S : x = 0 .. s
  OBVIOUS
<1>5. ASSUME NEW t \in S PROVE s <= t
  <2>1. <<0 .. t, 0 .. s>> \notin StrictSubsetOrdering(Nat)
    BY <1>3, <1>4
  <2>2. ~(0 .. t \subseteq 0 .. s /\ 0 .. t # 0 .. s)
    BY <1>1, <2>1 DEF StrictSubsetOrdering
  <2>3. CASE t < s
    <3>1. 0 .. t \subseteq 0 .. s /\ s \in 0 .. s /\ s \notin 0 .. t
      BY <1>1, <2>3
    <3>2. QED
      BY <2>2, <3>1
  <2>4. QED
    BY <1>1, <2>3
<1>6. QED
  BY <1>5 DEF Lowest

\* Sets of K or more members each, pairwise disjoint, within a finite set.
LEMMA SeatsFit ==
  ASSUME NEW R, IsFiniteSet(R), NEW K \in Nat, NEW U, IsFiniteSet(U),
         NEW M, \A r \in R : /\ M[r] \subseteq U /\ IsFiniteSet(M[r])
                             /\ K <= Cardinality(M[r]),
         \A r, t \in R : r # t => M[r] \cap M[t] = {}
  PROVE  Cardinality(R) * K <= Cardinality(U)
<1> DEFINE D == R \X (1 .. K)
           G(r) == CHOOSE g \in Bijection(1 .. Cardinality(M[r]), M[r]) : TRUE
           f == [d \in D |-> G(d[1])[d[2]]]
<1>1. ASSUME NEW r \in R
      PROVE  /\ G(r) \in [1 .. Cardinality(M[r]) -> M[r]]
             /\ \A i, j \in 1 .. K : G(r)[i] \in M[r] /\ (G(r)[i] = G(r)[j] => i = j)
  <2>1. ExistsBijection(1 .. Cardinality(M[r]), M[r]) /\ Cardinality(M[r]) \in Nat
    BY FS_CardinalityType
  <2>2. G(r) \in Bijection(1 .. Cardinality(M[r]), M[r])
    BY <2>1 DEF ExistsBijection
  <2> HIDE DEF G
  <2>3. 1 .. K \subseteq 1 .. Cardinality(M[r])
    BY <2>1
  <2>4. QED
    BY <2>2, <2>3 DEF Bijection, Injection, IsInjective
<1> HIDE DEF G
<1>2. f \in Injection(D, U)
  <2>1. f \in [D -> U]
    BY <1>1
  <2>2. ASSUME NEW x \in D, NEW y \in D, f[x] = f[y] PROVE x = y
    <3>1. PICK r \in R, i \in 1 .. K : x = <<r, i>>
      OBVIOUS
    <3>2. PICK t \in R, j \in 1 .. K : y = <<t, j>>
      OBVIOUS
    <3>3. f[x] = G(r)[i] /\ f[y] = G(t)[j]
      BY <3>1, <3>2
    <3>4. r = t
      BY <1>1, <2>2, <3>3
    <3>5. i = j
      BY <1>1, <2>2, <3>3, <3>4
    <3>6. QED
      BY <3>1, <3>2, <3>4, <3>5
  <2>3. QED
    BY <2>1, <2>2 DEF Injection, IsInjective
<1>3. Cardinality(D) <= Cardinality(U)
  BY <1>2, FS_Injection
<1>4. IsFiniteSet(1 .. K) /\ Cardinality(1 .. K) = K
  BY FS_Interval
<1>5. Cardinality(D) = Cardinality(R) * K
  BY <1>4, FS_Product
<1>6. QED
  BY <1>3, <1>5

\* A connection that asks is refused by get() alone.
LEMMA WhoIsRefused ==
  ASSUME TypeOK, [Next]_vars, NEW c \in Conns,
         conn[c].pc = "ready", conn'[c].pc = "refused"
  PROVE  GetPaused(c) \/ GetRefused(c)
<1>1. ASSUME conn'[c] = conn[c] PROVE FALSE
  BY <1>1
<1>2. \A d \in Conns : \A r : conn' = [conn EXCEPT ![d] = r] /\ d # c => conn'[c] = conn[c]
  BY DEF TypeOK
<1>3. conn' # Woken
  BY WokenType
<1>4. ASSUME NEW d \in Conns, ConnStep(d) PROVE d = c
  <2>1. \E r : conn' = [conn EXCEPT ![d] = r]
    BY <1>4 DEF ConnStep, TakeChannel, Acquire, GetPaused, GetSeat, GetRefused, GetClaim,
                ConnMinted, ConnMintFailed, MarkSaturated, InvalidateEntry, Release,
                WakeOnSignal, WakeOnTimer, Publish, FallBack, TakeSeat, Sit, Refuse, TypeOK
  <2>2. QED
    BY <1>1, <1>2, <2>1
<1>5. CASE ConnStep(c)
  <2>1. CASE TakeChannel(c)
    BY <2>1 DEF TakeChannel, TypeOK, Locations
  <2>2. CASE GetSeat(c)
    BY <2>2 DEF GetSeat, TakeSeat, Sit, TypeOK, Out
  <2>3. CASE GetClaim(c)
    BY <2>3 DEF GetClaim, TypeOK, Out
  <2>4. CASE \/ ConnMinted(c) \/ ConnMintFailed(c) \/ MarkSaturated(c) \/ InvalidateEntry(c)
             \/ Release(c) \/ WakeOnSignal(c) \/ WakeOnTimer(c)
    BY <2>4 DEF ConnMinted, ConnMintFailed, MarkSaturated, InvalidateEntry, Release,
                WakeOnSignal, WakeOnTimer, Seated, Waiting
  <2>5. QED
    BY <1>5, <2>1, <2>2, <2>3, <2>4 DEF ConnStep, Acquire
<1>6. ASSUME NEW g \in Growers, GrowerStep(g) PROVE FALSE
  <2>1. g \notin Conns
    BY GrowersAssumption DEF Conns
  <2>2. UNCHANGED conn
    BY <1>6, <2>1 DEF GrowerStep, TryFill, GrowerMinted, GrowerMintFailed
  <2>3. QED
    BY <1>1, <2>2
<1>7. ASSUME NEW p \in Minters \cup {Saver}, DutyStep(p) PROVE FALSE
  BY <1>1, <1>3, <1>7 DEF DutyStep, SaveSnapshot, SaveWrite, Broadcast
<1>8. ASSUME NEW s \in Slots, SlotDeadline(s) PROVE FALSE
  BY <1>1, <1>3, <1>8 DEF SlotDeadline, SaturationEnds, CooldownEnds, PendingEnds
<1>9. CASE Environment \/ PeriodicSave \/ UNCHANGED vars
  <2>1. UNCHANGED conn \/ conn' = Woken \/ conn' = [d \in Conns |-> Out]
    BY <1>9 DEF Environment, PathChange, ExtendPause, PauseEnds, Expire, Invalidate, Restart,
                PeriodicSave, vars
  <2>2. QED
    BY <1>1, <1>3, <2>1, OutType
<1>10. QED
  BY <1>4, <1>5, <1>6, <1>7, <1>8, <1>9 DEF Next

\* While a slot is empty and a connection without a seat asks, ready slots
\* that are full do not reach the target.
LEMMA ReadyBelowTarget ==
  ASSUME TypeOK, SeatsInv, NEW c \in Conns, ~Seated(c), Seats = {}, Refillable # {}
  PROVE  Cardinality(ReadySlots) < ColdStartTarget
<1>1. /\ NumConns \in Nat \ {0} /\ ConnsPerSlot \in Nat \ {0} /\ Size \in Nat \ {0}
      /\ Cardinality(ReadySlots) \in Nat /\ ReadySlots \in SUBSET Slots
  BY ConstantsAssumption, SlotSetsFinite DEF ReadySlots
<1>2. Cardinality(ReadySlots) < Size
  <2>1. PICK s \in Slots : ~Fresh(pool[s])
    BY DEF Refillable
  <2>2. s \notin ReadySlots
    BY <2>1 DEF ReadySlots, Available
  <2>3. IsFiniteSet(Slots) /\ Cardinality(Slots) = Size
    BY <1>1, FS_Interval DEF Slots
  <2>4. QED
    BY <1>1, <2>1, <2>2, <2>3, FS_Subset
<1>3. Cardinality(ReadySlots) * ConnsPerSlot < NumConns
  <2> DEFINE U == Conns \ {c}
             M == [s \in ReadySlots |-> Sitting(s)]
  <2>1. IsFiniteSet(U) /\ Cardinality(U) = NumConns - 1
    <3>1. 0 \in Int /\ NumConns - 1 \in Int
      BY <1>1
    <3>2. /\ IsFiniteSet(0 .. NumConns - 1)
          /\ Cardinality(0 .. NumConns - 1) =
               IF 0 > NumConns - 1 THEN 0 ELSE NumConns - 1 - 0 + 1
      BY <3>1, FS_Interval
    <3>3. IsFiniteSet(Conns) /\ Cardinality(Conns) = NumConns
      BY <1>1, <3>2 DEF Conns
    <3>4. QED
      BY <3>3, FS_RemoveElement
  <2>2. ASSUME NEW s \in ReadySlots
        PROVE  /\ M[s] \subseteq U /\ IsFiniteSet(M[s])
               /\ ConnsPerSlot <= Cardinality(M[s])
    <3>1. pool[s].active = ConnsPerSlot
      <4>1. s \in Slots /\ Available(pool[s])
        BY DEF ReadySlots
      <4>2. ~(pool[s].active < ConnsPerSlot)
        BY <4>1 DEF Seats
      <4>3. pool[s].active \in 0 .. ConnsPerSlot
        BY <4>1 DEF TypeOK, Entries
      <4>4. QED
        BY <1>1, <4>2, <4>3
    <3>2. pool[s].active <= Cardinality(Sitting(s))
      BY <1>1 DEF SeatsInv, Counted
    <3>3. c \notin Sitting(s) /\ Sitting(s) \subseteq Conns
      BY DEF Sitting
    <3>4. QED
      BY <3>1, <3>2, <3>3, SittingFinite
  <2>3. \A s, t \in ReadySlots : s # t => M[s] \cap M[t] = {}
    BY DEF Sitting
  <2>4. IsFiniteSet(ReadySlots)
    BY <1>1, SlotSetsFinite
  <2> HIDE DEF U, M
  <2>5. Cardinality(ReadySlots) * ConnsPerSlot <= Cardinality(U)
    BY <1>1, <2>1, <2>2, <2>3, <2>4, SeatsFit
  <2>6. QED
    BY <1>1, <2>1, <2>5
<1>4. CASE ColdStartTarget < Size
  <2>1. NumConns <= ColdStartTarget * ConnsPerSlot /\ ColdStartTarget \in Nat
    BY <1>4, TargetBounds
  <2>2. ~(ColdStartTarget <= Cardinality(ReadySlots))
    <3> DEFINE a == ColdStartTarget
               b == Cardinality(ReadySlots)
    <3> HIDE DEF a, b
    <3>1. a \in Nat /\ b \in Nat /\ a * ConnsPerSlot > b * ConnsPerSlot
      BY <1>1, <1>3, <2>1 DEF a, b
    <3>2. ~(a <= b)
      BY <1>1, <3>1
    <3>3. QED
      BY <3>2 DEF a, b
  <2>3. QED
    BY <1>1, <2>1, <2>2
<1>5. CASE ColdStartTarget = Size
  BY <1>2, <1>5
<1>6. QED
  BY <1>1, <1>4, <1>5, TargetBounds

\* The cap parks a connection beside an empty slot only while a mint is in
\* flight whose end will wake it: full slots alone never reach the cap when
\* some connection is without a seat (get()'s cold-start cap).
THEOREM ParkedForAMint == Spec => NoParkingBesideEmptySlot
<1> DEFINE Step1 == \A c \in Conns :
                      /\ conn[c].pc = "ready" /\ conn'[c].pc = "refused"
                      /\ ~paused /\ Refillable # {}
                      => InFlight # {}
<1>1. ASSUME TypeOK, SeatsInv, [Next]_vars PROVE Step1
  <2> SUFFICES ASSUME NEW c \in Conns, conn[c].pc = "ready", conn'[c].pc = "refused",
                      ~paused, Refillable # {}, InFlight = {}
               PROVE  FALSE
    OBVIOUS
  <2>1. GetRefused(c)
    BY <1>1, WhoIsRefused DEF GetPaused
  <2>2. MintTarget(OwnSlot(c)) # {}
    BY LowestExists DEF MintTarget, Prefer, Refillable
  <2>3. Seats = {} /\ CapReached
    BY <2>1, <2>2 DEF GetRefused
  <2>4. ~Seated(c)
    BY DEF Seated
  <2>5. Cardinality(ReadySlots) < ColdStartTarget
    BY <1>1, <2>3, <2>4, ReadyBelowTarget
  <2>6. Cardinality(InFlight) = 0 /\ Cardinality(ReadySlots) \in Nat
    BY FS_EmptySet, SlotSetsFinite DEF ReadySlots
  <2>7. QED
    BY <2>3, <2>5, <2>6, TargetBounds DEF CapReached
<1>2. TypeOK /\ SeatsInv /\ [Next]_vars => [Step1]_vars
  BY <1>1
<1> HIDE DEF Step1
<1>3. Spec => [][Step1]_vars
  BY <1>2, TypeCorrect, SeatsKept, PTL DEF Spec
<1>4. QED
  BY <1>3 DEF NoParkingBesideEmptySlot, Step1
-----------------------------------------------------------------------------
(* Signals.  No signal of a free seat is lost, for a caller that reads the *)
(* wait channel before it asks, the way csqttPoolAdapter does.  Three      *)
(* things open a seat without a broadcast and are excluded by AdapterPool: *)
(* a channel read after the refusal (runConnection), the end of a cooldown *)
(* carried over from the last process (availableAt, no timer), and a       *)
(* renewal of a bucket in cookie mode that finds no slot to go to.         *)

AdapterPool ==
  /\ CaptureFirst = TRUE
  /\ "restart" \notin Events
  /\ CookieModes \subseteq {FALSE}

\* Process p will broadcast before it does anything else.
WillCast(p) == duty[p] \in {<<"cast">>, <<"write", "cast">>, <<"save", "write", "cast">>}

Parked(c) == Waiting(c) /\ conn[c].ch = "open"

Announced ==
  (\E c \in Conns : Parked(c)) /\ ~paused /\ Seats # {} => \E p \in Minters : WillCast(p)

\* FreeSeatAnnounced needs to know that the pending duty ends in a broadcast,
\* and that no credential waits for a time nobody announces.
SignalInv ==
  /\ ~cookie
  /\ \A s \in Slots : ~pool[s].pending
  /\ Announced

-----------------------------------------------------------------------------
(* Steps that open no seat and park nobody beside one *)

\* Slot s hands out no more seats than it did.
Dims(s) ==
  /\ ~pool'[s].pending
  /\ \/ pool'[s].cred = NoCred
     \/ /\ pool'[s].cred = pool[s].cred
        /\ pool[s].sat => pool'[s].sat
        /\ pool[s].active <= pool'[s].active

\* Nobody starts to wait, except where there is no seat or a pause.
ParksFairly ==
  \A c \in Conns : Parked(c)' => Parked(c) \/ paused \/ Seats = {}

KeepsCasts == \A p \in Minters : WillCast(p) => WillCast(p)'

LEMMA DimmedSeats ==
  ASSUME TypeOK, TypeOK', SignalInv, expired \subseteq expired', \A s \in Slots : Dims(s)
  PROVE  Seats' \subseteq Seats
<1> SUFFICES ASSUME NEW s \in Slots, s \in Seats' PROVE s \in Seats
  BY DEF Seats
<1>1. Available(pool[s])' /\ pool'[s].active < ConnsPerSlot
  BY DEF Seats
<1>2. /\ pool'[s].cred = pool[s].cred
      /\ pool[s].sat => pool'[s].sat
      /\ pool[s].active <= pool'[s].active
  BY <1>1 DEF Dims, Available, Fresh, Valid
<1>3. Available(pool[s])
  BY <1>1, <1>2 DEF Available, Fresh, Valid, SignalInv, Dims
<1>4. pool[s].active < ConnsPerSlot
  BY <1>1, <1>2, ConstantsAssumption DEF TypeOK, Entries
<1>5. QED
  BY <1>3, <1>4 DEF Seats

LEMMA QuietlyAnnounced ==
  ASSUME SignalInv, Seats' \subseteq Seats, paused => paused', KeepsCasts, ParksFairly
  PROVE  Announced'
  BY DEF SignalInv, Announced, KeepsCasts, ParksFairly

\* A broadcast leaves no open channel behind.
LEMMA WokenAnnounced ==
  ASSUME TypeOK, conn' = Woken
  PROVE  Announced'
<1>1. ASSUME NEW c \in Conns PROVE conn'[c].ch # "open"
  <2>1. conn[c] \in Locations
    BY DEF TypeOK
  <2>2. [conn[c] EXCEPT !.ch = "closed"].ch = "closed"
    BY <2>1 DEF Locations
  <2>3. QED
    BY <2>2 DEF Woken
<1>2. QED
  BY <1>1 DEF Announced, Parked

LEMMA NobodyParks ==
  ASSUME UNCHANGED conn
  PROVE  ParksFairly
  BY DEF ParksFairly, Parked, Waiting

\* One connection moves, to a place where it does not wait, or fairly.
LEMMA OneParks ==
  ASSUME TypeOK, NEW c \in Conns, NEW r, conn' = [conn EXCEPT ![c] = r],
         r.pc # "refused" \/ paused \/ Seats = {}
  PROVE  ParksFairly
<1>1. conn'[c] = r /\ \A d \in Conns \ {c} : conn'[d] = conn[d]
  BY DEF TypeOK
<1>2. QED
  BY <1>1 DEF ParksFairly, Parked, Waiting

LEMMA DutyKept == ASSUME UNCHANGED duty PROVE KeepsCasts
  BY DEF KeepsCasts, WillCast

\* A process that had nothing left to do takes something up.
LEMMA DutyTaken ==
  ASSUME TypeOK, NEW c \in Minters \cup {Saver}, Free(c) \/ c \notin Minters,
         NEW d, duty' = [duty EXCEPT ![c] = d]
  PROVE  KeepsCasts
<1>1. \A p \in Minters \ {c} : duty'[p] = duty[p]
  BY DEF TypeOK
<1>2. c \in Minters => ~WillCast(c)
  BY DEF Free, WillCast
<1>3. QED
  BY <1>1, <1>2 DEF KeepsCasts, WillCast

LEMMA SamePoolDims ==
  ASSUME TypeOK, SignalInv, UNCHANGED pool
  PROVE  \A s \in Slots : Dims(s)
  BY DEF Dims, SignalInv, TypeOK, Entries

\* What may be changed in a slot without opening a seat.
NoBrighter(e, f) ==
  /\ f.cred = e.cred /\ f.pending = e.pending
  /\ e.sat => f.sat
  /\ e.active <= f.active

LEMMA ActiveNat == \A e \in Entries : e.active \in Nat /\ e.active <= e.active
  BY ConstantsAssumption DEF Entries

LEMMA DimEdits ==
  ASSUME NEW e \in Entries
  PROVE  /\ NoBrighter(e, [e EXCEPT !.active = @ + 1])
         /\ NoBrighter(e, [e EXCEPT !.sat = TRUE])
         /\ NoBrighter(e, [e EXCEPT !.cooling = FALSE])
         /\ NoBrighter(e, [e EXCEPT !.fetching = FALSE, !.cooling = TRUE])
         /\ \A g : NoBrighter(e, [e EXCEPT !.fetching = TRUE, !.gen = g])
<1>1. e.active \in Nat /\ e.active <= e.active /\ e.active <= e.active + 1
  BY ActiveNat
<1>2. NoBrighter(e, [e EXCEPT !.active = @ + 1])
  BY <1>1 DEF Entries, NoBrighter
<1>3. NoBrighter(e, [e EXCEPT !.sat = TRUE])
  BY <1>1 DEF Entries, NoBrighter
<1>4. NoBrighter(e, [e EXCEPT !.cooling = FALSE])
  BY <1>1 DEF Entries, NoBrighter
<1>5. NoBrighter(e, [e EXCEPT !.fetching = FALSE, !.cooling = TRUE])
  BY <1>1 DEF Entries, NoBrighter
<1>6. ASSUME NEW g PROVE NoBrighter(e, [e EXCEPT !.fetching = TRUE, !.gen = g])
  BY <1>1 DEF Entries, NoBrighter
<1>7. QED
  BY <1>2, <1>3, <1>4, <1>5, <1>6

LEMMA OneSlotDims ==
  ASSUME TypeOK, SignalInv, NEW s \in Slots, NEW e, pool' = [pool EXCEPT ![s] = e],
         \/ e.cred = NoCred /\ ~e.pending
         \/ NoBrighter(pool[s], e)
  PROVE  \A t \in Slots : Dims(t)
<1>1. pool'[s] = e /\ \A t \in Slots \ {s} : pool'[t] = pool[t]
  BY DEF TypeOK
<1>2. \A t \in Slots : pool[t].active <= pool[t].active /\ ~pool[t].pending
  BY ActiveNat DEF TypeOK, SignalInv
<1>3. QED
  BY <1>1, <1>2 DEF Dims, NoBrighter

LEMMA ClaimDims ==
  ASSUME TypeOK, SignalInv, NEW s \in Slots, Claim(s)
  PROVE  \A t \in Slots : Dims(t)
<1> DEFINE e == [pool[s] EXCEPT !.fetching = TRUE, !.gen = nextGen + 1]
<1>1. pool' = [pool EXCEPT ![s] = e]
  BY DEF Claim, TypeOK
<1>2. pool[s] \in Entries /\ ~pool[s].pending
  BY DEF TypeOK, SignalInv
<1>3. NoBrighter(pool[s], e)
  BY <1>2, DimEdits
<1>4. QED
  BY <1>1, <1>2, <1>3, OneSlotDims

LEMMA FailedDims ==
  ASSUME TypeOK, SignalInv, NEW m \in Minters, Minting(m)
  PROVE  \A s \in Slots : /\ FailedPool(m)[s] \in Entries
                          /\ NoBrighter(pool[s], FailedPool(m)[s])
<1> SUFFICES ASSUME NEW s \in Slots
             PROVE  NoBrighter(pool[s], FailedPool(m)[s])
  BY FailedPoolType
<1>1. pool[s] \in Entries /\ TargetOf(m) \in Slots
  BY MinterType DEF TypeOK
<1> DEFINE f == [pool[TargetOf(m)] EXCEPT !.fetching = FALSE, !.cooling = TRUE]
<1>2. \/ FailedPool(m) = pool
      \/ FailedPool(m) = [pool EXCEPT ![TargetOf(m)] = f]
  BY DEF FailedPool, TypeOK
<1>3. FailedPool(m)[s] = pool[s] \/ (s = TargetOf(m) /\ FailedPool(m)[s] = f)
  BY <1>1, <1>2 DEF TypeOK
<1>4. s = TargetOf(m) => NoBrighter(pool[s], f)
  BY <1>1, DimEdits
<1>5. NoBrighter(pool[s], pool[s])
  BY <1>1, ActiveNat DEF NoBrighter
<1>6. QED
  BY <1>3, <1>4, <1>5

\* A step that ends one connection's asking, on a pool that is no brighter.
LEMMA SignalConn ==
  ASSUME TypeOK, TypeOK', SignalInv, cookie' = cookie, \A s \in Slots : Dims(s),
         expired' = expired, paused' = paused, KeepsCasts, ParksFairly
  PROVE  SignalInv'
<1>1. Announced'
  BY DimmedSeats, QuietlyAnnounced
<1>2. QED
  BY <1>1 DEF SignalInv, Dims

LEMMA SignalAcquire ==
  ASSUME AdapterPool, TypeOK, TypeOK', SignalInv, NEW c \in Conns, TakeChannel(c) \/ Acquire(c)
  PROVE  SignalInv'
<1>1. cookie' = cookie /\ expired' = expired /\ paused' = paused /\ UNCHANGED duty
  BY DEF TakeChannel, Acquire, GetPaused, GetSeat, GetRefused, GetClaim, shared, vk
<1>2. KeepsCasts
  BY <1>1, DutyKept
<1>3. CASE TakeChannel(c)
  <2> DEFINE r == [conn[c] EXCEPT !.ch = "open"]
  <2>1. r.pc = "ready" /\ conn' = [conn EXCEPT ![c] = r]
    BY <1>3 DEF TakeChannel, AdapterPool, TypeOK, Locations
  <2>2. ParksFairly
    BY <2>1, OneParks
  <2>3. QED
    BY <1>1, <1>2, <1>3, <2>2, SamePoolDims, SignalConn DEF TakeChannel, shared
<1>4. CASE GetPaused(c) \/ GetRefused(c)
  <2> DEFINE r == [Out EXCEPT !.pc = "refused", !.ch = conn[c].ch]
  <2>1. (paused \/ Seats = {}) /\ conn' = [conn EXCEPT ![c] = r]
    BY <1>4 DEF GetPaused, GetRefused, Refuse
  <2>2. ParksFairly
    BY <2>1, OneParks
  <2>3. QED
    BY <1>1, <1>2, <1>4, <2>2, SamePoolDims, SignalConn DEF GetPaused, GetRefused, shared
<1>5. CASE GetSeat(c)
  <2>1. PICK s \in PickSeat(OwnSlot(c)) : TakeSeat(c, s)
    BY <1>5 DEF GetSeat
  <2>2. s \in Slots /\ pool[s] \in Entries /\ ~pool[s].pending
    BY PickSeatInSeats DEF Seats, TypeOK, SignalInv
  <2> DEFINE e == [pool[s] EXCEPT !.active = @ + 1]
             r == [Out EXCEPT !.pc = "seated", !.slot = s, !.cred = pool[s].cred]
  <2>3. pool' = [pool EXCEPT ![s] = e]
    BY <2>1, <2>2 DEF TakeSeat, TypeOK
  <2>4. NoBrighter(pool[s], e)
    BY <2>2, DimEdits
  <2>5. \A t \in Slots : Dims(t)
    BY <2>2, <2>3, <2>4, OneSlotDims
  <2>6. r.pc = "seated" /\ conn' = [conn EXCEPT ![c] = r]
    BY <2>1 DEF TakeSeat, Sit, Out
  <2>7. ParksFairly
    BY <2>6, OneParks
  <2>8. QED
    BY <1>1, <1>2, <2>5, <2>7, SignalConn
<1>6. CASE GetClaim(c)
  <2>1. PICK s \in MintTarget(OwnSlot(c)) :
          /\ Claim(s)
          /\ conn' = [conn EXCEPT ![c] = [Out EXCEPT !.pc = "minting", !.slot = s,
                                                     !.stamp = nextGen + 1,
                                                     !.ch = conn[c].ch]]
    BY <1>6 DEF GetClaim
  <2>2. \A t \in Slots : Dims(t)
    BY <2>1, MintTargetUntouched, ClaimDims
  <2> DEFINE r == [Out EXCEPT !.pc = "minting", !.slot = s, !.stamp = nextGen + 1,
                              !.ch = conn[c].ch]
  <2>3. r.pc = "minting"
    BY DEF Out
  <2>4. ParksFairly
    BY <2>1, <2>3, OneParks
  <2>5. QED
    BY <1>1, <1>2, <2>2, <2>4, SignalConn
<1>7. QED
  BY <1>3, <1>4, <1>5, <1>6 DEF Acquire

-----------------------------------------------------------------------------
(* The other steps of connections and growers *)

\* A new credential does not renew one that has run out.
LEMMA GrantRenewsNothing ==
  ASSUME TypeOK, CredsInv, ~cookie, NEW k, NEW s, VKGrants(k, s)
  PROVE  expired' = expired
<1>1. k = minted + 1 /\ minted \in Nat /\ expired' = expired \ {k}
  BY DEF VKGrants, TypeOK
<1>2. \A x \in expired : x \in Nat /\ x <= minted
  BY CredIsNat DEF CredsInv, TypeOK
<1>3. k \notin expired
  BY <1>1, <1>2
<1>4. QED
  BY <1>1, <1>3

\* Who publishes, announces.
LEMMA SignalPublish ==
  ASSUME TypeOK, SignalInv, cookie' = cookie, NEW m \in Minters, NEW k \in Creds, NEW seat,
         Publish(m, k, seat)
  PROVE  SignalInv'
<1>1. duty'[m] = AfterPublish
  BY DEF Publish, TypeOK
<1>2. WillCast(m)'
  BY <1>1 DEF WillCast, AfterPublish
<1>3. ASSUME NEW s \in Slots, NEW g, pool' = [pool EXCEPT ![s] = Filled(k, seat, g)]
      PROVE  \A t \in Slots : ~pool'[t].pending
  <2>1. ~Filled(k, seat, g).pending
    BY DEF Filled, Blank
  <2>2. pool'[s] = Filled(k, seat, g) /\ \A t \in Slots \ {s} : pool'[t] = pool[t]
    BY <1>3 DEF TypeOK
  <2>3. QED
    BY <2>1, <2>2 DEF SignalInv
<1>4. TargetOf(m) \in Slots /\ PlaceFor(k) \subseteq Slots
  BY MinterType, PlaceForEmpty
<1>5. \A t \in Slots : ~pool'[t].pending
  BY <1>3, <1>4 DEF Publish
<1>6. QED
  BY <1>2, <1>5 DEF SignalInv, Announced

LEMMA SignalFallBack ==
  ASSUME TypeOK, TypeOK', SignalInv, NEW c \in Conns, conn[c].pc = "minting", FallBack(c),
         cookie' = cookie, expired' = expired, paused' = paused, UNCHANGED duty
  PROVE  SignalInv'
<1>1. c \in Minters /\ Minting(c)
  BY DEF Minters, Minting
<1>2. \A s \in Slots : /\ FailedPool(c)[s] \in Entries
                       /\ NoBrighter(pool[s], FailedPool(c)[s])
                       /\ ~FailedPool(c)[s].pending
  BY <1>1, FailedDims DEF NoBrighter, SignalInv
<1>3. FailedPool(c) \in [Slots -> Entries]
  BY <1>1, FailedPoolType
<1>4. KeepsCasts
  BY DutyKept
<1>5. CASE Seats = {} /\ pool' = FailedPool(c) /\ Refuse(c)
  <2>1. \A s \in Slots : Dims(s)
    BY <1>2, <1>5 DEF Dims, NoBrighter
  <2>2. ParksFairly
    BY <1>5, OneParks DEF Refuse
  <2>3. QED
    BY <1>4, <2>1, <2>2, SignalConn
<1>6. ASSUME NEW s \in PickSeat(OwnSlot(c)),
             pool' = [FailedPool(c) EXCEPT ![s].active = @ + 1],
             Sit(c, s, pool[s].cred)
      PROVE  SignalInv'
  <2>1. s \in Slots
    BY PickSeatInSeats DEF Seats
  <2> DEFINE p == FailedPool(c)
             e == [p[s] EXCEPT !.active = @ + 1]
             r == [Out EXCEPT !.pc = "seated", !.slot = s, !.cred = pool[s].cred]
  <2>2. pool'[s] = e /\ \A t \in Slots \ {s} : pool'[t] = p[t]
    BY <1>3, <1>6, <2>1
  <2>3. NoBrighter(p[s], e)
    BY <1>2, <2>1, DimEdits
  <2>4. Dims(s)
    <3>1. p[s].active \in Nat /\ pool[s].active \in Nat /\ e.active \in Nat
      <4>1. p[s] \in Entries /\ pool[s] \in Entries /\ pool'[s] \in Entries
        BY <1>2, <2>1 DEF TypeOK
      <4>2. QED
        BY <2>2, <4>1, ActiveNat
    <3>2. QED
      BY <1>2, <2>1, <2>2, <2>3, <3>1 DEF Dims, NoBrighter
  <2>5. \A t \in Slots \ {s} : Dims(t)
    BY <1>2, <2>2 DEF Dims, NoBrighter
  <2>6. r.pc = "seated" /\ conn' = [conn EXCEPT ![c] = r]
    BY <1>6 DEF Sit, Out
  <2>7. ParksFairly
    BY <2>6, OneParks
  <2>8. QED
    BY <1>4, <2>4, <2>5, <2>7, SignalConn
<1>7. QED
  BY <1>5, <1>6 DEF FallBack

LEMMA SignalConnMint ==
  ASSUME TypeOK, TypeOK', CredsInv, SignalInv, NEW c \in Conns,
         ConnMinted(c) \/ ConnMintFailed(c)
  PROVE  SignalInv'
<1>1. c \in Minters /\ conn[c].pc = "minting" /\ ~cookie
  BY DEF Minters, ConnMinted, ConnMintFailed, SignalInv
<1>2. CASE ConnMintFailed(c)
  BY <1>1, <1>2, SignalFallBack DEF ConnMintFailed, VKRefuses, vk
<1>3. ASSUME NEW k \in Creds, Publish(c, k, 1), cookie' = cookie
      PROVE  SignalInv'
  BY <1>1, <1>3, SignalPublish
<1>4. ASSUME NEW k \in Creds, VKGrants(k, conn[c].slot), FallBack(c),
             UNCHANGED <<cookie, nextGen, paused, grower, duty, cache, history>>
      PROVE  SignalInv'
  BY <1>1, <1>4, GrantRenewsNothing, SignalFallBack
<1>5. QED
  BY <1>2, <1>3, <1>4 DEF ConnMinted

LEMMA SignalGrower ==
  ASSUME TypeOK, TypeOK', CredsInv, SignalInv, NEW g \in Growers, GrowerStep(g)
  PROVE  SignalInv'
<1>1. g \in Minters /\ g \notin Conns /\ ~cookie
  BY GrowersAssumption DEF Minters, Conns, SignalInv
<1>2. ASSUME NEW s \in Slots, NEW guarded \in BOOLEAN, TryFill(g, s, guarded)
      PROVE  SignalInv'
  BY <1>2, ClaimDims, DutyKept, NobodyParks, SignalConn DEF TryFill, vk
<1>3. CASE GrowerMintFailed(g)
  <2>1. Minting(g) /\ pool' = FailedPool(g)
    BY <1>1, <1>3 DEF GrowerMintFailed, Minting
  <2>2. \A s \in Slots : Dims(s)
    BY <1>1, <2>1, FailedDims DEF Dims, NoBrighter, SignalInv
  <2>3. QED
    BY <1>3, <2>2, DutyKept, NobodyParks, SignalConn DEF GrowerMintFailed, VKRefuses, vk
<1>4. ASSUME NEW k \in Creds, Publish(g, k, 0), cookie' = cookie
      PROVE  SignalInv'
  BY <1>1, <1>4, SignalPublish
<1>5. ASSUME NEW k \in Creds, VKGrants(k, grower[g].slot),
             UNCHANGED <<shared, conn, duty, cache, history>>
      PROVE  SignalInv'
  <2>1. expired' = expired
    BY <1>1, <1>5, GrantRenewsNothing
  <2>2. QED
    BY <1>5, <2>1, SamePoolDims, DutyKept, NobodyParks, SignalConn DEF shared
<1>6. QED
  BY <1>2, <1>3, <1>4, <1>5 DEF GrowerStep, GrowerMinted

\* Giving up a seat of a full, usable slot is announced; giving up another
\* opens nothing.
LEMMA SignalRelease ==
  ASSUME TypeOK, TypeOK', SignalInv, NEW c \in Conns, Release(c)
  PROVE  SignalInv'
<1>0. PICK s \in Slots : s = conn[c].slot
  BY DEF TypeOK, Locations
<1>1. /\ pool' = [pool EXCEPT ![s] = Released(pool[s])]
      /\ duty' = [duty EXCEPT ![c] = IF OpensSlot(pool[s]) THEN <<"cast">> ELSE <<>>]
      /\ cookie' = cookie /\ expired' = expired /\ paused' = paused /\ Free(c)
      /\ conn' = [conn EXCEPT ![c] = Out]
  BY <1>0 DEF Release, TypeOK, vk
<1>2. pool[s] \in Entries /\ pool[s].active \in Nat /\ c \in Minters
  BY ActiveNat DEF TypeOK, Minters
<1>3. /\ Released(pool[s]).cred = pool[s].cred /\ Released(pool[s]).sat = pool[s].sat
      /\ Released(pool[s]).pending = pool[s].pending
  BY <1>2 DEF Released, Entries
<1>4. pool'[s] = Released(pool[s]) /\ \A t \in Slots \ {s} : pool'[t] = pool[t]
  BY <1>1 DEF TypeOK
<1>5. \A t \in Slots : ~pool'[t].pending
  BY <1>3, <1>4 DEF SignalInv
<1>6. CASE OpensSlot(pool[s])
  <2>1. duty'[c] = <<"cast">>
    BY <1>1, <1>2, <1>6 DEF TypeOK
  <2>2. WillCast(c)'
    BY <2>1 DEF WillCast
  <2>3. QED
    BY <1>1, <1>2, <1>5, <2>2 DEF SignalInv, Announced
<1>7. CASE ~OpensSlot(pool[s])
  <2>1. ASSUME s \in Seats' PROVE s \in Seats
    <3>1. Available(pool[s])
      BY <1>1, <1>3, <1>4, <2>1 DEF Seats, Available, Fresh, Valid
    <3>2. pool[s].active # ConnsPerSlot /\ pool[s].active \in 0 .. ConnsPerSlot
      BY <1>2, <1>7, <3>1 DEF OpensSlot, Entries
    <3>3. QED
      BY <3>1, <3>2, ConstantsAssumption DEF Seats
  <2>2. \A t \in Slots \ {s} : t \in Seats' => t \in Seats
    BY <1>1, <1>4 DEF Seats, Available, Fresh, Valid
  <2>3. Seats' \subseteq Seats
    BY <2>1, <2>2 DEF Seats
  <2>4. KeepsCasts
    BY <1>1, <1>2, DutyTaken
  <2>5. ParksFairly
    BY <1>1, OutType, OneParks
  <2>6. Announced'
    BY <1>1, <2>3, <2>4, <2>5, QuietlyAnnounced
  <2>7. QED
    BY <1>1, <1>5, <2>6 DEF SignalInv
<1>8. QED
  BY <1>6, <1>7

LEMMA SignalSessionEnd ==
  ASSUME TypeOK, TypeOK', SignalInv, NEW c \in Conns,
         MarkSaturated(c) \/ InvalidateEntry(c) \/ Release(c)
  PROVE  SignalInv'
<1>0. PICK s \in Slots : s = conn[c].slot
  BY DEF TypeOK, Locations
<1>1. pool[s] \in Entries /\ conn[c] \in Locations /\ c \in Minters /\ ~pool[s].pending
  BY DEF TypeOK, Minters, SignalInv
<1>2. ASSUME conn' = [conn EXCEPT ![c].pc = "closing"] PROVE ParksFairly
  <2> DEFINE r == [conn[c] EXCEPT !.pc = "closing"]
  <2>1. r.pc = "closing" /\ conn' = [conn EXCEPT ![c] = r]
    BY <1>1, <1>2 DEF Locations, TypeOK
  <2>2. QED
    BY <2>1, OneParks
<1>3. CASE MarkSaturated(c)
  <2>1. pool' = [pool EXCEPT ![s] = [pool[s] EXCEPT !.sat = TRUE]]
    BY <1>0, <1>3 DEF MarkSaturated, TypeOK
  <2>2. NoBrighter(pool[s], [pool[s] EXCEPT !.sat = TRUE])
    BY <1>1, DimEdits
  <2>3. \A t \in Slots : Dims(t)
    BY <2>1, <2>2, OneSlotDims
  <2>4. QED
    BY <1>2, <1>3, <2>3, DutyKept, SignalConn DEF MarkSaturated, vk
<1>4. CASE InvalidateEntry(c)
  <2>1. pool' = [pool EXCEPT ![s] = Blank]
    BY <1>0, <1>4 DEF InvalidateEntry
  <2>2. Blank.cred = NoCred /\ ~Blank.pending
    BY DEF Blank
  <2>3. \A t \in Slots : Dims(t)
    BY <2>1, <2>2, OneSlotDims
  <2>4. KeepsCasts
    BY <1>1, <1>4, DutyTaken DEF InvalidateEntry
  <2>5. QED
    BY <1>2, <1>4, <2>3, <2>4, SignalConn DEF InvalidateEntry, vk
<1>5. QED
  BY <1>3, <1>4, SignalRelease

-----------------------------------------------------------------------------
(* Duties, deadlines and the environment *)

LEMMA SignalDuty ==
  ASSUME TypeOK, TypeOK', SignalInv,
         \/ \E p \in Minters \cup {Saver} : DutyStep(p)
         \/ \E c \in Conns : WakeOnSignal(c) \/ WakeOnTimer(c)
         \/ PeriodicSave
         \/ UNCHANGED vars
  PROVE  SignalInv'
<1>1. CASE PeriodicSave \/ UNCHANGED vars
  <2>1. Saver \notin Minters
    BY GrowersAssumption DEF Minters, Conns
  <2>2. KeepsCasts
    BY <1>1, <2>1, DutyKept, DutyTaken DEF PeriodicSave, vars
  <2>3. QED
    BY <1>1, <2>2, SamePoolDims, NobodyParks, SignalConn DEF PeriodicSave, vars, shared, vk
<1>2. ASSUME NEW c \in Conns, WakeOnSignal(c) \/ WakeOnTimer(c) PROVE SignalInv'
  BY <1>2, SamePoolDims, DutyKept, OutType, OneParks, SignalConn
     DEF WakeOnSignal, WakeOnTimer, shared, vk
<1>3. ASSUME NEW p \in Minters \cup {Saver}, DutyStep(p) PROVE SignalInv'
  <2>1. CASE Broadcast(p)
    <3>1. Announced'
      BY <2>1, WokenAnnounced DEF Broadcast
    <3>2. QED
      BY <2>1, <3>1 DEF Broadcast, SignalInv, shared
  <2>2. CASE SaveSnapshot(p) \/ SaveWrite(p)
    <3>1. /\ duty' = [duty EXCEPT ![p] = Tail(duty[p])]
          /\ Head(duty[p]) \in {"save", "write"} /\ duty[p] # <<>>
      BY <2>2 DEF SaveSnapshot, SaveWrite, Step, TypeOK
    <3>2. \A q \in Minters \ {p} : duty'[q] = duty[q]
      BY <3>1 DEF TypeOK
    <3>3. ASSUME p \in Minters, WillCast(p) PROVE WillCast(p)'
      <4>1. duty'[p] = Tail(duty[p])
        BY <3>1, <3>3 DEF TypeOK
      <4>2. /\ Tail(<<"write", "cast">>) = <<"cast">>
             /\ Tail(<<"save", "write", "cast">>) = <<"write", "cast">>
        OBVIOUS
      <4>3. duty[p] # <<"cast">>
        BY <3>1
      <4>4. duty'[p] = <<"cast">> \/ duty'[p] = <<"write", "cast">>
        BY <3>3, <4>1, <4>2, <4>3 DEF WillCast
      <4>5. QED
        BY <4>4 DEF WillCast
    <3>4. KeepsCasts
      BY <3>2, <3>3 DEF KeepsCasts, WillCast
    <3>5. QED
      BY <2>2, <3>4, SamePoolDims, NobodyParks, SignalConn DEF SaveSnapshot, SaveWrite, shared, vk
  <2>3. QED
    BY <1>3, <2>1, <2>2 DEF DutyStep
<1>4. QED
  BY <1>1, <1>2, <1>3

LEMMA SignalDeadline ==
  ASSUME TypeOK, TypeOK', SignalInv, NEW s \in Slots, SlotDeadline(s)
  PROVE  SignalInv'
<1>1. pool[s] \in Entries /\ ~pool[s].pending
  BY DEF TypeOK, SignalInv
<1>2. CASE SaturationEnds(s)
  <2>1. Announced'
    BY <1>2, WokenAnnounced DEF SaturationEnds
  <2>2. \A t \in Slots : ~pool'[t].pending
    <3> DEFINE e == [pool[s] EXCEPT !.sat = FALSE]
    <3>1. ~e.pending
      BY <1>1 DEF Entries
    <3>2. pool' = [pool EXCEPT ![s] = e]
      BY <1>2 DEF SaturationEnds, TypeOK
    <3>3. pool'[s] = e /\ \A t \in Slots \ {s} : pool'[t] = pool[t]
      BY <3>2 DEF TypeOK
    <3>4. QED
      BY <3>1, <3>3 DEF SignalInv
  <2>3. QED
    BY <1>2, <2>1, <2>2 DEF SaturationEnds, SignalInv
<1>3. CASE CooldownEnds(s)
  <2>1. pool' = [pool EXCEPT ![s] = [pool[s] EXCEPT !.cooling = FALSE]]
    BY <1>3 DEF CooldownEnds, TypeOK
  <2>2. \A t \in Slots : Dims(t)
    BY <1>1, <2>1, DimEdits, OneSlotDims
  <2>3. QED
    BY <1>3, <2>2, DutyKept, NobodyParks, SignalConn DEF CooldownEnds, vk
<1>4. CASE PendingEnds(s)
  BY <1>1, <1>4 DEF PendingEnds
<1>5. QED
  BY <1>2, <1>3, <1>4 DEF SlotDeadline

LEMMA SignalEnvironment ==
  ASSUME AdapterPool, TypeOK, TypeOK', SignalInv, Environment
  PROVE  SignalInv'
<1>1. ASSUME NEW recent \in SUBSET Slots, PathChange(recent) PROVE SignalInv'
  <2>1. ASSUME NEW s \in Slots PROVE ~pool'[s].pending
    <3>1. pool[s] \in Entries /\ ~pool[s].pending
      BY DEF TypeOK, SignalInv
    <3>2. ~[pool[s] EXCEPT !.sat = TRUE].pending
      BY <3>1 DEF Entries
    <3>3. QED
      BY <1>1, <3>1, <3>2 DEF PathChange
  <2>2. QED
    BY <1>1, <2>1 DEF PathChange, SignalInv, Announced
<1>2. CASE ExtendPause
  BY <1>2 DEF ExtendPause, SignalInv, Announced
<1>3. CASE PauseEnds
  BY <1>3, WokenAnnounced DEF PauseEnds, SignalInv
<1>4. ASSUME NEW k \in Creds, Expire(k) PROVE SignalInv'
  <2>1. \A s \in Slots : Dims(s)
    BY <1>4, SamePoolDims DEF Expire, shared
  <2>2. Seats' \subseteq Seats
    BY <1>4, <2>1, DimmedSeats DEF Expire
  <2>3. Announced'
    BY <1>4, <2>2, DutyKept, NobodyParks, QuietlyAnnounced DEF Expire, shared
  <2>4. QED
    BY <1>4, <2>1, <2>3 DEF Expire, shared, SignalInv, Dims
<1>5. CASE Invalidate
  <2>1. \A s \in Slots : pool'[s] = Blank
    BY <1>5 DEF Invalidate
  <2>2. Blank.cred = NoCred /\ ~Blank.pending
    BY DEF Blank
  <2>3. \A s \in Slots : Dims(s)
    BY <2>1, <2>2 DEF Dims
  <2>4. QED
    BY <1>5, <2>3, DutyKept, NobodyParks, SignalConn DEF Invalidate, vk
<1>6. ASSUME NEW recent, NEW seed, Restart(recent, seed) PROVE FALSE
  BY <1>6 DEF Restart, AdapterPool
<1>7. QED
  BY <1>1, <1>2, <1>3, <1>4, <1>5, <1>6 DEF Environment

LEMMA SignalStep ==
  ASSUME AdapterPool
  PROVE  TypeOK /\ TypeOK' /\ CredsInv /\ SignalInv /\ [Next]_vars => SignalInv'
<1> SUFFICES ASSUME TypeOK, TypeOK', CredsInv, SignalInv, [Next]_vars PROVE SignalInv'
  OBVIOUS
<1>1. ASSUME NEW c \in Conns, ConnStep(c) PROVE SignalInv'
  BY <1>1, SignalAcquire, SignalConnMint, SignalSessionEnd, SignalDuty DEF ConnStep
<1>2. QED
  BY <1>1, SignalGrower, SignalDuty, SignalDeadline, SignalEnvironment DEF Next

LEMMA SignalInit ==
  ASSUME AdapterPool
  PROVE  Init => SignalInv
<1> SUFFICES ASSUME Init PROVE SignalInv
  OBVIOUS
<1>1. \A c \in Conns : ~Parked(c)
  BY OutType DEF Init, Parked, Waiting
<1>2. PICK k : pool = [s \in Slots |-> IF s = 0 /\ k # NoCred THEN Filled(k, 0, 0) ELSE Blank]
  BY DEF Init
<1>3. ~Filled(k, 0, 0).pending /\ ~Blank.pending
  BY DEF Filled, Blank
<1>4. \A s \in Slots : ~pool[s].pending
  BY <1>2, <1>3
<1>5. ~cookie
  BY DEF Init, AdapterPool
<1>6. QED
  BY <1>1, <1>4, <1>5 DEF SignalInv, Announced

\* The signal of a seat is never lost: while a caller that read the channel
\* before it asked is parked on it and a seat is free for it, the process that
\* opened the seat still has the broadcast to do (notifySlotAvailable after
\* every publish and every release of a full slot's seat, csqttPoolAdapter).
THEOREM SignalNotLost ==
  ASSUME AdapterPool
  PROVE  Spec => []FreeSeatAnnounced
<1>1. Init => SignalInv
  BY SignalInit
<1>2. TypeOK /\ TypeOK' /\ CredsInv /\ SignalInv /\ [Next]_vars => SignalInv'
  BY SignalStep
<1>3. SignalInv => FreeSeatAnnounced
  BY DEF SignalInv, Announced, Parked, WillCast, FreeSeatAnnounced
<1>4. QED
  BY <1>1, <1>2, <1>3, TypeCorrect, CredsKept, PTL DEF Spec
=============================================================================
