--------------------------- MODULE CredPoolProofs ---------------------------
(***************************************************************************)
(* Theorems about CredPool for any number of connections, slots, growers   *)
(* and mints: types, and the ownership of claims.                          *)
(***************************************************************************)
EXTENDS CredPool, TLAPS

-----------------------------------------------------------------------------
(* Operators *)

\* Choosing among slots never leaves the set of candidates.
LEMMA LowestSubset == ASSUME NEW S PROVE Lowest(S) \subseteq S
  BY DEF Lowest

\* The slot a connection is seated on is usable and has a seat left.
LEMMA PickSeatInSeats == ASSUME NEW own PROVE PickSeat(own) \subseteq Seats
  BY LowestSubset DEF PickSeat, Prefer

\* A mint is claimed only in a slot nobody is minting into.
LEMMA MintTargetUntouched ==
  ASSUME NEW own
  PROVE  MintTarget(own) \subseteq {s \in Slots : ~pool[s].fetching}
<1>1. Refillable \subseteq {s \in Slots : ~pool[s].fetching}
  BY DEF Refillable, Untouched
<1>2. Reclaimable \subseteq {s \in Slots : ~pool[s].fetching}
  BY DEF Reclaimable, Untouched
<1>3. QED
  BY <1>1, <1>2, LowestSubset DEF MintTarget, Prefer

\* A displaced mint goes to an empty slot nobody is minting into.
LEMMA PlaceForEmpty ==
  ASSUME NEW k
  PROVE  PlaceFor(k) \subseteq
           {s \in Slots : pool[s].cred = NoCred /\ ~pool[s].fetching}
  BY LowestSubset DEF PlaceFor

\* Slot 0 exists, and a preferred slot is a slot.
LEMMA ZeroSlot == 0 \in Slots
  BY ConstantsAssumption DEF Slots

\* A published entry is an entry.
LEMMA FilledType ==
  ASSUME NEW k \in {NoCred} \cup Creds, NEW a \in 0 .. ConnsPerSlot, NEW g \in Nat
  PROVE  /\ Filled(k, a, g) \in Entries
         /\ Filled(k, a, g).cred = k
         /\ Filled(k, a, g).gen = g
         /\ Filled(k, a, g).fetching = FALSE
  BY DEF Filled, Blank, Entries, NoCred

\* Whatever is published, the stamp is the one given and the claim is over.
LEMMA FilledFields ==
  \A k, a, g : Filled(k, a, g).gen = g /\ Filled(k, a, g).fetching = FALSE
  BY DEF Filled, Blank

LEMMA BlankType == Blank \in Entries /\ Blank.gen = 0 /\ Blank.fetching = FALSE
  BY ConstantsAssumption DEF Blank, Entries, NoCred

LEMMA OutType == Out \in Locations /\ Out.pc = "ready"
  BY ZeroSlot DEF Out, Locations, NoCred

\* The entries of a failed mint's pool differ from the pool's in two flags.
LEMMA FailedPoolType ==
  ASSUME TypeOK, NEW m \in Minters, Minting(m)
  PROVE  /\ FailedPool(m) \in [Slots -> Entries]
         /\ \A s \in Slots : /\ FailedPool(m)[s].cred = pool[s].cred
                             /\ FailedPool(m)[s].gen = pool[s].gen
                             /\ FailedPool(m)[s].active = pool[s].active
                             /\ FailedPool(m)[s].fetching =
                                  (pool[s].fetching /\ ~(TargetOf(m) = s /\ Owns(m)))
<1>1. TargetOf(m) \in Slots
  BY DEF TypeOK, Locations, TargetOf, Minters
<1>2. pool \in [Slots -> Entries]
  BY DEF TypeOK
<1>3. CASE Owns(m)
  <2>1. FailedPool(m) = [pool EXCEPT ![TargetOf(m)].fetching = FALSE,
                                     ![TargetOf(m)].cooling = TRUE]
    BY <1>3 DEF FailedPool
  <2>2. FailedPool(m) = [s \in Slots |->
           IF s = TargetOf(m)
           THEN [pool[s] EXCEPT !.fetching = FALSE, !.cooling = TRUE]
           ELSE pool[s]]
    BY <1>1, <1>2, <2>1
  <2>3. ASSUME NEW e \in Entries
        PROVE  LET f == [e EXCEPT !.fetching = FALSE, !.cooling = TRUE]
               IN  /\ f \in Entries
                   /\ f.cred = e.cred /\ f.gen = e.gen /\ f.active = e.active
                   /\ f.fetching = FALSE
    BY DEF Entries
  <2>4. \A s \in Slots : pool[s] \in Entries /\ pool[s].fetching \in BOOLEAN
    BY <1>2 DEF Entries
  <2>5. \A s \in Slots :
          FailedPool(m)[s] = IF s = TargetOf(m)
                             THEN [pool[s] EXCEPT !.fetching = FALSE, !.cooling = TRUE]
                             ELSE pool[s]
    BY <2>2
  <2>6. FailedPool(m) \in [Slots -> Entries]
    BY <2>2, <2>3, <2>4
  <2>7. ASSUME NEW s \in Slots
        PROVE  /\ FailedPool(m)[s].cred = pool[s].cred
               /\ FailedPool(m)[s].gen = pool[s].gen
               /\ FailedPool(m)[s].active = pool[s].active
               /\ FailedPool(m)[s].fetching =
                    (pool[s].fetching /\ ~(TargetOf(m) = s /\ Owns(m)))
    <3>1. CASE s = TargetOf(m)
      BY <1>3, <2>4, <2>5, <3>1 DEF Entries
    <3>2. CASE s # TargetOf(m)
      BY <2>4, <2>5, <3>2
    <3>3. QED
      BY <3>1, <3>2
  <2>8. QED
    BY <2>6, <2>7
<1>4. CASE ~Owns(m)
  BY <1>2, <1>4 DEF FailedPool, Entries
<1>5. QED
  BY <1>3, <1>4

-----------------------------------------------------------------------------
(* Types *)

\* A seeded entry is an entry, with no claim and no seat.
LEMMA SeedEntryType ==
  ASSUME NEW k \in {NoCred} \cup Creds
  PROVE  /\ Filled(k, 0, 0) \in Entries
         /\ Filled(k, 0, 0).gen = 0
         /\ Filled(k, 0, 0).fetching = FALSE
<1>1. 0 \in 0 .. ConnsPerSlot /\ 0 \in Nat
  BY ConstantsAssumption
<1>2. \A a \in 0 .. ConnsPerSlot, g \in Nat :
        /\ Filled(k, a, g) \in Entries
        /\ Filled(k, a, g).gen = g
        /\ Filled(k, a, g).fetching = FALSE
  BY FilledType
<1>3. QED
  BY <1>1, <1>2

\* The pool of a first start has its type.
LEMMA FirstPoolType ==
  ASSUME NEW k \in {NoCred} \cup Creds
  PROVE  [s \in Slots |-> IF s = 0 /\ k # NoCred THEN Filled(k, 0, 0) ELSE Blank]
           \in [Slots -> Entries]
  BY SeedEntryType, BlankType

\* Init starts in typed states: an empty pool or a seeded slot 0.
LEMMA TypeInit == Init => TypeOK
<1> SUFFICES ASSUME Init PROVE TypeOK
  OBVIOUS
<1>1. PICK k \in {NoCred} \cup (IF MaxMints > 0 /\ ~cookie THEN {1} ELSE {}) :
        /\ pool = [s \in Slots |-> IF s = 0 /\ k # NoCred THEN Filled(k, 0, 0) ELSE Blank]
        /\ minted = k
  BY DEF Init
<1>2. k \in {NoCred} \cup Creds /\ k \in Nat
  BY ConstantsAssumption DEF Creds, NoCred
<1>3. pool \in [Slots -> Entries]
  BY <1>1, <1>2, FirstPoolType
<1>4. NoSnapshot \in CacheFiles
  BY DEF NoSnapshot, CacheFiles
<1>5. Snapshot(pool) \in CacheFiles
  BY <1>3 DEF Snapshot, CacheFiles, Entries
<1>6. conn \in [Conns -> Locations]
  BY OutType DEF Init
<1>7. grower \in [Growers -> [minting : BOOLEAN, slot : Slots, stamp : Nat]]
  BY ZeroSlot DEF Init, GrowerIdle
<1>8. cookie \in BOOLEAN /\ duty \in [Minters \cup {Saver} -> Duties]
  BY ConstantsAssumption DEF Init, Duties
<1>9. QED
  BY <1>1, <1>2, <1>3, <1>4, <1>5, <1>6, <1>7, <1>8 DEF Init, TypeOK

\* What an entry may become.
LEMMA EntryUpdates ==
  ASSUME NEW e \in Entries
  PROVE  /\ [e EXCEPT !.sat = TRUE] \in Entries
         /\ [e EXCEPT !.sat = FALSE] \in Entries
         /\ [e EXCEPT !.cooling = FALSE] \in Entries
         /\ [e EXCEPT !.pending = FALSE] \in Entries
         /\ Released(e) \in Entries
         /\ e.active < ConnsPerSlot => [e EXCEPT !.active = @ + 1] \in Entries
         /\ \A g \in Nat : [e EXCEPT !.fetching = TRUE, !.gen = g] \in Entries
<1>1. /\ [e EXCEPT !.sat = TRUE] \in Entries
      /\ [e EXCEPT !.sat = FALSE] \in Entries
      /\ [e EXCEPT !.cooling = FALSE] \in Entries
      /\ [e EXCEPT !.pending = FALSE] \in Entries
  BY DEF Entries
<1>2. e.active < ConnsPerSlot => [e EXCEPT !.active = @ + 1] \in Entries
  BY ConstantsAssumption DEF Entries
<1>3. \A g \in Nat : [e EXCEPT !.fetching = TRUE, !.gen = g] \in Entries
  BY DEF Entries
<1>4. Released(e) \in Entries
  <2>1. e.active \in 0 .. ConnsPerSlot /\ e.used \in BOOLEAN
    BY DEF Entries
  <2>2. CASE e.active # 0
    <3>1. e.active - 1 \in 0 .. ConnsPerSlot /\ (e.used \/ e.active = 1) \in BOOLEAN
      BY <2>1, <2>2, ConstantsAssumption
    <3>2. QED
      BY <2>2, <3>1 DEF Entries, Released
  <2>3. QED
    BY <2>2 DEF Released
<1>5. QED
  BY <1>1, <1>2, <1>3, <1>4

\* Seating a connection keeps the types of pool and conn.
LEMMA SeatType ==
  ASSUME TypeOK, NEW c \in Conns, NEW s \in Seats,
         NEW p \in [Slots -> Entries], p[s].active = pool[s].active,
         pool' = [p EXCEPT ![s].active = @ + 1], Sit(c, s, pool[s].cred)
  PROVE  /\ pool' \in [Slots -> Entries]
         /\ conn' \in [Conns -> Locations]
<1>1. s \in Slots /\ pool[s] \in Entries /\ p[s] \in Entries /\ p[s].active < ConnsPerSlot
  BY DEF Seats, TypeOK
<1>2. [p[s] EXCEPT !.active = @ + 1] \in Entries
  BY <1>1, EntryUpdates
<1>3. pool' \in [Slots -> Entries]
  BY <1>1, <1>2
<1>4. [Out EXCEPT !.pc = "seated", !.slot = s, !.cred = pool[s].cred] \in Locations
  BY <1>1 DEF Out, Locations, Entries
<1>5. conn' \in [Conns -> Locations]
  BY <1>4 DEF Sit, TypeOK
<1>6. QED
  BY <1>3, <1>5

\* A refused caller keeps the types.
LEMMA RefuseType ==
  ASSUME TypeOK, NEW c \in Conns, Refuse(c)
  PROVE  conn' \in [Conns -> Locations]
<1>1. [Out EXCEPT !.pc = "refused", !.ch = conn[c].ch] \in Locations
  BY ZeroSlot DEF Out, Locations, TypeOK, NoCred
<1>2. QED
  BY <1>1 DEF Refuse, TypeOK

\* A claim keeps the types of the pool.
LEMMA ClaimType ==
  ASSUME TypeOK, NEW s \in Slots, Claim(s)
  PROVE  pool' \in [Slots -> Entries] /\ nextGen' \in Nat
<1>1. pool[s] \in Entries /\ nextGen + 1 \in Nat
  BY DEF TypeOK
<1>2. [pool[s] EXCEPT !.fetching = TRUE, !.gen = nextGen + 1] \in Entries
  BY <1>1, EntryUpdates
<1>3. pool' = [pool EXCEPT ![s] = [pool[s] EXCEPT !.fetching = TRUE, !.gen = nextGen + 1]]
  BY DEF Claim, TypeOK
<1>4. QED
  BY <1>1, <1>2, <1>3 DEF Claim, TypeOK

\* The steps of get() keep the types.
LEMMA TypeAcquire ==
  ASSUME TypeOK, NEW c \in Conns, TakeChannel(c) \/ Acquire(c)
  PROVE  TypeOK'
<1>1. CASE TakeChannel(c)
  <2>1. [conn[c] EXCEPT !.ch = "open"] \in Locations
    BY DEF TypeOK, Locations
  <2>2. conn' \in [Conns -> Locations]
    BY <1>1, <2>1 DEF TypeOK, TakeChannel
  <2>3. QED
    BY <1>1, <2>2 DEF TypeOK, TakeChannel, shared, cache, vk, history
<1>2. CASE GetPaused(c)
  <2>1. conn' \in [Conns -> Locations]
    BY <1>2, RefuseType DEF GetPaused
  <2>2. QED
    BY <1>2, <2>1 DEF TypeOK, GetPaused, shared, cache, vk, history
<1>3. CASE GetSeat(c)
  <2>1. PICK s \in PickSeat(OwnSlot(c)) : TakeSeat(c, s)
    BY <1>3 DEF GetSeat
  <2>2. s \in Seats
    BY PickSeatInSeats
  <2>3. pool' \in [Slots -> Entries] /\ conn' \in [Conns -> Locations]
    <3>1. pool \in [Slots -> Entries]
      BY DEF TypeOK
    <3>2. pool' = [pool EXCEPT ![s].active = @ + 1] /\ Sit(c, s, pool[s].cred)
      BY <2>1 DEF TakeSeat
    <3>3. QED
      BY <2>2, <3>1, <3>2, SeatType
  <2>4. QED
    BY <1>3, <2>3 DEF TypeOK, GetSeat, cache, vk, history
<1>4. CASE GetRefused(c)
  <2>1. conn' \in [Conns -> Locations]
    BY <1>4, RefuseType DEF GetRefused
  <2>2. QED
    BY <1>4, <2>1 DEF TypeOK, GetRefused, shared, cache, vk, history
<1>5. CASE GetClaim(c)
  <2>1. PICK s \in MintTarget(OwnSlot(c)) :
          /\ Claim(s)
          /\ conn' = [conn EXCEPT ![c] = [Out EXCEPT !.pc = "minting", !.slot = s,
                                                     !.stamp = nextGen + 1,
                                                     !.ch = conn[c].ch]]
    BY <1>5 DEF GetClaim
  <2>2. s \in Slots
    BY MintTargetUntouched
  <2>3. pool' \in [Slots -> Entries] /\ nextGen' \in Nat
    BY <2>1, <2>2, ClaimType
  <2>4. [Out EXCEPT !.pc = "minting", !.slot = s, !.stamp = nextGen + 1,
                    !.ch = conn[c].ch] \in Locations
    <3>1. nextGen + 1 \in Nat /\ conn[c].ch \in {"none", "open", "closed"}
      BY DEF TypeOK, Locations
    <3>2. QED
      BY <2>2, <3>1, OutType DEF Locations
  <2>5. conn' \in [Conns -> Locations]
    BY <2>1, <2>4 DEF TypeOK
  <2>6. QED
    BY <1>5, <2>3, <2>5 DEF TypeOK, GetClaim, cache, vk, history
<1>6. QED
  BY <1>1, <1>2, <1>3, <1>4, <1>5 DEF Acquire

\* What a mint returns is a credential; VK's own state keeps its types.
LEMMA GrantType ==
  ASSUME TypeOK, NEW k \in Creds, NEW s \in Slots, VKGrants(k, s)
  PROVE  minted' \in Nat /\ expired' \subseteq Creds
  BY DEF VKGrants, TypeOK

\* A mint in flight has a slot and a stamp.
LEMMA MinterType ==
  ASSUME TypeOK, NEW m \in Minters
  PROVE  TargetOf(m) \in Slots /\ StampOf(m) \in Nat
  BY DEF TypeOK, Locations, TargetOf, StampOf, Minters

\* Publishing keeps the types of everything it writes.
LEMMA PublishType ==
  ASSUME TypeOK, NEW m \in Minters, NEW k \in Creds, NEW seat \in {0, 1},
         Publish(m, k, seat)
  PROVE  /\ pool' \in [Slots -> Entries]
         /\ nextGen' \in Nat
         /\ m \in Conns => conn' \in [Conns -> Locations]
         /\ duty' \in [Minters \cup {Saver} -> Duties]
         /\ displaced' \in BOOLEAN
<1>1. seat \in 0 .. ConnsPerSlot
  BY ConstantsAssumption
<1>2. duty' \in [Minters \cup {Saver} -> Duties]
  <2>1. AfterPublish \in Duties
    BY DEF AfterPublish, Duties
  <2>2. QED
    BY <2>1 DEF Publish, TypeOK
<1>3. ASSUME NEW s \in Slots, Sit(m, s, k), m \in Conns
      PROVE  conn' \in [Conns -> Locations]
  <2>1. [Out EXCEPT !.pc = "seated", !.slot = s, !.cred = k] \in Locations
    BY OutType DEF Locations
  <2>2. QED
    BY <1>3, <2>1 DEF Sit, TypeOK
<1>4. CASE Owns(m) /\ pool' = [pool EXCEPT ![TargetOf(m)] = Filled(k, seat, StampOf(m))]
           /\ displaced' = (displaced \/ Holders(TargetOf(m)) # {})
           /\ (m \in Conns => Sit(m, TargetOf(m), k)) /\ UNCHANGED nextGen
  <2>1. Filled(k, seat, StampOf(m)) \in Entries
    BY <1>1, MinterType, FilledType
  <2>2. pool' \in [Slots -> Entries]
    BY <1>4, <2>1 DEF TypeOK
  <2>3. displaced' \in BOOLEAN
    BY <1>4 DEF TypeOK
  <2>4. QED
    BY <1>2, <1>3, <1>4, <2>2, <2>3, MinterType DEF TypeOK
<1>5. ASSUME NEW s \in PlaceFor(k), UNCHANGED displaced,
             pool' = [pool EXCEPT ![s] = Filled(k, seat, nextGen + 1)],
             nextGen' = nextGen + 1, m \in Conns => Sit(m, s, k)
      PROVE  /\ pool' \in [Slots -> Entries]
             /\ nextGen' \in Nat
             /\ m \in Conns => conn' \in [Conns -> Locations]
             /\ displaced' \in BOOLEAN
  <2>1. s \in Slots /\ nextGen + 1 \in Nat
    BY PlaceForEmpty DEF TypeOK
  <2>2. Filled(k, seat, nextGen + 1) \in Entries
    BY <1>1, <2>1, FilledType
  <2>3. pool' \in [Slots -> Entries]
    BY <1>5, <2>2 DEF TypeOK
  <2>4. QED
    BY <1>3, <1>5, <2>1, <2>3 DEF TypeOK
<1>6. QED
  BY <1>2, <1>4, <1>5 DEF Publish

\* The failure path of get() keeps the types.
LEMMA FallBackType ==
  ASSUME TypeOK, NEW c \in Conns, conn[c].pc = "minting", FallBack(c)
  PROVE  /\ pool' \in [Slots -> Entries]
         /\ conn' \in [Conns -> Locations]
<1>1. c \in Minters /\ Minting(c)
  BY DEF Minters, Minting
<1>2. /\ FailedPool(c) \in [Slots -> Entries]
      /\ \A s \in Slots : FailedPool(c)[s].active = pool[s].active
  BY <1>1, FailedPoolType
<1>3. CASE Seats = {} /\ pool' = FailedPool(c) /\ Refuse(c)
  BY <1>2, <1>3, RefuseType
<1>4. ASSUME NEW s \in PickSeat(OwnSlot(c)),
             pool' = [FailedPool(c) EXCEPT ![s].active = @ + 1],
             Sit(c, s, pool[s].cred)
      PROVE  pool' \in [Slots -> Entries] /\ conn' \in [Conns -> Locations]
  <2>1. s \in Seats /\ s \in Slots
    BY PickSeatInSeats DEF Seats
  <2>2. QED
    BY <1>2, <1>4, <2>1, SeatType
<1>5. QED
  BY <1>3, <1>4 DEF FallBack

\* The ends of mints, and a fill started in the background, keep the types.
LEMMA TypeConnMint ==
  ASSUME TypeOK, NEW c \in Conns, ConnMinted(c) \/ ConnMintFailed(c)
  PROVE  TypeOK'
<1>1. c \in Minters
  BY DEF Minters
<1>2. CASE ConnMintFailed(c)
  <2>1. pool' \in [Slots -> Entries] /\ conn' \in [Conns -> Locations]
    BY <1>2, FallBackType DEF ConnMintFailed
  <2>2. QED
    BY <1>2, <2>1 DEF TypeOK, ConnMintFailed, VKRefuses, cache, vk, history
<1>3. CASE ConnMinted(c)
  <2>1. PICK k \in Creds :
          /\ VKGrants(k, conn[c].slot)
          /\ \/ /\ Publish(c, k, 1)
                /\ UNCHANGED <<cookie, paused, grower, cache, rejected>>
             \/ /\ ~Owns(c) /\ PlaceFor(k) = {}
                /\ FallBack(c)
                /\ UNCHANGED <<cookie, nextGen, paused, grower, duty, cache, history>>
    BY <1>3 DEF ConnMinted
  <2>2. minted' \in Nat /\ expired' \subseteq Creds
    BY <2>1, GrantType DEF TypeOK, Locations
  <2>3. CASE /\ Publish(c, k, 1)
             /\ UNCHANGED <<cookie, paused, grower, cache, rejected>>
    <3>1. /\ pool' \in [Slots -> Entries]
          /\ nextGen' \in Nat
          /\ conn' \in [Conns -> Locations]
          /\ duty' \in [Minters \cup {Saver} -> Duties]
          /\ displaced' \in BOOLEAN
      BY <1>1, <2>3, PublishType
    <3>2. QED
      BY <2>2, <2>3, <3>1 DEF TypeOK, cache
  <2>4. CASE /\ FallBack(c)
             /\ UNCHANGED <<cookie, nextGen, paused, grower, duty, cache, history>>
    <3>1. pool' \in [Slots -> Entries] /\ conn' \in [Conns -> Locations]
      BY <1>3, <2>4, FallBackType DEF ConnMinted
    <3>2. QED
      BY <2>2, <2>4, <3>1 DEF TypeOK, cache, history
  <2>5. QED
    BY <2>1, <2>3, <2>4
<1>4. QED
  BY <1>2, <1>3

LEMMA TypeGrower ==
  ASSUME TypeOK, NEW g \in Growers, GrowerStep(g)
  PROVE  TypeOK'
<1>1. g \in Minters /\ g \notin Conns
  BY GrowersAssumption DEF Minters, Conns
<1>2. GrowerIdle \in [minting : BOOLEAN, slot : Slots, stamp : Nat]
  BY ZeroSlot DEF GrowerIdle
<1>3. ASSUME NEW s \in Slots, NEW guarded \in BOOLEAN, TryFill(g, s, guarded)
      PROVE  TypeOK'
  <2>1. pool' \in [Slots -> Entries] /\ nextGen' \in Nat
    BY <1>3, ClaimType DEF TryFill
  <2>2. grower' \in [Growers -> [minting : BOOLEAN, slot : Slots, stamp : Nat]]
    BY <1>3 DEF TryFill, TypeOK
  <2>3. QED
    BY <1>3, <2>1, <2>2 DEF TypeOK, TryFill, cache, vk, history
<1>4. CASE GrowerMintFailed(g)
  <2>1. Minting(g)
    BY <1>1, <1>4 DEF GrowerMintFailed, Minting
  <2>2. pool' \in [Slots -> Entries]
    BY <1>1, <1>4, <2>1, FailedPoolType DEF GrowerMintFailed
  <2>3. grower' \in [Growers -> [minting : BOOLEAN, slot : Slots, stamp : Nat]]
    BY <1>2, <1>4 DEF GrowerMintFailed, TypeOK
  <2>4. QED
    BY <1>4, <2>2, <2>3 DEF TypeOK, GrowerMintFailed, VKRefuses, cache, vk, history
<1>5. CASE GrowerMinted(g)
  <2>1. PICK k \in Creds :
          /\ VKGrants(k, grower[g].slot)
          /\ \/ /\ Publish(g, k, 0)
                /\ UNCHANGED <<cookie, paused, conn, cache, rejected>>
             \/ UNCHANGED <<shared, conn, duty, cache, history>>
    BY <1>5 DEF GrowerMinted
  <2>2. minted' \in Nat /\ expired' \subseteq Creds
    BY <2>1, GrantType DEF TypeOK
  <2>3. grower' \in [Growers -> [minting : BOOLEAN, slot : Slots, stamp : Nat]]
    BY <1>2, <1>5 DEF GrowerMinted, TypeOK
  <2>4. CASE /\ Publish(g, k, 0)
             /\ UNCHANGED <<cookie, paused, conn, cache, rejected>>
    <3>1. /\ pool' \in [Slots -> Entries]
          /\ nextGen' \in Nat
          /\ duty' \in [Minters \cup {Saver} -> Duties]
          /\ displaced' \in BOOLEAN
      BY <1>1, <2>4, PublishType
    <3>2. QED
      BY <2>2, <2>3, <2>4, <3>1 DEF TypeOK, cache
  <2>5. CASE UNCHANGED <<shared, conn, duty, cache, history>>
    BY <2>2, <2>3, <2>5 DEF TypeOK, shared, cache, history
  <2>6. QED
    BY <2>1, <2>4, <2>5
<1>6. QED
  BY <1>3, <1>4, <1>5 DEF GrowerStep

\* The end of a session keeps the types.
LEMMA TypeSessionEnd ==
  ASSUME TypeOK, NEW c \in Conns,
         MarkSaturated(c) \/ InvalidateEntry(c) \/ Release(c)
  PROVE  TypeOK'
<1>1. conn[c].slot \in Slots /\ pool[conn[c].slot] \in Entries /\ c \in Minters
  BY DEF TypeOK, Locations, Minters
<1>2. [conn[c] EXCEPT !.pc = "closing"] \in Locations
  BY DEF TypeOK, Locations
<1>3. CASE MarkSaturated(c)
  <2>1. [pool[conn[c].slot] EXCEPT !.sat = TRUE] \in Entries
    BY <1>1, EntryUpdates
  <2>2. pool' \in [Slots -> Entries]
    BY <1>1, <1>3, <2>1 DEF MarkSaturated, TypeOK
  <2>3. conn' \in [Conns -> Locations]
    BY <1>2, <1>3 DEF MarkSaturated, TypeOK
  <2>4. QED
    BY <1>3, <2>2, <2>3 DEF TypeOK, MarkSaturated, cache, vk, history
<1>4. CASE InvalidateEntry(c)
  <2>1. pool' \in [Slots -> Entries]
    BY <1>1, <1>4, BlankType DEF InvalidateEntry, TypeOK
  <2>2. conn' \in [Conns -> Locations]
    BY <1>2, <1>4 DEF InvalidateEntry, TypeOK
  <2>3. duty' \in [Minters \cup {Saver} -> Duties]
    BY <1>4 DEF InvalidateEntry, TypeOK, Duties
  <2>4. rejected' \subseteq Creds
    BY <1>1, <1>4 DEF InvalidateEntry, TypeOK, Entries
  <2>5. displaced' \in BOOLEAN
    BY <1>4 DEF InvalidateEntry, TypeOK
  <2>6. QED
    BY <1>4, <2>1, <2>2, <2>3, <2>4, <2>5 DEF TypeOK, InvalidateEntry, cache, vk
<1>5. CASE Release(c)
  <2>1. pool' \in [Slots -> Entries]
    BY <1>1, <1>5, EntryUpdates DEF Release, TypeOK
  <2>2. conn' \in [Conns -> Locations]
    BY <1>5, OutType DEF Release, TypeOK
  <2>3. duty' \in [Minters \cup {Saver} -> Duties]
    BY <1>5 DEF Release, TypeOK, Duties
  <2>4. QED
    BY <1>5, <2>1, <2>2, <2>3 DEF TypeOK, Release, cache, vk, history
<1>6. QED
  BY <1>3, <1>4, <1>5

\* Closing the shared channel keeps the types.
LEMMA WokenType ==
  ASSUME TypeOK
  PROVE  /\ Woken \in [Conns -> Locations]
         /\ \A c \in Conns : /\ Woken[c].pc = conn[c].pc
                             /\ Woken[c].slot = conn[c].slot
                             /\ Woken[c].stamp = conn[c].stamp
<1>1. \A c \in Conns : conn[c] \in Locations
  BY DEF TypeOK
<1>2. ASSUME NEW l \in Locations
      PROVE  [l EXCEPT !.ch = "closed"] \in Locations
  BY DEF Locations
<1>3. QED
  BY <1>1, <1>2 DEF Woken, Locations

LEMMA SnapshotType ==
  ASSUME NEW p \in [Slots -> Entries]
  PROVE  Snapshot(p) \in CacheFiles
  BY DEF Snapshot, CacheFiles, Entries

\* Saves, broadcasts and wake-ups keep the types.
LEMMA TypeDuty ==
  ASSUME TypeOK, NEW p \in Minters \cup {Saver}, DutyStep(p)
  PROVE  TypeOK'
<1>1. NoSnapshot \in CacheFiles
  BY DEF NoSnapshot, CacheFiles
<1>2. ASSUME NEW what, Step(p, what)
      PROVE  duty' \in [Minters \cup {Saver} -> Duties]
  <2>1. duty[p] \in Duties \ {<<>>}
    BY <1>2 DEF Step, TypeOK
  <2>2. Tail(duty[p]) \in Duties
    <3>1. /\ Tail(<<"cast">>) = <<>>
          /\ Tail(<<"write">>) = <<>>
          /\ Tail(<<"save", "write">>) = <<"write">>
          /\ Tail(<<"write", "cast">>) = <<"cast">>
          /\ Tail(<<"save", "write", "cast">>) = <<"write", "cast">>
      OBVIOUS
    <3>2. QED
      BY <2>1, <3>1 DEF Duties
  <2>3. QED
    BY <1>2, <2>2 DEF Step, TypeOK
<1>3. CASE SaveSnapshot(p)
  <2>1. Snapshot(pool) \in CacheFiles
    BY SnapshotType DEF TypeOK
  <2>2. snap' \in [Minters \cup {Saver} -> CacheFiles]
    BY <1>3, <2>1 DEF SaveSnapshot, TypeOK
  <2>3. QED
    BY <1>2, <1>3, <2>2 DEF TypeOK, SaveSnapshot, shared, vk, history
<1>4. CASE SaveWrite(p)
  <2>1. disk' \in CacheFiles /\ snap' \in [Minters \cup {Saver} -> CacheFiles]
    BY <1>1, <1>4 DEF SaveWrite, TypeOK
  <2>2. QED
    BY <1>2, <1>4, <2>1 DEF TypeOK, SaveWrite, shared, vk, history
<1>5. CASE Broadcast(p)
  <2>1. conn' \in [Conns -> Locations]
    BY <1>5, WokenType DEF Broadcast
  <2>2. QED
    BY <1>2, <1>5, <2>1 DEF TypeOK, Broadcast, shared, cache, vk, history
<1>6. QED
  BY <1>3, <1>4, <1>5 DEF DutyStep

LEMMA TypeWake ==
  ASSUME TypeOK, \/ \E c \in Conns : WakeOnSignal(c) \/ WakeOnTimer(c)
                 \/ PeriodicSave
  PROVE  TypeOK'
<1>1. ASSUME NEW c \in Conns, WakeOnSignal(c) \/ WakeOnTimer(c)
      PROVE  TypeOK'
  <2>1. conn' \in [Conns -> Locations]
    BY <1>1, OutType DEF WakeOnSignal, WakeOnTimer, TypeOK
  <2>2. QED
    BY <1>1, <2>1 DEF TypeOK, WakeOnSignal, WakeOnTimer, shared, cache, vk, history
<1>2. CASE PeriodicSave
  <2>1. duty' \in [Minters \cup {Saver} -> Duties]
    BY <1>2 DEF PeriodicSave, TypeOK, Duties
  <2>2. QED
    BY <1>2, <2>1 DEF TypeOK, PeriodicSave, shared, cache, vk, history
<1>3. QED
  BY <1>1, <1>2

\* Deadlines keep the types.
LEMMA TypeDeadline ==
  ASSUME TypeOK, NEW s \in Slots, SlotDeadline(s)
  PROVE  TypeOK'
<1>1. pool[s] \in Entries
  BY DEF TypeOK
<1>2. CASE SaturationEnds(s)
  <2>1. [pool[s] EXCEPT !.sat = FALSE] \in Entries
    BY <1>1, EntryUpdates
  <2>2. pool' \in [Slots -> Entries]
    BY <1>2, <2>1 DEF SaturationEnds, TypeOK
  <2>3. conn' \in [Conns -> Locations]
    BY <1>2, WokenType DEF SaturationEnds
  <2>4. QED
    BY <1>2, <2>2, <2>3 DEF TypeOK, SaturationEnds, cache, vk, history
<1>3. CASE CooldownEnds(s)
  <2>1. [pool[s] EXCEPT !.cooling = FALSE] \in Entries
    BY <1>1, EntryUpdates
  <2>2. pool' \in [Slots -> Entries]
    BY <1>3, <2>1 DEF CooldownEnds, TypeOK
  <2>3. QED
    BY <1>3, <2>2 DEF TypeOK, CooldownEnds, cache, vk, history
<1>4. CASE PendingEnds(s)
  <2>1. [pool[s] EXCEPT !.pending = FALSE] \in Entries
    BY <1>1, EntryUpdates
  <2>2. pool' \in [Slots -> Entries]
    BY <1>4, <2>1 DEF PendingEnds, TypeOK
  <2>3. QED
    BY <1>4, <2>2 DEF TypeOK, PendingEnds, cache, vk, history
<1>5. QED
  BY <1>2, <1>3, <1>4 DEF SlotDeadline

\* The pool loaded from a cache file has its type, holds no claim and no seat.
LEMMA LoadedType ==
  ASSUME TypeOK, NEW recent \in SUBSET Slots
  PROVE  /\ Loaded(recent) \in [Slots -> Entries]
         /\ \A s \in Slots : /\ Loaded(recent)[s].gen = 0
                             /\ Loaded(recent)[s].fetching = FALSE
<1>1. ASSUME NEW s \in Slots
      PROVE  /\ Loaded(recent)[s] \in Entries
             /\ Loaded(recent)[s].gen = 0
             /\ Loaded(recent)[s].fetching = FALSE
  <2>1. disk[s].cred \in {NoCred} \cup Creds /\ disk[s].used \in BOOLEAN
    BY DEF TypeOK, CacheFiles
  <2>2. CASE disk[s].cred = NoCred \/ disk[s].cred \in expired
    BY <2>2, BlankType DEF Loaded
  <2>3. CASE ~(disk[s].cred = NoCred \/ disk[s].cred \in expired)
    <3>1. Loaded(recent)[s] =
            [Blank EXCEPT !.cred = disk[s].cred, !.used = disk[s].used,
                          !.pending = (disk[s].used /\ s \in recent)]
      BY <2>3 DEF Loaded
    <3>2. (disk[s].used /\ s \in recent) \in BOOLEAN
      BY <2>1
    <3>3. QED
      BY <2>1, <3>1, <3>2, BlankType DEF Entries
  <2>4. QED
    BY <2>2, <2>3
<1>2. QED
  BY <1>1 DEF Loaded

\* So has the seeded one.
LEMMA SeededType ==
  ASSUME NEW p \in [Slots -> Entries], NEW k \in {NoCred} \cup Creds,
         \A s \in Slots : p[s].gen = 0 /\ p[s].fetching = FALSE
  PROVE  /\ Seeded(p, k) \in [Slots -> Entries]
         /\ \A s \in Slots : /\ Seeded(p, k)[s].gen = 0
                             /\ Seeded(p, k)[s].fetching = FALSE
<1>1. CASE k = NoCred \/ Fresh(p[0])
  BY <1>1 DEF Seeded
<1>2. CASE ~(k = NoCred \/ Fresh(p[0]))
  <2> DEFINE seeded == [s \in Slots |-> IF s = 0 THEN Filled(k, 0, 0)
                                        ELSE IF p[s].cred = k THEN Blank ELSE p[s]]
             moved == IF p[0].cred \in {NoCred, k} THEN {}
                      ELSE Lowest({s \in Slots : seeded[s].cred = NoCred})
  <2>1. Seeded(p, k) = [s \in Slots |-> IF s \in moved THEN p[0] ELSE seeded[s]]
    BY <1>2 DEF Seeded
  <2>3. /\ Filled(k, 0, 0) \in Entries
        /\ Filled(k, 0, 0).gen = 0
        /\ Filled(k, 0, 0).fetching = FALSE
    BY SeedEntryType
  <2>4. \A s \in Slots : /\ seeded[s] \in Entries
                         /\ seeded[s].gen = 0
                         /\ seeded[s].fetching = FALSE
    BY <2>3, BlankType
  <2>5. p[0] \in Entries /\ p[0].gen = 0 /\ p[0].fetching = FALSE
    BY ZeroSlot
  <2> HIDE DEF seeded, moved
  <2>6. QED
    BY <2>1, <2>4, <2>5
<1>3. QED
  BY <1>1, <1>2

\* A seed is a credential.
LEMMA SeedsType ==
  ASSUME TypeOK, NEW p \in [Slots -> Entries]
  PROVE  Seeds(p) \subseteq {NoCred} \cup Creds
<1>1. \A s \in Slots : p[s].cred \in {NoCred} \cup Creds
  BY DEF Entries
<1>2. Lowest({s \in Slots : Fresh(p[s])}) \subseteq Slots
  BY LowestSubset
<1>3. minted < MaxMints => minted + 1 \in Creds
  BY ConstantsAssumption DEF TypeOK, Creds
<1>4. QED
  BY <1>1, <1>2, <1>3 DEF Seeds

\* What a restart makes of the pool.
LEMMA RestartPool ==
  ASSUME TypeOK, NEW recent \in SUBSET Slots, NEW seed, Restart(recent, seed)
  PROVE  /\ seed \in {NoCred} \cup Creds
         /\ pool' \in [Slots -> Entries]
         /\ \A s \in Slots : pool'[s].gen = 0 /\ pool'[s].fetching = FALSE
<1>1. seed \in {NoCred} \cup Creds
  BY LoadedType, SeedsType DEF Restart
<1>2. QED
  BY <1>1, LoadedType, SeededType DEF Restart

\* Path events, resets, expiry and restarts keep the types.
LEMMA TypeEnvironment ==
  ASSUME TypeOK, Environment
  PROVE  TypeOK'
<1>1. ASSUME NEW recent \in SUBSET Slots, PathChange(recent)
      PROVE  TypeOK'
  <2>1. \A s \in Slots : pool[s] \in Entries /\ [pool[s] EXCEPT !.sat = TRUE] \in Entries
    BY EntryUpdates DEF TypeOK
  <2>2. pool' \in [Slots -> Entries]
    BY <1>1, <2>1 DEF PathChange
  <2>3. QED
    BY <1>1, <2>2 DEF TypeOK, PathChange, cache, vk, history
<1>2. CASE ExtendPause
  BY <1>2 DEF TypeOK, ExtendPause, cache, vk, history
<1>3. CASE PauseEnds
  BY <1>3, WokenType DEF TypeOK, PauseEnds, cache, vk, history
<1>4. ASSUME NEW k \in Creds, Expire(k)
      PROVE  TypeOK'
  BY <1>4 DEF TypeOK, Expire, shared, cache, history
<1>5. CASE Invalidate
  <2>1. pool' \in [Slots -> Entries]
    BY <1>5, BlankType DEF Invalidate
  <2>2. displaced' \in BOOLEAN
    BY <1>5 DEF Invalidate, TypeOK
  <2>3. QED
    BY <1>5, <2>1, <2>2 DEF TypeOK, Invalidate, cache, vk
<1>6. ASSUME NEW recent \in SUBSET Slots, NEW seed, Restart(recent, seed)
      PROVE  TypeOK'
  <2>1. pool' \in [Slots -> Entries] /\ seed \in {NoCred} \cup Creds
    BY <1>6, RestartPool
  <2>2. seed \in Nat
    BY <2>1, ConstantsAssumption DEF Creds, NoCred, Bucket, Slots
  <2>3. disk' \in CacheFiles
    BY <1>6, <2>1, SnapshotType DEF Restart, TypeOK
  <2>4. conn' \in [Conns -> Locations]
    BY <1>6, OutType DEF Restart
  <2>5. grower' \in [Growers -> [minting : BOOLEAN, slot : Slots, stamp : Nat]]
    BY <1>6, ZeroSlot DEF Restart, GrowerIdle
  <2>6. snap' \in [Minters \cup {Saver} -> CacheFiles]
    BY <1>6 DEF Restart, NoSnapshot, CacheFiles
  <2>7. duty' \in [Minters \cup {Saver} -> Duties]
    BY <1>6 DEF Restart, Duties
  <2>8. minted' \in Nat /\ displaced' \in BOOLEAN /\ nextGen' \in Nat /\ paused' \in BOOLEAN
    BY <1>6, <2>2 DEF Restart, TypeOK
  <2>9. UNCHANGED <<cookie, expired, rejected>>
    BY <1>6 DEF Restart
  <2>10. QED
    BY <2>1, <2>3, <2>4, <2>5, <2>6, <2>7, <2>8, <2>9 DEF TypeOK
<1>7. QED
  BY <1>1, <1>2, <1>3, <1>4, <1>5, <1>6 DEF Environment

LEMMA TypeStep == TypeOK /\ [Next]_vars => TypeOK'
<1> SUFFICES ASSUME TypeOK, [Next]_vars PROVE TypeOK'
  OBVIOUS
<1>1. ASSUME NEW c \in Conns, ConnStep(c) PROVE TypeOK'
  BY <1>1, TypeAcquire, TypeConnMint, TypeSessionEnd, TypeWake DEF ConnStep
<1>2. ASSUME NEW g \in Growers, GrowerStep(g) PROVE TypeOK'
  BY <1>2, TypeGrower
<1>3. ASSUME NEW p \in Minters \cup {Saver}, DutyStep(p) PROVE TypeOK'
  BY <1>3, TypeDuty
<1>4. CASE PeriodicSave
  BY <1>4, TypeWake
<1>5. ASSUME NEW s \in Slots, SlotDeadline(s) PROVE TypeOK'
  BY <1>5, TypeDeadline
<1>6. CASE Environment
  BY <1>6, TypeEnvironment
<1>7. CASE UNCHANGED vars
  BY <1>7 DEF TypeOK, vars, shared, cache, vk, history
<1>8. QED
  BY <1>1, <1>2, <1>3, <1>4, <1>5, <1>6, <1>7 DEF Next

\* Every variable keeps its type; no slot ever counts more than connsPerSlot
\* seats (the check in pickAcquireSlotLocked).
THEOREM TypeCorrect == Spec => []TypeOK
  BY TypeInit, TypeStep, PTL DEF Spec

-----------------------------------------------------------------------------
(* Claims *)

\* Stamps come from one counter: slots and mints in flight only carry stamps
\* it has handed out, and 0 marks a slot without a claim since its reset.
StampsIssued ==
  /\ \A s \in Slots : pool[s].gen <= nextGen
  /\ \A m \in Minters : Minting(m) => StampOf(m) \in 1 .. nextGen

\* ClaimIntegrity needs StampsIssued to be inductive: a fresh stamp differs
\* from every stamp in use only because those are not above nextGen.
ClaimsInv == ClaimIntegrity /\ StampsIssued

\* A mint in flight after the step was in flight before it, in the same slot.
SameMint(m) ==
  /\ Minting(m)
  /\ TargetOf(m)' = TargetOf(m)
  /\ StampOf(m)' = StampOf(m)

\* The slot keeps its stamp, and its claim unless the owner's mint ended.
KeepsClaim(s) ==
  /\ pool'[s].gen = pool[s].gen
  /\ pool'[s].fetching <=>
       (pool[s].fetching /\ \A m \in Minters : HeldBy(s, m) => Minting(m)')

\* The slot has no claim, and no mint started before carries its stamp.
DropsClaim(s) ==
  /\ ~pool'[s].fetching
  /\ pool'[s].gen = 0 \/ pool'[s].gen > nextGen

\* A step that starts no mint preserves the invariant if each slot keeps or
\* drops its claim.
LEMMA ClaimsKept ==
  ASSUME TypeOK, TypeOK', ClaimsInv,
         \A m \in Minters : Minting(m)' => SameMint(m) /\ nextGen <= nextGen',
         \A s \in Slots : KeepsClaim(s) \/ DropsClaim(s),
         \A s \in Slots : pool'[s].gen <= nextGen'
  PROVE  ClaimsInv'
<1>1. \A m \in Minters :
        Minting(m)' => StampOf(m)' \in 1 .. nextGen /\ StampOf(m)' \in 1 .. nextGen'
  BY DEF ClaimsInv, StampsIssued, SameMint, TypeOK
<1>2. StampsIssued'
  BY <1>1 DEF StampsIssued
<1>3. \A m, n \in Minters : Minting(m)' /\ Minting(n)' /\ StampOf(m)' = StampOf(n)' => m = n
  BY DEF ClaimsInv, ClaimIntegrity, SameMint
<1>4. ASSUME NEW s \in Slots
      PROVE  pool'[s].fetching <=> \E m \in Minters : HeldBy(s, m)'
  <2>1. CASE KeepsClaim(s)
    <3>1. \A m \in Minters : HeldBy(s, m)' => HeldBy(s, m)
      BY <2>1 DEF KeepsClaim, HeldBy, SameMint
    <3>2. \A m \in Minters : HeldBy(s, m) /\ Minting(m)' => HeldBy(s, m)'
      BY <2>1 DEF KeepsClaim, HeldBy, SameMint
    <3>3. \A m, n \in Minters : HeldBy(s, m) /\ HeldBy(s, n) => m = n
      BY DEF ClaimsInv, ClaimIntegrity, HeldBy
    <3>4. pool[s].fetching <=> \E m \in Minters : HeldBy(s, m)
      BY DEF ClaimsInv, ClaimIntegrity
    <3>5. \A m \in Minters : HeldBy(s, m)' => Minting(m)'
      BY DEF HeldBy
    <3>6. pool'[s].fetching <=>
            (pool[s].fetching /\ \A m \in Minters : HeldBy(s, m) => Minting(m)')
      BY <2>1 DEF KeepsClaim
    <3>7. ASSUME pool'[s].fetching PROVE \E m \in Minters : HeldBy(s, m)'
      BY <3>2, <3>4, <3>6, <3>7
    <3>8. ASSUME NEW m \in Minters, HeldBy(s, m)' PROVE pool'[s].fetching
      BY <3>1, <3>3, <3>4, <3>5, <3>6, <3>8
    <3>9. QED
      BY <3>7, <3>8
  <2>2. CASE DropsClaim(s)
    <3>1. ASSUME NEW m \in Minters, HeldBy(s, m)' PROVE FALSE
      <4>1. StampOf(m)' \in 1 .. nextGen /\ StampOf(m)' = pool'[s].gen
        BY <1>1, <3>1 DEF HeldBy
      <4>2. QED
        BY <2>2, <4>1 DEF DropsClaim, TypeOK
    <3>2. QED
      BY <2>2, <3>1 DEF DropsClaim
  <2>3. QED
    BY <2>1, <2>2
<1>5. ClaimIntegrity'
  BY <1>3, <1>4 DEF ClaimIntegrity
<1>6. QED
  BY <1>2, <1>5 DEF ClaimsInv

\* A step that ends no mint, and only resets slots.
LEMMA ClaimsQuiet ==
  ASSUME TypeOK, TypeOK', ClaimsInv, nextGen' = nextGen,
         \A m \in Minters : (Minting(m)' <=> Minting(m)) /\ (Minting(m) => SameMint(m)),
         \A s \in Slots : \/ /\ pool'[s].gen = pool[s].gen
                             /\ pool'[s].fetching = pool[s].fetching
                          \/ pool'[s].gen = 0 /\ pool'[s].fetching = FALSE
  PROVE  ClaimsInv'
<1>1. \A s \in Slots : KeepsClaim(s) \/ DropsClaim(s)
  BY DEF KeepsClaim, DropsClaim, HeldBy
<1>2. \A s \in Slots : pool'[s].gen <= nextGen'
  BY DEF ClaimsInv, StampsIssued, TypeOK
<1>3. \A m \in Minters : Minting(m)' => SameMint(m) /\ nextGen <= nextGen'
  BY DEF TypeOK
<1>4. QED
  BY <1>1, <1>2, <1>3, ClaimsKept

\* Mint m0 ends: its slot loses the claim if m0 still owned it.
LEMMA ClaimsEnd ==
  ASSUME TypeOK, TypeOK', ClaimsInv, NEW m0 \in Minters, Minting(m0), ~Minting(m0)',
         nextGen <= nextGen',
         \A m \in Minters \ {m0} : (Minting(m)' <=> Minting(m)) /\ (Minting(m) => SameMint(m)),
         \A s \in Slots :
           \/ /\ pool'[s].gen = pool[s].gen
              /\ pool'[s].fetching <=> pool[s].fetching /\ ~(TargetOf(m0) = s /\ Owns(m0))
           \/ pool'[s].fetching = FALSE /\ pool'[s].gen \in nextGen + 1 .. nextGen'
  PROVE  ClaimsInv'
<1>1. \A s \in Slots : HeldBy(s, m0) <=> TargetOf(m0) = s /\ Owns(m0)
  BY DEF HeldBy, Owns
<1>2. \A s \in Slots : KeepsClaim(s) \/ DropsClaim(s)
  <2>1. ASSUME NEW s \in Slots
        PROVE  (\A m \in Minters : HeldBy(s, m) => Minting(m)') <=> ~HeldBy(s, m0)
    BY DEF HeldBy
  <2>2. QED
    BY <1>1, <2>1 DEF KeepsClaim, DropsClaim, TypeOK
<1>3. \A s \in Slots : pool'[s].gen <= nextGen'
  <2>1. \A s \in Slots : pool[s].gen <= nextGen /\ pool[s].gen \in Nat
    BY DEF ClaimsInv, StampsIssued, TypeOK, Entries
  <2>2. nextGen \in Nat /\ nextGen' \in Nat
    BY DEF TypeOK
  <2>3. QED
    BY <2>1, <2>2
<1>4. \A m \in Minters : Minting(m)' => SameMint(m) /\ nextGen <= nextGen'
  OBVIOUS
<1>5. QED
  BY <1>2, <1>3, <1>4, ClaimsKept

\* Mint m0 starts in slot s0 with the next stamp.
LEMMA ClaimsStart ==
  ASSUME TypeOK, TypeOK', ClaimsInv, NEW m0 \in Minters, NEW s0 \in Slots,
         ~Minting(m0), ~pool[s0].fetching, Claim(s0),
         Minting(m0)', TargetOf(m0)' = s0, StampOf(m0)' = nextGen + 1,
         \A m \in Minters \ {m0} : (Minting(m)' <=> Minting(m)) /\ (Minting(m) => SameMint(m))
  PROVE  ClaimsInv'
<1>1. nextGen \in Nat /\ nextGen' = nextGen + 1
  BY DEF TypeOK, Claim
<1>2. /\ pool'[s0].gen = nextGen + 1 /\ pool'[s0].fetching
      /\ \A s \in Slots \ {s0} : pool'[s] = pool[s]
  BY DEF Claim, TypeOK, Entries
<1>3. \A s \in Slots : pool[s].gen <= nextGen /\ pool[s].gen \in Nat
  BY DEF ClaimsInv, StampsIssued, TypeOK, Entries
<1>4. \A m \in Minters \ {m0} :
        Minting(m) => StampOf(m) \in 1 .. nextGen /\ StampOf(m)' = StampOf(m)
  BY DEF ClaimsInv, StampsIssued, SameMint
<1>5. StampsIssued'
  <2>1. \A s \in Slots : pool'[s].gen <= nextGen'
    BY <1>1, <1>2, <1>3
  <2>2. \A m \in Minters : Minting(m)' => StampOf(m)' \in 1 .. nextGen'
    BY <1>1, <1>4
  <2>3. QED
    BY <2>1, <2>2 DEF StampsIssued
<1>6. \A m, n \in Minters : Minting(m)' /\ Minting(n)' /\ StampOf(m)' = StampOf(n)' => m = n
  <2>1. \A m \in Minters \ {m0} : Minting(m)' => StampOf(m)' # nextGen + 1
    BY <1>1, <1>4
  <2>2. \A m, n \in Minters \ {m0} :
          Minting(m)' /\ Minting(n)' /\ StampOf(m)' = StampOf(n)' => m = n
    BY <1>4 DEF ClaimsInv, ClaimIntegrity
  <2>3. QED
    BY <2>1, <2>2
<1>7. ASSUME NEW s \in Slots
      PROVE  pool'[s].fetching <=> \E m \in Minters : HeldBy(s, m)'
  <2>1. CASE s = s0
    BY <1>2, <2>1 DEF HeldBy
  <2>2. CASE s # s0
    <3>1. ~HeldBy(s, m0) /\ ~HeldBy(s, m0)'
      BY <2>2 DEF HeldBy
    <3>2. \A m \in Minters \ {m0} : HeldBy(s, m)' <=> HeldBy(s, m)
      BY <1>2, <2>2 DEF HeldBy, SameMint
    <3>3. pool[s].fetching <=> \E m \in Minters : HeldBy(s, m)
      BY DEF ClaimsInv, ClaimIntegrity
    <3>4. QED
      BY <1>2, <2>2, <3>1, <3>2, <3>3
  <2>3. QED
    BY <2>1, <2>2
<1>8. QED
  BY <1>5, <1>6, <1>7 DEF ClaimsInv, ClaimIntegrity

\* A connection that moves to a place where it is not minting leaves every
\* other mint alone.
LEMMA ConnMoves ==
  ASSUME TypeOK, NEW c \in Conns, NEW r, r.pc # "minting",
         conn' = [conn EXCEPT ![c] = r], UNCHANGED grower
  PROVE  /\ ~Minting(c)'
         /\ \A m \in Minters \ {c} :
              (Minting(m)' <=> Minting(m)) /\ (Minting(m) => SameMint(m))
<1>1. conn'[c] = r /\ \A d \in Conns \ {c} : conn'[d] = conn[d]
  BY DEF TypeOK
<1>2. QED
  BY <1>1 DEF Minting, SameMint, TargetOf, StampOf

\* So does one that was not minting before.
LEMMA ConnMovesQuietly ==
  ASSUME TypeOK, NEW c \in Conns, NEW r, conn[c].pc # "minting", r.pc # "minting",
         conn' = [conn EXCEPT ![c] = r], UNCHANGED grower
  PROVE  \A m \in Minters : (Minting(m)' <=> Minting(m)) /\ (Minting(m) => SameMint(m))
<1>1. ~Minting(c)
  BY DEF Minting
<1>2. QED
  BY <1>1, ConnMoves

LEMMA NobodyMoves ==
  ASSUME UNCHANGED conn, UNCHANGED grower
  PROVE  \A m \in Minters : (Minting(m)' <=> Minting(m)) /\ (Minting(m) => SameMint(m))
  BY DEF Minting, SameMint, TargetOf, StampOf

LEMMA NobodyMintsWhenWoken ==
  ASSUME TypeOK, conn' = Woken, UNCHANGED grower
  PROVE  \A m \in Minters : (Minting(m)' <=> Minting(m)) /\ (Minting(m) => SameMint(m))
  BY WokenType DEF Minting, SameMint, TargetOf, StampOf

\* Rewriting one flag or count of a slot leaves every claim as it was.
LEMMA OneSlotEdited ==
  ASSUME TypeOK, NEW s \in Slots, NEW e, e.gen = pool[s].gen,
         e.fetching = pool[s].fetching, pool' = [pool EXCEPT ![s] = e]
  PROVE  \A t \in Slots : pool'[t].gen = pool[t].gen /\ pool'[t].fetching = pool[t].fetching
  BY DEF TypeOK

LEMMA SeatEdit ==
  ASSUME NEW e \in Entries
  PROVE  /\ [e EXCEPT !.active = @ + 1].gen = e.gen
         /\ [e EXCEPT !.active = @ + 1].fetching = e.fetching
         /\ Released(e).gen = e.gen
         /\ Released(e).fetching = e.fetching
         /\ \A b \in BOOLEAN : /\ [e EXCEPT !.sat = b].gen = e.gen
                               /\ [e EXCEPT !.sat = b].fetching = e.fetching
                               /\ [e EXCEPT !.cooling = b].gen = e.gen
                               /\ [e EXCEPT !.cooling = b].fetching = e.fetching
                               /\ [e EXCEPT !.pending = b].gen = e.gen
                               /\ [e EXCEPT !.pending = b].fetching = e.fetching
  BY DEF Entries, Released

\* get() before the lock is dropped: at most one claim starts.
LEMMA ClaimsAcquire ==
  ASSUME TypeOK, TypeOK', ClaimsInv, NEW c \in Conns, TakeChannel(c) \/ Acquire(c)
  PROVE  ClaimsInv'
<1>1. CASE TakeChannel(c)
  <2>1. conn[c].pc # "minting" /\ [conn[c] EXCEPT !.ch = "open"].pc = conn[c].pc
    BY <1>1 DEF TakeChannel, TypeOK, Locations
  <2>2. conn' = [conn EXCEPT ![c] = [conn[c] EXCEPT !.ch = "open"]]
    BY <1>1 DEF TakeChannel, TypeOK
  <2>3. \A m \in Minters : (Minting(m)' <=> Minting(m)) /\ (Minting(m) => SameMint(m))
    BY <1>1, <2>1, <2>2, ConnMovesQuietly DEF TakeChannel
  <2>4. QED
    BY <1>1, <2>3, ClaimsQuiet DEF TakeChannel, shared
<1>2. CASE GetPaused(c) \/ GetRefused(c)
  <2>1. conn[c].pc # "minting"
    BY <1>2 DEF GetPaused, GetRefused, Asking
  <2>2. [Out EXCEPT !.pc = "refused", !.ch = conn[c].ch].pc = "refused"
    BY DEF Out
  <2>3. \A m \in Minters : (Minting(m)' <=> Minting(m)) /\ (Minting(m) => SameMint(m))
    BY <1>2, <2>1, <2>2, ConnMovesQuietly DEF GetPaused, GetRefused, Refuse
  <2>4. QED
    BY <1>2, <2>3, ClaimsQuiet DEF GetPaused, GetRefused, shared
<1>3. CASE GetSeat(c)
  <2>1. PICK s \in PickSeat(OwnSlot(c)) : TakeSeat(c, s)
    BY <1>3 DEF GetSeat
  <2>2. s \in Slots /\ pool[s] \in Entries /\ conn[c].pc # "minting"
    BY <1>3, PickSeatInSeats DEF Seats, TypeOK, GetSeat, Asking
  <2>3. [Out EXCEPT !.pc = "seated", !.slot = s, !.cred = pool[s].cred].pc = "seated"
    BY DEF Out
  <2>4. \A m \in Minters : (Minting(m)' <=> Minting(m)) /\ (Minting(m) => SameMint(m))
    BY <1>3, <2>1, <2>2, <2>3, ConnMovesQuietly DEF TakeSeat, Sit, GetSeat
  <2>5. pool' = [pool EXCEPT ![s] = [pool[s] EXCEPT !.active = @ + 1]]
    BY <2>1, <2>2 DEF TakeSeat, TypeOK
  <2>6. \A t \in Slots : pool'[t].gen = pool[t].gen /\ pool'[t].fetching = pool[t].fetching
    BY <2>2, <2>5, SeatEdit, OneSlotEdited
  <2>7. QED
    BY <1>3, <2>4, <2>6, ClaimsQuiet DEF GetSeat
<1>4. CASE GetClaim(c)
  <2>1. PICK s \in MintTarget(OwnSlot(c)) :
          /\ Claim(s)
          /\ conn' = [conn EXCEPT ![c] = [Out EXCEPT !.pc = "minting", !.slot = s,
                                                     !.stamp = nextGen + 1,
                                                     !.ch = conn[c].ch]]
    BY <1>4 DEF GetClaim
  <2>2. s \in Slots /\ ~pool[s].fetching
    BY MintTargetUntouched
  <2> DEFINE r == [Out EXCEPT !.pc = "minting", !.slot = s, !.stamp = nextGen + 1,
                              !.ch = conn[c].ch]
  <2>3. r.pc = "minting" /\ r.slot = s /\ r.stamp = nextGen + 1
    BY DEF Out
  <2>4. conn'[c] = r /\ \A d \in Conns \ {c} : conn'[d] = conn[d]
    BY <2>1 DEF TypeOK
  <2>5. ~Minting(c) /\ Minting(c)' /\ TargetOf(c)' = s /\ StampOf(c)' = nextGen + 1
    BY <1>4, <2>3, <2>4 DEF Minting, TargetOf, StampOf, GetClaim, Asking
  <2>6. \A m \in Minters \ {c} :
          (Minting(m)' <=> Minting(m)) /\ (Minting(m) => SameMint(m))
    BY <1>4, <2>4 DEF Minting, SameMint, TargetOf, StampOf, GetClaim
  <2>7. c \in Minters
    BY DEF Minters
  <2>8. QED
    BY <2>1, <2>2, <2>5, <2>6, <2>7, ClaimsStart
<1>5. QED
  BY <1>1, <1>2, <1>3, <1>4 DEF Acquire

\* What publishing does to the claims.
LEMMA PublishClaims ==
  ASSUME TypeOK, NEW m \in Minters, Minting(m), NEW k \in Creds, NEW seat \in {0, 1},
         Publish(m, k, seat)
  PROVE  /\ nextGen <= nextGen'
         /\ \A s \in Slots :
              \/ /\ pool'[s].gen = pool[s].gen
                 /\ pool'[s].fetching <=> pool[s].fetching /\ ~(TargetOf(m) = s /\ Owns(m))
              \/ pool'[s].fetching = FALSE /\ pool'[s].gen \in nextGen + 1 .. nextGen'
<1>1. nextGen \in Nat /\ seat \in 0 .. ConnsPerSlot
  BY ConstantsAssumption DEF TypeOK
<1>2. CASE /\ Owns(m)
           /\ pool' = [pool EXCEPT ![TargetOf(m)] = Filled(k, seat, StampOf(m))]
           /\ UNCHANGED nextGen
  <2>1. /\ Filled(k, seat, StampOf(m)).gen = StampOf(m)
        /\ Filled(k, seat, StampOf(m)).fetching = FALSE
    BY FilledFields, Zenon
  <2>2. \A s \in Slots : pool'[s] = IF s = TargetOf(m) THEN Filled(k, seat, StampOf(m))
                                    ELSE pool[s]
    BY <1>2, MinterType DEF TypeOK
  <2>3. pool[TargetOf(m)].gen = StampOf(m)
    BY <1>2 DEF Owns
  <2>4. ASSUME NEW s \in Slots
        PROVE  /\ pool'[s].gen = pool[s].gen
               /\ pool'[s].fetching <=> pool[s].fetching /\ ~(TargetOf(m) = s /\ Owns(m))
    <3>1. CASE s = TargetOf(m)
      BY <1>2, <2>1, <2>2, <2>3, <3>1
    <3>2. CASE s # TargetOf(m)
      BY <2>2, <3>2
    <3>3. QED
      BY <3>1, <3>2
  <2>5. QED
    BY <1>1, <1>2, <2>4
<1>3. ASSUME ~Owns(m), NEW t \in PlaceFor(k),
             pool' = [pool EXCEPT ![t] = Filled(k, seat, nextGen + 1)],
             nextGen' = nextGen + 1
      PROVE  /\ nextGen <= nextGen'
             /\ \A s \in Slots :
                  \/ /\ pool'[s].gen = pool[s].gen
                     /\ pool'[s].fetching <=> pool[s].fetching /\ ~(TargetOf(m) = s /\ Owns(m))
                  \/ pool'[s].fetching = FALSE /\ pool'[s].gen \in nextGen + 1 .. nextGen'
  <2>1. t \in Slots
    BY PlaceForEmpty
  <2>2. nextGen + 1 \in Nat
    BY <1>1
  <2>3. /\ Filled(k, seat, nextGen + 1).gen = nextGen + 1
        /\ Filled(k, seat, nextGen + 1).fetching = FALSE
    BY FilledFields, Zenon
  <2>4. pool'[t] = Filled(k, seat, nextGen + 1) /\ \A s \in Slots \ {t} : pool'[s] = pool[s]
    BY <1>3, <2>1 DEF TypeOK
  <2>5. nextGen + 1 \in nextGen + 1 .. nextGen'
    BY <1>1, <1>3
  <2>6. nextGen <= nextGen'
    BY <1>1, <1>3
  <2>7. ASSUME NEW s \in Slots
        PROVE  \/ /\ pool'[s].gen = pool[s].gen
                  /\ pool'[s].fetching <=> pool[s].fetching /\ ~(TargetOf(m) = s /\ Owns(m))
               \/ pool'[s].fetching = FALSE /\ pool'[s].gen \in nextGen + 1 .. nextGen'
    <3>1. CASE s = t
      BY <2>3, <2>4, <2>5, <3>1
    <3>2. CASE s # t
      BY <1>3, <2>4, <3>2
    <3>3. QED
      BY <3>1, <3>2
  <2>8. QED
    BY <2>6, <2>7
<1>4. QED
  BY <1>2, <1>3 DEF Publish

\* The failure path of get() ends the mint and seats or refuses the caller.
LEMMA FallBackClaims ==
  ASSUME TypeOK, NEW c \in Conns, conn[c].pc = "minting", FallBack(c)
  PROVE  /\ \E r : r.pc # "minting" /\ conn' = [conn EXCEPT ![c] = r]
         /\ \A s \in Slots :
              /\ pool'[s].gen = pool[s].gen
              /\ pool'[s].fetching <=> pool[s].fetching /\ ~(TargetOf(c) = s /\ Owns(c))
<1>1. c \in Minters /\ Minting(c)
  BY DEF Minters, Minting
<1>2. /\ FailedPool(c) \in [Slots -> Entries]
      /\ \A s \in Slots : /\ FailedPool(c)[s].gen = pool[s].gen
                          /\ FailedPool(c)[s].fetching =
                               (pool[s].fetching /\ ~(TargetOf(c) = s /\ Owns(c)))
  BY <1>1, FailedPoolType
<1>3. CASE Seats = {} /\ pool' = FailedPool(c) /\ Refuse(c)
  <2>1. [Out EXCEPT !.pc = "refused", !.ch = conn[c].ch].pc # "minting"
    BY DEF Out
  <2>2. QED
    BY <1>2, <1>3, <2>1 DEF Refuse
<1>4. ASSUME NEW t \in PickSeat(OwnSlot(c)),
             pool' = [FailedPool(c) EXCEPT ![t].active = @ + 1],
             Sit(c, t, pool[t].cred)
      PROVE  /\ \E r : r.pc # "minting" /\ conn' = [conn EXCEPT ![c] = r]
             /\ \A s \in Slots : pool'[s].gen = FailedPool(c)[s].gen
                                 /\ pool'[s].fetching = FailedPool(c)[s].fetching
  <2>1. [Out EXCEPT !.pc = "seated", !.slot = t, !.cred = pool[t].cred].pc # "minting"
    BY DEF Out
  <2>2. t \in Slots
    BY PickSeatInSeats DEF Seats
  <2>3. pool' = [FailedPool(c) EXCEPT ![t] = [FailedPool(c)[t] EXCEPT !.active = @ + 1]]
    BY <1>2, <1>4, <2>2
  <2>4. /\ [FailedPool(c)[t] EXCEPT !.active = @ + 1].gen = FailedPool(c)[t].gen
        /\ [FailedPool(c)[t] EXCEPT !.active = @ + 1].fetching = FailedPool(c)[t].fetching
    BY <1>2, <2>2, SeatEdit
  <2>5. \A s \in Slots : pool'[s].gen = FailedPool(c)[s].gen
                         /\ pool'[s].fetching = FailedPool(c)[s].fetching
    BY <1>2, <2>2, <2>3, <2>4
  <2>6. QED
    BY <1>4, <2>1, <2>5 DEF Sit
<1>5. QED
  BY <1>2, <1>3, <1>4 DEF FallBack

\* A connection's mint ends.
LEMMA ClaimsConnMint ==
  ASSUME TypeOK, TypeOK', ClaimsInv, NEW c \in Conns, ConnMinted(c) \/ ConnMintFailed(c)
  PROVE  ClaimsInv'
<1>1. conn[c].pc = "minting" /\ UNCHANGED grower
  BY DEF ConnMinted, ConnMintFailed
<1>2. c \in Minters /\ Minting(c) /\ nextGen \in Nat
  BY <1>1 DEF Minters, Minting, TypeOK
<1>3. CASE FallBack(c) /\ UNCHANGED nextGen
  <2>1. PICK r : r.pc # "minting" /\ conn' = [conn EXCEPT ![c] = r]
    BY <1>1, <1>3, FallBackClaims
  <2>2. /\ ~Minting(c)'
        /\ \A m \in Minters \ {c} :
             (Minting(m)' <=> Minting(m)) /\ (Minting(m) => SameMint(m))
    BY <1>1, <2>1, ConnMoves
  <2>3. \A s \in Slots :
          /\ pool'[s].gen = pool[s].gen
          /\ pool'[s].fetching <=> pool[s].fetching /\ ~(TargetOf(c) = s /\ Owns(c))
    BY <1>1, <1>3, FallBackClaims
  <2>4. nextGen <= nextGen'
    BY <1>2, <1>3
  <2>5. QED
    BY <1>2, <2>2, <2>3, <2>4, ClaimsEnd
<1>4. ASSUME NEW k \in Creds, Publish(c, k, 1)
      PROVE  ClaimsInv'
  <2>1. PICK s : Sit(c, s, k)
    BY <1>4 DEF Publish
  <2>2. [Out EXCEPT !.pc = "seated", !.slot = s, !.cred = k].pc # "minting"
    BY DEF Out
  <2>3. /\ ~Minting(c)'
        /\ \A m \in Minters \ {c} :
             (Minting(m)' <=> Minting(m)) /\ (Minting(m) => SameMint(m))
    BY <1>1, <2>1, <2>2, ConnMoves DEF Sit
  <2>4. QED
    BY <1>2, <1>4, <2>3, PublishClaims, ClaimsEnd
<1>5. QED
  BY <1>3, <1>4 DEF ConnMinted, ConnMintFailed

\* A background fill starts or ends.
LEMMA ClaimsGrower ==
  ASSUME TypeOK, TypeOK', ClaimsInv, NEW g \in Growers, GrowerStep(g)
  PROVE  ClaimsInv'
<1>1. g \in Minters /\ g \notin Conns /\ nextGen \in Nat
  BY GrowersAssumption DEF Minters, Conns, TypeOK
<1>2. ASSUME NEW r, grower' = [grower EXCEPT ![g] = r], UNCHANGED conn
      PROVE  /\ grower'[g] = r
             /\ \A m \in Minters \ {g} :
                  (Minting(m)' <=> Minting(m)) /\ (Minting(m) => SameMint(m))
  <2>1. grower'[g] = r /\ \A h \in Growers \ {g} : grower'[h] = grower[h]
    BY <1>2 DEF TypeOK
  <2>2. QED
    BY <1>2, <2>1 DEF Minting, SameMint, TargetOf, StampOf, Minters
<1>3. ASSUME NEW s \in Slots, NEW guarded \in BOOLEAN, TryFill(g, s, guarded)
      PROVE  ClaimsInv'
  <2> DEFINE r == [minting |-> TRUE, slot |-> s, stamp |-> nextGen + 1]
  <2>1. grower' = [grower EXCEPT ![g] = r] /\ UNCHANGED conn /\ ~grower[g].minting
    BY <1>3 DEF TryFill
  <2>2. grower'[g] = r
    BY <1>2, <2>1
  <2>3. ~Minting(g) /\ Minting(g)' /\ TargetOf(g)' = s /\ StampOf(g)' = nextGen + 1
    BY <1>1, <2>1, <2>2 DEF Minting, TargetOf, StampOf
  <2>4. Claim(s) /\ ~pool[s].fetching
    BY <1>3 DEF TryFill, Refillable, Untouched
  <2>5. \A m \in Minters \ {g} :
          (Minting(m)' <=> Minting(m)) /\ (Minting(m) => SameMint(m))
    BY <1>2, <2>1
  <2>6. QED
    BY <1>1, <2>3, <2>4, <2>5, ClaimsStart
<1>4. CASE GrowerMinted(g) \/ GrowerMintFailed(g)
  <2>1. /\ grower' = [grower EXCEPT ![g] = GrowerIdle]
        /\ grower[g].minting
        /\ UNCHANGED conn
    BY <1>1, <1>4 DEF GrowerMinted, GrowerMintFailed
  <2>2. Minting(g) /\ ~Minting(g)'
    BY <1>1, <1>2, <2>1 DEF Minting, GrowerIdle
  <2>3. \A m \in Minters \ {g} :
          (Minting(m)' <=> Minting(m)) /\ (Minting(m) => SameMint(m))
    BY <1>2, <2>1
  <2>4. ASSUME NEW k \in Creds, Publish(g, k, 0)
        PROVE  ClaimsInv'
    BY <1>1, <2>2, <2>3, <2>4, PublishClaims, ClaimsEnd
  <2>5. CASE UNCHANGED <<pool, nextGen>> /\ ~Owns(g)
    <3>1. \A s \in Slots :
            /\ pool'[s].gen = pool[s].gen
            /\ pool'[s].fetching <=> pool[s].fetching /\ ~(TargetOf(g) = s /\ Owns(g))
      BY <2>5
    <3>2. nextGen <= nextGen'
      BY <1>1, <2>5
    <3>3. QED
      BY <1>1, <2>2, <2>3, <3>1, <3>2, ClaimsEnd
  <2>6. CASE pool' = FailedPool(g) /\ UNCHANGED nextGen
    <3>1. \A s \in Slots :
            /\ pool'[s].gen = pool[s].gen
            /\ pool'[s].fetching <=> pool[s].fetching /\ ~(TargetOf(g) = s /\ Owns(g))
      BY <1>1, <2>2, <2>6, FailedPoolType
    <3>2. nextGen <= nextGen'
      BY <1>1, <2>6
    <3>3. QED
      BY <1>1, <2>2, <2>3, <3>1, <3>2, ClaimsEnd
  <2>7. QED
    BY <1>4, <2>4, <2>5, <2>6 DEF GrowerMinted, GrowerMintFailed, shared
<1>5. QED
  BY <1>3, <1>4 DEF GrowerStep

\* The end of a session: InvalidateEntry resets its slot, whose mint in
\* flight, if any, is displaced.
LEMMA ClaimsSessionEnd ==
  ASSUME TypeOK, TypeOK', ClaimsInv, NEW c \in Conns,
         MarkSaturated(c) \/ InvalidateEntry(c) \/ Release(c)
  PROVE  ClaimsInv'
<1>1. /\ conn[c].pc # "minting" /\ UNCHANGED <<grower, nextGen>>
      /\ conn[c].slot \in Slots /\ pool[conn[c].slot] \in Entries /\ conn[c] \in Locations
  BY DEF MarkSaturated, InvalidateEntry, Release, Seated, TypeOK, Locations
<1>2. \A m \in Minters : (Minting(m)' <=> Minting(m)) /\ (Minting(m) => SameMint(m))
  <2>1. CASE Release(c)
    <3>1. Out.pc # "minting"
      BY OutType
    <3>2. QED
      BY <1>1, <2>1, <3>1, ConnMovesQuietly DEF Release
  <2>2. CASE MarkSaturated(c) \/ InvalidateEntry(c)
    <3>1. conn' = [conn EXCEPT ![c] = [conn[c] EXCEPT !.pc = "closing"]]
      BY <2>2 DEF MarkSaturated, InvalidateEntry, TypeOK
    <3>2. [conn[c] EXCEPT !.pc = "closing"].pc # "minting"
      BY <1>1 DEF Locations
    <3>3. QED
      BY <1>1, <3>1, <3>2, ConnMovesQuietly
  <2>3. QED
    BY <2>1, <2>2
<1>3. \A s \in Slots : \/ /\ pool'[s].gen = pool[s].gen
                          /\ pool'[s].fetching = pool[s].fetching
                       \/ pool'[s].gen = 0 /\ pool'[s].fetching = FALSE
  <2>1. CASE MarkSaturated(c)
    <3>1. pool' = [pool EXCEPT ![conn[c].slot] = [pool[conn[c].slot] EXCEPT !.sat = TRUE]]
      BY <1>1, <2>1 DEF MarkSaturated, TypeOK
    <3>2. QED
      BY <1>1, <3>1, SeatEdit, OneSlotEdited
  <2>2. CASE InvalidateEntry(c)
    <3>1. /\ pool'[conn[c].slot] = Blank
          /\ \A s \in Slots \ {conn[c].slot} : pool'[s] = pool[s]
      BY <1>1, <2>2 DEF InvalidateEntry, TypeOK
    <3>2. QED
      BY <3>1, BlankType
  <2>3. CASE Release(c)
    <3>1. pool' = [pool EXCEPT ![conn[c].slot] = Released(pool[conn[c].slot])]
      BY <1>1, <2>3 DEF Release, TypeOK
    <3>2. QED
      BY <1>1, <3>1, SeatEdit, OneSlotEdited
  <2>4. QED
    BY <2>1, <2>2, <2>3
<1>4. QED
  BY <1>1, <1>2, <1>3, ClaimsQuiet

\* Saves, broadcasts and wake-ups touch no claim.
LEMMA ClaimsDuty ==
  ASSUME TypeOK, TypeOK', ClaimsInv,
         \/ \E p \in Minters \cup {Saver} : DutyStep(p)
         \/ \E c \in Conns : WakeOnSignal(c) \/ WakeOnTimer(c)
         \/ PeriodicSave
  PROVE  ClaimsInv'
<1>1. UNCHANGED <<pool, nextGen, grower>>
  BY DEF DutyStep, SaveSnapshot, SaveWrite, Broadcast, WakeOnSignal, WakeOnTimer,
         PeriodicSave, shared
<1>2. \A m \in Minters : (Minting(m)' <=> Minting(m)) /\ (Minting(m) => SameMint(m))
  <2>1. CASE UNCHANGED conn
    BY <1>1, <2>1, NobodyMoves
  <2>2. CASE conn' = Woken
    BY <1>1, <2>2, NobodyMintsWhenWoken
  <2>3. ASSUME NEW c \in Conns, WakeOnSignal(c) \/ WakeOnTimer(c)
        PROVE  \A m \in Minters : (Minting(m)' <=> Minting(m)) /\ (Minting(m) => SameMint(m))
    <3>1. conn[c].pc # "minting" /\ conn' = [conn EXCEPT ![c] = Out]
      BY <2>3 DEF WakeOnSignal, WakeOnTimer, Waiting
    <3>2. QED
      BY <1>1, <3>1, OutType, ConnMovesQuietly
  <2>4. QED
    BY <2>1, <2>2, <2>3 DEF DutyStep, SaveSnapshot, SaveWrite, Broadcast, PeriodicSave
<1>3. QED
  BY <1>1, <1>2, ClaimsQuiet

\* Deadlines clear flags that are not claims.
LEMMA ClaimsDeadline ==
  ASSUME TypeOK, TypeOK', ClaimsInv, NEW s \in Slots, SlotDeadline(s)
  PROVE  ClaimsInv'
<1>1. UNCHANGED <<nextGen, grower>> /\ (UNCHANGED conn \/ conn' = Woken)
  BY DEF SlotDeadline, SaturationEnds, CooldownEnds, PendingEnds
<1>2. \A m \in Minters : (Minting(m)' <=> Minting(m)) /\ (Minting(m) => SameMint(m))
  BY <1>1, NobodyMoves, NobodyMintsWhenWoken
<1>3. pool[s] \in Entries
  BY DEF TypeOK
<1>4. \E e : e.gen = pool[s].gen /\ e.fetching = pool[s].fetching
             /\ pool' = [pool EXCEPT ![s] = e]
  <2>1. CASE SaturationEnds(s)
    <3>1. pool' = [pool EXCEPT ![s] = [pool[s] EXCEPT !.sat = FALSE]]
      BY <2>1 DEF SaturationEnds, TypeOK
    <3>2. QED
      BY <1>3, <3>1, SeatEdit
  <2>2. CASE CooldownEnds(s)
    <3>1. pool' = [pool EXCEPT ![s] = [pool[s] EXCEPT !.cooling = FALSE]]
      BY <2>2 DEF CooldownEnds, TypeOK
    <3>2. QED
      BY <1>3, <3>1, SeatEdit
  <2>3. CASE PendingEnds(s)
    <3>1. pool' = [pool EXCEPT ![s] = [pool[s] EXCEPT !.pending = FALSE]]
      BY <2>3 DEF PendingEnds, TypeOK
    <3>2. QED
      BY <1>3, <3>1, SeatEdit
  <2>4. QED
    BY <2>1, <2>2, <2>3 DEF SlotDeadline
<1>5. \A t \in Slots : pool'[t].gen = pool[t].gen /\ pool'[t].fetching = pool[t].fetching
  BY <1>4, OneSlotEdited
<1>6. QED
  BY <1>1, <1>2, <1>5, ClaimsQuiet

\* Path events keep every claim; a reset keeps the mints and drops the claims;
\* a restart drops both.
LEMMA ClaimsEnvironment ==
  ASSUME TypeOK, TypeOK', ClaimsInv, Environment
  PROVE  ClaimsInv'
<1>1. ASSUME NEW recent \in SUBSET Slots, PathChange(recent)
      PROVE  ClaimsInv'
  <2>1. \A s \in Slots : pool[s] \in Entries
    BY DEF TypeOK
  <2>2. \A s \in Slots : pool'[s] = pool[s] \/ pool'[s] = [pool[s] EXCEPT !.sat = TRUE]
    BY <1>1 DEF PathChange
  <2>3. \A s \in Slots : pool'[s].gen = pool[s].gen /\ pool'[s].fetching = pool[s].fetching
    BY <2>1, <2>2, SeatEdit
  <2>4. \A m \in Minters : (Minting(m)' <=> Minting(m)) /\ (Minting(m) => SameMint(m))
    BY <1>1, NobodyMoves DEF PathChange
  <2>5. QED
    BY <1>1, <2>3, <2>4, ClaimsQuiet DEF PathChange
<1>2. CASE ExtendPause \/ PauseEnds \/ \E k \in Creds : Expire(k)
  <2>1. UNCHANGED <<pool, nextGen, grower>> /\ (UNCHANGED conn \/ conn' = Woken)
    BY <1>2 DEF ExtendPause, PauseEnds, Expire, shared
  <2>2. \A m \in Minters : (Minting(m)' <=> Minting(m)) /\ (Minting(m) => SameMint(m))
    BY <2>1, NobodyMoves, NobodyMintsWhenWoken
  <2>3. QED
    BY <2>1, <2>2, ClaimsQuiet
<1>3. CASE Invalidate
  <2>1. \A s \in Slots : pool'[s].gen = 0 /\ pool'[s].fetching = FALSE
    BY <1>3, BlankType DEF Invalidate
  <2>2. \A m \in Minters : (Minting(m)' <=> Minting(m)) /\ (Minting(m) => SameMint(m))
    BY <1>3, NobodyMoves DEF Invalidate
  <2>3. QED
    BY <1>3, <2>1, <2>2, ClaimsQuiet DEF Invalidate
<1>4. ASSUME NEW recent \in SUBSET Slots, NEW seed, Restart(recent, seed)
      PROVE  ClaimsInv'
  <2>1. \A s \in Slots : pool'[s].gen = 0 /\ pool'[s].fetching = FALSE
    BY <1>4, RestartPool
  <2>2. \A m \in Minters : ~Minting(m)'
    <3>1. \A c \in Conns : conn'[c].pc # "minting"
      BY <1>4, OutType DEF Restart
    <3>2. \A g \in Growers : ~grower'[g].minting
      BY <1>4 DEF Restart, GrowerIdle
    <3>3. QED
      BY <3>1, <3>2 DEF Minting, Minters
  <2>3. nextGen' = 0
    BY <1>4 DEF Restart
  <2>4. QED
    BY <2>1, <2>2, <2>3, ClaimsKept DEF DropsClaim
<1>5. QED
  BY <1>1, <1>2, <1>3, <1>4 DEF Environment

LEMMA ClaimsInit == Init => ClaimsInv
<1> SUFFICES ASSUME Init PROVE ClaimsInv
  OBVIOUS
<1>1. \A s \in Slots : pool[s].gen = 0 /\ pool[s].fetching = FALSE
  <2>1. PICK k : pool = [s \in Slots |-> IF s = 0 /\ k # NoCred THEN Filled(k, 0, 0) ELSE Blank]
    BY DEF Init
  <2>2. Filled(k, 0, 0).gen = 0 /\ Filled(k, 0, 0).fetching = FALSE
    BY FilledFields, Zenon
  <2>3. QED
    BY <2>1, <2>2, BlankType
<1>2. \A m \in Minters : ~Minting(m)
  BY OutType DEF Init, Minting, Minters, GrowerIdle
<1>3. nextGen = 0
  BY DEF Init
<1>4. QED
  BY <1>1, <1>2, <1>3 DEF ClaimsInv, ClaimIntegrity, StampsIssued, HeldBy

LEMMA ClaimsStep == TypeOK /\ TypeOK' /\ ClaimsInv /\ [Next]_vars => ClaimsInv'
<1> SUFFICES ASSUME TypeOK, TypeOK', ClaimsInv, [Next]_vars PROVE ClaimsInv'
  OBVIOUS
<1>1. ASSUME NEW c \in Conns, ConnStep(c) PROVE ClaimsInv'
  BY <1>1, ClaimsAcquire, ClaimsConnMint, ClaimsSessionEnd, ClaimsDuty DEF ConnStep
<1>2. ASSUME NEW g \in Growers, GrowerStep(g) PROVE ClaimsInv'
  BY <1>2, ClaimsGrower
<1>3. ASSUME NEW p \in Minters \cup {Saver}, DutyStep(p) PROVE ClaimsInv'
  BY <1>3, ClaimsDuty
<1>4. CASE PeriodicSave
  BY <1>4, ClaimsDuty
<1>5. ASSUME NEW s \in Slots, SlotDeadline(s) PROVE ClaimsInv'
  BY <1>5, ClaimsDeadline
<1>6. CASE Environment
  BY <1>6, ClaimsEnvironment
<1>7. CASE UNCHANGED vars
  <2>1. UNCHANGED <<pool, nextGen, conn, grower>>
    BY <1>7 DEF vars, shared
  <2>2. QED
    BY <2>1, NobodyMoves, ClaimsQuiet
<1>8. QED
  BY <1>1, <1>2, <1>3, <1>4, <1>5, <1>6, <1>7 DEF Next

\* A slot is claimed exactly while one mint in flight carries its stamp, and
\* no two mints carry the same one (claimForFetchLocked, ownsLocked).
THEOREM ClaimsIntact == Spec => []ClaimIntegrity
<1>1. Spec => []ClaimsInv
  BY TypeCorrect, ClaimsInit, ClaimsStep, PTL DEF Spec
<1>2. ClaimsInv => ClaimIntegrity
  BY DEF ClaimsInv
<1>3. QED
  BY <1>1, <1>2, PTL

-----------------------------------------------------------------------------
(* Who may fill a slot *)

\* No edit of a flag, a count or a claim changes the credential of an entry.
LEMMA CredEdit ==
  ASSUME NEW e \in Entries
  PROVE  /\ [e EXCEPT !.active = @ + 1].cred = e.cred
         /\ Released(e).cred = e.cred
         /\ \A b \in BOOLEAN : /\ [e EXCEPT !.sat = b].cred = e.cred
                               /\ [e EXCEPT !.cooling = b].cred = e.cred
                               /\ [e EXCEPT !.pending = b].cred = e.cred
         /\ \A g \in Nat : [e EXCEPT !.fetching = TRUE, !.gen = g].cred = e.cred
  BY DEF Entries, Released

LEMMA OneSlotSameCred ==
  ASSUME TypeOK, NEW s \in Slots, NEW e, e.cred = pool[s].cred,
         pool' = [pool EXCEPT ![s] = e]
  PROVE  \A t \in Slots : pool'[t].cred = pool[t].cred
  BY DEF TypeOK

LEMMA ClaimSameCred ==
  ASSUME TypeOK, NEW s \in Slots, Claim(s)
  PROVE  \A t \in Slots : pool'[t].cred = pool[t].cred
<1>1. pool[s] \in Entries /\ nextGen + 1 \in Nat
  BY DEF TypeOK
<1>2. pool' = [pool EXCEPT ![s] = [pool[s] EXCEPT !.fetching = TRUE, !.gen = nextGen + 1]]
  BY DEF Claim, TypeOK
<1>3. QED
  BY <1>1, <1>2, CredEdit, OneSlotSameCred

\* Nobody but a finishing mint puts a credential into slot s.
NotFilled(s) == pool'[s].cred \in {NoCred, pool[s].cred}

\* Mint m ends and fills slot s: its own, or an empty one without a claim.
FilledBy(s, m) ==
  /\ Minting(m)
  /\ ~Minting(m)'
  /\ HeldBy(s, m) \/ (pool[s].cred = NoCred /\ ~pool[s].fetching)

\* A published credential lands in the owner's slot or in an empty one.
LEMMA PublishFills ==
  ASSUME TypeOK, NEW m \in Minters, Minting(m), ~Minting(m)', NEW k \in Creds,
         NEW seat \in {0, 1}, Publish(m, k, seat), NEW s \in Slots
  PROVE  NotFilled(s) \/ FilledBy(s, m)
<1>1. CASE Owns(m) /\ pool' = [pool EXCEPT ![TargetOf(m)] = Filled(k, seat, StampOf(m))]
  <2>1. CASE s = TargetOf(m)
    BY <1>1, <2>1 DEF FilledBy, HeldBy, Owns
  <2>2. CASE s # TargetOf(m)
    BY <1>1, <2>2, MinterType DEF TypeOK, NotFilled
  <2>3. QED
    BY <2>1, <2>2
<1>2. ASSUME NEW t \in PlaceFor(k), pool' = [pool EXCEPT ![t] = Filled(k, seat, nextGen + 1)]
      PROVE  NotFilled(s) \/ FilledBy(s, m)
  <2>1. t \in Slots /\ pool[t].cred = NoCred /\ ~pool[t].fetching
    BY PlaceForEmpty
  <2>2. CASE s = t
    BY <2>1, <2>2 DEF FilledBy
  <2>3. CASE s # t
    BY <1>2, <2>3 DEF TypeOK, NotFilled
  <2>4. QED
    BY <2>2, <2>3
<1>3. QED
  BY <1>1, <1>2 DEF Publish

LEMMA FallBackFills ==
  ASSUME TypeOK, NEW c \in Conns, conn[c].pc = "minting", FallBack(c), NEW s \in Slots
  PROVE  NotFilled(s)
<1>1. c \in Minters /\ Minting(c)
  BY DEF Minters, Minting
<1>2. /\ FailedPool(c) \in [Slots -> Entries]
      /\ \A t \in Slots : FailedPool(c)[t].cred = pool[t].cred
  BY <1>1, FailedPoolType
<1>3. CASE pool' = FailedPool(c)
  BY <1>2, <1>3 DEF NotFilled
<1>4. ASSUME NEW t \in PickSeat(OwnSlot(c)), pool' = [FailedPool(c) EXCEPT ![t].active = @ + 1]
      PROVE  NotFilled(s)
  <2>1. t \in Slots
    BY PickSeatInSeats DEF Seats
  <2>2. pool' = [FailedPool(c) EXCEPT ![t] = [FailedPool(c)[t] EXCEPT !.active = @ + 1]]
    BY <1>2, <1>4, <2>1
  <2>3. [FailedPool(c)[t] EXCEPT !.active = @ + 1].cred = FailedPool(c)[t].cred
    BY <1>2, <2>1, CredEdit
  <2>4. QED
    BY <1>2, <2>1, <2>2, <2>3 DEF NotFilled
<1>5. QED
  BY <1>3, <1>4 DEF FallBack

LEMMA ConnFills ==
  ASSUME TypeOK, NEW c \in Conns, ConnStep(c), NEW s \in Slots
  PROVE  NotFilled(s) \/ FilledBy(s, c)
<1>1. CASE TakeChannel(c) \/ GetPaused(c) \/ GetRefused(c) \/ WakeOnSignal(c) \/ WakeOnTimer(c)
  BY <1>1 DEF TakeChannel, GetPaused, GetRefused, WakeOnSignal, WakeOnTimer, NotFilled, shared
<1>2. CASE GetSeat(c)
  <2>1. PICK t \in PickSeat(OwnSlot(c)) : TakeSeat(c, t)
    BY <1>2 DEF GetSeat
  <2>2. t \in Slots /\ pool[t] \in Entries
    BY PickSeatInSeats DEF Seats, TypeOK
  <2>3. pool' = [pool EXCEPT ![t] = [pool[t] EXCEPT !.active = @ + 1]]
    BY <2>1, <2>2 DEF TakeSeat, TypeOK
  <2>4. QED
    BY <2>2, <2>3, CredEdit, OneSlotSameCred DEF NotFilled
<1>3. CASE GetClaim(c)
  BY <1>3, MintTargetUntouched, ClaimSameCred DEF GetClaim, NotFilled
<1>4. CASE ConnMinted(c) \/ ConnMintFailed(c)
  <2>1. conn[c].pc = "minting" /\ c \in Minters /\ Minting(c) /\ UNCHANGED grower
    BY <1>4 DEF ConnMinted, ConnMintFailed, Minters, Minting
  <2>2. ASSUME NEW k \in Creds, Publish(c, k, 1)
        PROVE  NotFilled(s) \/ FilledBy(s, c)
    <3>1. PICK t : Sit(c, t, k)
      BY <2>2 DEF Publish
    <3>2. [Out EXCEPT !.pc = "seated", !.slot = t, !.cred = k].pc # "minting"
      BY DEF Out
    <3>3. ~Minting(c)'
      BY <2>1, <3>1, <3>2, ConnMoves DEF Sit
    <3>4. QED
      BY <2>1, <2>2, <3>3, PublishFills
  <2>3. QED
    BY <1>4, <2>1, <2>2, FallBackFills DEF ConnMinted, ConnMintFailed
<1>5. CASE MarkSaturated(c) \/ InvalidateEntry(c) \/ Release(c)
  <2>1. conn[c].slot \in Slots /\ pool[conn[c].slot] \in Entries
    BY DEF TypeOK, Locations
  <2>2. CASE MarkSaturated(c)
    <3>1. pool' = [pool EXCEPT ![conn[c].slot] = [pool[conn[c].slot] EXCEPT !.sat = TRUE]]
      BY <2>1, <2>2 DEF MarkSaturated, TypeOK
    <3>2. QED
      BY <2>1, <3>1, CredEdit, OneSlotSameCred DEF NotFilled
  <2>3. CASE InvalidateEntry(c)
    <3>1. pool' = [pool EXCEPT ![conn[c].slot] = Blank] /\ Blank.cred = NoCred
      BY <2>3 DEF InvalidateEntry, Blank
    <3>2. QED
      BY <2>1, <3>1 DEF TypeOK, NotFilled
  <2>4. CASE Release(c)
    <3>1. pool' = [pool EXCEPT ![conn[c].slot] = Released(pool[conn[c].slot])]
      BY <2>1, <2>4 DEF Release, TypeOK
    <3>2. QED
      BY <2>1, <3>1, CredEdit, OneSlotSameCred DEF NotFilled
  <2>5. QED
    BY <1>5, <2>2, <2>3, <2>4
<1>6. QED
  BY <1>1, <1>2, <1>3, <1>4, <1>5 DEF ConnStep, Acquire

LEMMA GrowerFills ==
  ASSUME TypeOK, NEW g \in Growers, GrowerStep(g), NEW s \in Slots
  PROVE  NotFilled(s) \/ FilledBy(s, g)
<1>1. g \in Minters /\ g \notin Conns
  BY GrowersAssumption DEF Minters, Conns
<1>2. ASSUME NEW t \in Slots, NEW guarded \in BOOLEAN, TryFill(g, t, guarded)
      PROVE  NotFilled(s)
  BY <1>2, ClaimSameCred DEF TryFill, NotFilled
<1>3. CASE GrowerMinted(g) \/ GrowerMintFailed(g)
  <2>1. grower' = [grower EXCEPT ![g] = GrowerIdle] /\ grower[g].minting
    BY <1>3 DEF GrowerMinted, GrowerMintFailed
  <2>2. Minting(g) /\ ~Minting(g)'
    BY <1>1, <2>1 DEF Minting, GrowerIdle, TypeOK
  <2>3. ASSUME NEW k \in Creds, Publish(g, k, 0)
        PROVE  NotFilled(s) \/ FilledBy(s, g)
    BY <1>1, <2>2, <2>3, PublishFills
  <2>4. CASE UNCHANGED pool
    BY <2>4 DEF NotFilled
  <2>5. CASE pool' = FailedPool(g)
    BY <1>1, <2>2, <2>5, FailedPoolType DEF NotFilled
  <2>6. QED
    BY <1>3, <2>3, <2>4, <2>5 DEF GrowerMinted, GrowerMintFailed, shared
<1>4. QED
  BY <1>2, <1>3 DEF GrowerStep

\* Deadlines, path events and resets fill no slot; a restart is told by its
\* counter.
LEMMA OthersFillNothing ==
  ASSUME TypeOK, NEW s \in Slots, nextGen' # 0,
         \/ \E t \in Slots : SlotDeadline(t)
         \/ Environment
         \/ \E p \in Minters \cup {Saver} : DutyStep(p)
         \/ PeriodicSave
         \/ UNCHANGED vars
  PROVE  NotFilled(s)
<1>1. ASSUME NEW t \in Slots, SlotDeadline(t)
      PROVE  NotFilled(s)
  <2>1. pool[t] \in Entries
    BY DEF TypeOK
  <2>2. \/ pool' = [pool EXCEPT ![t] = [pool[t] EXCEPT !.sat = FALSE]]
        \/ pool' = [pool EXCEPT ![t] = [pool[t] EXCEPT !.cooling = FALSE]]
        \/ pool' = [pool EXCEPT ![t] = [pool[t] EXCEPT !.pending = FALSE]]
    BY <1>1 DEF SlotDeadline, SaturationEnds, CooldownEnds, PendingEnds, TypeOK
  <2>3. QED
    BY <2>1, <2>2, CredEdit, OneSlotSameCred DEF NotFilled
<1>2. ASSUME NEW recent \in SUBSET Slots, PathChange(recent)
      PROVE  NotFilled(s)
  <2>1. pool[s] \in Entries
    BY DEF TypeOK
  <2>2. pool'[s] = pool[s] \/ pool'[s] = [pool[s] EXCEPT !.sat = TRUE]
    BY <1>2 DEF PathChange
  <2>3. QED
    BY <2>1, <2>2, CredEdit DEF NotFilled
<1>3. CASE Invalidate
  BY <1>3 DEF Invalidate, NotFilled, Blank
<1>4. ASSUME NEW recent, NEW seed, Restart(recent, seed)
      PROVE  FALSE
  BY <1>4 DEF Restart
<1>5. CASE UNCHANGED pool
  BY <1>5 DEF NotFilled
<1>6. QED
  BY <1>1, <1>2, <1>3, <1>4, <1>5
     DEF Environment, ExtendPause, PauseEnds, Expire, DutyStep, SaveSnapshot, SaveWrite,
         Broadcast, PeriodicSave, vars, shared

\* Every credential that appears in a slot was put there by a finishing mint.
LEMMA WhoFills ==
  ASSUME TypeOK, [Next]_vars, nextGen' # 0, NEW s \in Slots, ~NotFilled(s)
  PROVE  \E m \in Minters : FilledBy(s, m)
<1>1. CASE \E c \in Conns : ConnStep(c)
  BY <1>1, ConnFills DEF Minters
<1>2. CASE \E g \in Growers : GrowerStep(g)
  BY <1>2, GrowerFills DEF Minters
<1>3. QED
  BY <1>1, <1>2, OthersFillNothing DEF Next

\* A credential is overwritten by another only by the mint that holds the
\* slot's stamp (get and tryFill after ownsLocked, placeIntoEmptySlotLocked).
THEOREM OwnerOverwrites == Spec => OnlyOwnerOverwrites
<1> DEFINE Step1 == \A s \in Slots :
                      /\ pool[s].cred # NoCred
                      /\ pool'[s].cred \notin {NoCred, pool[s].cred}
                      /\ nextGen' # 0
                      => \E m \in Minters : HeldBy(s, m)
<1>1. TypeOK /\ [Next]_vars => Step1
  BY WhoFills DEF NotFilled, FilledBy
<1>2. TypeOK /\ [Next]_vars => [Step1]_vars
  BY <1>1
<1> HIDE DEF Step1
<1>3. Spec => [][Step1]_vars
  BY <1>2, TypeCorrect, PTL DEF Spec
<1>4. QED
  BY <1>3 DEF OnlyOwnerOverwrites, Step1

\* While a mint holds a slot, only the end of that mint fills it.
THEOREM OwnerFills == Spec => ClaimedSlotFilledByOwner
<1> DEFINE Step1 == \A s \in Slots, m \in Minters :
                      /\ HeldBy(s, m)
                      /\ pool'[s].cred \notin {NoCred, pool[s].cred}
                      /\ nextGen' # 0
                      => ~Minting(m)'
<1>1. ASSUME TypeOK, ClaimIntegrity, [Next]_vars PROVE Step1
  <2> SUFFICES ASSUME NEW s \in Slots, NEW m \in Minters, HeldBy(s, m),
                      ~NotFilled(s), nextGen' # 0
               PROVE  ~Minting(m)'
    BY DEF NotFilled
  <2>1. PICK n \in Minters : FilledBy(s, n)
    BY <1>1, WhoFills
  <2>2. pool[s].fetching
    BY <1>1 DEF ClaimIntegrity
  <2>3. HeldBy(s, n)
    BY <2>1, <2>2 DEF FilledBy
  <2>4. m = n
    BY <1>1, <2>3 DEF ClaimIntegrity, HeldBy
  <2>5. QED
    BY <2>1, <2>4 DEF FilledBy
<1>2. TypeOK /\ ClaimIntegrity /\ [Next]_vars => [Step1]_vars
  BY <1>1
<1> HIDE DEF Step1
<1>3. Spec => [][Step1]_vars
  BY <1>2, TypeCorrect, ClaimsIntact, PTL DEF Spec
<1>4. QED
  BY <1>3 DEF ClaimedSlotFilledByOwner, Step1

=============================================================================
