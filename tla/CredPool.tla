------------------------------ MODULE CredPool ------------------------------
(***************************************************************************)
(* The TURN credential pool (pkg/proxy/creds.go, type credPool): slots     *)
(* filled by mints that run without the lock, seats counted per slot,      *)
(* cooldowns, the path-change pause, the wake-up broadcast and the on-disk *)
(* cache.  Its users are the connections (runConnection of proxy.go, or    *)
(* the csqtt workers behind csqttPoolAdapter) and the background grower.   *)
(*                                                                         *)
(* Time is abstracted to the order of events: a deadline is a flag that    *)
(* one action sets and an action of the environment clears.                *)
(***************************************************************************)
EXTENDS Integers, FiniteSets, Sequences

CONSTANTS
  NumConns,      \* connections configured (cfg.NumConns)
  Size,          \* slots in the pool (credPool.size)
  ConnsPerSlot,  \* VK's allocation quota per credential (connsPerSlot)
  Growers,       \* background growers running at once
  Saver,         \* the periodic saver (runPeriodicSave)
  CookieModes,   \* settings of cookieAuthEnabled an instance includes
  CaptureFirst,  \* the wait channel is read before the acquire (csqtt) or after it
  Caching,       \* cachePath # ""
  Events,        \* which environment events an instance includes
  MaxMints,      \* bound: mints VK answers
  MaxGen         \* bound: only the first MaxGen claims may fail

EventKinds == {"expire", "path", "quota", "reject", "reset", "restart"}

ASSUME ConstantsAssumption ==
  /\ NumConns \in Nat \ {0}
  /\ Size \in Nat \ {0}
  /\ ConnsPerSlot \in Nat \ {0}
  /\ MaxMints \in Nat
  /\ MaxGen \in Nat
  /\ CookieModes \subseteq BOOLEAN
  /\ CaptureFirst \in BOOLEAN
  /\ Caching \in BOOLEAN
  /\ Events \subseteq EventKinds

ASSUME GrowersAssumption ==
  /\ IsFiniteSet(Growers)
  /\ Growers \cap (0 .. NumConns - 1) = {}
  /\ Saver \notin Growers \cup (0 .. NumConns - 1)

Slots == 0 .. Size - 1
Conns == 0 .. NumConns - 1
Minters == Conns \cup Growers

\* Credential 0 is nil.  Anonymous mints are numbered in order; in cookie
\* mode credential s + 1 is the (call, relay) bucket of slot s.
NoCred == 0
Bucket(s) == s + 1
Creds == (1 .. MaxMints) \cup {Bucket(s) : s \in Slots}

\* ceil(n / ConnsPerSlot), at least 1 and at most the pool.
ColdStartTarget ==
  LET wanted == (NumConns + ConnsPerSlot - 1) \div ConnsPerSlot
  IN  IF wanted > Size THEN Size ELSE wanted

\* The slot a connection prefers to live on.
OwnSlot(c) ==
  LET own == c \div ConnsPerSlot IN IF own >= Size THEN Size - 1 ELSE own

VARIABLES
  cookie,    \* VKAuth: a slot is bound to one credential (cookieAuthEnabled)
  pool,      \* the slots
  nextGen,   \* last claim stamp handed out
  paused,    \* now < pauseAcquireUntil
  conn,      \* each connection: where it is, its slot, credential, stamp, channel
  grower,    \* each grower: the claim of its mint in flight
  duty,      \* what a process still does after unlocking: save, write, cast
  snap,      \* the snapshot a saver took under mu and has not written yet
  disk,      \* the cache file
  minted,    \* VK: mints answered so far
  expired,   \* credentials within credExpiryBuffer of their expiry
  displaced, \* history: a slot was overwritten or cleared under live seats
  rejected   \* history: credentials dropped by invalidateEntry

shared == <<cookie, pool, nextGen, paused>>
cache == <<snap, disk>>
vk == <<minted, expired>>
history == <<displaced, rejected>>
vars == <<shared, conn, grower, duty, cache, vk, history>>

-----------------------------------------------------------------------------
(* Slots and their predicates *)

Blank == [cred |-> NoCred, pending |-> FALSE, cooling |-> FALSE,
          fetching |-> FALSE, gen |-> 0, active |-> 0, sat |-> FALSE,
          used |-> FALSE]

Filled(k, active, gen) ==
  [Blank EXCEPT !.cred = k, !.active = active, !.gen = gen]

Valid(e) == e.cred # NoCred /\ e.cred \notin expired
Fresh(e) == Valid(e) /\ ~e.pending
Pending(e) == Valid(e) /\ e.pending
Available(e) == Fresh(e) /\ ~e.sat

BugSeats == {s \in Slots : Available(pool[s])}  \* the quota is not checked


BugSeatsSaturated ==  \* saturation is not checked
  {s \in Slots : Fresh(pool[s]) /\ pool[s].active < ConnsPerSlot}

\* Slots Phase 1 may hand a seat out from.
Seats == {s \in Slots : Available(pool[s]) /\ pool[s].active < ConnsPerSlot}

Lowest(S) == {s \in S : \A t \in S : s <= t}

Prefer(own, S) == IF own \in S THEN {own} ELSE Lowest(S)

\* Own slot, else the most used one (compact fill), lowest index on a tie.
PickSeat(own) ==
  Prefer(own, IF own \in Seats
              THEN Seats
              ELSE {s \in Seats : \A t \in Seats : pool[t].active <= pool[s].active})

Untouched(e) == ~e.fetching /\ ~e.cooling

\* Slots with nothing to lose; pickSlotToFill uses the same test.
Refillable == {s \in Slots : /\ ~Fresh(pool[s])
                             /\ ~Pending(pool[s])
                             /\ Untouched(pool[s])}

\* Second pass of Phase 2: saturated, and nobody bound to it at this moment.
Reclaimable == {s \in Slots : /\ pool[s].cred # NoCred
                              /\ pool[s].sat
                              /\ pool[s].active = 0
                              /\ Untouched(pool[s])}

MintTarget(own) ==
  IF Refillable # {} THEN Prefer(own, Refillable) ELSE Prefer(own, Reclaimable)

BugReadySlots == {s \in Slots : Fresh(pool[s])}  \* counts saturated slots

ReadySlots == {s \in Slots : Available(pool[s])}
InFlight == {s \in Slots : pool[s].fetching}

BugCapReached ==  \* mints in flight are not counted
  Cardinality(ReadySlots) >= ColdStartTarget

CapReached == Cardinality(ReadySlots) + Cardinality(InFlight) >= ColdStartTarget

-----------------------------------------------------------------------------
(* Connections and seats *)

Out == [pc |-> "ready", slot |-> 0, cred |-> NoCred, stamp |-> 0, ch |-> "none"]
GrowerIdle == [minting |-> FALSE, slot |-> 0, stamp |-> 0]

Seated(c) == conn[c].pc \in {"seated", "closing"}
Sitting(s) == {c \in Conns : Seated(c) /\ conn[c].slot = s}
Holders(s) == {c \in Sitting(s) : conn[c].cred = pool[s].cred}
UsersOf(k) == {c \in Conns : Seated(c) /\ conn[c].cred = k}

Minting(m) == IF m \in Conns THEN conn[m].pc = "minting" ELSE grower[m].minting
TargetOf(m) == IF m \in Conns THEN conn[m].slot ELSE grower[m].slot
StampOf(m) == IF m \in Conns THEN conn[m].stamp ELSE grower[m].stamp

BugOwns(m) == TRUE  \* the stamp is not compared

\* ownsLocked: the slot still carries this mint's stamp.
Owns(m) == pool[TargetOf(m)].gen = StampOf(m)

Free(p) == duty[p] = <<>>

Waiting(c) == conn[c].pc = "refused" /\ conn[c].ch # "none"

Sit(c, s, k) ==
  conn' = [conn EXCEPT ![c] = [Out EXCEPT !.pc = "seated", !.slot = s, !.cred = k]]

\* get() returned an error: the caller waits, on the channel it already has
\* (CaptureFirst) or on the one it reads next.
Refuse(c) ==
  conn' = [conn EXCEPT ![c] = [Out EXCEPT !.pc = "refused", !.ch = conn[c].ch]]

BugTakeSeat(c, s) ==  \* the seat is not counted
  /\ UNCHANGED pool
  /\ Sit(c, s, pool[s].cred)

TakeSeat(c, s) ==
  /\ pool' = [pool EXCEPT ![s].active = @ + 1]
  /\ Sit(c, s, pool[s].cred)

-----------------------------------------------------------------------------
(* get(): the steps before the lock is dropped *)

\* Reading slotAvailableChannel(): before the acquire in csqttPoolAdapter,
\* after the failed session in runConnection.
TakeChannel(c) ==
  /\ Free(c)
  /\ conn[c].ch = "none"
  /\ conn[c].pc = (IF CaptureFirst THEN "ready" ELSE "refused")
  /\ conn' = [conn EXCEPT ![c].ch = "open"]
  /\ UNCHANGED <<shared, grower, duty, cache, vk, history>>

Asking(c) ==
  /\ Free(c)
  /\ conn[c].pc = "ready"
  /\ CaptureFirst => conn[c].ch # "none"

GetPaused(c) ==
  /\ Asking(c)
  /\ paused
  /\ Refuse(c)
  /\ UNCHANGED <<shared, grower, duty, cache, vk, history>>

GetSeat(c) ==
  /\ Asking(c)
  /\ ~paused
  /\ \E s \in PickSeat(OwnSlot(c)) : TakeSeat(c, s)
  /\ UNCHANGED <<cookie, nextGen, paused, grower, duty, cache, vk, history>>

\* Parked by the cold-start cap, or no slot to mint into.
GetRefused(c) ==
  /\ Asking(c)
  /\ ~paused
  /\ Seats = {}
  /\ CapReached \/ MintTarget(OwnSlot(c)) = {}
  /\ Refuse(c)
  /\ UNCHANGED <<shared, grower, duty, cache, vk, history>>

\* claimForFetchLocked
Claim(s) ==
  /\ nextGen' = nextGen + 1
  /\ pool' = [pool EXCEPT ![s].fetching = TRUE, ![s].gen = nextGen + 1]

GetClaim(c) ==
  /\ Asking(c)
  /\ ~paused
  /\ Seats = {}
  /\ ~CapReached
  /\ \E s \in MintTarget(OwnSlot(c)) :
       /\ Claim(s)
       /\ conn' = [conn EXCEPT ![c] = [Out EXCEPT !.pc = "minting", !.slot = s,
                                                  !.stamp = nextGen + 1,
                                                  !.ch = conn[c].ch]]
  /\ UNCHANGED <<cookie, paused, grower, duty, cache, vk, history>>

-----------------------------------------------------------------------------
(* A mint ends: what VK returned, and where it may go *)

\* fetch() returns credential k for slot s: a new one, or in cookie mode the
\* slot's own, renewed.
VKGrants(k, s) ==
  /\ minted < MaxMints
  /\ minted' = minted + 1
  /\ k = (IF cookie THEN Bucket(s) ELSE minted + 1)
  /\ expired' = expired \ {k}

VKRefuses == nextGen <= MaxGen /\ UNCHANGED vk

BugPlaceFor(k) ==  \* no refusal in cookie mode
  Lowest({s \in Slots : pool[s].cred = NoCred /\ ~pool[s].fetching})

BugPlaceClaimed(k) ==  \* an empty slot somebody is minting into
  IF cookie \/ \E s \in Slots : pool[s].cred = k THEN {}
  ELSE Lowest({s \in Slots : pool[s].cred = NoCred})

\* placeIntoEmptySlotLocked: where a credential whose slot changed hands goes.
PlaceFor(k) ==
  IF cookie \/ \E s \in Slots : pool[s].cred = k
  THEN {}
  ELSE Lowest({s \in Slots : pool[s].cred = NoCred /\ ~pool[s].fetching})

BugAfterPublish == IF Caching THEN <<"save", "write">> ELSE <<>>  \* nobody is woken

AfterPublish == IF Caching THEN <<"save", "write", "cast">> ELSE <<"cast">>

\* The owner replaces the entry; a displaced mint goes to an empty slot.
Publish(m, k, seat) ==
  /\ duty' = [duty EXCEPT ![m] = AfterPublish]
  /\ \/ LET s == TargetOf(m) IN
        /\ Owns(m)
        /\ pool' = [pool EXCEPT ![s] = Filled(k, seat, StampOf(m))]
        /\ displaced' = (displaced \/ Holders(s) # {})
        /\ m \in Conns => Sit(m, s, k)
        /\ UNCHANGED nextGen
     \/ \E s \in PlaceFor(k) :
        /\ ~Owns(m)
        /\ pool' = [pool EXCEPT ![s] = Filled(k, seat, nextGen + 1)]
        /\ nextGen' = nextGen + 1
        /\ m \in Conns => Sit(m, s, k)
        /\ UNCHANGED displaced

BugFailedPool(m) ==  \* the claim of a failed mint is kept
  IF Owns(m) THEN [pool EXCEPT ![TargetOf(m)].cooling = TRUE] ELSE pool

\* A failed mint clears its own claim and puts its slot on cooldown.
FailedPool(m) ==
  IF Owns(m)
  THEN [pool EXCEPT ![TargetOf(m)].fetching = FALSE, ![TargetOf(m)].cooling = TRUE]
  ELSE pool

\* get()'s failure path: a seat another process provided meanwhile, or an error.
FallBack(c) ==
  \/ \E s \in PickSeat(OwnSlot(c)) :
       /\ pool' = [FailedPool(c) EXCEPT ![s].active = @ + 1]
       /\ Sit(c, s, pool[s].cred)
  \/ /\ Seats = {}
     /\ pool' = FailedPool(c)
     /\ Refuse(c)

ConnMinted(c) ==
  /\ conn[c].pc = "minting"
  /\ \E k \in Creds :
       /\ VKGrants(k, conn[c].slot)
       /\ \/ /\ Publish(c, k, 1)
             /\ UNCHANGED <<cookie, paused, grower, cache, rejected>>
          \/ /\ ~Owns(c) /\ PlaceFor(k) = {}
             /\ FallBack(c)
             /\ UNCHANGED <<cookie, nextGen, paused, grower, duty, cache, history>>

ConnMintFailed(c) ==
  /\ conn[c].pc = "minting"
  /\ VKRefuses
  /\ FallBack(c)
  /\ UNCHANGED <<cookie, nextGen, paused, grower, duty, cache, history>>

-----------------------------------------------------------------------------
(* tryFill(), the background grower's fill of slot s.  With the cold-start *)
(* guard it starts no mint once enough slots are available.                *)

TryFill(g, s, guarded) ==
  /\ Free(g)
  /\ ~grower[g].minting
  /\ s \in Refillable
  /\ guarded => Cardinality(ReadySlots) < ColdStartTarget
  /\ Claim(s)
  /\ grower' = [grower EXCEPT ![g] = [minting |-> TRUE, slot |-> s, stamp |-> nextGen + 1]]
  /\ UNCHANGED <<cookie, paused, conn, duty, cache, vk, history>>

GrowerMinted(g) ==
  /\ grower[g].minting
  /\ grower' = [grower EXCEPT ![g] = GrowerIdle]
  /\ \E k \in Creds :
       /\ VKGrants(k, grower[g].slot)
       /\ \/ /\ Publish(g, k, 0)
             /\ UNCHANGED <<cookie, paused, conn, cache, rejected>>
          \/ /\ ~Owns(g) /\ PlaceFor(k) = {}
             /\ UNCHANGED <<shared, conn, duty, cache, history>>

GrowerMintFailed(g) ==
  /\ grower[g].minting
  /\ VKRefuses
  /\ grower' = [grower EXCEPT ![g] = GrowerIdle]
  /\ pool' = FailedPool(g)
  /\ UNCHANGED <<cookie, nextGen, paused, conn, duty, cache, history>>

-----------------------------------------------------------------------------
(* The end of a session: what it reports, then release() *)

\* 486 at allocation: the slot is marked, the seat is released afterwards.
MarkSaturated(c) ==
  /\ "quota" \in Events
  /\ Free(c)
  /\ conn[c].pc = "seated"
  /\ pool' = [pool EXCEPT ![conn[c].slot].sat = TRUE]
  /\ conn' = [conn EXCEPT ![c].pc = "closing"]
  /\ UNCHANGED <<cookie, nextGen, paused, grower, duty, cache, vk, history>>

\* 401/403 at allocation: invalidateEntry clears whatever the slot holds.
InvalidateEntry(c) ==
  /\ "reject" \in Events
  /\ Free(c)
  /\ conn[c].pc = "seated"
  /\ LET s == conn[c].slot IN
     /\ pool' = [pool EXCEPT ![s] = Blank]
     /\ duty' = [duty EXCEPT ![c] = IF Caching /\ pool[s].cred # NoCred
                                    THEN <<"save", "write">> ELSE <<>>]
     /\ rejected' = rejected \cup ({pool[s].cred} \ {NoCred})
     /\ displaced' = (displaced \/ Holders(s) # {})
  /\ conn' = [conn EXCEPT ![c].pc = "closing"]
  /\ UNCHANGED <<cookie, nextGen, paused, grower, cache, vk>>

BugOpensSlot(e) == FALSE  \* a freed seat is not announced

\* A seat at a full, usable slot: giving it up opens the slot to parked conns.
OpensSlot(e) == e.active = ConnsPerSlot /\ Available(e)

BugReleased(e) == IF e.sat THEN e ELSE [e EXCEPT !.active = @ - 1]

Released(e) ==
  IF e.active = 0 THEN e
  ELSE [e EXCEPT !.active = @ - 1, !.used = (@ \/ e.active = 1)]

Release(c) ==
  /\ Free(c)
  /\ Seated(c)
  /\ LET s == conn[c].slot IN
     /\ pool' = [pool EXCEPT ![s] = Released(@)]
     /\ duty' = [duty EXCEPT ![c] = IF OpensSlot(pool[s]) THEN <<"cast">> ELSE <<>>]
  /\ conn' = [conn EXCEPT ![c] = Out]
  /\ UNCHANGED <<cookie, nextGen, paused, grower, cache, vk, history>>

-----------------------------------------------------------------------------
(* After the lock: snapshot under mu, write under saveMu, broadcast *)

Snapshot(p) == [s \in Slots |->
                  [cred |-> p[s].cred,
                   used |-> p[s].cred # NoCred /\ (p[s].used \/ p[s].active > 0)]]

NoSnapshot == [s \in Slots |-> [cred |-> NoCred, used |-> FALSE]]

Step(p, what) ==
  /\ duty[p] # <<>>
  /\ Head(duty[p]) = what
  /\ duty' = [duty EXCEPT ![p] = Tail(@)]

SaveSnapshot(p) ==
  /\ Step(p, "save")
  /\ snap' = [snap EXCEPT ![p] = Snapshot(pool)]
  /\ UNCHANGED <<shared, conn, grower, disk, vk, history>>

SaveWrite(p) ==
  /\ Step(p, "write")
  /\ disk' = snap[p]
  /\ snap' = [snap EXCEPT ![p] = NoSnapshot]
  /\ UNCHANGED <<shared, conn, grower, vk, history>>

\* Closing the shared channel wakes everyone who holds it.
Woken == [c \in Conns |->
            IF conn[c].ch = "open" THEN [conn[c] EXCEPT !.ch = "closed"] ELSE conn[c]]

Broadcast(p) ==
  /\ Step(p, "cast")
  /\ conn' = Woken
  /\ UNCHANGED <<shared, grower, cache, vk, history>>

PeriodicSave ==
  /\ Caching
  /\ Free(Saver)
  /\ duty' = [duty EXCEPT ![Saver] = <<"save", "write">>]
  /\ UNCHANGED <<shared, conn, grower, cache, vk, history>>

WakeOnSignal(c) ==
  /\ Waiting(c)
  /\ conn[c].ch = "closed"
  /\ conn' = [conn EXCEPT ![c] = Out]
  /\ UNCHANGED <<shared, grower, duty, cache, vk, history>>

\* The backstop: dormancy, reconnect delay, csqttAcquireBackstop.
WakeOnTimer(c) ==
  /\ Waiting(c)
  /\ conn' = [conn EXCEPT ![c] = Out]
  /\ UNCHANGED <<shared, grower, duty, cache, vk, history>>

-----------------------------------------------------------------------------
(* Deadlines that pass.  saturationTimer and pauseAcquireTimer broadcast;   *)
(* cooldownUntil, availableAt and the expiry pass silently.                 *)

SaturationEnds(s) ==
  /\ pool[s].sat
  /\ pool' = [pool EXCEPT ![s].sat = FALSE]
  /\ conn' = Woken
  /\ UNCHANGED <<cookie, nextGen, paused, grower, duty, cache, vk, history>>

PauseEnds ==
  /\ paused
  /\ paused' = FALSE
  /\ conn' = Woken
  /\ UNCHANGED <<cookie, pool, nextGen, grower, duty, cache, vk, history>>

CooldownEnds(s) ==
  /\ pool[s].cooling
  /\ pool' = [pool EXCEPT ![s].cooling = FALSE]
  /\ UNCHANGED <<cookie, nextGen, paused, conn, grower, duty, cache, vk, history>>

PendingEnds(s) ==
  /\ pool[s].pending
  /\ pool' = [pool EXCEPT ![s].pending = FALSE]
  /\ UNCHANGED <<cookie, nextGen, paused, conn, grower, duty, cache, vk, history>>

Expire(k) ==
  /\ "expire" \in Events
  /\ k \notin expired
  /\ \E s \in Slots : pool[s].cred = k
  /\ expired' = expired \cup {k}
  /\ UNCHANGED <<shared, conn, grower, duty, cache, minted, history>>

-----------------------------------------------------------------------------
(* Path events and resets *)

\* MarkInUseSlotsForPathChange: slots with seats, and idle ones used within
\* the allocation window (the environment picks which).
PathChange(recent) ==
  /\ "path" \in Events
  /\ \A s \in recent : pool[s].used
  /\ pool' = [s \in Slots |->
                IF /\ pool[s].cred # NoCred
                   /\ ~pool[s].pending
                   /\ pool[s].active > 0 \/ s \in recent
                THEN [pool[s] EXCEPT !.sat = TRUE] ELSE pool[s]]
  /\ paused' = TRUE
  /\ UNCHANGED <<cookie, nextGen, conn, grower, duty, cache, vk, history>>

\* ExtendPauseAcquireForTransition
ExtendPause ==
  /\ "path" \in Events
  /\ ~paused
  /\ paused' = TRUE
  /\ UNCHANGED <<cookie, pool, nextGen, conn, grower, duty, cache, vk, history>>

\* invalidate(), on Pause and Resume: every entry is zeroed, sessions live on
\* until their context ends them.
Invalidate ==
  /\ "reset" \in Events
  /\ pool # [s \in Slots |-> Blank]
  /\ pool' = [s \in Slots |-> Blank]
  /\ displaced' = (displaced \/ \E s \in Slots : Holders(s) # {})
  /\ UNCHANGED <<cookie, nextGen, paused, conn, grower, duty, cache, vk, rejected>>

\* loadFromDisk; "recent" are the slots last used within the cooldown.
Loaded(recent) ==
  [s \in Slots |->
     IF disk[s].cred = NoCred \/ disk[s].cred \in expired THEN Blank
     ELSE [Blank EXCEPT !.cred = disk[s].cred, !.used = disk[s].used,
                        !.pending = (disk[s].used /\ s \in recent)]]

BugSeeded(p, k) ==  \* other copies of k stay
  IF k = NoCred \/ Fresh(p[0]) THEN p ELSE [p EXCEPT ![0] = Filled(k, 0, 0)]

\* seedSlot(0, k): drop other copies of k, keep a different pending cred.
Seeded(p, k) ==
  IF k = NoCred \/ Fresh(p[0]) THEN p
  ELSE LET seeded == [s \in Slots |-> IF s = 0 THEN Filled(k, 0, 0)
                                      ELSE IF p[s].cred = k THEN Blank ELSE p[s]]
           moved == IF p[0].cred \in {NoCred, k} THEN {}
                    ELSE Lowest({s \in Slots : seeded[s].cred = NoCred})
       IN  [s \in Slots |-> IF s \in moved THEN p[0] ELSE seeded[s]]

\* What the app seeds slot 0 with: nothing, the first usable credential of
\* the cache (CredCache.loadValidCred) or, past it, one it minted itself.
Seeds(p) ==
  LET usable == {s \in Slots : Fresh(p[s])} IN
  {NoCred} \cup {p[s].cred : s \in Lowest(usable)}
  \cup (IF usable = {} /\ minted < MaxMints THEN {minted + 1} ELSE {})

\* The process dies (jetsam, stop) and a new one starts from the cache file.
\* seedSlot saves the pool it changed.
Restart(recent, seed) ==
  /\ "restart" \in Events
  /\ ~cookie
  /\ seed \in Seeds(Loaded(recent))
  /\ pool' = Seeded(Loaded(recent), seed)
  /\ disk' = IF Caching /\ pool' # Loaded(recent) THEN Snapshot(pool') ELSE disk
  /\ minted' = IF seed > minted THEN seed ELSE minted
  /\ nextGen' = 0
  /\ paused' = FALSE
  /\ conn' = [c \in Conns |-> Out]
  /\ grower' = [g \in Growers |-> GrowerIdle]
  /\ duty' = [p \in Minters \cup {Saver} |-> <<>>]
  /\ snap' = [p \in Minters \cup {Saver} |-> NoSnapshot]
  /\ displaced' = FALSE
  /\ UNCHANGED <<cookie, expired, rejected>>

-----------------------------------------------------------------------------
\* A first start: no cache file, with or without the app's pre-bootstrap seed.
Init ==
  /\ cookie \in CookieModes
  /\ \E k \in {NoCred} \cup (IF MaxMints > 0 /\ ~cookie THEN {1} ELSE {}) :
       /\ pool = [s \in Slots |-> IF s = 0 /\ k # NoCred THEN Filled(k, 0, 0) ELSE Blank]
       /\ minted = k
  /\ nextGen = 0
  /\ paused = FALSE
  /\ conn = [c \in Conns |-> Out]
  /\ grower = [g \in Growers |-> GrowerIdle]
  /\ duty = [p \in Minters \cup {Saver} |-> <<>>]
  /\ snap = [p \in Minters \cup {Saver} |-> NoSnapshot]
  /\ disk = IF Caching THEN Snapshot(pool) ELSE NoSnapshot
  /\ expired = {}
  /\ displaced = FALSE
  /\ rejected = {}

Acquire(c) == GetPaused(c) \/ GetSeat(c) \/ GetRefused(c) \/ GetClaim(c)

ConnStep(c) ==
  \/ TakeChannel(c)
  \/ Acquire(c)
  \/ ConnMinted(c)
  \/ ConnMintFailed(c)
  \/ MarkSaturated(c)
  \/ InvalidateEntry(c)
  \/ Release(c)
  \/ WakeOnSignal(c)
  \/ WakeOnTimer(c)

GrowerStep(g) ==
  \/ \E s \in Slots, guarded \in BOOLEAN : TryFill(g, s, guarded)
  \/ GrowerMinted(g)
  \/ GrowerMintFailed(g)

DutyStep(p) == SaveSnapshot(p) \/ SaveWrite(p) \/ Broadcast(p)

SlotDeadline(s) == SaturationEnds(s) \/ CooldownEnds(s) \/ PendingEnds(s)

Environment ==
  \/ \E recent \in SUBSET Slots : PathChange(recent)
  \/ ExtendPause
  \/ PauseEnds
  \/ \E k \in Creds : Expire(k)
  \/ Invalidate
  \/ \E recent \in SUBSET Slots, seed \in {NoCred} \cup Creds : Restart(recent, seed)

Next ==
  \/ \E c \in Conns : ConnStep(c)
  \/ \E g \in Growers : GrowerStep(g)
  \/ \E p \in Minters \cup {Saver} : DutyStep(p)
  \/ PeriodicSave
  \/ \E s \in Slots : SlotDeadline(s)
  \/ Environment

Spec == Init /\ [][Next]_vars

\* The pool's own steps are fair: a get(), a broadcast, a timer, a release of
\* the lock all happen.  VK is strongly fair: a mint that keeps being retried
\* is answered in the end.  Sessions are not obliged to end.
Fairness ==
  /\ \A c \in Conns : /\ WF_vars(TakeChannel(c))
                      /\ WF_vars(Acquire(c))
                      /\ WF_vars(WakeOnTimer(c))
                      /\ SF_vars(ConnMinted(c))
  /\ \A g \in Growers : SF_vars(GrowerMinted(g))
  /\ \A p \in Minters \cup {Saver} : WF_vars(DutyStep(p))
  /\ \A s \in Slots : WF_vars(SlotDeadline(s))
  /\ WF_vars(PauseEnds)

FairSpec == Spec /\ Fairness

-----------------------------------------------------------------------------
(* Properties *)

Entries == [cred : {NoCred} \cup Creds, pending : BOOLEAN, cooling : BOOLEAN,
            fetching : BOOLEAN, gen : Nat, active : 0 .. ConnsPerSlot,
            sat : BOOLEAN, used : BOOLEAN]

Locations == [pc : {"ready", "minting", "seated", "closing", "refused"},
              slot : Slots, cred : {NoCred} \cup Creds, stamp : Nat,
              ch : {"none", "open", "closed"}]

Duties == {<<>>, <<"cast">>, <<"write">>, <<"save", "write">>,
           <<"write", "cast">>, <<"save", "write", "cast">>}

CacheFiles == [Slots -> [cred : {NoCred} \cup Creds, used : BOOLEAN]]

\* Every variable has its type; active never exceeds VK's quota of seats.
TypeOK ==
  /\ cookie \in BOOLEAN
  /\ pool \in [Slots -> Entries]
  /\ nextGen \in Nat
  /\ paused \in BOOLEAN
  /\ conn \in [Conns -> Locations]
  /\ grower \in [Growers -> [minting : BOOLEAN, slot : Slots, stamp : Nat]]
  /\ duty \in [Minters \cup {Saver} -> Duties]
  /\ snap \in [Minters \cup {Saver} -> CacheFiles]
  /\ disk \in CacheFiles
  /\ minted \in Nat
  /\ expired \subseteq Creds
  /\ displaced \in BOOLEAN
  /\ rejected \subseteq Creds

\* Mint m runs in slot s and the slot carries its stamp.
HeldBy(s, m) == Minting(m) /\ TargetOf(m) = s /\ StampOf(m) = pool[s].gen

\* A slot is marked `fetching` exactly while one mint in flight carries its
\* stamp: a flag nobody will clear keeps the slot from ever being filled, and
\* a second owner would overwrite what the first one published
\* (claimForFetchLocked, ownsLocked).
ClaimIntegrity ==
  /\ \A s \in Slots : pool[s].fetching <=> \E m \in Minters : HeldBy(s, m)
  /\ \A m, n \in Minters :
       Minting(m) /\ Minting(n) /\ StampOf(m) = StampOf(n) => m = n

\* Overwriting one credential by another is the right of the mint that holds
\* the slot's stamp, whatever reset, clearing or claim came in between (the
\* defect of 2026-09-08 the `gen` comment records).
OnlyOwnerOverwrites ==
  [][\A s \in Slots :
       /\ pool[s].cred # NoCred
       /\ pool'[s].cred \notin {NoCred, pool[s].cred}
       /\ nextGen' # 0
       => \E m \in Minters : HeldBy(s, m)]_vars

\* A mint somebody else is running in a slot is never published over: while
\* the slot is claimed, only its owner may fill it.
ClaimedSlotFilledByOwner ==
  [][\A s \in Slots, m \in Minters :
       /\ HeldBy(s, m)
       /\ pool'[s].cred \notin {NoCred, pool[s].cred}
       /\ nextGen' # 0
       => ~Minting(m)']_vars

\* The pool never counts a seat nobody holds: a leaked seat would shrink the
\* quota of its credential for as long as the process lives.
NoSeatLeaked ==
  \A s \in Slots : pool[s].active <= Cardinality(Sitting(s))

\* Until a slot is overwritten or cleared under live seats, the count of each
\* slot is the number of sessions on its credential, and every session's
\* credential is the one its slot holds.
AccountingExact ==
  ~displaced => \A s \in Slots : /\ Holders(s) = Sitting(s)
                                 /\ pool[s].active = Cardinality(Sitting(s))

\* VK's quota: no more than ConnsPerSlot sessions on one credential (same
\* condition as AccountingExact).
QuotaKept ==
  ~displaced => \A k \in Creds : Cardinality(UsersOf(k)) <= ConnsPerSlot

\* Seats are counted as they are held, and no credential is over its quota.
SeatsAccounted == NoSeatLeaked /\ AccountingExact /\ QuotaKept

\* One credential never sits in two slots: it would be handed out twice its
\* quota (placeIntoEmptySlotLocked's two refusals, seedSlot's dedup).
OneSlotPerCred ==
  \A s, t \in Slots : pool[s].cred = pool[t].cred /\ pool[s].cred # NoCred => s = t

\* The cold-start cap bounds the mints that run at once, however many
\* connections start together: the target, plus one per grower.
MintsBounded == Cardinality(InFlight) <= ColdStartTarget + Cardinality(Growers)

\* A connection that is refused while a slot stands ready to be minted into
\* has a mint in flight to wait for: the cap never parks connections beside
\* an empty slot with nothing coming (builds 204 and 360).
NoParkingBesideEmptySlot ==
  [][\A c \in Conns :
       /\ conn[c].pc = "ready" /\ conn'[c].pc = "refused"
       /\ ~paused /\ Refillable # {}
       => InFlight # {}]_vars

\* A session takes its seat on a credential that is valid, out of its
\* disk cooldown and not saturated, on the failure path of a mint as well.
SeatsOnUsableCreds ==
  [][\A c \in Conns :
       conn[c].pc # "seated" /\ conn'[c].pc = "seated"
       => \E s \in Slots : /\ conn'[c].slot = s
                          /\ conn'[c].cred = pool'[s].cred
                          /\ Available(pool[s])']_vars

\* While a connection waits on an open channel and a seat is free for it, a
\* broadcast is on its way: the signal of a seat is never lost.
FreeSeatAnnounced ==
  (\E c \in Conns : Waiting(c) /\ conn[c].ch = "open") /\ ~paused /\ Seats # {}
  => \E p \in Minters : duty[p] # <<>>

\* Every connection that asks is seated in the end, whatever mints fail, race
\* or land late.
EventuallySeated ==
  \A c \in Conns : conn[c].pc = "ready" ~> conn[c].pc = "seated"

-----------------------------------------------------------------------------
(* What the comments promise and the code does not keep *)

\* creds.go: the second pass mints only into a slot no connection is bound
\* to, and a published mint finds "active was 0": no session ever loses its
\* slot to a mint.
NoSeatOverwritten == ~displaced

\* creds.go, invalidateEntry: what is dropped is the credential that was
\* rejected.
RejectionDropsOnlyRejected ==
  [][\A c \in Conns :
       conn[c].pc = "seated" /\ rejected' # rejected /\ conn'[c].pc = "closing"
       => rejected' \ rejected \subseteq {conn[c].cred}]_vars

\* creds.go, invalidateEntry: once saves have settled, the cache does not
\* bring a rejected credential back on the next launch.
CacheForgetsRejected ==
  (\A p \in Minters \cup {Saver} : duty[p] = <<>>)
  => \A s \in Slots : disk[s].cred \notin rejected
=============================================================================
