---------------------------- MODULE DirectSession ----------------------------
(***************************************************************************)
(* runDirectSession (pkg/proxy/proxy.go), the transport without DTLS: the  *)
(* only one whose session replaces its TURN relay in place.  A goroutine   *)
(* of it gives the seat back and takes another while the function itself   *)
(* waits for the two pumps and releases, by a deferred call, whatever      *)
(* currentSlot says by then.  The two share currentSlot without a lock.    *)
(***************************************************************************)
EXTENDS Integers

CONSTANTS
  Others,     \* seats other connections hold on the slots
  MaxRetries, \* failed attempts in a row, five in the code
  MaxRelays   \* bound: relays of the session

VARIABLES
  active,      \* seats taken in the pool
  currentSlot, \* names a seat of ours
  live,        \* connCtx is not cancelled
  session,     \* runDirectSession: up or returned
  loop,        \* the reconnection goroutine
  retries,
  relays       \* relays started so far

directVars == <<active, currentSlot, live, session, loop, retries, relays>>

DirectInit ==
  /\ active = Others + 1 /\ currentSlot = TRUE /\ live = TRUE
  /\ session = "up" /\ loop = "watch" /\ retries = 0 /\ relays = 1

Release(held) == active' = IF held /\ active > 0 THEN active - 1 ELSE active
LoopAt(place) == loop = place
Goes(place) == loop' = place

\* Pause, Stop, or a pump that fails.
Cancel ==
  /\ live /\ live' = FALSE
  /\ UNCHANGED <<active, currentSlot, session, loop, retries, relays>>

\* Both pumps are over; the deferred release.
SessionEnds ==
  /\ session = "up" /\ ~live
  /\ session' = "returned"
  /\ Release(currentSlot)
  /\ UNCHANGED <<currentSlot, live, loop, retries, relays>>

-----------------------------------------------------------------------------
\* The relay ends, by whatever error, and half a second passes.
RelayEnds ==
  /\ LoopAt("watch") /\ live /\ Goes("release")
  /\ UNCHANGED <<active, currentSlot, live, session, retries, relays>>

LoopReleases ==
  /\ LoopAt("release") /\ Goes("forget")
  /\ Release(TRUE)
  /\ UNCHANGED <<currentSlot, live, session, retries, relays>>

LoopForgets ==
  /\ LoopAt("forget") /\ Goes("retry")
  /\ currentSlot' = FALSE /\ retries' = 0
  /\ UNCHANGED <<active, live, session, relays>>

\* resolveTURNAddr, which no cancel reaches: it may mint for a minute.
Asks ==
  /\ LoopAt("retry") /\ live /\ retries < MaxRetries /\ Goes("asking")
  /\ UNCHANGED <<active, currentSlot, live, session, retries, relays>>

AskRefused ==
  /\ LoopAt("asking") /\ Goes("retry")
  /\ retries' = retries + 1
  /\ UNCHANGED <<active, currentSlot, live, session, relays>>

AskSeated ==
  /\ LoopAt("asking") /\ relays < MaxRelays /\ Goes("seated")
  /\ active' = active + 1
  /\ UNCHANGED <<currentSlot, live, session, retries, relays>>

LoopReplaces ==
  /\ LoopAt("seated") /\ Goes("watch")
  /\ currentSlot' = TRUE /\ relays' = relays + 1
  /\ UNCHANGED <<active, live, session, retries>>

\* It ends with the context or when the retries are spent, and cancels.
LoopEnds ==
  /\ \/ loop \in {"watch", "release", "retry"} /\ ~live
     \/ LoopAt("retry") /\ retries >= MaxRetries
  /\ Goes("ended")
  /\ live' = FALSE
  /\ UNCHANGED <<active, currentSlot, session, retries, relays>>

DirectNext ==
  \/ Cancel \/ SessionEnds
  \/ RelayEnds \/ LoopReleases \/ LoopForgets \/ Asks \/ AskRefused \/ AskSeated
  \/ LoopReplaces \/ LoopEnds

DirectSpec == DirectInit /\ [][DirectNext]_directVars

-----------------------------------------------------------------------------
\* runDTLSSession's comment on the same deferred call, proxy.go:2385-2387: "we need to
\* release whatever slot we're holding when this conn's session finally ends": once the
\* session and its goroutine are over, the pool counts the others' seats, no more (a seat
\* nobody gave back) and no less (one given back twice: by the deferred call and the loop).
SeatGivenBack == session = "returned" /\ loop = "ended" => active = Others
=============================================================================
