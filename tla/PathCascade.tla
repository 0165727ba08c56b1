----------------------------- MODULE PathCascade -----------------------------
(***************************************************************************)
(* What a path event does to the acquire pause (pkg/proxy/creds.go):       *)
(* iOS reports one handover as a burst of events, a flapping network as a  *)
(* chain of bursts.  CredPool has the pause as a flag that some path event *)
(* sets; here it has its length, and the pool one slot with its ages.      *)
(***************************************************************************)
EXTENDS Integers, Sequences, FiniteSetsExt

CONSTANTS
  DualGap,        \* pauseAcquireAfterPathEvent, ticks: burst gap and short pause
  CascadePause,   \* cascadePauseDuration
  CascadeWindow,  \* cascadeDetectionWindow
  TransitionPause, \* of OnPathTransition
  VkLifetime, SafetyBuffer, MinRealUse, RecentUse, \* of the marking
  MaxEvents       \* bound: path events remembered

ASSUME CascadeAssumption ==
  /\ DualGap \in Nat \ {0} /\ RecentUse \in Nat \ {0}
  /\ {CascadePause, CascadeWindow, TransitionPause, VkLifetime, SafetyBuffer, MinRealUse,
      MaxEvents} \subseteq Nat
  /\ DualGap < CascadePause /\ CascadePause < CascadeWindow

VARIABLES
  seat,      \* the slot: live, idle for how long (Never), its cooldowns left
  stamp,     \* age of lastPathEventAt, CascadeWindow and older alike; Unset
  pauseLeft, \* until pauseAcquireUntil
  timerLeft, \* of pauseAcquireTimer, 0 when there is none
  parked,    \* a connection is dormant because of the pause
  events,    \* the events so far: live, long pause, gap to the one before (history)
  since      \* age of the last event, CascadeWindow and older alike (history)

cascadeVars == <<seat, stamp, pauseLeft, timerLeft, parked, events, since>>

Unset == -1
Never == RecentUse
Seats == [live : BOOLEAN, idle : 0 .. RecentUse, saturated : Nat, loading : Nat]

\* A pool loaded from disk; its last use may be recent.
CascadeInit ==
  /\ seat \in [live : {FALSE}, idle : {1, Never}, saturated : {0}, loading : {0, 1}]
  /\ stamp = Unset /\ pauseLeft = 0 /\ timerLeft = 0 /\ parked = FALSE
  /\ events = << >> /\ since = CascadeWindow

-----------------------------------------------------------------------------
\* MarkInUseSlotsForPathChange, the slot: what VK may still hold is barred
\* until it has surely let go of it.
Anchor == IF seat.live THEN 0 ELSE seat.idle
InUse == seat.live \/ (seat.idle > MinRealUse /\ seat.idle < RecentUse)
Remaining == VkLifetime - Anchor + SafetyBuffer
MarkedSeat ==
  IF seat.saturated = 0 /\ seat.loading = 0 /\ InUse /\ Remaining > 0
  THEN [seat EXCEPT !.saturated = Remaining] ELSE seat

\* The same, the pause: the follow-up of a burst, a cascade, or neither.
Dual == stamp # Unset /\ stamp < DualGap
Cascade == stamp # Unset /\ stamp >= DualGap /\ stamp < CascadeWindow
BugArms == seat.live \/ Cascade  \* a burst is measured from its first event
Arms == seat.live \/ Cascade \/ Dual

\* A deadline only moves forward, and its timer with it.
BugPauseFor(d) ==  \* the timer of the shorter pause stays
  /\ pauseLeft' = Max({pauseLeft, d})
  /\ timerLeft' = IF timerLeft = 0 THEN d ELSE timerLeft
PauseFor(d) ==
  IF d > pauseLeft THEN pauseLeft' = d /\ timerLeft' = d
  ELSE UNCHANGED <<pauseLeft, timerLeft>>

PathEvent ==
  /\ Len(events) < MaxEvents
  /\ seat' = MarkedSeat
  /\ PauseFor(IF Cascade THEN CascadePause ELSE DualGap)
  /\ stamp' = IF Arms THEN 0 ELSE stamp
  /\ events' = Append(events, [live |-> seat.live, long |-> Cascade, gap |-> since])
  /\ since' = 0
  /\ UNCHANGED parked

\* ExtendPauseAcquireForTransition: iface=other, nothing is marked.
PathTransition ==
  /\ PauseFor(TransitionPause)
  /\ UNCHANGED <<seat, stamp, parked, events, since>>

-----------------------------------------------------------------------------
\* get(): refused while paused; the connection parks until a broadcast.
Ask ==
  /\ ~parked /\ ~seat.live
  /\ IF pauseLeft > 0 THEN parked' = TRUE /\ UNCHANGED seat
     ELSE /\ seat.saturated = 0 /\ seat.loading = 0
          /\ seat' = [seat EXCEPT !.live = TRUE, !.idle = 0]
          /\ UNCHANGED parked
  /\ UNCHANGED <<stamp, pauseLeft, timerLeft, events, since>>

\* The last seat is given back: by csqtt within the burst, by the native
\* transport when its restart comes.
GiveBack ==
  /\ seat.live
  /\ seat' = [seat EXCEPT !.live = FALSE]
  /\ UNCHANGED <<stamp, pauseLeft, timerLeft, parked, events, since>>

\* A tick for every age and deadline; the timer broadcasts when it ends.
Down(n) == Max({0, n - 1})
Tick ==
  /\ seat' = [seat EXCEPT !.idle = IF seat.live THEN 0 ELSE Min({RecentUse, @ + 1}),
                          !.saturated = Down(@), !.loading = Down(@)]
  /\ stamp' = IF stamp = Unset THEN Unset ELSE Min({CascadeWindow, stamp + 1})
  /\ pauseLeft' = Down(pauseLeft) /\ timerLeft' = Down(timerLeft)
  /\ parked' = (parked /\ timerLeft # 1)
  /\ since' = Min({CascadeWindow, since + 1})
  /\ UNCHANGED events

CascadeNext == PathEvent \/ PathTransition \/ Ask \/ GiveBack \/ Tick

CascadeSpec == CascadeInit /\ [][CascadeNext]_cascadeVars

-----------------------------------------------------------------------------
CascadeTypeOK ==
  /\ seat \in Seats /\ stamp \in Unset .. CascadeWindow
  /\ pauseLeft \in Nat /\ timerLeft \in Nat /\ parked \in BOOLEAN
  /\ since \in 0 .. CascadeWindow

\* From event i on, no calm of a whole window before event j.
Chained(i, j) == \A k \in i + 1 .. j : events[k].gap < CascadeWindow
AfterABurst(j) == events[j].gap >= DualGap

\* creds.go, the ARMING note: "never by a FIRST event on an idle pool"; "Only
\* abnormal multi-event sequences pay the 30s acquire-block": an event pays it
\* exactly if it opens a burst and an unbroken chain of events leads to it from
\* one that met live sessions.
CascadeJudged ==
  \A j \in 1 .. Len(events) :
    events[j].long <=> AfterABurst(j) /\ \E i \in 1 .. j - 1 : events[i].live /\ Chained(i, j)

\* What the last event promised is kept, and the end of every pause will be
\* announced to whoever sleeps because of it.
PauseKept ==
  /\ events # << >> =>
       pauseLeft + since >= IF events[Len(events)].long THEN CascadePause ELSE DualGap
  /\ timerLeft = pauseLeft
  /\ parked => timerLeft > 0

PauseFits == CascadeJudged /\ PauseKept
=============================================================================
