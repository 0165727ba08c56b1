----------------------------- MODULE SrtpDeadline -----------------------------
(***************************************************************************)
(* The read deadlines of pkg/proxy/srtpwrap/srtp.go: wrappedConn keeps one *)
(* timer and reuses its channel while it is open, packetConnAdapter makes  *)
(* a channel and a timer at every call.  A timer's goroutine, a reader and *)
(* a caller of SetReadDeadline (pion calls it beside its own reads) take   *)
(* the lock in any order; a packet may come at any time.                   *)
(***************************************************************************)
EXTENDS Integers

CONSTANTS DlHorizon, MaxSets  \* bounds: the clock, calls of SetReadDeadline

ASSUME DeadlineAssumption == {DlHorizon, MaxSets} \subseteq Nat

VARIABLES
  style,     \* "wrapped" or "adapter": which of the two this is
  dlNow,
  dlExp,     \* the deadline; NoDl is the zero time
  dlCh,      \* number of the current channel
  dlClosed,  \* channels that are closed
  dlTimers,  \* timers under way: [ch, at]
  dlFiring,  \* timers whose goroutine has not had the lock yet
  dlWaits,   \* the channel the reader waits on; 0: nobody reads
  dlSets,    \* calls so far
  twiceClosed\* a closed channel was closed again: a panic (history)

deadlineVars == <<style, dlNow, dlExp, dlCh, dlClosed, dlTimers, dlFiring, dlWaits, dlSets,
                  twiceClosed>>

NoDl == -1
DlInit ==
  /\ style \in {"wrapped", "adapter"} /\ dlNow = 0 /\ dlExp = NoDl
  /\ dlCh = 1 /\ dlClosed = {} /\ dlTimers = {} /\ dlFiring = {} /\ dlWaits = 0
  /\ dlSets = 0 /\ twiceClosed = FALSE

\* deadlineExpired.
Expired == dlExp # NoDl /\ dlExp <= dlNow

DlTick ==
  /\ dlNow < DlHorizon /\ dlNow' = dlNow + 1
  /\ UNCHANGED <<style, dlExp, dlCh, dlClosed, dlTimers, dlFiring, dlWaits, dlSets, twiceClosed>>

\* wrappedConn.setDl: a new channel only for a closed one, the one timer reset.
BugRenews == FALSE
Renews == dlCh \in dlClosed
SetOneTimer(t) ==
  LET ch == IF Renews THEN dlCh + 1 ELSE dlCh
      past == t # NoDl /\ t <= dlNow
  IN /\ dlCh' = ch
     /\ dlClosed' = IF past THEN dlClosed \cup {ch} ELSE dlClosed
     /\ twiceClosed' = (twiceClosed \/ (past /\ ch \in dlClosed))
     /\ dlTimers' = IF t = NoDl \/ past THEN {} ELSE {[ch |-> 0, at |-> t]}

\* packetConnAdapter.setDl: the old channel is closed, its timer goes on.
SetEachTimer(t) ==
  LET past == t # NoDl /\ t <= dlNow
  IN /\ dlCh' = dlCh + 1
     /\ dlClosed' = dlClosed \cup {dlCh} \cup (IF past THEN {dlCh + 1} ELSE {})
     /\ dlTimers' = dlTimers \cup
          (IF t = NoDl \/ past THEN {} ELSE {[ch |-> dlCh + 1, at |-> t]})
     /\ UNCHANGED twiceClosed

SetDl(t) ==
  /\ dlSets < MaxSets /\ dlSets' = dlSets + 1
  /\ dlExp' = t
  /\ IF style = "wrapped" THEN SetOneTimer(t) ELSE SetEachTimer(t)
  /\ UNCHANGED <<style, dlNow, dlFiring, dlWaits>>

TimerRuns(tm) ==
  /\ tm \in dlTimers /\ tm.at <= dlNow
  /\ dlTimers' = dlTimers \ {tm} /\ dlFiring' = dlFiring \cup {tm}
  /\ UNCHANGED <<style, dlNow, dlExp, dlCh, dlClosed, dlWaits, dlSets, twiceClosed>>

\* fireDeadline acts on the deadline as it is now, the adapter's closure on
\* the channel it was made for; each leaves a closed channel alone.
BugStillDue(tm) == IF style = "wrapped" THEN Expired ELSE tm.ch = dlCh /\ dlCh \notin dlClosed
StillDue(tm) == /\ IF style = "wrapped" THEN Expired ELSE tm.ch = dlCh
                /\ dlCh \notin dlClosed
Fire(tm) ==
  /\ tm \in dlFiring /\ dlFiring' = dlFiring \ {tm}
  /\ IF StillDue(tm)
       THEN /\ dlClosed' = dlClosed \cup {dlCh}
            /\ twiceClosed' = (twiceClosed \/ dlCh \in dlClosed)
       ELSE UNCHANGED <<dlClosed, twiceClosed>>
  /\ UNCHANGED <<style, dlNow, dlExp, dlCh, dlTimers, dlWaits, dlSets>>

\* Read: fetch the channel, wait; a wake-up that is no expiry starts over.
ReadWaits ==
  /\ dlWaits = 0 /\ dlWaits' = dlCh
  /\ UNCHANGED <<style, dlNow, dlExp, dlCh, dlClosed, dlTimers, dlFiring, dlSets, twiceClosed>>

ReadWoken ==
  /\ dlWaits \in dlClosed
  /\ dlWaits' = IF Expired THEN 0 ELSE dlCh
  /\ UNCHANGED <<style, dlNow, dlExp, dlCh, dlClosed, dlTimers, dlFiring, dlSets, twiceClosed>>

ReadGetsPacket ==
  /\ dlWaits # 0 /\ dlWaits' = 0
  /\ UNCHANGED <<style, dlNow, dlExp, dlCh, dlClosed, dlTimers, dlFiring, dlSets, twiceClosed>>

DlNext ==
  \/ DlTick \/ ReadWaits \/ ReadWoken \/ ReadGetsPacket
  \/ \E t \in {NoDl} \cup 0 .. DlHorizon : SetDl(t)
  \/ \E tm \in dlTimers : TimerRuns(tm)
  \/ \E tm \in dlFiring : Fire(tm)

-----------------------------------------------------------------------------
\* Types of the clock and the channels.
DlTypeOK ==
  /\ dlExp \in {NoDl} \cup 0 .. DlHorizon /\ dlWaits \in 0 .. dlCh
  /\ dlClosed \subseteq 1 .. dlCh

\* setDl and fireDeadline: a reader whose deadline has passed is woken once
\* the timers have run, nobody waits on a channel that was left open, a
\* channel is closed only for an expiry (else the reader would spin), and none
\* is closed twice.
ReadDeadlineHolds ==
  /\ ~twiceClosed
  /\ dlWaits \in {0, dlCh} \cup dlClosed
  /\ dlCh \in dlClosed => Expired
  /\ Expired /\ dlTimers = {} /\ dlFiring = {} => dlCh \in dlClosed
=============================================================================
