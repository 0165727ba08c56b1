---------------------------- MODULE ConnSessions ----------------------------
(***************************************************************************)
(* The sessions of the tunnel's connections (pkg/proxy/proxy.go:           *)
(* startConnections, runConnection, Pause, Resume, ForceReconnect) and the *)
(* restart that moves them to a new server group when the phone's path     *)
(* changes (pkg/proxy/pathrestart.go).                                     *)
(*                                                                         *)
(* A generation is one session context of the proxy (sessCtx): Resume and  *)
(* ForceReconnect cancel it, make the next and launch startConnections,    *)
(* the starter, which reads whatever context is current when it runs.  A   *)
(* loop <<s, c>> is the runConnection goroutine starter s launched for     *)
(* connection c; its sessions follow one another.  A group id is the       *)
(* number of rotations that made it.                                       *)
(***************************************************************************)
EXTENDS Integers, FiniteSets

CONSTANTS
  NumConns,     \* connections configured (cfg.NumConns)
  MaxAttempts,  \* attempts of conn 0's bootstrap (maxBootstrapAttempts)
  Lifecycle,    \* which of "pause" and "stop" an instance includes
  MaxGen,       \* bound: session contexts made after the first
  MaxUps        \* bound: path-up events

ASSUME ConstantsAssumption ==
  /\ NumConns \in Nat \ {0}
  /\ MaxAttempts \in Nat \ {0}
  /\ Lifecycle \subseteq {"pause", "stop"}
  /\ MaxGen \in Nat
  /\ MaxUps \in Nat

Conns == 0 .. NumConns - 1
Gens == 0 .. MaxGen
Loops == Gens \X Conns
BootLoop(s) == <<s, 0>>

\* No loop is registered, no group announced, no timer armed.
NoLoop == <<-1, -1>>
NoGroup == -1
NoTimer == 0

VARIABLES
  \* The proxy (sessMu): the newest generation, its cancellation by Pause,
  \* and the cancellation of everything by Stop.
  gen, paused, stopped,
  \* Starters: where each one is, the generation it read, its attempts.
  spc, sgen, attempts,
  \* Loops: where each one is; readyCh holds its signal; *signaled.
  pc, ready, signaled,
  \* The session a loop runs: connCtx cancelled by a restart, the epoch it
  \* was stamped with, the group it announced, the verdict at its end.
  hit, stamp, group, asked,
  \* Registration per connection (connMu): connCancel and connEpoch.
  reg, connEpoch,
  \* The path restart: its epoch, the armed timer, the callbacks the timer
  \* started, the group hello, OnPathUp in progress, firstSessionUp.
  epoch, timer, firing, hello, rotated, firstSessionUp

proxyVars == <<gen, paused, stopped>>
starterVars == <<spc, sgen, attempts>>
sessionVars == <<hit, stamp, group, asked>>
regVars == <<reg, connEpoch>>
pathVars == <<epoch, timer, firing, hello, rotated>>
vars == <<proxyVars, starterVars, pc, ready, signaled, sessionVars, regVars,
          pathVars, firstSessionUp>>

StarterStates == {"none", "spawned", "boot", "backoff", "done"}
LoopStates == {"none", "wait", "top", "entering", "dialing", "up", "ended", "gone"}

TypeOK ==
  /\ gen \in Gens /\ paused \in BOOLEAN /\ stopped \in BOOLEAN
  /\ spc \in [Gens -> StarterStates]
  /\ sgen \in [Gens -> Gens]
  /\ attempts \in [Gens -> 0 .. MaxAttempts]
  /\ pc \in [Loops -> LoopStates]
  /\ ready \in [Loops -> BOOLEAN]
  /\ signaled \in [Loops -> BOOLEAN]
  /\ hit \in [Loops -> BOOLEAN]
  /\ stamp \in [Loops -> 0 .. MaxUps]
  /\ group \in [Loops -> {NoGroup} \cup 0 .. MaxUps]
  /\ asked \in [Loops -> BOOLEAN]
  /\ reg \in [Conns -> Loops \cup {NoLoop}]
  /\ connEpoch \in [Conns -> 0 .. MaxUps]
  /\ epoch \in 0 .. MaxUps
  /\ timer \in 0 .. MaxUps
  /\ firing \in SUBSET (1 .. MaxUps)
  /\ hello \in 0 .. MaxUps
  /\ rotated \in BOOLEAN
  /\ firstSessionUp \in BOOLEAN

\* Start() has spawned its starter; nothing runs yet.
Init ==
  /\ gen = 0 /\ paused = FALSE /\ stopped = FALSE
  /\ spc = [s \in Gens |-> IF s = 0 THEN "spawned" ELSE "none"]
  /\ sgen = [s \in Gens |-> 0]
  /\ attempts = [s \in Gens |-> 0]
  /\ pc = [l \in Loops |-> "none"]
  /\ ready = [l \in Loops |-> FALSE]
  /\ signaled = [l \in Loops |-> FALSE]
  /\ hit = [l \in Loops |-> FALSE]
  /\ stamp = [l \in Loops |-> 0]
  /\ group = [l \in Loops |-> NoGroup]
  /\ asked = [l \in Loops |-> FALSE]
  /\ reg = [c \in Conns |-> NoLoop]
  /\ connEpoch = [c \in Conns |-> 0]
  /\ epoch = 0 /\ timer = NoTimer /\ firing = {}
  /\ hello = 0 /\ rotated = FALSE
  /\ firstSessionUp = FALSE

-----------------------------------------------------------------------------
\* Contexts.

\* sessCtx of generation g is not cancelled.
Live(g) == g = gen /\ ~paused /\ ~stopped

\* connCtx of the loop's session is cancelled, by itself or through its parent.
BugCancelled(l) == hit[l]  \* connCtx is not derived from sessCtx
Cancelled(l) == hit[l] \/ ~Live(sgen[l[1]])

\* A session is running: its function has not returned.
Running(l) == pc[l] \in {"dialing", "up"}

-----------------------------------------------------------------------------
\* The proxy's lifecycle.

\* Resume, and ForceReconnect: cancel the session context, make the next one
\* and launch startConnections.  Their callers (the watchdog, the wake check,
\* the captcha's answer) come after Start has begun conn 0's bootstrap.
NewSession ==
  /\ spc[0] # "spawned"
  /\ gen < MaxGen
  /\ gen' = gen + 1
  /\ paused' = FALSE
  /\ spc' = [spc EXCEPT ![gen + 1] = "spawned"]
  /\ UNCHANGED <<stopped, sgen, attempts, pc, ready, signaled, sessionVars,
                 regVars, pathVars, firstSessionUp>>

Pause ==
  /\ "pause" \in Lifecycle
  /\ paused' = TRUE
  /\ UNCHANGED <<gen, stopped, starterVars, pc, ready, signaled, sessionVars,
                 regVars, pathVars, firstSessionUp>>

Stop ==
  /\ "stop" \in Lifecycle
  /\ stopped' = TRUE
  /\ UNCHANGED <<gen, paused, starterVars, pc, ready, signaled, sessionVars,
                 regVars, pathVars, firstSessionUp>>

-----------------------------------------------------------------------------
\* startConnections.

\* spawnConn0: a new readyCh and a new goroutine for conn 0.
SpawnConn0(s) ==
  /\ pc' = [pc EXCEPT ![BootLoop(s)] = "top"]
  /\ ready' = [ready EXCEPT ![BootLoop(s)] = FALSE]
  /\ signaled' = [signaled EXCEPT ![BootLoop(s)] = FALSE]
  /\ attempts' = [attempts EXCEPT ![s] = @ + 1]

\* The starter reads sessCtx and launches conn 0.
StarterReads(s) ==
  /\ spc[s] = "spawned"
  /\ sgen' = [sgen EXCEPT ![s] = gen]
  /\ spc' = [spc EXCEPT ![s] = "boot"]
  /\ SpawnConn0(s)
  /\ UNCHANGED <<proxyVars, sessionVars, regVars, pathVars, firstSessionUp>>

\* readyCh fired: the other connections launch within connStartStagger.
StarterReady(s) ==
  /\ spc[s] = "boot"
  /\ ready[BootLoop(s)]
  /\ spc' = [spc EXCEPT ![s] = "done"]
  /\ ready' = [ready EXCEPT ![BootLoop(s)] = FALSE]
  /\ pc' = [l \in Loops |-> IF l[1] = s /\ l[2] # 0 THEN "wait" ELSE pc[l]]
  /\ UNCHANGED <<proxyVars, sgen, attempts, signaled, sessionVars, regVars,
                 pathVars, firstSessionUp>>

\* The bootstrap has an attempt left.
BugMayRetry(s) == attempts[s] <= MaxAttempts  \* one attempt too many
MayRetry(s) == attempts[s] < MaxAttempts

\* errCh: conn 0's goroutine returned.  The starter backs off, or gives up
\* after the last attempt.
StarterFailed(s) ==
  /\ spc[s] = "boot"
  /\ pc[BootLoop(s)] = "gone"
  /\ spc' = [spc EXCEPT ![s] = IF MayRetry(s) THEN "backoff" ELSE "done"]
  /\ UNCHANGED <<proxyVars, sgen, attempts, pc, ready, signaled, sessionVars,
                 regVars, pathVars, firstSessionUp>>

\* The error was a captcha: no retry (the captcha's waiter will resume).
StarterCaptcha(s) ==
  /\ spc[s] = "boot"
  /\ pc[BootLoop(s)] = "gone"
  /\ spc' = [spc EXCEPT ![s] = "done"]
  /\ UNCHANGED <<proxyVars, sgen, attempts, pc, ready, signaled, sessionVars,
                 regVars, pathVars, firstSessionUp>>

\* The backoff, or the wait for a slot, is over.
StarterRetries(s) ==
  /\ spc[s] = "backoff"
  /\ spc' = [spc EXCEPT ![s] = "boot"]
  /\ SpawnConn0(s)
  /\ UNCHANGED <<proxyVars, sgen, sessionVars, regVars, pathVars, firstSessionUp>>

\* p.ctx is done.
StarterStops(s) ==
  /\ spc[s] \in {"boot", "backoff"}
  /\ stopped
  /\ spc' = [spc EXCEPT ![s] = "done"]
  /\ UNCHANGED <<proxyVars, sgen, attempts, pc, ready, signaled, sessionVars,
                 regVars, pathVars, firstSessionUp>>

-----------------------------------------------------------------------------
\* runConnection.

MoveLoop(l, from, to) ==
  /\ pc[l] \in from
  /\ pc' = [pc EXCEPT ![l] = to]

\* The wait before a launch or a retry is over, or its context is.
WaitOver(l) ==
  /\ MoveLoop(l, {"wait"}, IF Live(sgen[l[1]]) THEN "top" ELSE "gone")
  /\ UNCHANGED <<proxyVars, starterVars, ready, signaled, sessionVars, regVars,
                 pathVars, firstSessionUp>>

\* The check of the contexts at the head of the loop.
Check(l) ==
  /\ MoveLoop(l, {"top"}, IF Live(sgen[l[1]]) THEN "entering" ELSE "gone")
  /\ UNCHANGED <<proxyVars, starterVars, ready, signaled, sessionVars, regVars,
                 pathVars, firstSessionUp>>

\* beginConnSession: the session's stamp and its cancel, under connMu.
Begin(l) ==
  /\ MoveLoop(l, {"entering"}, "dialing")
  /\ stamp' = [stamp EXCEPT ![l] = epoch]
  /\ reg' = [reg EXCEPT ![l[2]] = l]
  /\ connEpoch' = [connEpoch EXCEPT ![l[2]] = epoch]
  /\ UNCHANGED <<proxyVars, starterVars, ready, signaled, hit, group, asked,
                 pathVars, firstSessionUp>>

\* The relay and the handshake are up: readyCh, *signaled, firstSessionUp.
\* Nothing here looks at the context again.
Established(l) ==
  /\ MoveLoop(l, {"dialing"}, "up")
  /\ ready' = [ready EXCEPT ![l] = @ \/ (l[2] = 0 /\ ~signaled[l])]
  /\ signaled' = [signaled EXCEPT ![l] = TRUE]
  /\ firstSessionUp' = TRUE
  /\ UNCHANGED <<proxyVars, starterVars, sessionVars, regVars, pathVars>>

\* sendGroupHello: the first hello of the session decides its group, the
\* later ones repeat (the server promotes a session once).
SendGroupHello(l) ==
  /\ pc[l] = "up"
  /\ group[l] = NoGroup
  /\ group' = [group EXCEPT ![l] = hello]
  /\ UNCHANGED <<proxyVars, starterVars, pc, ready, signaled, hit, stamp, asked,
                 regVars, pathVars, firstSessionUp>>

\* The session's function returns, by a failure or by its context, and the
\* loop decides whether the end was asked for.
SessionEnds(l) ==
  /\ MoveLoop(l, {"dialing", "up"}, "ended")
  /\ asked' = [asked EXCEPT ![l] = hit[l] /\ Live(sgen[l[1]])]
  /\ UNCHANGED <<proxyVars, starterVars, ready, signaled, hit, stamp, group,
                 regVars, pathVars, firstSessionUp>>

\* The cancel the connection has registered once this loop's session is over.
Forget(l) == [reg EXCEPT ![l[2]] = NoLoop]

\* endConnSession; then the bootstrap's loop reports a failure of a session
\* that never came up, any other loop waits and tries again.  What belonged
\* to the session is gone with it.
End(l) ==
  /\ MoveLoop(l, {"ended"}, IF l[2] = 0 /\ ~signaled[l] /\ ~asked[l]
                            THEN "gone" ELSE "wait")
  /\ reg' = Forget(l)
  /\ hit' = [hit EXCEPT ![l] = FALSE]
  /\ stamp' = [stamp EXCEPT ![l] = 0]
  /\ group' = [group EXCEPT ![l] = NoGroup]
  /\ asked' = [asked EXCEPT ![l] = FALSE]
  /\ UNCHANGED <<proxyVars, starterVars, ready, signaled, connEpoch, pathVars,
                 firstSessionUp>>

-----------------------------------------------------------------------------
\* The path restart.

\* OnPathUp, first part: the group id rotates.
RotateGroupHello ==
  /\ ~rotated
  /\ hello < MaxUps
  /\ hello' = hello + 1
  /\ rotated' = TRUE
  /\ UNCHANGED <<proxyVars, starterVars, pc, ready, signaled, sessionVars,
                 regVars, epoch, timer, firing, firstSessionUp>>

\* The epoch a path-up makes, and the one its timer will fire for.
BugNextEpoch ==  \* one epoch per burst of path-ups
  IF timer = NoTimer THEN epoch + 1 ELSE epoch
NextEpoch == epoch + 1
BugArmed == epoch  \* the epoch is read before it is bumped
Armed == epoch + 1

\* OnPathUp, second part: once a session has been up, the epoch is bumped and
\* the one timer re-armed.
PathUp ==
  /\ rotated
  /\ rotated' = FALSE
  /\ epoch' = IF firstSessionUp THEN NextEpoch ELSE epoch
  /\ timer' = IF firstSessionUp THEN Armed ELSE timer
  /\ UNCHANGED <<proxyVars, starterVars, pc, ready, signaled, sessionVars,
                 regVars, firing, hello, firstSessionUp>>

\* The settle time is over; the callback runs on a goroutine of its own, which
\* the Stop of a later path-up does not reach.
TimerFires ==
  /\ timer # NoTimer
  /\ timer' = NoTimer
  /\ firing' = firing \cup {timer}
  /\ UNCHANGED <<proxyVars, starterVars, pc, ready, signaled, sessionVars,
                 regVars, epoch, hello, rotated, firstSessionUp>>

\* The sessions a restart for epoch e cancels.
BugRestarted(e) ==  \* also who started after the path-up
  {reg[c] : c \in {d \in Conns : connEpoch[d] <= e /\ reg[d] # NoLoop}}
BugRestartedLate(e) ==  \* not who started just before it
  {reg[c] : c \in {d \in Conns : connEpoch[d] < e - 1 /\ reg[d] # NoLoop}}
Restarted(e) ==
  {reg[c] : c \in {d \in Conns : connEpoch[d] < e /\ reg[d] # NoLoop}}

\* restartSessionsOlderThan(e), under connMu.
RestartSessionsOlderThan(e) ==
  /\ e \in firing
  /\ firing' = firing \ {e}
  /\ hit' = IF stopped THEN hit
            ELSE [l \in Loops |-> hit[l] \/ l \in Restarted(e)]
  /\ UNCHANGED <<proxyVars, starterVars, pc, ready, signaled, stamp, group,
                 asked, regVars, epoch, timer, hello, rotated, firstSessionUp>>

-----------------------------------------------------------------------------
StarterStep(s) ==
  \/ StarterReads(s)
  \/ StarterReady(s)
  \/ StarterFailed(s)
  \/ StarterCaptcha(s)
  \/ StarterRetries(s)
  \/ StarterStops(s)

LoopStep(l) ==
  \/ WaitOver(l)
  \/ Check(l)
  \/ Begin(l)
  \/ Established(l)
  \/ SendGroupHello(l)
  \/ SessionEnds(l)
  \/ End(l)

Next ==
  \/ NewSession
  \/ Pause
  \/ Stop
  \/ \E s \in Gens : StarterStep(s)
  \/ \E l \in Loops : LoopStep(l)
  \/ RotateGroupHello
  \/ PathUp
  \/ TimerFires
  \/ \E e \in 1 .. MaxUps : RestartSessionsOlderThan(e)

Spec == Init /\ [][Next]_vars

\* Every goroutine that can run runs, the timer fires, and a session whose
\* context is cancelled returns (its sockets are closed by the context).
\* Nothing makes a dial succeed, a session fail or the app call.
SessionCancelled(l) == Cancelled(l) /\ SessionEnds(l)

Fairness ==
  /\ \A s \in Gens : WF_vars(StarterStep(s))
  /\ \A l \in Loops :
       /\ WF_vars(WaitOver(l) \/ Check(l) \/ Begin(l) \/ End(l))
       /\ WF_vars(SendGroupHello(l))
       /\ WF_vars(SessionCancelled(l))
  /\ WF_vars(PathUp)
  /\ WF_vars(TimerFires)
  /\ \A e \in 1 .. MaxUps : WF_vars(RestartSessionsOlderThan(e))

FairSpec == Spec /\ Fairness

-----------------------------------------------------------------------------
\* Properties.

\* No path-up is being handled and no restart is under way.
Settled == ~rotated /\ timer = NoTimer /\ firing = {}

\* "Sessions that reconnect on their own inside the window already carry the
\* new id and are spared by their epoch" (pathrestart.go): between two path-ups
\* whoever is stamped with the current epoch has announced the current group.
\* It rests on two orders: OnPathUp rotates before it bumps, and a session
\* raises firstSessionUp before it announces.
EpochImpliesGroup ==
  \A l \in Loops :
    (~rotated /\ Running(l) /\ stamp[l] = epoch /\ group[l] # NoGroup)
      => group[l] = hello

\* "A restart can never cancel a session that started after its epoch": who a
\* restart cancels was stamped before the newest path-up, or that path-up is
\* between its two halves.
RestartSparesNewer ==
  [][\A l \in Loops : (~hit[l] /\ hit'[l]) => stamp[l] < epoch]_vars

\* Every session the restart can reach moves: once the restarts are done, a
\* running session whose cancel is registered is in the current group, or on
\* its way out.
RegisteredSessionsMove ==
  (Settled /\ ~stopped) =>
    \A c \in Conns :
      LET l == reg[c] IN
      (l # NoLoop /\ Running(l) /\ group[l] # NoGroup) =>
        (group[l] = hello \/ Cancelled(l))

\* Pause, Resume and Stop kill what they cancel: a loop of a context that is
\* cancelled for good is gone in the end, whatever it was doing.
OrphansDie ==
  \A l \in Loops :
    (pc[l] \notin {"none", "gone"} /\ ~Live(sgen[l[1]])) ~> (pc[l] = "gone")

\* Where no second session context is ever made, a path-up is followed by
\* every running session announcing the group it made, or by another path-up.
EveryoneMovesInTheEnd ==
  <>[](\A l \in Loops : (pc[l] = "up" /\ group[l] # NoGroup /\ Live(sgen[l[1]])) => group[l] = hello)

\* Another loop serves the same connection on the same session context.
Doubled(l) ==
  \E m \in Loops \ {l} : m[2] = l[2] /\ sgen[m[1]] = sgen[l[1]] /\ pc[m] \notin {"none", "gone"}

\* pathrestart.go: "EVERY session moves [...] a survivor left in the old group
\* would carry uplink only".  The same without asking that the session's cancel
\* be registered, for a connection served by one loop.  It fails: a loop of
\* the previous context that is slow to leave replaces (beginConnSession) or
\* clears (endConnSession) the cancel its successor has registered, and the
\* restart passes the successor over.
EverySessionMoves ==
  (Settled /\ ~stopped) =>
    \A l \in Loops :
      (Running(l) /\ group[l] # NoGroup /\ ~Doubled(l)) =>
        (group[l] = hello \/ Cancelled(l))

\* Resume "always cancels the old session first", "to kill orphaned
\* goroutines": at most one session of a connection is alive.  It fails: two
\* starters that run after two Resumes both read the newest context.
OneLoopPerConn ==
  \A l, m \in Loops :
    (l[2] = m[2] /\ Running(l) /\ Running(m) /\ ~Cancelled(l) /\ ~Cancelled(m)) => l = m
=============================================================================
