------------------------- MODULE ConnSessionsProofs -------------------------
(***************************************************************************)
(* Proofs about ConnSessions, for every number of connections, attempts,   *)
(* session contexts and path-ups.                                          *)
(***************************************************************************)
EXTENDS ConnSessions, TLAPS

\* The parts of a loop's name, and NoLoop names no loop.
LEMMA LoopFacts ==
  /\ \A l \in Loops : l[1] \in Gens /\ l[2] \in Conns
  /\ \A s \in Gens : BootLoop(s) \in Loops /\ BootLoop(s)[1] = s /\ BootLoop(s)[2] = 0
  /\ NoLoop \notin Loops
  /\ 0 \in Gens
BY ConstantsAssumption DEF Loops, Gens, Conns, BootLoop, NoLoop

-----------------------------------------------------------------------------
(* Type correctness *)

\* A starter that is yet to launch conn 0 has an attempt left for it, and a
\* generation that was not made has no starter.
AttemptLeft ==
  \A s \in Gens :
    /\ s > gen => spc[s] = "none"
    /\ spc[s] \in {"none", "spawned"} => attempts[s] = 0
    /\ spc[s] = "backoff" => attempts[s] < MaxAttempts

\* Every bump of the epoch has its own rotation, made before it; everything
\* stamped, armed or firing belongs to an epoch that was reached.
EpochOrder ==
  /\ epoch <= hello
  /\ rotated => epoch < hello
  /\ timer <= epoch
  /\ \A e \in firing : e <= epoch
  /\ \A l \in Loops : stamp[l] <= epoch

TInv == TypeOK /\ AttemptLeft /\ EpochOrder

LEMMA TInvInit == Init => TInv
<1> SUFFICES ASSUME Init PROVE TInv
  OBVIOUS
<1> USE ConstantsAssumption, LoopFacts
<1>1. TypeOK
  <2>1. /\ gen \in Gens
        /\ spc \in [Gens -> StarterStates] /\ sgen \in [Gens -> Gens]
        /\ attempts \in [Gens -> 0 .. MaxAttempts]
    BY DEF Init, StarterStates
  <2>2. /\ pc \in [Loops -> LoopStates] /\ ready \in [Loops -> BOOLEAN]
        /\ signaled \in [Loops -> BOOLEAN] /\ hit \in [Loops -> BOOLEAN]
        /\ asked \in [Loops -> BOOLEAN]
    BY DEF Init, LoopStates
  <2>3. /\ stamp \in [Loops -> 0 .. MaxUps]
        /\ group \in [Loops -> {NoGroup} \cup 0 .. MaxUps]
        /\ reg \in [Conns -> Loops \cup {NoLoop}]
        /\ connEpoch \in [Conns -> 0 .. MaxUps]
    BY DEF Init
  <2>4. /\ epoch \in 0 .. MaxUps /\ timer \in 0 .. MaxUps
        /\ firing \in SUBSET (1 .. MaxUps) /\ hello \in 0 .. MaxUps
    BY DEF Init, NoTimer
  <2>5. /\ paused \in BOOLEAN /\ stopped \in BOOLEAN
        /\ rotated \in BOOLEAN /\ firstSessionUp \in BOOLEAN
    BY Zenon DEF Init
  <2> QED BY <2>1, <2>2, <2>3, <2>4, <2>5 DEF TypeOK
<1>2. AttemptLeft /\ EpochOrder
  BY DEF Init, AttemptLeft, EpochOrder, NoTimer, Gens
<1> QED BY <1>1, <1>2 DEF TInv

LEMMA TInvStarter ==
  ASSUME TInv, NEW s \in Gens, StarterStep(s) PROVE TInv'
<1> USE ConstantsAssumption, LoopFacts
<1>1. CASE StarterReads(s)
  BY <1>1 DEF StarterReads, SpawnConn0, TInv, TypeOK, AttemptLeft, EpochOrder, StarterStates,
     LoopStates, proxyVars, sessionVars, regVars, pathVars
<1>2. CASE StarterReady(s)
  BY <1>2 DEF StarterReady, TInv, TypeOK, AttemptLeft, EpochOrder, StarterStates, LoopStates,
     proxyVars, sessionVars, regVars, pathVars
<1>3. CASE StarterFailed(s)
  BY <1>3 DEF StarterFailed, MayRetry, TInv, TypeOK, AttemptLeft, EpochOrder, StarterStates,
     proxyVars, sessionVars, regVars, pathVars
<1>4. CASE StarterRetries(s)
  BY <1>4 DEF StarterRetries, SpawnConn0, TInv, TypeOK, AttemptLeft, EpochOrder, StarterStates,
     LoopStates, proxyVars, sessionVars, regVars, pathVars
<1>6. CASE StarterCaptcha(s)
  BY <1>6 DEF StarterCaptcha, TInv, TypeOK, AttemptLeft, EpochOrder, StarterStates, proxyVars,
     sessionVars, regVars, pathVars
<1>5. CASE StarterStops(s)
  BY <1>5 DEF StarterStops, TInv, TypeOK, AttemptLeft, EpochOrder, StarterStates, proxyVars,
     sessionVars, regVars, pathVars
<1> QED BY <1>1, <1>2, <1>3, <1>4, <1>5, <1>6 DEF StarterStep

LEMMA TInvLoop ==
  ASSUME TInv, NEW l \in Loops, LoopStep(l) PROVE TInv'
<1> USE ConstantsAssumption, LoopFacts
<1>7. CASE WaitOver(l)
  BY <1>7 DEF WaitOver, MoveLoop, TInv, TypeOK, AttemptLeft, EpochOrder, LoopStates, proxyVars,
     starterVars, sessionVars, regVars, pathVars
<1>1. CASE Check(l)
  BY <1>1 DEF Check, MoveLoop, TInv, TypeOK, AttemptLeft, EpochOrder, LoopStates, proxyVars,
     starterVars, sessionVars, regVars, pathVars
<1>2. CASE Begin(l)
  BY <1>2 DEF Begin, MoveLoop, TInv, TypeOK, AttemptLeft, EpochOrder, LoopStates, proxyVars,
     starterVars, pathVars
<1>3. CASE Established(l)
  BY <1>3 DEF Established, MoveLoop, TInv, TypeOK, AttemptLeft, EpochOrder, LoopStates, proxyVars,
     starterVars, sessionVars, regVars, pathVars
<1>4. CASE SendGroupHello(l)
  BY <1>4 DEF SendGroupHello, TInv, TypeOK, AttemptLeft, EpochOrder, proxyVars, starterVars,
     regVars, pathVars
<1>5. CASE SessionEnds(l)
  BY <1>5 DEF SessionEnds, Live, MoveLoop, TInv, TypeOK, AttemptLeft, EpochOrder, LoopStates,
     proxyVars, starterVars, regVars, pathVars
<1>6. CASE End(l)
  BY <1>6 DEF End, Forget, MoveLoop, TInv, TypeOK, AttemptLeft, EpochOrder, LoopStates, NoGroup,
     proxyVars, starterVars, pathVars
<1> QED BY <1>1, <1>2, <1>3, <1>4, <1>5, <1>6, <1>7 DEF LoopStep

LEMMA TInvPath ==
  ASSUME TInv,
         RotateGroupHello \/ PathUp \/ TimerFires
           \/ \E e \in 1 .. MaxUps : RestartSessionsOlderThan(e)
  PROVE  TInv'
<1> USE ConstantsAssumption, LoopFacts
<1>1. CASE RotateGroupHello
  BY <1>1 DEF RotateGroupHello, TInv, TypeOK, AttemptLeft, EpochOrder, proxyVars, starterVars,
     sessionVars, regVars
<1>2. CASE PathUp
  <2>1. /\ epoch' \in 0 .. MaxUps /\ timer' \in 0 .. MaxUps
        /\ epoch <= epoch' /\ epoch' <= hello /\ timer' <= epoch'
    BY <1>2 DEF PathUp, NextEpoch, Armed, TInv, TypeOK, EpochOrder
  <2>2. TypeOK' /\ AttemptLeft'
    BY <1>2, <2>1 DEF PathUp, TInv, TypeOK, AttemptLeft, proxyVars, starterVars, sessionVars,
       regVars
  <2>3. EpochOrder'
    BY <1>2, <2>1 DEF PathUp, TInv, TypeOK, EpochOrder, sessionVars
  <2> QED BY <2>2, <2>3 DEF TInv
<1>3. CASE TimerFires
  BY <1>3 DEF TimerFires, NoTimer, TInv, TypeOK, AttemptLeft, EpochOrder, proxyVars, starterVars,
     sessionVars, regVars
<1>4. CASE \E e \in 1 .. MaxUps : RestartSessionsOlderThan(e)
  BY <1>4 DEF RestartSessionsOlderThan, TInv, TypeOK, AttemptLeft, EpochOrder, proxyVars,
     starterVars, regVars
<1> QED BY <1>1, <1>2, <1>3, <1>4

LEMMA TInvStep == TInv /\ [Next]_vars => TInv'
<1> SUFFICES ASSUME TInv, [Next]_vars PROVE TInv'
  OBVIOUS
<1> USE ConstantsAssumption, LoopFacts
<1>1. CASE NewSession
  <2>1. gen + 1 \in Gens
    BY <1>1 DEF NewSession, TInv, TypeOK, Gens
  <2>2. gen \in Int /\ gen + 1 > gen /\ \A s \in Gens : s \in Int
    BY DEF TInv, TypeOK, Gens
  <2>3. attempts[gen + 1] = 0
    BY <2>1, <2>2 DEF TInv, AttemptLeft
  <2>4. TypeOK'
    BY <1>1, <2>1 DEF NewSession, TInv, TypeOK, StarterStates, sessionVars, regVars, pathVars
  <2>5. AttemptLeft'
    BY <1>1, <2>1, <2>2, <2>3 DEF NewSession, TInv, TypeOK, AttemptLeft
  <2>6. EpochOrder'
    BY <1>1 DEF NewSession, TInv, EpochOrder, sessionVars, pathVars
  <2> QED BY <2>4, <2>5, <2>6 DEF TInv
<1>4. CASE Stop
  BY <1>4 DEF Stop, TInv, TypeOK, AttemptLeft, EpochOrder, proxyVars, starterVars, sessionVars,
     regVars, pathVars
<1>2. CASE Pause
  BY <1>2 DEF Pause, TInv, TypeOK, AttemptLeft, EpochOrder, starterVars, sessionVars, regVars,
     pathVars
<1>3. CASE UNCHANGED vars
  BY <1>3 DEF vars, TInv, TypeOK, AttemptLeft, EpochOrder, proxyVars, starterVars, sessionVars,
     regVars, pathVars
<1> QED BY <1>1, <1>2, <1>3, <1>4, TInvStarter, TInvLoop, TInvPath DEF Next

\* Every variable keeps its type: the bootstrap makes at most
\* maxBootstrapAttempts attempts, and no epoch outruns the rotations.
THEOREM TypeCorrect == Spec => []TypeOK
<1>1. TInv => TypeOK
  BY DEF TInv
<1> QED BY <1>1, TInvInit, TInvStep, PTL DEF Spec

-----------------------------------------------------------------------------
(* Where the loops of a starter are *)

\* Conn 0's loop exists once its starter read the context and is over when the
\* starter backs off; the others exist once the starter is done.
Launched ==
  \A s \in Gens :
    /\ spc[s] \in {"none", "spawned"} => \A l \in Loops : l[1] = s => pc[l] = "none"
    /\ spc[s] \in {"boot", "backoff"} =>
         \A l \in Loops : l[1] = s /\ l[2] # 0 => pc[l] = "none"
    /\ spc[s] = "backoff" => pc[BootLoop(s)] = "gone"

LEMMA LaunchedInit == Init => Launched
BY LoopFacts DEF Init, Launched

\* A loop step moves one loop, and only one that is neither to be launched nor
\* gone, to a place that is neither.
LEMMA LoopMoves ==
  ASSUME TInv, NEW l \in Loops, LoopStep(l)
  PROVE  /\ pc[l] \notin {"none", "gone"}
         /\ pc' = [pc EXCEPT ![l] = pc'[l]]
         /\ spc' = spc
<1> USE DEF TInv, TypeOK
<1>1. CASE WaitOver(l) \/ Check(l)
  BY <1>1 DEF WaitOver, Check, MoveLoop, starterVars
<1>2. CASE Begin(l) \/ Established(l)
  BY <1>2 DEF Begin, Established, MoveLoop, starterVars
<1>3. CASE SendGroupHello(l)
  BY <1>3 DEF SendGroupHello, starterVars
<1>4. CASE SessionEnds(l) \/ End(l)
  BY <1>4 DEF SessionEnds, End, MoveLoop, starterVars
<1> QED BY <1>1, <1>2, <1>3, <1>4 DEF LoopStep

\* What leaves the starters and the loops' places alone.
LEMMA OthersKeep ==
  ASSUME [Next]_vars,
         ~\E s \in Gens : StarterStep(s), ~\E l \in Loops : LoopStep(l)
  PROVE  /\ UNCHANGED pc
         /\ UNCHANGED spc \/ (NewSession /\ spc' = [spc EXCEPT ![gen + 1] = "spawned"])
<1>1. CASE NewSession
  BY <1>1 DEF NewSession
<1>2. CASE Pause \/ Stop
  BY <1>2 DEF Pause, Stop, starterVars
<1>3. CASE RotateGroupHello \/ PathUp \/ TimerFires
  BY <1>3 DEF RotateGroupHello, PathUp, TimerFires, starterVars
<1>4. CASE \E e \in 1 .. MaxUps : RestartSessionsOlderThan(e)
  BY <1>4 DEF RestartSessionsOlderThan, starterVars
<1>5. CASE UNCHANGED vars
  BY <1>5 DEF vars, starterVars
<1> QED BY <1>1, <1>2, <1>3, <1>4, <1>5 DEF Next

LEMMA LaunchedStep == TInv /\ Launched /\ [Next]_vars => Launched'
<1> SUFFICES ASSUME TInv, Launched, [Next]_vars PROVE Launched'
  OBVIOUS
<1> USE LoopFacts
<1>0. spc \in [Gens -> StarterStates] /\ pc \in [Loops -> LoopStates]
  BY DEF TInv, TypeOK
<1>1. ASSUME NEW s \in Gens, StarterStep(s) PROVE Launched'
  <2>1. CASE StarterReads(s)
    BY <1>0, <2>1 DEF StarterReads, SpawnConn0, Launched
  <2>2. CASE StarterReady(s)
    BY <1>0, <2>2 DEF StarterReady, Launched
  <2>3. CASE StarterFailed(s)
    BY <1>0, <2>3 DEF StarterFailed, Launched
  <2>4. CASE StarterCaptcha(s)
    BY <1>0, <2>4 DEF StarterCaptcha, Launched
  <2>5. CASE StarterRetries(s)
    BY <1>0, <2>5 DEF StarterRetries, SpawnConn0, Launched
  <2>6. CASE StarterStops(s)
    BY <1>0, <2>6 DEF StarterStops, Launched
  <2> QED BY <1>1, <2>1, <2>2, <2>3, <2>4, <2>5, <2>6 DEF StarterStep
<1>2. ASSUME NEW l \in Loops, LoopStep(l) PROVE Launched'
  BY <1>0, <1>2, LoopMoves DEF Launched
<1>3. CASE ~(\E s \in Gens : StarterStep(s)) /\ ~(\E l \in Loops : LoopStep(l))
  <2>1. CASE UNCHANGED <<spc, pc>>
    BY <2>1 DEF Launched
  <2>2. CASE NewSession /\ spc' = [spc EXCEPT ![gen + 1] = "spawned"]
    <3>2. gen + 1 \in Gens /\ gen + 1 > gen
      BY <2>2, ConstantsAssumption DEF NewSession, TInv, TypeOK, Gens
    <3>1. gen + 1 \in Gens /\ spc[gen + 1] = "none"
      BY <3>2 DEF TInv, AttemptLeft
    <3> QED BY <1>0, <1>3, <2>2, <3>1, OthersKeep DEF Launched
  <2> QED BY <1>3, <2>1, <2>2, OthersKeep
<1> QED BY <1>1, <1>2, <1>3

-----------------------------------------------------------------------------
(* Restarts *)

\* A session that is under way, up to endConnSession.
Seated(l) == pc[l] \in {"dialing", "up", "ended"}

\* A registered cancel belongs to a session of that connection that is under
\* way, stamped with the epoch registered beside it.
RegisteredRuns ==
  \A c \in Conns : reg[c] # NoLoop =>
    /\ reg[c] \in Loops /\ reg[c][2] = c
    /\ Seated(reg[c])
    /\ stamp[reg[c]] = connEpoch[c]

\* A starter never resets a loop that has a session.
LEMMA StarterSpares ==
  ASSUME TInv, Launched, NEW s \in Gens, StarterStep(s), NEW l \in Loops, Seated(l)
  PROVE  pc'[l] = pc[l]
<1> USE LoopFacts DEF Seated
<1>0. pc \in [Loops -> LoopStates]
  BY DEF TInv, TypeOK
<1>1. CASE StarterReads(s)
  BY <1>0, <1>1 DEF StarterReads, SpawnConn0, Launched
<1>2. CASE StarterReady(s)
  BY <1>0, <1>2 DEF StarterReady, Launched
<1>3. CASE StarterFailed(s) \/ StarterCaptcha(s) \/ StarterStops(s)
  BY <1>3 DEF StarterFailed, StarterCaptcha, StarterStops
<1>4. CASE StarterRetries(s)
  BY <1>0, <1>4 DEF StarterRetries, SpawnConn0, Launched
<1> QED BY <1>1, <1>2, <1>3, <1>4 DEF StarterStep

\* Nor does it give a loop one.
LEMMA StarterSeatsNobody ==
  ASSUME TInv, NEW s \in Gens, StarterStep(s), NEW l \in Loops, Seated(l)'
  PROVE  pc[l] = pc'[l]
<1> USE LoopFacts DEF Seated
<1>0. pc \in [Loops -> LoopStates]
  BY DEF TInv, TypeOK
<1>1. CASE StarterReads(s) \/ StarterRetries(s)
  BY <1>0, <1>1 DEF StarterReads, StarterRetries, SpawnConn0
<1>2. CASE StarterReady(s)
  BY <1>0, <1>2 DEF StarterReady
<1>3. CASE StarterFailed(s) \/ StarterCaptcha(s) \/ StarterStops(s)
  BY <1>3 DEF StarterFailed, StarterCaptcha, StarterStops
<1> QED BY <1>1, <1>2, <1>3 DEF StarterStep

\* What a starter and the lifecycle leave alone.
LEMMA StarterKeeps ==
  ASSUME NEW s \in Gens, StarterStep(s)
  PROVE  UNCHANGED <<gen, paused, stopped, sessionVars, regVars, pathVars, firstSessionUp>>
BY DEF StarterStep, StarterReads, StarterReady, StarterFailed, StarterCaptcha,
       StarterRetries, StarterStops, SpawnConn0, proxyVars

LEMMA LifecycleKeeps ==
  ASSUME NewSession \/ Pause \/ Stop \/ UNCHANGED vars
  PROVE  /\ UNCHANGED <<pc, sessionVars, regVars, pathVars, firstSessionUp>>
         /\ stopped => stopped'
BY DEF NewSession, Pause, Stop, vars, proxyVars

PathStep ==
  \/ RotateGroupHello
  \/ PathUp
  \/ TimerFires
  \/ \E e \in 1 .. MaxUps : RestartSessionsOlderThan(e)

LEMMA PathKeeps ==
  ASSUME PathStep
  PROVE  UNCHANGED <<gen, paused, stopped, pc, stamp, group, asked, regVars, firstSessionUp>>
BY DEF PathStep, RotateGroupHello, PathUp, TimerFires, RestartSessionsOlderThan,
       proxyVars, sessionVars

\* The four kinds of steps.
LEMMA NextCases ==
  ASSUME [Next]_vars
  PROVE  \/ NewSession \/ Pause \/ Stop \/ UNCHANGED vars
         \/ \E s \in Gens : StarterStep(s)
         \/ \E l \in Loops : LoopStep(l)
         \/ PathStep
BY DEF Next, PathStep

LEMMA RegisteredStep ==
  TInv /\ Launched /\ RegisteredRuns /\ [Next]_vars => RegisteredRuns'
<1> SUFFICES ASSUME TInv, Launched, RegisteredRuns, [Next]_vars
             PROVE  RegisteredRuns'
  OBVIOUS
<1> USE LoopFacts
<1>0. /\ pc \in [Loops -> LoopStates] /\ stamp \in [Loops -> 0 .. MaxUps]
      /\ reg \in [Conns -> Loops \cup {NoLoop}] /\ connEpoch \in [Conns -> 0 .. MaxUps]
  BY DEF TInv, TypeOK
<1>1. CASE NewSession \/ Pause \/ Stop \/ UNCHANGED vars
  BY <1>1, LifecycleKeeps DEF RegisteredRuns, Seated, sessionVars, regVars
<1>2. ASSUME NEW s \in Gens, StarterStep(s) PROVE RegisteredRuns'
  <2>1. UNCHANGED <<stamp, reg, connEpoch>>
    BY <1>2, StarterKeeps DEF sessionVars, regVars
  <2>2. \A l \in Loops : Seated(l) => Seated(l)'
    BY <1>2, StarterSpares DEF Seated
  <2> QED BY <2>1, <2>2 DEF RegisteredRuns
<1>3. CASE PathStep
  BY <1>3, PathKeeps DEF RegisteredRuns, Seated, regVars
<1>4. ASSUME NEW l \in Loops, LoopStep(l) PROVE RegisteredRuns'
  <2>1. CASE WaitOver(l)
    BY <1>0, <2>1 DEF WaitOver, MoveLoop, RegisteredRuns, Seated, sessionVars, regVars
  <2>2. CASE Check(l)
    BY <1>0, <2>2 DEF Check, MoveLoop, RegisteredRuns, Seated, sessionVars, regVars
  <2>3. CASE Begin(l)
    BY <1>0, <2>3 DEF Begin, MoveLoop, RegisteredRuns, Seated
  <2>4. CASE Established(l)
    BY <1>0, <2>4 DEF Established, MoveLoop, RegisteredRuns, Seated, sessionVars, regVars
  <2>5. CASE SendGroupHello(l)
    BY <1>0, <2>5 DEF SendGroupHello, RegisteredRuns, Seated, regVars
  <2>6. CASE SessionEnds(l)
    BY <1>0, <2>6 DEF SessionEnds, MoveLoop, RegisteredRuns, Seated, regVars
  <2>7. CASE End(l)
    BY <1>0, <2>7 DEF End, Forget, MoveLoop, RegisteredRuns, Seated
  <2> QED BY <1>4, <2>1, <2>2, <2>3, <2>4, <2>5, <2>6, <2>7 DEF LoopStep
<1> QED BY <1>1, <1>2, <1>3, <1>4, NextCases

LEMMA RegisteredInit == Init => RegisteredRuns
BY DEF Init, RegisteredRuns

\* A loop's step cancels no session.
LEMMA LoopRaisesNoHit ==
  ASSUME TInv, NEW l \in Loops, LoopStep(l), NEW m \in Loops, hit'[m]
  PROVE  hit[m]
<1> USE DEF TInv, TypeOK
<1>1. CASE WaitOver(l) \/ Check(l) \/ Established(l)
  BY <1>1 DEF WaitOver, Check, Established, sessionVars
<1>2. CASE Begin(l) \/ SendGroupHello(l) \/ SessionEnds(l)
  BY <1>2 DEF Begin, SendGroupHello, SessionEnds
<1>3. CASE End(l)
  BY <1>3 DEF End
<1> QED BY <1>1, <1>2, <1>3 DEF LoopStep

\* "A restart can never cancel a session that started after its epoch": whoever
\* restartSessionsOlderThan cancels was stamped before the newest path-up.
THEOREM RestartSpares == Spec => RestartSparesNewer
<1> DEFINE Inv == TInv /\ Launched /\ RegisteredRuns
<1>1. Init => Inv
  BY TInvInit, LaunchedInit, RegisteredInit
<1>2. Inv /\ [Next]_vars => Inv'
  BY TInvStep, LaunchedStep, RegisteredStep
<1>3. Inv /\ [Next]_vars => [\A l \in Loops : (~hit[l] /\ hit'[l]) => stamp[l] < epoch]_vars
  <2> SUFFICES ASSUME Inv, [Next]_vars, NEW l \in Loops, ~hit[l], hit'[l]
               PROVE  stamp[l] < epoch
    OBVIOUS
  <2>1. \E e \in 1 .. MaxUps : RestartSessionsOlderThan(e)
    <3>1. CASE NewSession \/ Pause \/ Stop \/ UNCHANGED vars
      BY <3>1, LifecycleKeeps DEF sessionVars
    <3>2. CASE \E s \in Gens : StarterStep(s)
      BY <3>2, StarterKeeps DEF sessionVars
    <3>3. CASE \E m \in Loops : LoopStep(m)
      BY <3>3, LoopRaisesNoHit
    <3>4. CASE RotateGroupHello \/ PathUp \/ TimerFires
      BY <3>4 DEF RotateGroupHello, PathUp, TimerFires, sessionVars
    <3> QED BY <3>1, <3>2, <3>3, <3>4, NextCases DEF PathStep
  <2>2. PICK e \in 1 .. MaxUps : RestartSessionsOlderThan(e)
    BY <2>1
  <2>3. PICK c \in Conns : reg[c] = l /\ connEpoch[c] < e
    BY <2>2 DEF RestartSessionsOlderThan, Restarted, TInv, TypeOK
  <2> QED BY <2>2, <2>3, LoopFacts DEF RestartSessionsOlderThan, RegisteredRuns, TInv, TypeOK,
       EpochOrder
<1> QED BY <1>1, <1>2, <1>3, PTL DEF Spec, RestartSparesNewer

-----------------------------------------------------------------------------
(* Groups *)

\* Who has announced a group is up, and who is up has raised firstSessionUp
\* before it announced.
AnnouncedUp ==
  \A l \in Loops :
    /\ group[l] # NoGroup => pc[l] \in {"up", "ended"} /\ firstSessionUp
    /\ pc[l] = "up" => firstSessionUp

GroupInv == AnnouncedUp /\ EpochImpliesGroup

LEMMA GroupInit == Init => GroupInv
BY DEF Init, GroupInv, AnnouncedUp, EpochImpliesGroup, Running

LEMMA GroupStep == TInv /\ Launched /\ GroupInv /\ [Next]_vars => GroupInv'
<1> SUFFICES ASSUME TInv, Launched, GroupInv, [Next]_vars PROVE GroupInv'
  OBVIOUS
<1> USE LoopFacts DEF GroupInv
<1>0. /\ pc \in [Loops -> LoopStates] /\ stamp \in [Loops -> 0 .. MaxUps]
      /\ group \in [Loops -> {NoGroup} \cup 0 .. MaxUps]
      /\ epoch \in Nat /\ hello \in Nat /\ \A l \in Loops : stamp[l] <= epoch
  BY ConstantsAssumption DEF TInv, TypeOK, EpochOrder
<1>1. CASE NewSession \/ Pause \/ Stop \/ UNCHANGED vars
  BY <1>1, LifecycleKeeps DEF AnnouncedUp, EpochImpliesGroup, Running, sessionVars, pathVars
<1>2. ASSUME NEW s \in Gens, StarterStep(s) PROVE GroupInv'
  <2>1. UNCHANGED <<stamp, group, epoch, hello, rotated, firstSessionUp>>
    BY <1>2, StarterKeeps DEF sessionVars, pathVars
  <2>2. \A l \in Loops : pc[l] \in {"dialing", "up", "ended"} => pc'[l] = pc[l]
    BY <1>2, StarterSpares DEF Seated
  <2>3. \A l \in Loops : pc'[l] \in {"dialing", "up"} => pc[l] = pc'[l]
    BY <1>2, StarterSeatsNobody DEF Seated
  <2> QED BY <2>1, <2>2, <2>3 DEF AnnouncedUp, EpochImpliesGroup, Running
<1>3. CASE PathStep
  <2>1. UNCHANGED <<pc, stamp, group, firstSessionUp>>
    BY <1>3, PathKeeps
  <2>2. AnnouncedUp'
    BY <2>1 DEF AnnouncedUp
  <2>3. CASE RotateGroupHello
    BY <2>2, <2>3 DEF RotateGroupHello, EpochImpliesGroup
  <2>4. CASE PathUp
    <3>1. CASE firstSessionUp
      <4>1. \A l \in Loops : stamp'[l] # epoch'
        BY <1>0, <2>1, <2>4, <3>1 DEF PathUp, NextEpoch
      <4> QED BY <2>2, <4>1 DEF EpochImpliesGroup
    <3>2. CASE ~firstSessionUp
      <4>1. \A l \in Loops : group'[l] = NoGroup
        BY <2>1, <3>2 DEF AnnouncedUp
      <4> QED BY <2>2, <4>1 DEF EpochImpliesGroup
    <3> QED BY <3>1, <3>2
  <2>5. CASE TimerFires \/ \E e \in 1 .. MaxUps : RestartSessionsOlderThan(e)
    BY <2>1, <2>2, <2>5 DEF TimerFires, RestartSessionsOlderThan, EpochImpliesGroup, Running
  <2> QED BY <1>3, <2>2, <2>3, <2>4, <2>5 DEF PathStep
<1>4. ASSUME NEW l \in Loops, LoopStep(l) PROVE GroupInv'
  <2>1. CASE WaitOver(l)
    BY <1>0, <2>1 DEF WaitOver, MoveLoop, AnnouncedUp, EpochImpliesGroup, Running, sessionVars,
       pathVars
  <2>2. CASE Check(l)
    BY <1>0, <2>2 DEF Check, MoveLoop, AnnouncedUp, EpochImpliesGroup, Running, sessionVars,
       pathVars
  <2>3. CASE Begin(l)
    BY <1>0, <2>3 DEF Begin, MoveLoop, AnnouncedUp, EpochImpliesGroup, Running, pathVars
  <2>4. CASE Established(l)
    BY <1>0, <2>4 DEF Established, MoveLoop, AnnouncedUp, EpochImpliesGroup, Running, sessionVars,
       pathVars
  <2>5. CASE SendGroupHello(l)
    BY <1>0, <2>5 DEF SendGroupHello, AnnouncedUp, EpochImpliesGroup, Running, pathVars
  <2>6. CASE SessionEnds(l)
    BY <1>0, <2>6 DEF SessionEnds, MoveLoop, AnnouncedUp, EpochImpliesGroup, Running, pathVars
  <2>7. CASE End(l)
    BY <1>0, <2>7 DEF End, MoveLoop, AnnouncedUp, EpochImpliesGroup, Running, pathVars
  <2> QED BY <1>4, <2>1, <2>2, <2>3, <2>4, <2>5, <2>6, <2>7 DEF LoopStep
<1> QED BY <1>1, <1>2, <1>3, <1>4, NextCases

\* "Sessions that reconnect on their own inside the window already carry the new
\* id": between two path-ups, who is stamped with the current epoch has
\* announced the current group.
THEOREM EpochGroup == Spec => []EpochImpliesGroup
<1> DEFINE Inv == TInv /\ Launched /\ GroupInv
<1>1. Init => Inv
  BY TInvInit, LaunchedInit, GroupInit
<1>2. Inv /\ [Next]_vars => Inv'
  BY TInvStep, LaunchedStep, GroupStep
<1>3. Inv => EpochImpliesGroup
  BY DEF GroupInv
<1> QED BY <1>1, <1>2, <1>3, PTL DEF Spec

-----------------------------------------------------------------------------
(* Everybody registered moves *)

\* A registered session runs in a group that is no longer the current one.
Behind(c) ==
  /\ reg[c] # NoLoop /\ Running(reg[c])
  /\ group[reg[c]] # NoGroup /\ group[reg[c]] # hello

\* What will restart the loop's session: it is cancelled already, or a path-up
\* is half done, or the timer or a callback stands for an epoch after its stamp.
Sentenced(l) ==
  \/ hit[l]
  \/ rotated
  \/ timer > stamp[l]
  \/ \E e \in firing : e > stamp[l]

MovePending == ~stopped => \A c \in Conns : Behind(c) => Sentenced(reg[c])

MInv == TInv /\ Launched /\ RegisteredRuns /\ GroupInv /\ MovePending

LEMMA MoveInit == Init => MovePending
BY DEF Init, MovePending, Behind

LEMMA MovePath == MInv /\ PathStep => MovePending'
<1> SUFFICES ASSUME MInv, PathStep, ~stopped', NEW c \in Conns, Behind(c)'
             PROVE  Sentenced(reg[c])'
  BY DEF MovePending
<1> DEFINE l == reg[c]
<1>0. /\ UNCHANGED <<stopped, pc, stamp, group, reg, firstSessionUp>>
      /\ ~stopped /\ reg' = reg /\ l # NoLoop /\ Running(l) /\ group[l] # NoGroup
  BY PathKeeps DEF regVars, Behind, Running
<1>1. /\ l \in Loops /\ stamp[l] = connEpoch[c] /\ firstSessionUp
      /\ stamp[l] \in Nat /\ epoch \in Nat /\ timer \in Nat /\ stamp[l] <= epoch
      /\ hit \in [Loops -> BOOLEAN]
  BY <1>0, ConstantsAssumption
     DEF MInv, RegisteredRuns, GroupInv, AnnouncedUp, TInv, TypeOK, EpochOrder
<1>2. CASE RotateGroupHello
  BY <1>0, <1>2 DEF RotateGroupHello, Sentenced
<1>3. CASE PathUp
  BY <1>0, <1>1, <1>3 DEF PathUp, Armed, Sentenced
<1>4. CASE TimerFires \/ \E e \in 1 .. MaxUps : RestartSessionsOlderThan(e)
  <2>1. Sentenced(l)
    BY <1>0, <1>4 DEF TimerFires, RestartSessionsOlderThan, Behind, Running, MInv, MovePending
  <2>2. CASE TimerFires
    BY <1>0, <2>1, <2>2 DEF TimerFires, sessionVars, Sentenced
  <2>3. ASSUME NEW e \in 1 .. MaxUps, RestartSessionsOlderThan(e)
        PROVE  Sentenced(reg[c])'
    <3>1. hit' = [m \in Loops |-> hit[m] \/ m \in Restarted(e)]
      BY <1>0, <2>3 DEF RestartSessionsOlderThan
    <3>2. CASE e > stamp[l]
      <4>1. l \in Restarted(e)
        BY <1>0, <1>1, <3>2 DEF Restarted
      <4> QED BY <1>0, <1>1, <3>1, <4>1 DEF Sentenced
    <3>3. CASE ~(e > stamp[l])
      BY <1>0, <1>1, <2>1, <2>3, <3>1, <3>3 DEF RestartSessionsOlderThan, Sentenced
    <3> QED BY <3>2, <3>3
  <2> QED BY <1>4, <2>2, <2>3
<1> QED BY <1>2, <1>3, <1>4 DEF PathStep

\* A step that leaves a connection's registration and the registered session's
\* fields alone leaves its sentence alone.
LEMMA MoveKept ==
  ASSUME MovePending, stopped => stopped', UNCHANGED pathVars,
         NEW c \in Conns, reg'[c] = reg[c],
         (reg[c] # NoLoop /\ Running(reg[c])') => Running(reg[c]),
         reg[c] # NoLoop => /\ hit'[reg[c]] = hit[reg[c]]
                            /\ stamp'[reg[c]] = stamp[reg[c]]
                            /\ group'[reg[c]] = group[reg[c]],
         ~stopped', Behind(c)'
  PROVE  Sentenced(reg[c])'
<1>1. Behind(c)
  BY DEF Behind, Running, pathVars
<1>2. Sentenced(reg[c])
  BY <1>1 DEF MovePending
<1> QED BY <1>1, <1>2 DEF Sentenced, Behind, pathVars

LEMMA MoveLoopStep ==
  ASSUME MInv, NEW l \in Loops, LoopStep(l) PROVE MovePending'
<1> SUFFICES ASSUME ~stopped', NEW c \in Conns, Behind(c)'
             PROVE  Sentenced(reg[c])'
  BY DEF MovePending
<1> USE LoopFacts
<1>0. /\ pc \in [Loops -> LoopStates] /\ stamp \in [Loops -> 0 .. MaxUps]
      /\ hit \in [Loops -> BOOLEAN]
      /\ group \in [Loops -> {NoGroup} \cup 0 .. MaxUps]
      /\ reg \in [Conns -> Loops \cup {NoLoop}]
      /\ RegisteredRuns /\ AnnouncedUp /\ MovePending
  BY DEF MInv, TInv, TypeOK, GroupInv
<1>1. UNCHANGED pathVars /\ UNCHANGED stopped
  BY DEF LoopStep, WaitOver, Check, Begin, Established, SendGroupHello, SessionEnds, End, proxyVars
<1>2. CASE WaitOver(l) \/ Check(l) \/ SessionEnds(l)
  <2>1. UNCHANGED <<reg, hit, stamp, group>>
    BY <1>2 DEF WaitOver, Check, SessionEnds, sessionVars, regVars
  <2>2. (reg[c] # NoLoop /\ Running(reg[c])') => Running(reg[c])
    BY <1>0, <1>2, <2>1 DEF WaitOver, Check, SessionEnds, MoveLoop, Running, RegisteredRuns
  <2> QED BY <1>0, <1>1, <2>1, <2>2, MoveKept
<1>3. CASE Established(l)
  <2>1. UNCHANGED <<reg, hit, stamp, group>>
    BY <1>3 DEF Established, sessionVars, regVars
  <2>2. (reg[c] # NoLoop /\ Running(reg[c])') => Running(reg[c])
    BY <1>0, <1>3, <2>1 DEF Established, MoveLoop, Running, RegisteredRuns
  <2> QED BY <1>0, <1>1, <2>1, <2>2, MoveKept
<1>4. CASE Begin(l)
  <2>1. UNCHANGED <<hit, group>> /\ pc[l] = "entering" /\ group[l] = NoGroup
    BY <1>0, <1>4 DEF Begin, MoveLoop, AnnouncedUp
  <2>2. l[2] # c
    BY <1>0, <1>4, <2>1 DEF Begin, Behind
  <2>3. reg'[c] = reg[c] /\ (reg[c] # NoLoop => reg[c] \in Loops /\ reg[c] # l)
    BY <1>0, <1>4, <2>2 DEF Begin, RegisteredRuns
  <2>4. reg[c] # NoLoop => /\ stamp'[reg[c]] = stamp[reg[c]]
                           /\ Running(reg[c])' => Running(reg[c])
    BY <1>0, <1>4, <2>3 DEF Begin, MoveLoop, Running
  <2> QED BY <1>0, <1>1, <2>1, <2>3, <2>4, MoveKept
<1>5. CASE SendGroupHello(l)
  <2>1. UNCHANGED <<pc, reg, hit, stamp>>
    BY <1>5 DEF SendGroupHello, regVars
  <2>2. reg[c] # l
    BY <1>0, <1>1, <1>5, <2>1 DEF SendGroupHello, Behind, pathVars
  <2>3. reg[c] # NoLoop => group'[reg[c]] = group[reg[c]]
    BY <1>0, <1>5, <2>2 DEF SendGroupHello, RegisteredRuns
  <2> QED BY <1>0, <1>1, <2>1, <2>3, MoveKept DEF Running
<1>6. CASE End(l)
  <2>1. reg' = [reg EXCEPT ![l[2]] = NoLoop]
    BY <1>6 DEF End, Forget
  <2>2. l[2] # c
    BY <1>0, <2>1 DEF Behind
  <2>3. reg'[c] = reg[c] /\ (reg[c] # NoLoop => reg[c] \in Loops /\ reg[c] # l)
    BY <1>0, <2>1, <2>2 DEF RegisteredRuns
  <2>4. reg[c] # NoLoop => /\ hit'[reg[c]] = hit[reg[c]]
                           /\ stamp'[reg[c]] = stamp[reg[c]]
                           /\ group'[reg[c]] = group[reg[c]]
                           /\ Running(reg[c])' => Running(reg[c])
    BY <1>0, <1>6, <2>3 DEF End, MoveLoop, Running
  <2> QED BY <1>0, <1>1, <2>3, <2>4, MoveKept
<1> QED BY <1>2, <1>3, <1>4, <1>5, <1>6 DEF LoopStep

LEMMA MoveStep == MInv /\ [Next]_vars => MovePending'
<1> SUFFICES ASSUME MInv, [Next]_vars PROVE MovePending'
  OBVIOUS
<1>1. CASE NewSession \/ Pause \/ Stop \/ UNCHANGED vars
  BY <1>1, LifecycleKeeps
     DEF MInv, MovePending, Behind, Sentenced, Running, sessionVars, regVars, pathVars
<1>2. ASSUME NEW s \in Gens, StarterStep(s) PROVE MovePending'
  <2>1. UNCHANGED <<stopped, hit, stamp, group, reg, pathVars>>
    BY <1>2, StarterKeeps DEF sessionVars, regVars
  <2>2. \A c \in Conns : (reg[c] # NoLoop /\ Running(reg[c])') => Running(reg[c])
    BY <1>2, <2>1, StarterSeatsNobody DEF MInv, RegisteredRuns, Seated, Running
  <2> SUFFICES ASSUME ~stopped', NEW c \in Conns, Behind(c)' PROVE Sentenced(reg[c])'
    BY DEF MovePending
  <2> QED BY <2>1, <2>2, MoveKept DEF MInv
<1>3. CASE \E l \in Loops : LoopStep(l)
  BY <1>3, MoveLoopStep
<1>4. CASE PathStep
  BY <1>4, MovePath
<1> QED BY <1>1, <1>2, <1>3, <1>4, NextCases

\* "EVERY session moves": once the restarts are done, a running session that is
\* registered with its connection is in the current group or on its way out.
THEOREM EveryRegisteredMoves == Spec => []RegisteredSessionsMove
<1>1. Init => MInv
  BY TInvInit, LaunchedInit, RegisteredInit, GroupInit, MoveInit DEF MInv
<1>2. MInv /\ [Next]_vars => MInv'
  BY TInvStep, LaunchedStep, RegisteredStep, GroupStep, MoveStep DEF MInv
<1>3. MInv => RegisteredSessionsMove
  <2> SUFFICES ASSUME MInv, Settled, ~stopped, NEW c \in Conns, Behind(c)
               PROVE  hit[reg[c]]
    BY DEF RegisteredSessionsMove, Behind, Cancelled
  <2>1. Sentenced(reg[c]) /\ reg[c] \in Loops
    BY DEF MInv, MovePending, RegisteredRuns, Behind
  <2>2. ~(timer > stamp[reg[c]])
    BY <2>1, ConstantsAssumption DEF MInv, TInv, TypeOK, Settled, NoTimer
  <2> QED BY <2>1, <2>2, Zenon DEF Sentenced, Settled
<1> QED BY <1>1, <1>2, <1>3, PTL DEF Spec
=============================================================================
