-------------------------- MODULE ProgressProofs --------------------------
(***************************************************************************)
(* Proofs about MCProgress, for any constants: the types of its six        *)
(* machines, that nothing is misused (NothingMisused), that attempts and   *)
(* clocks are given up with a reason (StepsJustified) and no csqtt worker  *)
(* for a suspension (SilentWhileRunning).  The machines share no state: a  *)
(* step of the whole is a step or a stutter of each (ProgressSteps), and   *)
(* each has an inductive invariant of its own.                             *)
(***************************************************************************)
EXTENDS MCProgress, FiniteSetTheorems, TLAPS

progressVars == <<part, livenessVars, probeVars, captchaVars, mintVars, bridgeVars, csqttVars>>

LEMMA ProgressSteps ==
  ASSUME [ProgressNext]_progressVars
  PROVE  /\ [LivenessNext]_livenessVars /\ [ProbeNext]_probeVars /\ [CaptchaNext]_captchaVars
         /\ [MintNext]_mintVars /\ [BridgeNext]_bridgeVars /\ [CsqttNext]_csqttVars
<1> USE DEF progressVars, Only
<1>1. CASE UNCHANGED progressVars
  BY <1>1
<1>2. CASE ProgressNext
  BY <1>2 DEF ProgressNext
<1>3. QED
  BY <1>1, <1>2

-----------------------------------------------------------------------------
(* The handle of a csqtt tunnel                                            *)

JoinPlaces == {"lookup", "lock", "open", "over"}
CsqttTypes ==
  /\ CsqttBridgeTypeOK
  /\ joining \in [Joiners -> JoinPlaces]
  /\ turnoff \in {"called", "cancel", "dial", "client", "device", "pumps", "over"}
\* The client while the start goroutine has it, and after.
ClientInHand ==
  /\ dial \in {"dials", "fails"} => cli = "none" /\ ~field /\ closings = {}
  /\ dial \in {"publish", "assign", "close"} => cli = "live" /\ ~field /\ closings = {}
  /\ dial = "over" /\ ~field =>
       (cli = "none" /\ closings = {}) \/ (cli = "closed" /\ closings = {"starter"})
  /\ dial = "over" /\ field =>
       (cli = "live" /\ closings = {}) \/ (cli = "closed" /\ closings = {"stop"})
\* The stop cancels before anything else: what comes to be published after it
\* has passed the client, or installed after the device, sees the cancel.
StopOrder ==
  /\ turnoff \notin {"called", "cancel"} => cancelled
  /\ turnoff \in {"device", "pumps", "over"} => dial # "assign" /\ (field => cli = "closed")
  /\ turnoff \in {"pumps", "over"} => dev # "open" /\ \A a \in Joiners : joining[a] # "open"
\* devMu: one attach installs, over no device.
OneInstalls ==
  \A a \in Joiners : joining[a] = "open" =>
    dev = "none" /\ \A b \in Joiners \ {a} : joining[b] # "open"
CsqttInv == CsqttTypes /\ ClientInHand /\ StopOrder /\ OneInstalls

LEMMA CsqttInitial == CsqttInit => CsqttInv
BY DEF CsqttInit, CsqttInv, CsqttTypes, CsqttBridgeTypeOK, ClientInHand, StopOrder, OneInstalls,
   NoText, JoinPlaces, Pumps

LEMMA CsqttStarting ==
  ASSUME CsqttInv, CsqttBridgeAssumption, Starting
  PROVE  CsqttInv'
<1> USE DEF CsqttInv, CsqttTypes, CsqttBridgeTypeOK, ClientInHand, StopOrder, OneInstalls, failVars,
            devVars, NoText, FirstText, CsqttBridgeAssumption
<1>1. CASE DialFails
  BY <1>1 DEF DialFails
<1>2. CASE DialFailed
  BY <1>2 DEF DialFailed
<1>3. CASE SettleCancelled
  BY <1>3 DEF SettleCancelled
<1>4. CASE DialReturns
  BY <1>4 DEF DialReturns
<1>5. CASE PublishChecks
  BY <1>5 DEF PublishChecks
<1>6. CASE PublishAssigns
  BY <1>6 DEF PublishAssigns
<1>7. CASE StarterCloses
  BY <1>7 DEF StarterCloses
<1>8. QED
  BY <1>1, <1>2, <1>3, <1>4, <1>5, <1>6, <1>7 DEF Starting

LEMMA CsqttAttaching ==
  ASSUME CsqttInv, CsqttBridgeAssumption, NEW a \in Joiners, Attaching(a)
  PROVE  CsqttInv'
<1> USE DEF CsqttInv, CsqttTypes, CsqttBridgeTypeOK, ClientInHand, StopOrder, OneInstalls, failVars,
            startVars, JoinPlaces
<1>1. CASE JoinLooksUp(a)
  BY <1>1 DEF JoinLooksUp
<1>2. CASE JoinChecks(a)
  BY <1>2 DEF JoinChecks, DevLock, MayAttach
<1>3. CASE JoinFails(a)
  BY <1>3 DEF JoinFails
<1>4. CASE JoinAttaches(a)
  BY <1>4 DEF JoinAttaches
<1>5. QED
  BY <1>1, <1>2, <1>3, <1>4 DEF Attaching

LEMMA CsqttStopping ==
  ASSUME CsqttInv, CsqttBridgeAssumption, Stopping \/ Unlist
  PROVE  CsqttInv'
<1> USE DEF CsqttInv, CsqttTypes, CsqttBridgeTypeOK, ClientInHand, StopOrder, OneInstalls, failVars,
            startVars, devVars, Goes
<1>1. CASE Unlist
  BY <1>1 DEF Unlist
<1>2. CASE CancelAll
  BY <1>2 DEF CancelAll
<1>3. CASE DialJoined
  BY <1>3 DEF DialJoined
<1>4. CASE CloseClient
  BY <1>4 DEF CloseClient, ClientLock
<1>5. CASE CloseTun
  BY <1>5 DEF CloseTun, DevLock
<1>6. CASE PumpsJoined
  BY <1>6 DEF PumpsJoined
<1>7. QED
  BY <1>1, <1>2, <1>3, <1>4, <1>5, <1>6 DEF Stopping

LEMMA CsqttKept == CsqttInv /\ [CsqttNext]_csqttVars /\ CsqttBridgeAssumption => CsqttInv'
<1> SUFFICES ASSUME CsqttInv, [CsqttNext]_csqttVars, CsqttBridgeAssumption
             PROVE  CsqttInv'
  OBVIOUS
<1> USE DEF failVars, startVars, devVars
<1>1. CASE UNCHANGED csqttVars
  BY <1>1 DEF csqttVars, CsqttInv, CsqttTypes, CsqttBridgeTypeOK, ClientInHand, StopOrder,
     OneInstalls
<1>2. CASE WaitReady
  BY <1>2 DEF WaitReady, CsqttInv, CsqttTypes, CsqttBridgeTypeOK, ClientInHand, StopOrder,
     OneInstalls
<1>3. ASSUME NEW p \in Pumps, PumpEnds(p)
      PROVE  CsqttInv'
  BY <1>3 DEF PumpEnds, CsqttInv, CsqttTypes, CsqttBridgeTypeOK, ClientInHand, StopOrder,
     OneInstalls
<1>4. ASSUME NEW f \in Failures, BeginFail(f) \/ EndFail(f)
      PROVE  CsqttInv'
  <2> USE DEF CsqttInv, CsqttTypes, CsqttBridgeTypeOK, ClientInHand, StopOrder, OneInstalls
  <2>1. CASE BeginFail(f)
    <3>1. fatal' \in Failures \cup {"dial", NoText} /\ fatal' # NoText
      BY <2>1 DEF BeginFail, FirstText, NoText, CsqttBridgeAssumption
    <3>2. QED
      BY <2>1, <3>1 DEF BeginFail
  <2>2. CASE EndFail(f)
    BY <2>2 DEF EndFail
  <2>3. QED
    BY <1>4, <2>1, <2>2
<1>5. CASE Starting
  BY <1>5, CsqttStarting
<1>6. CASE Stopping \/ Unlist
  BY <1>6, CsqttStopping
<1>7. ASSUME NEW a \in Joiners, Attaching(a)
      PROVE  CsqttInv'
  BY <1>7, CsqttAttaching
<1>8. QED
  BY <1>1, <1>2, <1>3, <1>4, <1>5, <1>6, <1>7 DEF CsqttNext

LEMMA CsqttHeld == CsqttInv => ClientClosedOnce /\ TunClosed
<1> SUFFICES ASSUME CsqttInv
             PROVE  ClientClosedOnce /\ TunClosed
  OBVIOUS
<1> USE DEF CsqttInv, CsqttTypes, CsqttBridgeTypeOK, ClientInHand, StopOrder
<1>1. closings \in {{}, {"starter"}, {"stop"}}
  OBVIOUS
<1>2. Cardinality(closings) <= 1
  <2>1. Cardinality({}) = 0
    BY FS_EmptySet
  <2>2. Cardinality({"starter"}) = 1 /\ Cardinality({"stop"}) = 1
    BY FS_Singleton
  <2>3. QED
    BY <1>1, <2>1, <2>2
<1>3. QED
  BY <1>2 DEF ClientClosedOnce, TunClosed, Dialed

-----------------------------------------------------------------------------
(* The handle of a WireGuard tunnel                                        *)

StopRecords == [pc : {"called", "proxy", "device", "over"}, dev : Attaches \cup {NoDevice}]
DeviceTypes ==
  /\ registered \in BOOLEAN /\ device \in Attaches \cup {NoDevice} /\ stopped \in BOOLEAN
  /\ attach \in [Attaches -> {"lookup", "check", "build", "install", "close", "over"}]
  /\ built \subseteq Attaches /\ receiving \subseteq built
  /\ closes \in [Attaches -> Nat] /\ stop \in [Stops -> StopRecords]
Active(o) == stop[o].pc \in {"proxy", "device"}
\* Only the stop that unregistered the entry has its device.
OneStop ==
  /\ registered => \A o \in Stops : stop[o].pc = "called"
  /\ \A o, p \in Stops : Active(o) /\ Active(p) => o = p
  /\ \A o \in Stops : Active(o) => stop[o].dev = device
  /\ \A o \in Stops : stop[o].pc = "device" => device # NoDevice
  /\ \A o \in Stops : Active(o) /\ device # NoDevice => device \in built
\* A device is its attach's until it is installed; then it is the entry's, then
\* that stop's.
WhoseDevice ==
  /\ device # NoDevice => attach[device] = "over" /\ (registered => device \in built)
  /\ \A a \in Attaches :
       attach[a] \in {"lookup", "check", "build"} => a \notin built /\ closes[a] = 0
  /\ \A a \in Attaches : attach[a] \in {"install", "close"} => a \in built
  /\ \A a \in built : closes[a] = 0
  /\ \A a \in built : attach[a] = "over" =>
       device = a /\ (registered \/ \E o \in Stops : Active(o) /\ stop[o].dev = a)
  /\ \A a \in Attaches : closes[a] <= 1
DeviceInv == DeviceTypes /\ OneStop /\ WhoseDevice

Answers == {"asks", "ready", "failed", "1", "-1", "0"}
\* The outcome is in the channel or with a caller, who has none but that.
WaitInv ==
  /\ outcome \in {"none", "ready", "failed"} /\ channel \in {"empty", outcome}
  /\ outcome = "none" => channel = "empty"
  /\ caller \in [Waiters -> Answers]
  /\ \A w \in Waiters : caller[w] = "failed" => outcome = "failed"
  /\ OutcomeShared

LEMMA BridgeInitial == BridgeInit => DeviceInv /\ WaitInv
<1> SUFFICES ASSUME BridgeInit
             PROVE  DeviceInv /\ WaitInv
  OBVIOUS
<1> USE DEF BridgeInit
<1>1. DeviceTypes
  BY DEF DeviceTypes, StopRecords
<1>2. OneStop /\ WhoseDevice
  BY DEF OneStop, WhoseDevice, Active
<1>3. WaitInv
  BY DEF WaitInv, OutcomeShared, Answers
<1>4. QED
  BY <1>1, <1>2, <1>3 DEF DeviceInv

LEMMA DeviceAttach ==
  ASSUME DeviceInv, BridgeAssumption, NEW a \in Attaches, AttachSteps(a)
  PROVE  DeviceInv'
<1> USE DEF DeviceInv, DeviceTypes, OneStop, WhoseDevice, Active, GoesTo, BridgeAssumption,
     NoDevice,
            StopRecords
<1>1. CASE AttachLooksUp(a)
  BY <1>1 DEF AttachLooksUp
<1>2. CASE AttachChecks(a)
  BY <1>2 DEF AttachChecks
<1>3. CASE AttachFails(a)
  BY <1>3 DEF AttachFails
<1>4. CASE DeviceUp(a)
  BY <1>4 DEF DeviceUp
<1>5. CASE Install(a)
  BY <1>5 DEF Install, MayInstall
<1>6. CASE CloseOwn(a)
  BY <1>6 DEF CloseOwn, DeviceClosed
<1>7. CASE ReceiveEnds(a)
  BY <1>7 DEF ReceiveEnds
<1>8. QED
  BY <1>1, <1>2, <1>3, <1>4, <1>5, <1>6, <1>7 DEF AttachSteps

LEMMA DeviceStop ==
  ASSUME DeviceInv, BridgeAssumption, NEW o \in Stops, Unregister(o) \/ StopSteps(o)
  PROVE  DeviceInv'
<1> USE DEF DeviceInv, DeviceTypes, OneStop, WhoseDevice, Active, BridgeAssumption, NoDevice,
            StopRecords
<1>1. CASE Unregister(o)
  <2> DEFINE there == [pc |-> "proxy", dev |-> device]
             none == [pc |-> "over", dev |-> NoDevice]
  <2>1. /\ stop[o].pc = "called" /\ registered' = FALSE
        /\ stop' = [stop EXCEPT ![o] = IF registered THEN there ELSE none]
        /\ UNCHANGED <<device, stopped, attach, built, receiving, closes>>
    BY <1>1 DEF Unregister
  <2>2. /\ stop'[o] = IF registered THEN there ELSE none
        /\ \A p \in Stops \ {o} : stop'[p] = stop[p]
    BY <2>1
  <2>3. DeviceTypes'
    BY <2>1
  <2>4. OneStop'
    BY <2>1, <2>2
  <2>5. WhoseDevice'
    BY <2>1, <2>2
  <2>6. QED
    BY <2>3, <2>4, <2>5
<1>2. CASE StopProxy(o)
  BY <1>2 DEF StopProxy, MayStopProxy
<1>3. CASE CloseDevice(o)
  BY <1>3 DEF CloseDevice, DeviceClosed
<1>4. QED
  BY <1>1, <1>2, <1>3 DEF StopSteps

LEMMA DeviceKept == DeviceInv /\ [BridgeNext]_bridgeVars /\ BridgeAssumption => DeviceInv'
<1> SUFFICES ASSUME DeviceInv, [BridgeNext]_bridgeVars, BridgeAssumption
             PROVE  DeviceInv'
  OBVIOUS
<1>1. ASSUME UNCHANGED deviceVars
      PROVE  DeviceInv'
  BY <1>1 DEF deviceVars, DeviceInv, DeviceTypes, OneStop, WhoseDevice, Active
<1>2. CASE UNCHANGED bridgeVars
  BY <1>1, <1>2 DEF bridgeVars
<1>3. ASSUME NEW what \in {"ready", "failed"}, Signal(what)
      PROVE  DeviceInv'
  BY <1>1, <1>3 DEF Signal
<1>4. ASSUME NEW w \in Waiters, WaiterSteps(w) \/ TimesOut(w) \/ AsksAgain(w)
      PROVE  DeviceInv'
  BY <1>1, <1>4 DEF WaiterSteps, Takes, Replays, SeesStop, TimesOut, AsksAgain
<1>5. QED
  BY <1>2, <1>3, <1>4, DeviceAttach, DeviceStop DEF BridgeNext

LEMMA WaitKept == WaitInv /\ [BridgeNext]_bridgeVars => WaitInv'
<1> SUFFICES ASSUME WaitInv, [BridgeNext]_bridgeVars
             PROVE  WaitInv'
  OBVIOUS
<1>1. ASSUME UNCHANGED waitVars
      PROVE  WaitInv'
  BY <1>1 DEF waitVars, WaitInv, OutcomeShared
<1>2. CASE UNCHANGED bridgeVars
  BY <1>1, <1>2 DEF bridgeVars
<1>3. ASSUME NEW what \in {"ready", "failed"}, Signal(what)
      PROVE  WaitInv'
  BY <1>3 DEF Signal, WaitInv, OutcomeShared
<1>4. ASSUME NEW a \in Attaches, AttachSteps(a)
      PROVE  WaitInv'
  BY <1>1, <1>4 DEF AttachSteps, AttachLooksUp, AttachChecks, AttachFails, DeviceUp, Install,
     CloseOwn, ReceiveEnds
<1>5. ASSUME NEW o \in Stops, Unregister(o) \/ StopSteps(o)
      PROVE  WaitInv'
  BY <1>1, <1>5 DEF StopSteps, Unregister, StopProxy, CloseDevice
<1>6. ASSUME NEW w \in Waiters, WaiterSteps(w) \/ TimesOut(w) \/ AsksAgain(w)
      PROVE  WaitInv'
  <2> USE DEF WaitInv, OutcomeShared, Answers
  <2>1. CASE Takes(w)
    BY <2>1 DEF Takes
  <2>2. CASE Replays(w)
    BY <2>2 DEF Replays, Replayed
  <2>3. CASE SeesStop(w) \/ TimesOut(w) \/ AsksAgain(w)
    BY <2>3 DEF SeesStop, TimesOut, AsksAgain
  <2>4. QED
    BY <1>6, <2>1, <2>2, <2>3 DEF WaiterSteps
<1>7. QED
  BY <1>2, <1>3, <1>4, <1>5, <1>6 DEF BridgeNext

LEMMA DeviceHeld == DeviceInv /\ BridgeAssumption => DeviceOwned
<1> SUFFICES ASSUME DeviceInv, BridgeAssumption, NEW a \in built
             PROVE  IF registered /\ device = a
                      THEN Closers(a) = {} ELSE Cardinality(Closers(a)) = 1
  BY DEF DeviceOwned
<1> USE DEF DeviceInv, DeviceTypes, OneStop, WhoseDevice, Active
<1>1. CASE attach[a] = "over" /\ registered
  BY <1>1 DEF Closers
<1>2. CASE attach[a] = "over" /\ ~registered
  <2>1. PICK o \in Stops : Active(o) /\ stop[o].dev = a
    BY <1>2
  <2>2. Closers(a) = {o}
    BY <1>2, <2>1 DEF Closers
  <2>3. Cardinality(Closers(a)) = 1
    BY <2>2, FS_Singleton
  <2>4. QED
    BY <1>2, <2>3
<1>3. CASE attach[a] \in {"install", "close"}
  <2>1. device # a
    BY <1>3 DEF BridgeAssumption, NoDevice
  <2>2. Closers(a) = {a}
    BY <1>3, <2>1 DEF Closers
  <2>3. Cardinality(Closers(a)) = 1
    BY <2>2, FS_Singleton
  <2>4. QED
    BY <2>1, <2>3
<1>4. QED
  BY <1>1, <1>2, <1>3

-----------------------------------------------------------------------------
(* A mint                                                                  *)

\* What the counters are at each step; how many of the last attempts VK
\* answered without a challenge.
MintTypes == MintTypeOK /\ shows \in Seq(BOOLEAN)
MintBounds ==
  /\ step \in {"pow", "fresh"} => attempt <= StepTries
  /\ step = "pow" => emptyShow < powTry
  /\ step = "fresh" => emptyShow <= powTry /\ powTry < PowTries
SilentTail ==
  /\ emptyShow <= Len(shows)
  /\ \A i \in 1 .. Len(shows) : i > Len(shows) - emptyShow => ~shows[i]
MintInv == MintTypes /\ MintBounds /\ SilentTail /\ CallerGetsUntouched

LEMMA MintInitial == MintInit /\ MintAssumption => MintInv
<1> SUFFICES ASSUME MintInit, MintAssumption
             PROVE  MintInv
  OBVIOUS
<1> USE DEF MintInit, MintAssumption
<1>1. MintTypes
  <2>1. /\ step \in MintSteps /\ stored \subseteq Parts /\ taken \subseteq Parts
        /\ loaded \in Parts \cup {"none", "nothing"} /\ shows \in Seq(BOOLEAN)
    BY DEF MintSteps, Parts
  <2>2. /\ left \in 0 .. Clients /\ wave \in 1 .. Waves /\ attempt \in 1 .. StepTries + 1
        /\ powTry \in 1 .. PowTries /\ emptyShow \in 0 .. PowTries
    OBVIOUS
  <2>3. QED
    BY <2>1, <2>2 DEF MintTypes, MintTypeOK
<1>2. MintBounds /\ SilentTail /\ CallerGetsUntouched
  BY DEF MintBounds, SilentTail, CallerGetsUntouched
<1>3. QED
  BY <1>1, <1>2 DEF MintInv

\* A client id that failed.
LEMMA ClientFailed ==
  ASSUME MintInv, MintAssumption, NEW transient \in BOOLEAN, ClientFails(transient),
         step # "done"
  PROVE  /\ step' \in {"client", "done"} /\ (ended' = "no" <=> step' # "done")
         /\ ended' \in {"no", "creds", "gone", "failed", "captcha"} /\ ended' # "captcha"
         /\ left' \in 0 .. Clients /\ wave' \in 1 .. Waves
<1> USE DEF MintInv, MintTypes, MintTypeOK, MintAssumption, Ends
<1>1. CASE left > 0
  <2>1. step' = "client" /\ UNCHANGED <<ended, left, wave>>
    BY <1>1 DEF ClientFails, MoreWaves
  <2>2. QED
    BY <2>1
<1>2. CASE ~(left > 0) /\ MoreWaves(transient)
  BY <1>2 DEF ClientFails, MoreWaves
<1>3. CASE ~(left > 0) /\ ~MoreWaves(transient)
  BY <1>3 DEF ClientFails, waveVars
<1>4. QED
  BY <1>1, <1>2, <1>3

\* Where the counters of the captchas stay, an outcome that is no captcha.
LEMMA MintElsewhere ==
  ASSUME MintInv, step \notin {"pow", "fresh", "untouched", "done"},
         step' \in MintSteps \ {"pow", "fresh", "untouched"},
         stored' \subseteq Parts, taken' \subseteq Parts,
         loaded' \in Parts \cup {"none", "nothing"},
         left' \in 0 .. Clients, wave' \in 1 .. Waves, attempt' \in 1 .. StepTries + 1,
         ended' \in {"no", "creds", "gone", "failed"}, ended' = "no" <=> step' # "done",
         UNCHANGED <<captcha, powTry, emptyShow, shows>>
  PROVE  MintInv'
<1> USE DEF MintInv, MintTypes, MintTypeOK
<1>1. MintTypes'
  OBVIOUS
<1>2. MintBounds' /\ SilentTail' /\ CallerGetsUntouched'
  BY DEF MintBounds, SilentTail, CallerGetsUntouched
<1>3. QED
  BY <1>1, <1>2

LEMMA MintEarly ==
  ASSUME MintInv, MintAssumption,
         LoadPart \/ ClearPart \/ FreePath \/ TryClient \/ GetToken1 \/ TriesUsedUp \/ Join
  PROVE  MintInv'
<1> USE DEF stepVars, waveVars, askVars, powVars
<1> MintTypes /\ MintTypeOK
  BY DEF MintInv, MintTypes
<1>1. CASE LoadPart
  <2>1. /\ step \in Parts /\ step' = step /\ loaded' \in Parts \cup {"none", "nothing"}
        /\ UNCHANGED <<stored, taken, left, wave, attempt, ended, captcha, powTry, emptyShow,
                       shows>>
    BY <1>1 DEF LoadPart
  <2>2. QED
    BY <2>1, MintElsewhere DEF MintTypeOK, Parts, MintSteps
<1>2. CASE ClearPart
  <2>1. /\ step \in Parts /\ loaded' = "none" /\ stored' = stored \ {loaded}
        /\ taken' = taken \cup ({loaded} \cap Parts)
        /\ UNCHANGED <<left, wave, attempt, ended, captcha, powTry, emptyShow, shows>>
    BY <1>2 DEF ClearPart
  <2>2. step' \in {"key", "token1", "free", "client"}
    BY <1>2 DEF ClearPart, Next3, Parts
  <2>3. QED
    BY <2>1, <2>2, MintElsewhere DEF MintTypeOK, Parts, MintSteps
<1>3. CASE FreePath
  <2>1. /\ step = "free" /\ step' \in {"done", "client"}
        /\ ended' \in {"no", "creds", "gone"} /\ (ended' = "no" <=> step' # "done")
        /\ UNCHANGED <<stored, loaded, taken, left, wave, attempt, captcha, powTry, emptyShow,
                       shows>>
    BY <1>3 DEF FreePath, Ends, Replies, MintTypeOK
  <2>2. QED
    BY <2>1, MintElsewhere DEF MintTypeOK, Parts, MintSteps
<1>4. CASE TryClient
  <2>1. /\ step = "client" /\ step' \in {"step1", "step2"} /\ left > 0 /\ left' = left - 1
        /\ attempt' = 1
        /\ UNCHANGED <<stored, loaded, taken, wave, ended, captcha, powTry, emptyShow, shows>>
    BY <1>4 DEF TryClient
  <2>2. left' \in 0 .. Clients /\ attempt' \in 1 .. StepTries + 1
    BY <2>1 DEF MintTypeOK, MintAssumption
  <2>3. QED
    BY <2>1, <2>2, MintElsewhere DEF MintTypeOK, Parts, MintSteps
<1>5. CASE GetToken1 \/ TriesUsedUp \/ Join
  <2>1. /\ step \in {"step1", "step2", "join"}
        /\ UNCHANGED <<stored, loaded, taken, attempt, captcha, powTry, emptyShow, shows>>
    BY <1>5 DEF GetToken1, TriesUsedUp, Join
  <2>2. CASE \E transient \in BOOLEAN : ClientFails(transient)
    <3>1. /\ step' \in {"client", "done"} /\ (ended' = "no" <=> step' # "done")
          /\ ended' \in {"no", "creds", "gone", "failed"}
          /\ left' \in 0 .. Clients /\ wave' \in 1 .. Waves
      BY <2>1, <2>2, ClientFailed
    <3>2. QED
      BY <2>1, <3>1, MintElsewhere DEF MintTypeOK, Parts, MintSteps
  <2>3. CASE UNCHANGED <<left, wave>> /\ \/ step' \in {"step2", "join"} /\ ended' = ended
                                         \/ step' = "done" /\ ended' = "creds"
    <3>1. /\ ended' \in {"no", "creds", "gone", "failed"} /\ (ended' = "no" <=> step' # "done")
          /\ step' \in {"step2", "join", "done"}
      BY <2>1, <2>3 DEF MintTypeOK
    <3>2. QED
      BY <2>1, <2>3, <3>1, MintElsewhere DEF MintTypeOK, Parts, MintSteps
  <2>4. QED
    BY <1>5, <2>2, <2>3 DEF GetToken1, TriesUsedUp, Join, Ends
<1>6. QED
  BY <1>1, <1>2, <1>3, <1>4, <1>5

LEMMA MintAsks ==
  ASSUME MintInv, MintAssumption, AskToken
  PROVE  MintInv'
<1> USE DEF stepVars, waveVars, powVars, MintSteps
<1> MintTypes /\ MintTypeOK /\ step = "step2" /\ attempt <= StepTries
  BY DEF MintInv, MintTypes, AskToken
<1>1. UNCHANGED <<stored, loaded, taken, attempt>>
  BY DEF AskToken
<1>2. CASE /\ step' = "pow" /\ captcha' = "untouched" /\ powTry' = 1 /\ emptyShow' = 0
           /\ shows' = << >> /\ UNCHANGED <<ended, left, wave>>
  <2>1. shows' \in Seq(BOOLEAN) /\ Len(shows') = 0
    BY <1>2
  <2>2. powTry' \in 1 .. PowTries /\ emptyShow' \in 0 .. PowTries
    BY <1>2 DEF MintAssumption
  <2>3. MintTypes'
    BY <1>1, <1>2, <2>1, <2>2 DEF MintTypes, MintTypeOK
  <2>4. MintBounds' /\ SilentTail' /\ CallerGetsUntouched'
    BY <1>1, <1>2, <2>1 DEF MintBounds, SilentTail, CallerGetsUntouched, MintTypeOK
  <2>5. QED
    BY <2>3, <2>4 DEF MintInv
<1>3. CASE /\ UNCHANGED <<left, wave, captcha, powTry, emptyShow, shows>>
           /\ \/ step' = "join" /\ ended' = ended
              \/ step' = "done" /\ ended' = "gone"
  <2>1. /\ ended' \in {"no", "creds", "gone", "failed"} /\ (ended' = "no" <=> step' # "done")
        /\ step' \in {"join", "done"}
    BY <1>3 DEF MintTypeOK
  <2>2. QED
    BY <1>1, <1>3, <2>1, MintElsewhere DEF MintTypeOK
<1>4. ASSUME NEW transient \in BOOLEAN, ClientFails(transient),
             UNCHANGED <<captcha, powTry, emptyShow, shows>>
      PROVE  MintInv'
  <2>1. /\ step' \in {"client", "done"} /\ (ended' = "no" <=> step' # "done")
        /\ ended' \in {"no", "creds", "gone", "failed"}
        /\ left' \in 0 .. Clients /\ wave' \in 1 .. Waves
    BY <1>4, ClientFailed
  <2>2. QED
    BY <1>1, <1>4, <2>1, MintElsewhere DEF MintTypeOK
<1>5. PICK reply \in Replies :
        CASE reply = "ok" -> /\ step' = "join" /\ token' = TRUE
                             /\ UNCHANGED <<ended, waveVars, powVars>>
          [] reply = "captcha" -> /\ step' = "pow" /\ captcha' = "untouched"
                                  /\ powTry' = 1 /\ emptyShow' = 0 /\ shows' = << >>
                                  /\ UNCHANGED <<ended, token, waveVars>>
          [] reply = "gone" -> Ends("gone") /\ UNCHANGED <<token, waveVars, powVars>>
          [] reply \in {"transient", "bad"} -> /\ ClientFails(reply = "transient")
                                               /\ UNCHANGED <<token, powVars>>
  BY DEF AskToken
<1>6. CASE reply \in {"transient", "bad"}
  <2>1. /\ ClientFails(reply = "transient") /\ (reply = "transient") \in BOOLEAN
        /\ UNCHANGED <<captcha, powTry, emptyShow, shows>>
    BY <1>5, <1>6
  <2>2. QED
    BY <1>4, <2>1
<1>7. CASE reply \in {"ok", "captcha", "gone"}
  BY <1>2, <1>3, <1>5, <1>7 DEF Ends
<1>8. QED
  BY <1>6, <1>7 DEF Replies

\* The solver's attempts: VK's silence is counted in shows.
LEMMA MintSolves ==
  ASSUME MintInv, MintAssumption, PowSolves
  PROVE  MintInv'
<1> USE DEF stepVars, waveVars
<1>1. /\ step = "pow" /\ step' = "step2" /\ attempt' = attempt + 1 /\ captcha' = "touched"
      /\ UNCHANGED <<stored, loaded, taken, left, wave, powTry, emptyShow, shows, ended>>
  BY DEF PowSolves, NextTry
<1>2. attempt' \in 1 .. StepTries + 1
  BY <1>1 DEF MintInv, MintTypes, MintTypeOK, MintBounds, MintAssumption
<1>3. MintTypes'
  BY <1>1, <1>2 DEF MintInv, MintTypes, MintTypeOK, MintSteps
<1>4. MintBounds' /\ SilentTail' /\ CallerGetsUntouched'
  BY <1>1 DEF MintInv, MintTypes, MintTypeOK, MintBounds, SilentTail, CallerGetsUntouched
<1>5. QED
  BY <1>3, <1>4 DEF MintInv

\* One more answer: a challenge ends the run of silent ones, none makes it one longer.
LEMMA TailGrows ==
  ASSUME NEW s \in Seq(BOOLEAN), NEW show \in BOOLEAN, NEW e \in Nat, e <= Len(s),
         \A i \in 1 .. Len(s) : i > Len(s) - e => ~s[i],
         NEW f \in Nat, f = IF show THEN 0 ELSE e + 1
  PROVE  /\ f <= Len(Append(s, show))
         /\ \A i \in 1 .. Len(Append(s, show)) :
              i > Len(Append(s, show)) - f => ~Append(s, show)[i]
<1>1. /\ Len(Append(s, show)) = Len(s) + 1 /\ Append(s, show)[Len(s) + 1] = show
      /\ \A i \in 1 .. Len(s) : Append(s, show)[i] = s[i]
  OBVIOUS
<1>2. f <= Len(Append(s, show))
  BY <1>1
<1>3. ASSUME NEW i \in 1 .. Len(Append(s, show)), i > Len(Append(s, show)) - f
      PROVE  ~Append(s, show)[i]
  <2>1. ~show /\ f = e + 1
    BY <1>1, <1>3
  <2>2. CASE i = Len(s) + 1
    BY <1>1, <2>1, <2>2
  <2>3. CASE i # Len(s) + 1
    <3>1. i \in 1 .. Len(s) /\ i > Len(s) - e
      BY <1>1, <1>3, <2>1, <2>3
    <3>2. QED
      BY <1>1, <3>1
  <2>4. QED
    BY <2>2, <2>3
<1>4. QED
  BY <1>2, <1>3

LEMMA MintFailsPow ==
  ASSUME MintInv, MintAssumption, PowFails
  PROVE  MintInv'
<1> USE DEF stepVars, waveVars, askVars
<1>1. /\ step = "pow" /\ captcha' = "touched"
      /\ UNCHANGED <<stored, loaded, taken, left, wave, attempt, powTry, ended>>
  BY DEF PowFails
<1>2. PICK reached \in BOOLEAN, show \in BOOLEAN :
        /\ emptyShow' = NextEmptyShow(reached, show)
        /\ shows' = IF reached \/ show THEN Append(shows, show) ELSE shows
        /\ step' = IF powTry < PowTries /\ ~Skips(emptyShow') THEN "fresh" ELSE "untouched"
  BY DEF PowFails
<1>3. /\ emptyShow \in Nat /\ emptyShow < powTry /\ powTry \in 1 .. PowTries
      /\ attempt \in 1 .. StepTries /\ PowTries \in Nat /\ StepTries \in Nat
      /\ shows \in Seq(BOOLEAN)
  BY <1>1 DEF MintInv, MintTypes, MintTypeOK, MintBounds, MintAssumption
<1>4. emptyShow' = IF show THEN 0 ELSE IF reached THEN emptyShow + 1 ELSE emptyShow
  BY <1>2 DEF NextEmptyShow
<1>5. emptyShow' \in Nat /\ emptyShow' <= powTry
  BY <1>3, <1>4
<1>6. shows' \in Seq(BOOLEAN)
  <2>1. Append(shows, show) \in Seq(BOOLEAN)
    BY <1>3
  <2>2. QED
    BY <1>2, <1>3, <2>1
<1>7. SilentTail'
  <2>1. CASE reached \/ show
    <3>1. emptyShow' = IF show THEN 0 ELSE emptyShow + 1
      BY <1>4, <2>1
    <3>2. shows' = Append(shows, show)
      BY <1>2, <2>1
    <3>3. QED
      BY <1>3, <1>5, <3>1, <3>2, TailGrows DEF MintInv, SilentTail
  <2>2. CASE ~(reached \/ show)
    <3>1. emptyShow' = emptyShow /\ shows' = shows
      BY <1>2, <1>4, <2>2
    <3>2. QED
      BY <3>1 DEF MintInv, SilentTail
  <2>3. QED
    BY <2>1, <2>2
<1>8. step' \in {"fresh", "untouched"} /\ (step' = "fresh" => powTry < PowTries)
  BY <1>2
<1>9. ended' = "no"
  BY <1>1 DEF MintInv, MintTypes, MintTypeOK
<1>10. MintTypes'
  <2>1. emptyShow' \in 0 .. PowTries
    BY <1>3, <1>5
  <2>2. QED
    BY <1>1, <1>3, <1>6, <1>8, <1>9, <2>1 DEF MintInv, MintTypes, MintTypeOK, MintSteps
<1>11. MintBounds' /\ CallerGetsUntouched'
  BY <1>1, <1>3, <1>5, <1>8, <1>9 DEF MintBounds, CallerGetsUntouched
<1>12. QED
  BY <1>7, <1>10, <1>11 DEF MintInv

LEMMA MintAsksAgain ==
  ASSUME MintInv, MintAssumption, FreshCaptcha
  PROVE  MintInv'
<1> USE DEF stepVars, waveVars, askVars
<1>1. /\ step = "fresh"
      /\ UNCHANGED <<stored, loaded, taken, left, wave, emptyShow, shows, ended>>
  BY DEF FreshCaptcha
<1>2. /\ emptyShow \in Nat /\ emptyShow <= powTry /\ powTry \in 1 .. PowTries
      /\ powTry < PowTries /\ attempt \in 1 .. StepTries /\ PowTries \in Nat /\ StepTries \in Nat
      /\ ended = "no"
  BY <1>1 DEF MintInv, MintTypes, MintTypeOK, MintBounds, MintAssumption
<1>3. \/ step' = "pow" /\ captcha' = "untouched" /\ powTry' = powTry + 1 /\ attempt' = attempt
      \/ step' = "step2" /\ attempt' = attempt + 1 /\ captcha' = captcha /\ powTry' = powTry
      \/ step' = "untouched" /\ attempt' = attempt /\ captcha' = captcha /\ powTry' = powTry
  BY DEF FreshCaptcha, NextTry
<1>4. attempt' \in 1 .. StepTries + 1 /\ powTry' \in 1 .. PowTries
  BY <1>2, <1>3
<1>5. MintTypes'
  <2>1. step' \in MintSteps /\ step' # "done" /\ captcha' \in {"none", "untouched", "touched"}
    BY <1>3 DEF MintInv, MintTypes, MintTypeOK, MintSteps
  <2>2. QED
    BY <1>1, <1>2, <1>4, <2>1 DEF MintInv, MintTypes, MintTypeOK
<1>6. MintBounds' /\ SilentTail' /\ CallerGetsUntouched'
  <2>1. SilentTail' /\ CallerGetsUntouched'
    BY <1>1, <1>2 DEF MintInv, SilentTail, CallerGetsUntouched
  <2>2. MintBounds'
    BY <1>1, <1>2, <1>3 DEF MintBounds
  <2>3. QED
    BY <2>1, <2>2
<1>7. QED
  BY <1>5, <1>6 DEF MintInv

LEMMA MintHandsOn ==
  ASSUME MintInv, MintAssumption, UntouchedCaptcha
  PROVE  MintInv'
<1> USE DEF stepVars, waveVars, askVars
<1>1. /\ step' = "done" /\ ended' = "captcha"
      /\ UNCHANGED <<stored, loaded, taken, left, wave, attempt, powTry, emptyShow, shows>>
  BY DEF UntouchedCaptcha, Ends
<1>2. \/ captcha' = "untouched"
      \/ captcha' = captcha /\ refused' = TRUE
  BY DEF UntouchedCaptcha, ForCaller
<1>3. MintTypes'
  <2>1. captcha' \in {"none", "untouched", "touched"}
    BY <1>2 DEF MintInv, MintTypes, MintTypeOK
  <2>2. QED
    BY <1>1, <2>1 DEF MintInv, MintTypes, MintTypeOK, MintSteps
<1>4. MintBounds' /\ SilentTail' /\ CallerGetsUntouched'
  BY <1>1, <1>2 DEF MintInv, MintBounds, SilentTail, CallerGetsUntouched
<1>5. QED
  BY <1>3, <1>4 DEF MintInv

LEMMA MintKept ==
  ASSUME MintInv, MintAssumption, [MintNext]_mintVars
  PROVE  MintInv'
<1> USE DEF stepVars, waveVars, askVars, powVars
<1>1. ASSUME stored' \subseteq Parts,
             UNCHANGED <<step, loaded, taken, left, wave, attempt, captcha, powTry, emptyShow,
                         shows, ended, refused>>
      PROVE  MintInv'
  <2>1. MintTypes'
    BY <1>1 DEF MintInv, MintTypes, MintTypeOK
  <2>2. MintBounds' /\ SilentTail' /\ CallerGetsUntouched'
    BY <1>1 DEF MintInv, MintBounds, SilentTail, CallerGetsUntouched
  <2>3. QED
    BY <2>1, <2>2 DEF MintInv
<1>2. stored \subseteq Parts
  BY DEF MintInv, MintTypes, MintTypeOK
<1>3. CASE MintStep
  BY <1>3, MintEarly, MintAsks, MintSolves, MintFailsPow, MintAsksAgain, MintHandsOn DEF MintStep
<1>4. CASE CallEnds \/ UNCHANGED mintVars
  BY <1>1, <1>2, <1>4 DEF CallEnds, mintVars
<1>5. CASE Answered
  BY <1>1, <1>2, <1>5 DEF Answered, Parts
<1>6. CASE \E part_ \in Parts : OtherMintTakes(part_)
  BY <1>1, <1>2, <1>6 DEF OtherMintTakes
<1>7. QED
  BY <1>3, <1>4, <1>5, <1>6 DEF MintNext

\* Two answers without a challenge stand at the end of shows when attempts are left.
LEMMA MintSkips ==
  ASSUME MintInv, MintInv', PowFails, powTry < PowTries, step' = "untouched"
  PROVE  \E n \in 2 .. Len(shows') : n = Len(shows') /\ ~shows'[n] /\ ~shows'[n - 1]
<1>1. emptyShow' >= 2
  BY DEF PowFails, Skips
<1>2. /\ emptyShow' \in Nat /\ Len(shows') \in Nat /\ emptyShow' <= Len(shows')
      /\ \A i \in 1 .. Len(shows') : i > Len(shows') - emptyShow' => ~shows'[i]
  BY DEF MintInv, MintTypes, MintTypeOK, SilentTail
<1>3. Len(shows') \in 2 .. Len(shows')
  BY <1>1, <1>2
<1>4. /\ Len(shows') \in 1 .. Len(shows') /\ Len(shows') > Len(shows') - emptyShow'
      /\ Len(shows') - 1 \in 1 .. Len(shows') /\ Len(shows') - 1 > Len(shows') - emptyShow'
  BY <1>1, <1>2
<1>5. ~shows'[Len(shows')] /\ ~shows'[Len(shows') - 1]
  BY <1>2, <1>4
<1>6. QED
  BY <1>3, <1>5

-----------------------------------------------------------------------------
(* The verdict on silence                                                  *)

\* The largest of three, of two, and the smallest of two.
LEMMA MaxOfThree ==
  ASSUME NEW a \in Int, NEW b \in Int, NEW c \in Int
  PROVE  /\ Max({a, b, c}) \in {a, b, c}
         /\ a <= Max({a, b, c}) /\ b <= Max({a, b, c}) /\ c <= Max({a, b, c})
<1>1. \E x \in {a, b, c} : \A y \in {a, b, c} : x >= y
  OBVIOUS
<1>2. QED
  BY <1>1 DEF Max

LEMMA MaxOfTwo ==
  ASSUME NEW a \in Int, NEW b \in Int
  PROVE  Max({a, b}) \in {a, b} /\ a <= Max({a, b}) /\ b <= Max({a, b})
<1>1. \E x \in {a, b} : \A y \in {a, b} : x >= y
  OBVIOUS
<1>2. QED
  BY <1>1 DEF Max

LEMMA MinOfTwo ==
  ASSUME NEW a \in Int, NEW b \in Int
  PROVE  Min({a, b}) \in {a, b} /\ Min({a, b}) <= a /\ Min({a, b}) <= b
<1>1. \E x \in {a, b} : \A y \in {a, b} : x <= y
  OBVIOUS
<1>2. QED
  BY <1>1 DEF Min

\* The suspension exceeds every limit.
LEMMA Limits ==
  ASSUME LivenessAssumption
  PROVE  /\ Workers \in Nat /\ Gap \in Nat /\ Late \in Nat /\ 2 <= Late /\ Late < Gap
         /\ ProbeAfter \in Nat /\ DeadAfter \in Nat /\ ReadyGrace \in Nat
         /\ 1 <= DeadAfter /\ DeadAfter <= ProbeAfter /\ ProbeAfter < Gap /\ ReadyGrace < Gap
<1>1. /\ Workers \in Nat /\ Late \in Nat /\ 2 <= Late /\ ProbeAfter \in Nat /\ DeadAfter \in Nat
      /\ ReadyGrace \in Nat /\ 1 <= DeadAfter /\ DeadAfter <= ProbeAfter
  BY DEF LivenessAssumption, Late
<1>2. ProbeAfter \in Int /\ ReadyGrace \in Int /\ Late \in Int
  BY <1>1
<1> DEFINE M == Max({ProbeAfter, ReadyGrace, Late})
<1>3. M \in {ProbeAfter, ReadyGrace, Late} /\ ProbeAfter <= M /\ ReadyGrace <= M /\ Late <= M
  BY <1>2, MaxOfThree
<1>4. Gap = M + 1
  BY DEF Gap
<1> HIDE DEF M
<1>5. QED
  BY <1>1, <1>3, <1>4

\* A clock that has grown, up to its limit.
LEMMA AgeGrows ==
  ASSUME LivenessAssumption, NEW limit \in 0 .. Gap, NEW a \in Ages \cup {None}
  PROVE  /\ Older(a, limit) \in 0 .. limit \cup {None} /\ (Older(a, limit) = None <=> a = None)
         /\ a # None /\ a < limit => Older(a, limit) = a + 1
         /\ a # None /\ a >= limit => Older(a, limit) = limit
<1>1. CASE a = None
  BY <1>1 DEF Older
<1>2. CASE a # None
  <2>1. a \in Nat /\ limit \in Nat /\ Gap \in Nat
    BY <1>2, Limits DEF Ages
  <2>2. a + 1 \in Int /\ limit \in Int
    BY <2>1
  <2>3. Min({a + 1, limit}) \in {a + 1, limit} /\ Min({a + 1, limit}) <= a + 1
        /\ Min({a + 1, limit}) <= limit
    BY <2>2, MinOfTwo
  <2>4. Older(a, limit) = Min({a + 1, limit})
    BY <1>2 DEF Older
  <2>5. QED
    BY <1>2, <2>1, <2>3, <2>4 DEF None
<1>3. QED
  BY <1>1, <1>2

\* A clock in a suspension.
LEMMA AgeJumps ==
  ASSUME LivenessAssumption, NEW a \in Ages \cup {None}
  PROVE  /\ Oldest(a) \in Gap .. 2 * Gap \cup {None} /\ (Oldest(a) = None <=> a = None)
         /\ a # None /\ monitor \notin {"waits", "any", "reset"} /\ nowAge = 0 =>
              Oldest(a) = IF a <= Gap THEN Gap + a ELSE Gap + Gap
         /\ a # None /\ monitor \notin {"waits", "any", "reset"} /\ nowAge # 0 =>
              Oldest(a) = IF a <= Gap THEN Gap ELSE a
<1>1. Gap \in Nat /\ 1 <= Gap
  BY Limits
<1>2. CASE a = None
  BY <1>2 DEF Oldest
<1>3. CASE a # None /\ monitor \in {"waits", "any", "reset"}
  BY <1>1, <1>3 DEF Oldest, None
<1>4. CASE a # None /\ monitor \notin {"waits", "any", "reset"} /\ nowAge = 0
  <2>1. a \in Int /\ Gap \in Int /\ a >= 0
    BY <1>1, <1>4 DEF Ages
  <2>2. Min({a, Gap}) \in {a, Gap} /\ Min({a, Gap}) <= a /\ Min({a, Gap}) <= Gap
    BY <2>1, MinOfTwo
  <2>3. Oldest(a) = Gap + Min({a, Gap})
    BY <1>4 DEF Oldest
  <2>4. QED
    BY <1>1, <1>4, <2>1, <2>2, <2>3 DEF None
<1>5. CASE a # None /\ monitor \notin {"waits", "any", "reset"} /\ nowAge # 0
  <2>1. a \in Int /\ Gap \in Int /\ a <= 2 * Gap
    BY <1>1, <1>5 DEF Ages
  <2>2. Max({a, Gap}) \in {a, Gap} /\ a <= Max({a, Gap}) /\ Gap <= Max({a, Gap})
    BY <2>1, MaxOfTwo
  <2>3. Oldest(a) = Max({a, Gap})
    BY <1>5 DEF Oldest
  <2>4. QED
    BY <1>1, <1>5, <2>1, <2>2, <2>3 DEF None
<1>6. QED
  BY <1>2, <1>3, <1>4, <1>5

\* The mark of the last tick or wake is late only after a suspension, and within
\* `now`'s reach without one.
OnTime ==
  /\ slept => tickAge = None \/ tickAge > Late
  /\ ~slept => tickAge \in {None, 0, 1} /\ (~fired /\ monitor = "waits" => tickAge # 1)
SilenceTypes == LivenessTypeOK /\ OnTime /\ (monitor = "waits" => nowAge = 0)

\* The parts of the types, each disturbed by other steps.
ClockTypes ==
  /\ readyAge \in [Peers -> Ages \cup {None}] /\ rxAge \in [Peers -> Ages]
  /\ probeAge \in [Peers -> Ages \cup {None}] /\ asked \in [Peers -> Ages \cup {None}]
  /\ anyAge \in Ages
MarkTypes ==
  /\ tickAge \in {None, 0, 1} \cup Late + 1 .. 2 * Gap
  /\ fired \in BOOLEAN /\ slept \in BOOLEAN /\ OnTime
TurnTypes ==
  /\ monitor \in {"waits", "prev", "judge", "probe", "mark", "any", "reset"}
  /\ wake \in {"none", "any", "clocks", "mark"}
  /\ turn \in 1 .. Workers + 1 /\ (monitor \in {"probe", "mark"} => turn \in Peers)
  /\ visit \in 1 .. Workers + 1 /\ (wake = "mark" => visit \in Peers)
  /\ nowAge \in {0, Gap} /\ wakeAge \in {0, Gap} /\ given \subseteq Peers
  /\ (monitor = "waits" => nowAge = 0)

LEMMA TypeParts == SilenceTypes <=> ClockTypes /\ MarkTypes /\ TurnTypes
BY DEF SilenceTypes, LivenessTypeOK, ClockTypes, MarkTypes, TurnTypes

LEMMA TypesInitial == LivenessInit /\ LivenessAssumption => SilenceTypes
<1> SUFFICES ASSUME LivenessInit, LivenessAssumption
             PROVE  ClockTypes /\ MarkTypes /\ TurnTypes
  BY TypeParts
<1>1. ProbeAfter \in Ages /\ 0 \in Ages /\ Workers \in Nat
  BY Limits DEF Ages
<1>2. ClockTypes
  BY <1>1 DEF LivenessInit, ClockTypes, Each
<1>3. MarkTypes
  <2>1. tickAge = None /\ fired = FALSE /\ slept = FALSE
    BY DEF LivenessInit
  <2>2. None # 1
    BY DEF None
  <2>3. QED
    BY <2>1, <2>2, Zenon DEF MarkTypes, OnTime
<1>4. TurnTypes
  BY <1>1 DEF LivenessInit, TurnTypes, Peers
<1>5. QED
  BY <1>2, <1>3, <1>4

\* Clocks that grow or jump stay ages.
LEMMA ClocksStayAges ==
  ASSUME LivenessAssumption
  PROVE  /\ 0 \in Ages /\ Gap \in Ages /\ \A a \in Ages : a # None
         /\ \A a \in Ages \cup {None} : \A limit \in {ReadyGrace, ProbeAfter, DeadAfter} :
              /\ Older(a, limit) \in Ages \cup {None}
              /\ Older(a, limit) = None <=> a = None
         /\ \A a \in Ages \cup {None} : /\ Oldest(a) \in Ages \cup {None}
                                        /\ Oldest(a) = None <=> a = None
<1>1. Gap \in Nat /\ {ReadyGrace, ProbeAfter, DeadAfter} \subseteq 0 .. Gap
  BY Limits
<1>2. 0 \in Ages /\ Gap \in Ages /\ \A a \in Ages : a # None
  BY <1>1 DEF Ages, None
<1>3. ASSUME NEW a \in Ages \cup {None}, NEW limit \in {ReadyGrace, ProbeAfter, DeadAfter}
      PROVE  Older(a, limit) \in Ages \cup {None} /\ (Older(a, limit) = None <=> a = None)
  <2>1. limit \in 0 .. Gap
    BY <1>1
  <2>2. 0 .. limit \subseteq Ages
    BY <1>1, <2>1 DEF Ages
  <2>3. Older(a, limit) \in 0 .. limit \cup {None} /\ (Older(a, limit) = None <=> a = None)
    BY <2>1, AgeGrows
  <2>4. QED
    BY <2>2, <2>3
<1>4. ASSUME NEW a \in Ages \cup {None}
      PROVE  Oldest(a) \in Ages \cup {None} /\ (Oldest(a) = None <=> a = None)
  <2>1. Gap .. 2 * Gap \subseteq Ages
    BY <1>1 DEF Ages
  <2>2. QED
    BY <2>1, AgeJumps
<1>5. QED
  BY <1>2, <1>3, <1>4

LEMMA ClockTypesKept ==
  ASSUME ClockTypes, TurnTypes, LivenessAssumption, LivenessNext
  PROVE  ClockTypes'
<1> USE DEF ClockTypes, clocks
<1>1. /\ 0 \in Ages /\ Gap \in Ages /\ nowAge \in Ages /\ wakeAge \in Ages
  BY ClocksStayAges DEF TurnTypes
<1>2. CASE Passes
  BY <1>2, ClocksStayAges DEF Passes
<1>3. CASE Suspended
  BY <1>3, ClocksStayAges DEF Suspended
<1>4. CASE ProbeReads \/ TickFires \/ TickReads \/ WorkerReads \/ TickEnds \/ WakeBegins \/ WakeEnds
  BY <1>4 DEF ProbeReads, TickFires, TickReads, WorkerReads, TickEnds, WakeBegins, WakeEnds
<1>5. CASE ProbeMarks \/ ResetsAny \/ Resets
  BY <1>1, <1>5 DEF ProbeMarks, ResetsAny, Resets
<1>6. CASE WakeStoresAny \/ WakeResets \/ WakeMarks
  BY <1>1, <1>6 DEF WakeStoresAny, WakeResets, WakeMarks
<1>7. ASSUME NEW p \in Peers, Inbound(p) \/ Ready(p) \/ Ended(p)
      PROVE  ClockTypes'
  BY <1>1, <1>7 DEF Inbound, Ready, Ended
<1>8. QED
  BY <1>2, <1>3, <1>4, <1>5, <1>6, <1>7 DEF LivenessNext, MonitorSteps, WakeSteps

LEMMA MarkTypesKept ==
  ASSUME MarkTypes, TurnTypes, LivenessAssumption, LivenessNext
  PROVE  MarkTypes'
<1> USE DEF MarkTypes, tickVars
<1>1. /\ Gap \in Nat /\ Late \in Nat /\ 2 <= Late /\ Late < Gap /\ Late + 1 \in 0 .. Gap
  BY Limits
<1>2. tickAge \in Ages \cup {None}
  BY <1>1 DEF Ages
<1>3. CASE Passes
  <2>1. /\ tickAge' = Older(tickAge, Late + 1) /\ slept' = slept /\ fired' = TRUE
        /\ ~slept => tickAge \in {None, 0}
    BY <1>3 DEF Passes, OnTime
  <2>2. /\ Older(tickAge, Late + 1) \in 0 .. Late + 1 \cup {None}
        /\ Older(tickAge, Late + 1) = None <=> tickAge = None
        /\ tickAge # None /\ tickAge < Late + 1 => Older(tickAge, Late + 1) = tickAge + 1
        /\ tickAge # None /\ tickAge >= Late + 1 => Older(tickAge, Late + 1) = Late + 1
    BY <1>1, <1>2, AgeGrows
  <2> HIDE DEF MarkTypes
  <2>3. /\ tickAge \in {None, 0, 1} \cup Late + 1 .. 2 * Gap
        /\ slept => tickAge = None \/ tickAge > Late
        /\ slept \in BOOLEAN
    BY DEF MarkTypes, OnTime
  <2>4. CASE slept
    BY <1>1, <2>1, <2>2, <2>3, <2>4 DEF MarkTypes, OnTime, None
  <2>5. CASE ~slept
    BY <1>1, <2>1, <2>2, <2>5 DEF MarkTypes, OnTime, None
  <2>6. QED
    BY <2>4, <2>5
<1>4. CASE Suspended
  <2>1. tickAge' \in Gap .. 2 * Gap \cup {None}
    BY <1>2, <1>4, AgeJumps DEF Suspended
  <2>2. tickAge' \in {None} \cup Late + 1 .. 2 * Gap /\ (tickAge' = None \/ tickAge' > Late)
    BY <1>1, <2>1 DEF None
  <2>3. QED
    BY <1>4, <2>2 DEF Suspended, OnTime
<1>5. CASE TickEnds \/ WakeEnds
  <2>1. /\ tickAge' \in {0, Gap} /\ slept' = (tickAge' # 0) /\ fired' = fired
    BY <1>5 DEF TickEnds, WakeEnds, TickStored, TickMoved, TurnTypes
  <2>2. Gap > Late /\ Gap # 0 /\ Gap \in Late + 1 .. 2 * Gap
    BY <1>1
  <2>3. CASE tickAge' = 0
    <3>1. ~slept'
      BY <2>1, <2>3
    <3>2. QED
      BY <2>1, <2>3, <3>1 DEF OnTime
  <2>4. CASE tickAge' = Gap
    <3>1. slept'
      BY <2>1, <2>2, <2>4
    <3>2. QED
      BY <2>1, <2>2, <2>4, <3>1 DEF OnTime
  <2>5. QED
    BY <2>1, <2>3, <2>4
<1>6. CASE ProbeReads \/ TickReads \/ WorkerReads \/ ProbeMarks \/ ResetsAny \/ Resets
  BY <1>6 DEF ProbeReads, TickReads, WorkerReads, ProbeMarks, ResetsAny, Resets, OnTime
<1>7. CASE TickFires
  BY <1>7 DEF TickFires, OnTime
<1>8. CASE WakeBegins \/ WakeStoresAny \/ WakeResets \/ WakeMarks
  BY <1>8 DEF WakeBegins, WakeStoresAny, WakeResets, WakeMarks, OnTime, monitorVars
<1>9. ASSUME NEW p \in Peers, Inbound(p) \/ Ready(p) \/ Ended(p)
      PROVE  MarkTypes'
  BY <1>9 DEF Inbound, Ready, Ended, OnTime, monitorVars
<1>10. QED
  BY <1>3, <1>4, <1>5, <1>6, <1>7, <1>8, <1>9 DEF LivenessNext, MonitorSteps, WakeSteps

LEMMA TurnTypesKept ==
  ASSUME TurnTypes, LivenessAssumption, LivenessNext
  PROVE  TurnTypes'
<1> USE DEF TurnTypes, monitorVars, wakeVars
<1>1. Workers \in Nat /\ 1 .. Workers = Peers
  BY Limits DEF Peers
<1>2. /\ 1 \in 1 .. Workers + 1 /\ Workers + 1 \in 1 .. Workers + 1
      /\ \A n \in 1 .. Workers + 1 : n <= Workers => n \in Peers /\ n + 1 \in 1 .. Workers + 1
      /\ \A n \in Peers : n + 1 \in 1 .. Workers + 1 /\ n \in 1 .. Workers + 1
  BY <1>1
<1>3. CASE Passes \/ Suspended
  BY <1>3 DEF LivenessNext, Passes, Suspended, ProbeReads
<1>4. CASE ProbeReads
  BY <1>2, <1>4 DEF ProbeReads
<1>5. CASE given' = {} /\ (TickFires \/ TickReads \/ WorkerReads)
  BY <1>2, <1>5 DEF TickFires, TickReads, WorkerReads
<1>6. CASE given' = {} /\ (ProbeMarks \/ ResetsAny \/ Resets \/ TickEnds)
  BY <1>2, <1>6 DEF ProbeMarks, ResetsAny, Resets, TickEnds
<1>7. CASE given' = {} /\ (WakeBegins \/ WakeStoresAny \/ WakeResets \/ WakeMarks \/ WakeEnds)
  BY <1>2, <1>7 DEF WakeBegins, WakeStoresAny, WakeResets, WakeMarks, WakeEnds
<1>8. ASSUME NEW p \in Peers, given' = {}, Inbound(p) \/ Ready(p) \/ Ended(p)
      PROVE  TurnTypes'
  BY <1>8 DEF Inbound, Ready, Ended
<1>9. QED
  BY <1>3, <1>4, <1>5, <1>6, <1>7, <1>8 DEF LivenessNext, MonitorSteps, WakeSteps

LEMMA TypesKept ==
  ASSUME SilenceTypes, LivenessAssumption, [LivenessNext]_livenessVars
  PROVE  SilenceTypes'
<1>1. ClockTypes /\ MarkTypes /\ TurnTypes
  BY TypeParts
<1>2. ClockTypes' /\ MarkTypes' /\ TurnTypes'
  <2>1. CASE LivenessNext
    BY <1>1, <2>1, ClockTypesKept, MarkTypesKept, TurnTypesKept
  <2>2. CASE UNCHANGED livenessVars
    BY <1>1, <2>2 DEF livenessVars, clocks, tickVars, monitorVars, wakeVars, ClockTypes,
                      MarkTypes, TurnTypes, OnTime
  <2>3. QED
    BY <2>1, <2>2
<1>3. QED
  BY <1>2, TypeParts DEF SilenceTypes, LivenessTypeOK, ClockTypes, MarkTypes, TurnTypes

\* A late mark was left by a suspension.
ResetStep == monitor = "prev" /\ monitor' = "any" => slept

LEMMA ResetAfterSleep ==
  ASSUME SilenceTypes, LivenessAssumption, [LivenessNext]_livenessVars
  PROVE  ResetStep
<1> SUFFICES ASSUME monitor = "prev", monitor' = "any"
             PROVE  slept
  BY DEF ResetStep
<1>1. TickReads
  BY DEF livenessVars, monitorVars, LivenessNext, MonitorSteps, WakeSteps, ProbeReads, Passes,
         Suspended, TickFires, WorkerReads, ProbeMarks, ResetsAny, Resets, TickEnds, WakeBegins,
         WakeStoresAny, WakeResets, WakeMarks, WakeEnds, Inbound, Ready, Ended
<1>2. TickLate
  BY <1>1 DEF TickReads
<1>3. nowAge \in Nat /\ Late \in Nat /\ 2 <= Late
  BY Limits DEF SilenceTypes, LivenessTypeOK
<1>4. tickAge \notin {None, 0, 1}
  BY <1>2, <1>3 DEF TickLate, Since
<1>5. QED
  BY <1>4 DEF SilenceTypes, LivenessTypeOK, OnTime

-----------------------------------------------------------------------------
\* For a judge with this `now` (an age) the probe, or else the last inbound, looks no older
\* than the running time since the probe was marked; or that is DeadAfter already.
Ran(now, p) ==
  \/ probeAge[p] = None \/ probeAge[p] - now <= asked[p]
  \/ rxAge[p] - now <= asked[p] \/ asked[p] = DeadAfter
\* `asked` counts for every probe, up to DeadAfter.
AskedInv ==
  \A p \in Peers : /\ asked[p] \in 0 .. DeadAfter \cup {None}
                   /\ asked[p] = None <=> probeAge[p] = None
\* Nobody is suspended in the wake hook; it and a reset begin with the first worker.
FreshTurns ==
  /\ wakeAge = 0 /\ (wake \in {"none", "any"} => visit = 1) /\ (monitor = "any" => turn = 1)
\* Before the first tick, which is never late, only a wake in progress has marked anybody.
NoEarlyProbe ==
  tickAge = None /\ monitor \in {"waits", "prev"} =>
    \A p \in Peers : probeAge[p] = None \/ (wake # "none" /\ probeAge[p] = 0)
\* The monitor judges, or would judge now, by the clocks as they are.
Trusted == \/ monitor = "waits" /\ ~slept
           \/ monitor = "prev" /\ ~TickLate
           \/ monitor \in {"judge", "probe", "mark"}
ClocksRan ==
  /\ Trusted => \A p \in Peers : Ran(nowAge, p)
  /\ monitor = "reset" /\ nowAge = 0 => \A p \in Peers : p < turn => Ran(0, p)
\* What the hook has already stored, a monitor may judge by once lastTick is moved: also
\* one whose `now` is older than a suspension before the wake.
WakeRan ==
  /\ wake \in {"clocks", "mark"} => \A p \in Peers : p < visit => Ran(0, p)
  /\ nowAge = Gap /\ monitor \in {"prev", "judge", "probe", "mark"} =>
       \A p \in Peers : (wake \in {"clocks", "mark"} /\ (p < visit \/ (wake = "mark" /\ p = visit)))
                        => rxAge[p] = 0
\* The silence the monitor found before it loads the probe's mark lasts, or the mark is new.
ProbeInHand ==
  monitor = "probe" =>
    \/ probeAge[turn] = None \/ probeAge[turn] - nowAge <= 0
    \/ rxAge[turn] - nowAge >= ProbeAfter
SilenceInv ==
  /\ SilenceTypes /\ AskedInv /\ FreshTurns /\ NoEarlyProbe /\ ClocksRan /\ WakeRan
  /\ ProbeInHand /\ SilentWhileRunning

\* What a step does to one worker's clocks.
Same(p) == probeAge'[p] = probeAge[p] /\ rxAge'[p] = rxAge[p] /\ asked'[p] = asked[p]
Cleared(p) == probeAge'[p] = None /\ asked'[p] = None
Marked(p, now) == probeAge'[p] = now /\ rxAge'[p] = rxAge[p] /\ asked'[p] = 0

\* What the leaves know of the numbers.
LEMMA Numbers ==
  ASSUME SilenceTypes, AskedInv, LivenessAssumption
  PROVE  /\ Gap \in Int /\ Late \in Int /\ 2 <= Late /\ Late < Gap /\ Workers \in Nat
         /\ DeadAfter \in Int /\ ProbeAfter \in Int
         /\ 1 <= DeadAfter /\ DeadAfter <= ProbeAfter /\ ProbeAfter < Gap
         /\ nowAge \in Int /\ nowAge \in {0, Gap} /\ turn \in Int /\ visit \in Int
         /\ 1 <= turn /\ 1 <= visit
         /\ \A p \in Peers : /\ p \in Int /\ 1 <= p /\ p <= Workers
                             /\ probeAge[p] \in Int /\ rxAge[p] \in Int /\ 0 <= rxAge[p]
                             /\ asked[p] \in Int /\ -1 <= asked[p] /\ -1 <= probeAge[p]
                             /\ probeAge[p] # None => 0 <= asked[p] /\ 0 <= probeAge[p]
<1>1. /\ Gap \in Nat /\ Late \in Nat /\ 2 <= Late /\ Late < Gap /\ Workers \in Nat
      /\ DeadAfter \in Nat /\ ProbeAfter \in Nat /\ 1 <= DeadAfter /\ DeadAfter <= ProbeAfter
      /\ ProbeAfter < Gap
  BY Limits
<1>2. nowAge \in {0, Gap} /\ turn \in 1 .. Workers + 1 /\ visit \in 1 .. Workers + 1
  BY DEF SilenceTypes, LivenessTypeOK
<1>3. ASSUME NEW p \in Peers
      PROVE  /\ p \in Int /\ 1 <= p /\ p <= Workers
             /\ probeAge[p] \in Int /\ rxAge[p] \in Int /\ 0 <= rxAge[p]
             /\ asked[p] \in Int /\ -1 <= asked[p] /\ -1 <= probeAge[p]
             /\ probeAge[p] # None => 0 <= asked[p] /\ 0 <= probeAge[p]
  <2>1. /\ probeAge[p] \in Ages \cup {None} /\ rxAge[p] \in Ages
        /\ asked[p] \in 0 .. DeadAfter \cup {None} /\ (asked[p] = None <=> probeAge[p] = None)
    BY DEF SilenceTypes, LivenessTypeOK, AskedInv
  <2>2. QED
    BY <1>1, <2>1 DEF Peers, Ages, None
<1>4. QED
  BY <1>1, <1>2, <1>3

\* Steps that touch no worker's clock.
LEMMA QuietSteps ==
  ASSUME SilenceInv, LivenessAssumption, SilenceTypes', given' = {},
         TickFires \/ TickReads \/ WorkerReads \/ ResetsAny \/ TickEnds
  PROVE  SilenceInv'
<1> USE DEF SilenceInv
<1>1. /\ probeAge' = probeAge /\ rxAge' = rxAge /\ asked' = asked
      /\ wake' = wake /\ visit' = visit /\ wakeAge' = wakeAge
  BY DEF TickFires, TickReads, WorkerReads, ResetsAny, TickEnds, clocks, wakeVars
<1>2. AskedInv' /\ SilentWhileRunning'
  BY <1>1 DEF AskedInv, SilentWhileRunning
<1>3. CASE TickFires
  <2>1. /\ monitor = "waits" /\ monitor' = "prev" /\ nowAge' = 0 /\ nowAge = 0
        /\ tickAge' = tickAge /\ slept' = slept
    BY <1>3 DEF TickFires, tickVars, SilenceTypes
  <2>2. FreshTurns' /\ NoEarlyProbe' /\ ProbeInHand'
    BY <1>1, <2>1 DEF FreshTurns, NoEarlyProbe, ProbeInHand
  <2>3. WakeRan'
    BY <1>1, <2>1, Numbers DEF WakeRan, Ran
  <2>4. ClocksRan'
    <3>1. SUFFICES ASSUME ~TickLate', NEW p \in Peers
                   PROVE  Ran(0, p)'
      BY <2>1 DEF ClocksRan, Trusted
    <3>2. CASE tickAge = None
      <4>1. probeAge[p] = None \/ probeAge[p] = 0
        BY <2>1, <3>2 DEF NoEarlyProbe
      <4>2. QED
        BY <1>1, <4>1, Numbers DEF Ran
    <3>3. CASE tickAge # None
      <4>1. tickAge \in Int
        BY <3>3, Numbers DEF SilenceTypes, LivenessTypeOK
      <4>2. ~slept
        BY <2>1, <3>1, <3>3, <4>1, Numbers DEF TickLate, Since, SilenceTypes, OnTime
      <4>3. Ran(0, p)
        BY <2>1, <4>2 DEF ClocksRan, Trusted
      <4>4. QED
        BY <1>1, <4>3 DEF Ran
    <3>4. QED
      BY <3>2, <3>3
  <2>5. QED
    BY <1>2, <2>2, <2>3, <2>4
<1>4. CASE TickReads
  <2>1. /\ monitor = "prev" /\ monitor' \in {"any", "judge"} /\ nowAge' = nowAge
        /\ tickAge' = tickAge /\ (monitor' = "any" => turn' = 1)
        /\ monitor' = "judge" => ~TickLate
    BY <1>4 DEF TickReads, tickVars
  <2>2. FreshTurns' /\ NoEarlyProbe' /\ ProbeInHand'
    BY <1>1, <2>1 DEF FreshTurns, NoEarlyProbe, ProbeInHand
  <2>3. WakeRan'
    BY <1>1, <2>1 DEF WakeRan, Ran
  <2>4. ClocksRan'
    BY <1>1, <2>1 DEF ClocksRan, Trusted, Ran
  <2>5. QED
    BY <1>2, <2>2, <2>3, <2>4
<1>5. CASE WorkerReads
  <2>1. /\ monitor = "judge" /\ monitor' \in {"probe", "judge"} /\ nowAge' = nowAge
        /\ monitor' = "probe" => turn' = turn /\ rxAge[turn] - nowAge >= ProbeAfter
    BY <1>5 DEF WorkerReads, Judged, Since
  <2>2. FreshTurns' /\ NoEarlyProbe' /\ ProbeInHand'
    BY <1>1, <2>1 DEF FreshTurns, NoEarlyProbe, ProbeInHand
  <2>3. WakeRan'
    BY <1>1, <2>1 DEF WakeRan, Ran
  <2>4. ClocksRan'
    BY <1>1, <2>1 DEF ClocksRan, Trusted, Ran
  <2>5. QED
    BY <1>2, <2>2, <2>3, <2>4
<1>6. CASE ResetsAny
  <2>1. monitor = "any" /\ monitor' = "reset" /\ turn = 1 /\ turn' = turn /\ nowAge' = nowAge
    BY <1>6 DEF ResetsAny, FreshTurns
  <2>2. FreshTurns' /\ NoEarlyProbe' /\ ProbeInHand'
    BY <1>1, <2>1 DEF FreshTurns, NoEarlyProbe, ProbeInHand
  <2>3. WakeRan'
    BY <1>1, <2>1 DEF WakeRan, Ran
  <2>4. ClocksRan'
    <3>1. \A p \in Peers : ~(p < turn')
      BY <2>1, Numbers
    <3>2. QED
      BY <2>1, <3>1 DEF ClocksRan, Trusted
  <2>5. QED
    BY <1>2, <2>2, <2>3, <2>4
<1>7. CASE TickEnds
  <2>1. /\ monitor \in {"judge", "reset"} /\ monitor' = "waits" /\ turn > Workers /\ nowAge' = 0
        /\ tickAge' = nowAge /\ (slept' <=> nowAge # 0)
    BY <1>7 DEF TickEnds, TickStored
  <2>2. tickAge' # None /\ \A p \in Peers : p < turn
    BY <2>1, Numbers DEF None
  <2>3. FreshTurns' /\ NoEarlyProbe' /\ ProbeInHand'
    BY <1>1, <2>1, <2>2 DEF FreshTurns, NoEarlyProbe, ProbeInHand
  <2>4. WakeRan'
    BY <1>1, <2>1 DEF WakeRan, Ran
  <2>5. ClocksRan'
    <3>1. SUFFICES ASSUME ~slept', NEW p \in Peers
                   PROVE  Ran(0, p)'
      BY <2>1 DEF ClocksRan, Trusted
    <3>2. nowAge = 0
      BY <2>1, <3>1
    <3>3. Ran(0, p)
      BY <2>1, <2>2, <3>2 DEF ClocksRan, Trusted
    <3>4. QED
      BY <1>1, <3>3 DEF Ran
  <2>6. QED
    BY <1>2, <2>3, <2>4, <2>5
<1>8. QED
  BY <1>3, <1>4, <1>5, <1>6, <1>7

\* A verdict: the probe in hand was not answered, and `now` trusts the clocks.
LEMMA VerdictStep ==
  ASSUME SilenceInv, LivenessAssumption, SilenceTypes', ProbeReads
  PROVE  SilenceInv'
<1> USE DEF SilenceInv
<1>1. /\ probeAge' = probeAge /\ rxAge' = rxAge /\ asked' = asked
      /\ wake' = wake /\ visit' = visit /\ wakeAge' = wakeAge
      /\ monitor = "probe" /\ monitor' \in {"mark", "judge"} /\ nowAge' = nowAge
      /\ given' = {} \/ given' = {p \in {turn} : ToGiveUp(p)}
  BY DEF ProbeReads, clocks, wakeVars
<1>2. AskedInv' /\ FreshTurns' /\ NoEarlyProbe' /\ ProbeInHand'
  BY <1>1 DEF AskedInv, FreshTurns, NoEarlyProbe, ProbeInHand
<1>3. WakeRan' /\ ClocksRan'
  BY <1>1 DEF WakeRan, ClocksRan, Trusted, Ran
<1>4. SilentWhileRunning'
  <2>1. SUFFICES ASSUME NEW p \in given'
                 PROVE  asked'[p] >= DeadAfter
    BY DEF SilentWhileRunning
  <2>2. p = turn /\ p \in Peers /\ probeAge[p] # None /\ probeAge[p] - nowAge >= DeadAfter
    BY <1>1, <2>1 DEF ToGiveUp, Since, SilenceTypes, LivenessTypeOK
  <2>3. rxAge[p] - nowAge >= ProbeAfter
    BY <1>1, <2>2, Numbers DEF ProbeInHand
  <2>4. \/ probeAge[p] - nowAge <= asked[p] \/ rxAge[p] - nowAge <= asked[p]
        \/ asked[p] = DeadAfter
    BY <1>1, <2>2 DEF ClocksRan, Trusted, Ran
  <2>5. asked[p] >= DeadAfter
    BY <2>2, <2>3, <2>4, Numbers
  <2>6. QED
    BY <1>1, <2>5
<1>5. QED
  BY <1>2, <1>3, <1>4

\* The wake's steps that touch no worker's clock.
LEMMA QuietWakeSteps ==
  ASSUME SilenceInv, LivenessAssumption, SilenceTypes', given' = {},
         WakeBegins \/ WakeStoresAny \/ WakeEnds
  PROVE  SilenceInv'
<1> USE DEF SilenceInv
<1>1. /\ probeAge' = probeAge /\ rxAge' = rxAge /\ asked' = asked
      /\ monitor' = monitor /\ turn' = turn /\ nowAge' = nowAge
  BY DEF WakeBegins, WakeStoresAny, WakeEnds, clocks, monitorVars
<1>2. AskedInv' /\ SilentWhileRunning' /\ ProbeInHand'
  BY <1>1 DEF AskedInv, SilentWhileRunning, ProbeInHand
<1>3. CASE WakeBegins
  <2>1. /\ wake = "none" /\ wake' = "any" /\ visit' = visit /\ wakeAge' = 0
        /\ tickAge' = tickAge /\ slept' = slept
    BY <1>3 DEF WakeBegins, tickVars
  <2>2. FreshTurns' /\ NoEarlyProbe'
    BY <1>1, <2>1 DEF FreshTurns, NoEarlyProbe
  <2>3. WakeRan' /\ ClocksRan'
    BY <1>1, <2>1 DEF WakeRan, ClocksRan, Trusted, TickLate, Since, Ran
  <2>4. QED
    BY <1>2, <2>2, <2>3
<1>4. CASE WakeStoresAny
  <2>1. /\ wake = "any" /\ wake' = "clocks" /\ visit = 1 /\ visit' = 1 /\ wakeAge' = wakeAge
        /\ tickAge' = tickAge /\ slept' = slept
    BY <1>4 DEF WakeStoresAny, FreshTurns, tickVars
  <2>2. FreshTurns' /\ NoEarlyProbe'
    BY <1>1, <2>1 DEF FreshTurns, NoEarlyProbe
  <2>3. \A p \in Peers : ~(p < visit')
    BY <2>1, Numbers
  <2>4. WakeRan'
    BY <1>1, <2>1, <2>3 DEF WakeRan
  <2>5. ClocksRan'
    BY <1>1, <2>1 DEF ClocksRan, Trusted, TickLate, Since, Ran
  <2>6. QED
    BY <1>2, <2>2, <2>4, <2>5
<1>5. CASE WakeEnds
  <2>1. /\ wake = "clocks" /\ wake' = "none" /\ visit > Workers /\ visit' = 1
        /\ wakeAge' = 0 /\ tickAge' = 0 /\ (monitor = "waits" => nowAge = 0)
    BY <1>5 DEF WakeEnds, TickMoved, FreshTurns, SilenceTypes
  <2>2. FreshTurns' /\ NoEarlyProbe' /\ WakeRan'
    BY <1>1, <2>1 DEF FreshTurns, NoEarlyProbe, WakeRan, None
  <2>3. ClocksRan'
    <3>1. ASSUME Trusted', NEW p \in Peers
          PROVE  Ran(nowAge, p)
      <4>1. monitor \in {"waits", "prev", "judge", "probe", "mark"}
        BY <1>1, <3>1 DEF Trusted
      <4>2. CASE monitor \in {"judge", "probe", "mark"}
        BY <4>2 DEF ClocksRan, Trusted
      <4>3. CASE nowAge = 0
        <5>1. p < visit
          BY <2>1, Numbers
        <5>2. QED
          BY <2>1, <4>3, <5>1 DEF WakeRan
      <4>4. CASE nowAge = Gap /\ monitor = "prev"
        <5>1. rxAge[p] = 0
          <6>1. p < visit
            BY <2>1, Numbers
          <6>2. QED
            BY <2>1, <4>4, <6>1 DEF WakeRan
        <5>2. QED
          BY <4>4, <5>1, Numbers DEF Ran
      <4>5. QED
        BY <2>1, <4>1, <4>2, <4>3, <4>4, Numbers
    <3>2. ASSUME Trusted', NEW p \in Peers
          PROVE  Ran(nowAge, p)'
      BY <1>1, <3>1, <3>2 DEF Ran
    <3>3. monitor' = "reset" /\ nowAge' = 0 => \A p \in Peers : p < turn' => Ran(0, p)'
      BY <1>1 DEF ClocksRan, Ran
    <3>4. QED
      BY <3>2, <3>3 DEF ClocksRan
  <2>4. QED
    BY <1>2, <2>2, <2>3
<1>6. QED
  BY <1>3, <1>4, <1>5

\* A worker whose probe is taken away.
LEMMA ClearingSteps ==
  ASSUME SilenceInv, LivenessAssumption, SilenceTypes', given' = {},
         Resets \/ WakeResets \/ \E p \in Peers : Inbound(p) \/ Ready(p) \/ Ended(p)
  PROVE  SilenceInv'
<1> USE DEF SilenceInv
<1>1. SilentWhileRunning'
  BY DEF SilentWhileRunning
<1>2. /\ nowAge' = nowAge /\ tickAge' = tickAge /\ slept' = slept
      /\ monitor' = monitor /\ wakeAge' = wakeAge
  BY DEF Resets, WakeResets, Inbound, Ready, Ended, tickVars, monitorVars, wakeVars
<1>3. ASSUME NEW w \in Peers, Cleared(w), \A p \in Peers \ {w} : Same(p)
      PROVE  /\ AskedInv' /\ (wake' = wake => NoEarlyProbe')
             /\ \A p \in Peers : /\ Ran(0, p) => Ran(0, p)'
                                 /\ Ran(nowAge, p) => Ran(nowAge, p)'
             /\ Ran(0, w)'
             /\ turn' = turn => ProbeInHand'
  <2>1. AskedInv' /\ (wake' = wake => NoEarlyProbe')
    BY <1>2, <1>3 DEF AskedInv, NoEarlyProbe, Cleared, Same
  <2>2. Ran(0, w)' /\ Ran(nowAge, w)'
    BY <1>3 DEF Cleared, Ran
  <2>3. ASSUME NEW p \in Peers \ {w}
        PROVE  (Ran(0, p) => Ran(0, p)') /\ (Ran(nowAge, p) => Ran(nowAge, p)')
    BY <1>2, <1>3, <2>3 DEF Same, Ran
  <2>4. turn' = turn => ProbeInHand'
    <3>1. SUFFICES ASSUME turn' = turn, monitor = "probe"
                   PROVE  \/ probeAge'[turn] = None \/ probeAge'[turn] - nowAge <= 0
                          \/ rxAge'[turn] - nowAge >= ProbeAfter
      BY <1>2 DEF ProbeInHand
    <3>2. turn \in Peers
      BY <3>1 DEF SilenceTypes, LivenessTypeOK
    <3>3. CASE turn = w
      BY <1>3, <3>3 DEF Cleared
    <3>4. CASE turn # w
      BY <1>3, <3>1, <3>2, <3>4 DEF Same, ProbeInHand
    <3>5. QED
      BY <3>3, <3>4
  <2>5. QED
    BY <2>1, <2>2, <2>3, <2>4
<1>4. CASE Resets
  <2>1. /\ monitor = "reset" /\ turn \in Peers /\ turn' = turn + 1 /\ wake' = wake /\ visit' = visit
        /\ Cleared(turn) /\ \A p \in Peers \ {turn} : Same(p)
    <3>1. turn \in 1 .. Workers + 1 /\ turn <= Workers /\ Workers \in Nat
      BY <1>4, Numbers DEF Resets, SilenceTypes, LivenessTypeOK
    <3>2. turn \in Peers
      BY <3>1 DEF Peers
    <3>3. QED
      BY <1>4, <3>2 DEF Resets, wakeVars, Cleared, Same, SilenceTypes, LivenessTypeOK
  <2>w. PICK w \in Peers : w = turn
    BY <2>1
  <2>2. /\ AskedInv' /\ NoEarlyProbe' /\ Ran(0, w)'
        /\ \A p \in Peers : Ran(0, p) => Ran(0, p)'
    BY <1>3, <2>1, <2>w
  <2>3. FreshTurns' /\ ProbeInHand'
    BY <1>2, <2>1 DEF FreshTurns, ProbeInHand
  <2>4. WakeRan'
    BY <1>2, <2>1, <2>2 DEF WakeRan
  <2>5. ClocksRan'
    <3>1. SUFFICES ASSUME nowAge = 0, NEW p \in Peers, p < turn + 1
                   PROVE  Ran(0, p)'
      BY <1>2, <2>1 DEF ClocksRan, Trusted
    <3>2. p < turn \/ p = w
      BY <2>w, <3>1, Numbers
    <3>3. QED
      BY <2>1, <2>2, <3>1, <3>2 DEF ClocksRan
  <2>6. QED
    BY <1>1, <2>2, <2>3, <2>4, <2>5
<1>5. CASE WakeResets
  <2>1. /\ wake = "clocks" /\ visit \in Peers /\ turn' = turn /\ rxAge'[visit] = 0
        /\ \/ wake' = "mark" /\ visit' = visit
           \/ wake' = "clocks" /\ visit' = visit + 1
        /\ Cleared(visit) /\ \A p \in Peers \ {visit} : Same(p)
    <3>1. visit \in 1 .. Workers + 1 /\ visit <= Workers /\ Workers \in Nat
      BY <1>5, Numbers DEF WakeResets, SilenceTypes, LivenessTypeOK
    <3>2. visit \in Peers
      BY <3>1 DEF Peers
    <3>3. QED
      BY <1>5, <3>2 DEF WakeResets, monitorVars, Cleared, Same, SilenceTypes, LivenessTypeOK,
                        FreshTurns
  <2>w. PICK w \in Peers : w = visit
    BY <2>1
  <2>2. /\ AskedInv' /\ Ran(0, w)' /\ ProbeInHand'
        /\ \A p \in Peers : /\ Ran(0, p) => Ran(0, p)'
                            /\ Ran(nowAge, p) => Ran(nowAge, p)'
    BY <1>3, <2>1, <2>w
  <2>3. FreshTurns' /\ NoEarlyProbe'
    <3>1. \A p \in Peers : probeAge'[p] = None \/ probeAge'[p] = probeAge[p]
      BY <2>1 DEF Cleared, Same
    <3>2. QED
      BY <1>2, <2>1, <3>1 DEF FreshTurns, NoEarlyProbe
  <2>4. WakeRan'
    <3>1. ASSUME NEW p \in Peers, p < visit'
          PROVE  p < visit \/ p = visit
      BY <2>1, <3>1, Numbers
    <3>2. ASSUME NEW p \in Peers, p < visit'
          PROVE  Ran(0, p)'
      BY <2>1, <2>w, <2>2, <3>1, <3>2 DEF WakeRan
    <3>3. ASSUME NEW p \in Peers, p < visit \/ p = visit,
                 nowAge = Gap, monitor \in {"prev", "judge", "probe", "mark"}
          PROVE  rxAge'[p] = 0
      BY <2>1, <3>3 DEF WakeRan, Same
    <3>4. ASSUME NEW p \in Peers, p < visit' \/ (wake' = "mark" /\ p = visit')
          PROVE  p < visit \/ p = visit
      BY <2>1, <3>1, <3>4
    <3>5. QED
      BY <1>2, <3>2, <3>3, <3>4 DEF WakeRan
  <2>5. ClocksRan'
    BY <1>2, <2>1, <2>2 DEF ClocksRan, Trusted, TickLate, Since
  <2>6. QED
    BY <1>1, <2>2, <2>3, <2>4, <2>5
<1>6. ASSUME NEW w \in Peers, Inbound(w) \/ Ready(w) \/ Ended(w)
      PROVE  SilenceInv'
  <2>1. /\ turn' = turn /\ wake' = wake /\ visit' = visit /\ (rxAge'[w] = 0 \/ rxAge'[w] = rxAge[w])
        /\ Cleared(w) /\ \A p \in Peers \ {w} : Same(p)
    BY <1>6 DEF Inbound, Ready, Ended, wakeVars, monitorVars, Cleared, Same, SilenceTypes,
                LivenessTypeOK
  <2>2. /\ AskedInv' /\ NoEarlyProbe' /\ ProbeInHand'
        /\ \A p \in Peers : /\ Ran(0, p) => Ran(0, p)'
                            /\ Ran(nowAge, p) => Ran(nowAge, p)'
    BY <1>3, <2>1
  <2>3. FreshTurns'
    BY <1>2, <2>1 DEF FreshTurns
  <2>4. WakeRan'
    <3>1. \A p \in Peers : rxAge[p] = 0 => rxAge'[p] = 0
      BY <2>1 DEF Same
    <3>2. QED
      BY <1>2, <2>1, <2>2, <3>1 DEF WakeRan
  <2>5. ClocksRan'
    BY <1>2, <2>1, <2>2 DEF ClocksRan, Trusted, TickLate, Since
  <2>6. QED
    BY <1>1, <2>2, <2>3, <2>4, <2>5
<1>7. QED
  BY <1>4, <1>5, <1>6

\* A worker that is probed.
LEMMA MarkingSteps ==
  ASSUME SilenceInv, LivenessAssumption, SilenceTypes', given' = {},
         ProbeMarks \/ WakeMarks
  PROVE  SilenceInv'
<1> USE DEF SilenceInv
<1>1. SilentWhileRunning'
  BY DEF SilentWhileRunning
<1>2. /\ nowAge' = nowAge /\ tickAge' = tickAge /\ slept' = slept /\ wakeAge' = wakeAge
  BY DEF ProbeMarks, WakeMarks, tickVars, monitorVars, wakeVars
<1>3. ASSUME NEW w \in Peers, NEW at \in {0, nowAge}, Marked(w, at), \A p \in Peers \ {w} : Same(p)
      PROVE  /\ AskedInv' /\ Ran(nowAge, w)'
             /\ \A p \in Peers \ {w} : /\ Ran(0, p) => Ran(0, p)'
                                       /\ Ran(nowAge, p) => Ran(nowAge, p)'
             /\ at = 0 \/ rxAge[w] = 0 => Ran(0, w)'
  <2>1. AskedInv'
    <3>1. 0 \in 0 .. DeadAfter /\ at # None /\ 0 # None
      BY Numbers DEF None
    <3>2. QED
      BY <1>3, <3>1 DEF AskedInv, Marked, Same
  <2>2. Ran(nowAge, w)'
    BY <1>2, <1>3, Numbers DEF Marked, Ran
  <2>3. at = 0 \/ rxAge[w] = 0 => Ran(0, w)'
    BY <1>3, Numbers DEF Marked, Ran
  <2>4. ASSUME NEW p \in Peers \ {w}
        PROVE  (Ran(0, p) => Ran(0, p)') /\ (Ran(nowAge, p) => Ran(nowAge, p)')
    BY <1>2, <1>3, <2>4 DEF Same, Ran
  <2>5. QED
    BY <2>1, <2>2, <2>3, <2>4
<1>4. CASE ProbeMarks
  <2>1. /\ monitor = "mark" /\ monitor' = "judge" /\ turn \in Peers
        /\ wake' = wake /\ visit' = visit
        /\ Marked(turn, nowAge) /\ \A p \in Peers \ {turn} : Same(p)
    BY <1>4 DEF ProbeMarks, wakeVars, Marked, Same, SilenceTypes, LivenessTypeOK
  <2>2. PICK w \in Peers : w = turn
    BY <2>1
  <2>3. /\ AskedInv' /\ Ran(nowAge, w)'
        /\ \A p \in Peers \ {w} : /\ Ran(0, p) => Ran(0, p)'
                                  /\ Ran(nowAge, p) => Ran(nowAge, p)'
        /\ nowAge = 0 \/ rxAge[w] = 0 => Ran(0, w)'
    BY <1>3, <2>1, <2>2
  <2>4. FreshTurns' /\ NoEarlyProbe' /\ ProbeInHand'
    BY <1>2, <2>1 DEF FreshTurns, NoEarlyProbe, ProbeInHand
  <2>5. \A p \in Peers : rxAge'[p] = rxAge[p]
    BY <2>1, <2>2 DEF Marked, Same
  <2>6. WakeRan'
    <3>1. ASSUME wake \in {"clocks", "mark"}, NEW p \in Peers, p < visit
          PROVE  Ran(0, p)'
      <4>1. CASE p # w
        BY <2>3, <3>1, <4>1 DEF WakeRan
      <4>2. CASE p = w
        <5>1. nowAge = Gap => rxAge[w] = 0
          BY <2>1, <3>1, <4>2 DEF WakeRan
        <5>2. QED
          BY <2>3, <4>2, <5>1, Numbers
      <4>3. QED
        BY <4>1, <4>2
    <3>2. QED
      BY <1>2, <2>1, <2>5, <3>1 DEF WakeRan
  <2>7. ClocksRan'
    <3>1. \A p \in Peers : Ran(nowAge, p)
      BY <2>1 DEF ClocksRan, Trusted
    <3>2. QED
      BY <1>2, <2>1, <2>2, <2>3, <3>1 DEF ClocksRan
  <2>8. QED
    BY <1>1, <2>3, <2>4, <2>6, <2>7
<1>5. CASE WakeMarks
  <2>1. /\ wake = "mark" /\ wake' = "clocks" /\ visit \in Peers /\ visit' = visit + 1
        /\ monitor' = monitor /\ turn' = turn
        /\ Marked(visit, 0) /\ \A p \in Peers \ {visit} : Same(p)
    BY <1>5 DEF WakeMarks, FreshTurns, monitorVars, Marked, Same, SilenceTypes, LivenessTypeOK
  <2>2. PICK w \in Peers : w = visit
    BY <2>1
  <2>3. /\ AskedInv' /\ Ran(nowAge, w)' /\ Ran(0, w)'
        /\ \A p \in Peers \ {w} : /\ Ran(0, p) => Ran(0, p)'
                                  /\ Ran(nowAge, p) => Ran(nowAge, p)'
    BY <1>3, <2>1, <2>2
  <2>4. FreshTurns' /\ NoEarlyProbe'
    BY <1>2, <2>1 DEF FreshTurns, NoEarlyProbe, Marked, Same
  <2>5. ProbeInHand'
    <3>1. SUFFICES ASSUME monitor = "probe"
                   PROVE  \/ probeAge'[turn] = None \/ probeAge'[turn] - nowAge <= 0
                          \/ rxAge'[turn] - nowAge >= ProbeAfter
      BY <1>2, <2>1 DEF ProbeInHand
    <3>2. turn \in Peers
      BY <3>1 DEF SilenceTypes, LivenessTypeOK
    <3>3. CASE turn = visit
      <4>1. probeAge'[turn] = 0
        BY <2>1, <3>3 DEF Marked
      <4>2. QED
        BY <4>1, Numbers
    <3>4. CASE turn # visit
      BY <2>1, <3>1, <3>2, <3>4 DEF Same, ProbeInHand
    <3>5. QED
      BY <3>3, <3>4
  <2>6. WakeRan'
    <3>1. ASSUME NEW p \in Peers, p < visit'
          PROVE  p < visit \/ p = w
      BY <2>1, <2>2, <3>1, Numbers
    <3>2. ASSUME NEW p \in Peers, p < visit'
          PROVE  Ran(0, p)'
      BY <2>1, <2>3, <3>1, <3>2 DEF WakeRan
    <3>3. ASSUME NEW p \in Peers, p < visit',
                 nowAge = Gap, monitor \in {"prev", "judge", "probe", "mark"}
          PROVE  rxAge'[p] = 0
      BY <2>1, <2>2, <3>1, <3>3 DEF WakeRan, Same, Marked
    <3>4. QED
      BY <1>2, <2>1, <3>2, <3>3 DEF WakeRan
  <2>7. ClocksRan'
    <3>1. \A p \in Peers : /\ Ran(0, p) => Ran(0, p)'
                           /\ Ran(nowAge, p) => Ran(nowAge, p)'
      BY <2>3
    <3>2. QED
      BY <1>2, <2>1, <3>1 DEF ClocksRan, Trusted, TickLate, Since
  <2>8. QED
    BY <1>1, <2>3, <2>4, <2>5, <2>6, <2>7
<1>6. QED
  BY <1>4, <1>5

\* Time passes only between ticks, and for all clocks alike.
LEMMA TimeStep ==
  ASSUME SilenceInv, LivenessAssumption, SilenceTypes', given' = {}, Passes
  PROVE  SilenceInv'
<1> USE DEF SilenceInv
<1>1. /\ monitor = "waits" /\ monitor' = monitor /\ nowAge = 0 /\ nowAge' = 0
      /\ wake = "none" /\ wake' = wake /\ visit' = visit /\ wakeAge' = wakeAge /\ slept' = slept
      /\ tickAge' = Older(tickAge, Late + 1)
  BY DEF Passes, monitorVars, wakeVars, SilenceTypes
<1>2. ASSUME NEW p \in Peers
      PROVE  /\ probeAge'[p] = Older(probeAge[p], DeadAfter)
             /\ rxAge'[p] = Older(rxAge[p], ProbeAfter)
             /\ asked'[p] = Older(asked[p], DeadAfter)
             /\ probeAge[p] \in Ages \cup {None} /\ rxAge[p] \in Ages
             /\ asked[p] \in Ages \cup {None}
  BY DEF Passes, SilenceTypes, LivenessTypeOK
<1>3. DeadAfter \in 0 .. Gap /\ ProbeAfter \in 0 .. Gap /\ Late + 1 \in 0 .. Gap /\ 1 <= DeadAfter
  BY Numbers
<1>4. ASSUME NEW p \in Peers
      PROVE  /\ asked'[p] \in 0 .. DeadAfter \cup {None}
             /\ asked'[p] = None <=> probeAge'[p] = None
             /\ probeAge'[p] = None <=> probeAge[p] = None
  BY <1>2, <1>3, AgeGrows DEF AskedInv
<1>5. ASSUME NEW p \in Peers, Ran(0, p)
      PROVE  Ran(0, p)'
  <2>1. CASE probeAge[p] = None
    BY <1>4, <2>1 DEF Ran
  <2>2. CASE probeAge[p] # None
    <3> DEFINE a == asked[p]  b == probeAge[p]  c == rxAge[p]
               aa == asked'[p]  bb == probeAge'[p]  cc == rxAge'[p]
    <3>1. a \in Int /\ b \in Int /\ c \in Int /\ 0 <= a /\ a <= DeadAfter /\ 0 <= b /\ 0 <= c
      <4>1. a \in 0 .. DeadAfter \cup {None} /\ a # None
        BY <2>2 DEF AskedInv
      <4>2. QED
        BY <2>2, <4>1, Numbers
    <3>2. /\ a < DeadAfter => aa = a + 1
          /\ a >= DeadAfter => aa = DeadAfter
      BY <1>2, <1>3, <3>1, AgeGrows DEF None
    <3>3. bb <= b + 1 /\ bb \in Int
      <4>1. /\ b < DeadAfter => bb = b + 1
            /\ b >= DeadAfter => bb = DeadAfter
        BY <1>2, <1>3, <2>2, AgeGrows
      <4>2. QED
        BY <3>1, <4>1, Numbers
    <3>4. cc <= c + 1 /\ cc \in Int
      <4>1. /\ c < ProbeAfter => cc = c + 1
            /\ c >= ProbeAfter => cc = ProbeAfter
        <5>1. c # None
          BY <3>1 DEF None
        <5>2. QED
          BY <1>2, <1>3, <5>1, AgeGrows
      <4>2. QED
        BY <3>1, <4>1, Numbers
    <3>5. b <= a \/ c <= a \/ a = DeadAfter
      BY <1>5, <2>2, <3>1 DEF Ran
    <3>6. bb - 0 <= aa \/ cc - 0 <= aa \/ aa = DeadAfter
      <4> HIDE DEF a, b, c, aa, bb, cc
      <4>1. QED
        BY <3>1, <3>2, <3>3, <3>4, <3>5, Numbers
    <3>7. QED
      BY <3>6 DEF Ran
  <2>3. QED
    BY <2>1, <2>2
<1>6. AskedInv' /\ SilentWhileRunning'
  BY <1>4 DEF AskedInv, SilentWhileRunning
<1>7. FreshTurns' /\ WakeRan' /\ ProbeInHand'
  BY <1>1 DEF FreshTurns, WakeRan, ProbeInHand
<1>8. NoEarlyProbe'
  <2>1. tickAge' = None => tickAge = None
    <3>1. tickAge \in Ages \cup {None}
      BY Numbers DEF SilenceTypes, LivenessTypeOK, Ages
    <3>2. QED
      BY <1>1, <1>3, <3>1, AgeGrows
  <2>2. QED
    BY <1>1, <1>4, <2>1 DEF NoEarlyProbe
<1>9. ClocksRan'
  BY <1>1, <1>5 DEF ClocksRan, Trusted
<1>10. QED
  BY <1>6, <1>7, <1>8, <1>9

\* A suspension leaves a monitor that has taken its `now` what it would judge by.
LEMMA SleepStep ==
  ASSUME SilenceInv, LivenessAssumption, SilenceTypes', given' = {}, Suspended, ~WakeCut
  PROVE  SilenceInv'
<1> USE DEF SilenceInv
<1>1. /\ monitor' = monitor /\ turn' = turn /\ nowAge' = IF monitor = "waits" THEN 0 ELSE Gap
      /\ wake = "none" /\ wake' = wake /\ visit' = visit /\ wakeAge' = 0 /\ slept'
      /\ tickAge' = Oldest(tickAge) /\ asked' = asked
  BY DEF Suspended
<1>2. ASSUME NEW p \in Peers
      PROVE  /\ probeAge'[p] = Oldest(probeAge[p]) /\ rxAge'[p] = Oldest(rxAge[p])
             /\ probeAge[p] \in Ages \cup {None} /\ rxAge[p] \in Ages
             /\ probeAge'[p] = None <=> probeAge[p] = None
  <2>1. /\ probeAge'[p] = Oldest(probeAge[p]) /\ rxAge'[p] = Oldest(rxAge[p])
        /\ probeAge[p] \in Ages \cup {None} /\ rxAge[p] \in Ages
    BY DEF Suspended, SilenceTypes, LivenessTypeOK
  <2>2. QED
    BY <2>1, AgeJumps
<1>3. AskedInv' /\ SilentWhileRunning'
  BY <1>1, <1>2 DEF AskedInv, SilentWhileRunning
<1>4. FreshTurns' /\ WakeRan'
  BY <1>1 DEF FreshTurns, WakeRan
<1>5. tickAge \in Ages \cup {None} /\ (tickAge' = None <=> tickAge = None)
  <2>1. tickAge \in Ages \cup {None}
    BY Numbers DEF SilenceTypes, LivenessTypeOK, Ages
  <2>2. QED
    BY <1>1, <2>1, AgeJumps
<1>6. NoEarlyProbe'
  BY <1>1, <1>2, <1>5 DEF NoEarlyProbe
<1>7. CASE monitor \in {"waits", "any", "reset"}
  <2>1. ProbeInHand'
    BY <1>1, <1>7 DEF ProbeInHand
  <2>2. ClocksRan'
    BY <1>1, <1>7, Numbers DEF ClocksRan, Trusted
  <2>3. QED
    BY <1>3, <1>4, <1>6, <2>1, <2>2
<1>8. CASE monitor \notin {"waits", "any", "reset"}
  <2>1. nowAge' = Gap
    BY <1>1, <1>8
  <2>2. ASSUME NEW a \in Ages
        PROVE  /\ a - nowAge <= 0 => Oldest(a) - Gap <= 0
               /\ a - nowAge > 0 => Oldest(a) - Gap <= a - nowAge
               /\ a - nowAge >= ProbeAfter => Oldest(a) - Gap >= ProbeAfter
               /\ Oldest(a) - Gap <= Late => a - nowAge <= Late
               /\ Oldest(a) \in Int
    <3>1. a \in Int /\ 0 <= a /\ a # None
      BY Numbers DEF Ages, None
    <3>2. CASE nowAge = 0
      BY <1>8, <3>1, <3>2, AgeJumps, Numbers
    <3>3. CASE nowAge # 0
      BY <1>8, <3>1, <3>3, AgeJumps, Numbers
    <3>4. QED
      BY <3>2, <3>3
  <2>3. ProbeInHand'
    <3>1. SUFFICES ASSUME monitor = "probe", probeAge[turn] # None
                   PROVE  \/ probeAge'[turn] - Gap <= 0
                          \/ rxAge'[turn] - Gap >= ProbeAfter
      <4>1. monitor = "probe" => (probeAge'[turn] = None <=> probeAge[turn] = None)
        BY <1>2 DEF SilenceTypes, LivenessTypeOK
      <4>2. QED
        BY <1>1, <2>1, <4>1 DEF ProbeInHand
    <3>2. turn \in Peers
      BY <3>1 DEF SilenceTypes, LivenessTypeOK
    <3>3. probeAge[turn] - nowAge <= 0 \/ rxAge[turn] - nowAge >= ProbeAfter
      BY <3>1 DEF ProbeInHand
    <3>4. /\ probeAge[turn] \in Ages /\ rxAge[turn] \in Ages
          /\ probeAge'[turn] = Oldest(probeAge[turn]) /\ rxAge'[turn] = Oldest(rxAge[turn])
      BY <1>2, <3>1, <3>2
    <3>5. QED
      BY <2>2, <3>3, <3>4
  <2>4. ClocksRan'
    <3>1. SUFFICES ASSUME Trusted', NEW p \in Peers
                   PROVE  Ran(Gap, p)'
      BY <1>1, <1>8, <2>1 DEF ClocksRan
    <3>2. CASE monitor = "prev" /\ tickAge = None
      <4>1. probeAge'[p] = None
        BY <1>1, <1>2, <3>2 DEF NoEarlyProbe
      <4>2. QED
        BY <4>1 DEF Ran
    <3>3. CASE ~(monitor = "prev" /\ tickAge = None)
      <4>1. Trusted
        <5>1. CASE monitor = "prev"
          <6>1. tickAge \in Ages /\ tickAge' # None
            BY <1>5, <3>3, <5>1
          <6>2. ~TickLate'
            BY <1>1, <3>1, <5>1 DEF Trusted
          <6>3. Oldest(tickAge) - Gap <= Late
            BY <1>1, <2>1, <2>2, <6>1, <6>2, Numbers DEF TickLate, Since
          <6>4. tickAge - nowAge <= Late
            BY <2>2, <6>1, <6>3
          <6>5. ~TickLate
            BY <6>1, <6>4, Numbers DEF TickLate, Since, Ages
          <6>6. QED
            BY <5>1, <6>5 DEF Trusted
        <5>2. CASE monitor # "prev"
          BY <1>1, <1>8, <3>1, <5>2 DEF Trusted
        <5>3. QED
          BY <5>1, <5>2
      <4>2. Ran(nowAge, p)
        BY <4>1 DEF ClocksRan
      <4>3. CASE probeAge[p] = None
        BY <1>2, <4>3 DEF Ran
      <4>4. CASE probeAge[p] # None
        <5>1. /\ probeAge[p] \in Ages /\ rxAge[p] \in Ages
              /\ probeAge'[p] = Oldest(probeAge[p]) /\ rxAge'[p] = Oldest(rxAge[p])
          BY <1>2, <4>4
        <5>2. asked'[p] = asked[p] /\ asked[p] \in Int /\ 0 <= asked[p]
          BY <1>1, <4>4, Numbers
        <5>3. \A a \in Ages : a - nowAge <= asked[p] => Oldest(a) - Gap <= asked[p]
          <6>1. SUFFICES ASSUME NEW a \in Ages, a - nowAge <= asked[p]
                         PROVE  Oldest(a) - Gap <= asked[p]
            OBVIOUS
          <6>2. a \in Int
            BY Numbers DEF Ages
          <6>3. QED
            BY <2>2, <5>2, <6>1, <6>2, Numbers
        <5>4. QED
          BY <4>2, <4>4, <5>1, <5>2, <5>3 DEF Ran
      <4>5. QED
        BY <4>3, <4>4
    <3>4. QED
      BY <3>2, <3>3
  <2>5. QED
    BY <1>3, <1>4, <1>6, <2>3, <2>4
<1>9. QED
  BY <1>7, <1>8

LEMMA SilenceInitial == LivenessInit /\ LivenessAssumption => SilenceInv
<1> SUFFICES ASSUME LivenessInit, LivenessAssumption
             PROVE  SilenceInv
  OBVIOUS
<1>1. SilenceTypes
  BY TypesInitial
<1>2. \A p \in Peers : probeAge[p] = None /\ asked[p] = None
  BY DEF LivenessInit, Each
<1>3. /\ monitor = "waits" /\ turn = 1 /\ wake = "none" /\ visit = 1 /\ wakeAge = 0 /\ given = {}
  BY DEF LivenessInit
<1>4. AskedInv /\ FreshTurns /\ NoEarlyProbe /\ ClocksRan /\ WakeRan /\ ProbeInHand
  BY <1>2, <1>3 DEF AskedInv, FreshTurns, NoEarlyProbe, ClocksRan, Ran, WakeRan, ProbeInHand
<1>5. QED
  BY <1>1, <1>3, <1>4 DEF SilenceInv, SilentWhileRunning

LEMMA SilenceKept ==
  ASSUME SilenceInv, LivenessAssumption, ~WakeCut, [LivenessNext]_livenessVars
  PROVE  SilenceInv'
<1>1. SilenceTypes'
  BY TypesKept DEF SilenceInv
<1>2. CASE ProbeReads
  BY <1>1, <1>2, VerdictStep
<1>3. CASE given' = {} /\ Passes
  BY <1>1, <1>3, TimeStep
<1>4. CASE given' = {} /\ Suspended
  BY <1>1, <1>4, SleepStep
<1>5. CASE given' = {} /\ (TickFires \/ TickReads \/ WorkerReads \/ ResetsAny \/ TickEnds)
  BY <1>1, <1>5, QuietSteps
<1>6. CASE given' = {} /\ (WakeBegins \/ WakeStoresAny \/ WakeEnds)
  BY <1>1, <1>6, QuietWakeSteps
<1>7. CASE given' = {} /\ (Resets \/ WakeResets \/ \E p \in Peers : Inbound(p) \/ Ready(p) \/ Ended(p))
  BY <1>1, <1>7, ClearingSteps
<1>8. CASE given' = {} /\ (ProbeMarks \/ WakeMarks)
  BY <1>1, <1>8, MarkingSteps
<1>9. CASE UNCHANGED livenessVars
  BY <1>1, <1>9 DEF livenessVars, clocks, tickVars, monitorVars, wakeVars, SilenceInv, AskedInv,
     FreshTurns, NoEarlyProbe, ClocksRan, Trusted, TickLate, Since, Ran, WakeRan, ProbeInHand,
     SilentWhileRunning
<1>10. QED
  BY <1>2, <1>3, <1>4, <1>5, <1>6, <1>7, <1>8, <1>9
     DEF LivenessNext, MonitorSteps, WakeSteps

-----------------------------------------------------------------------------
(* The probe of a TURN session, the wait for a captcha: their types        *)

LEMMA ProbeAges ==
  ASSUME ProbeAssumption
  PROVE  /\ ProbeCap \in Nat /\ 1 <= ProbeCap
         /\ \A a \in 0 .. ProbeCap : Grows(a) \in 0 .. ProbeCap
         /\ \A n \in 0 .. 1 : Max({0, n - 1}) \in 0 .. 1
         /\ \A n \in -1 .. MaxLead : Max({-1, n - 1}) \in -1 .. MaxLead
<1>1. StaleAfter \in Int /\ FreezeGap \in Int /\ StaleAfter >= 1 /\ MaxLead \in Nat
  BY DEF ProbeAssumption
<1>2. ProbeCap \in Nat /\ 1 <= ProbeCap
  <2>1. Max({StaleAfter, FreezeGap}) \in Int /\ StaleAfter <= Max({StaleAfter, FreezeGap})
    BY <1>1, MaxOfTwo
  <2>2. QED
    BY <1>1, <2>1 DEF ProbeCap
<1>3. ASSUME NEW a \in 0 .. ProbeCap
      PROVE  Grows(a) \in 0 .. ProbeCap
  <2>1. a + 1 \in Int /\ ProbeCap \in Int
    BY <1>2
  <2>2. Min({a + 1, ProbeCap}) \in {a + 1, ProbeCap} /\ Min({a + 1, ProbeCap}) <= ProbeCap
    BY <2>1, MinOfTwo
  <2>3. QED
    BY <1>2, <2>2 DEF Grows
<1>4. ASSUME NEW n \in 0 .. 1
      PROVE  Max({0, n - 1}) \in 0 .. 1
  <2>1. 0 \in Int /\ n - 1 \in Int
    OBVIOUS
  <2>2. Max({0, n - 1}) \in {0, n - 1} /\ 0 <= Max({0, n - 1})
    BY <2>1, MaxOfTwo
  <2>3. QED
    BY <2>2
<1>5. ASSUME NEW n \in -1 .. MaxLead
      PROVE  Max({-1, n - 1}) \in -1 .. MaxLead
  <2>1. -1 \in Int /\ n - 1 \in Int
    BY <1>1
  <2>2. Max({-1, n - 1}) \in {-1, n - 1} /\ -1 <= Max({-1, n - 1})
    BY <2>1, MaxOfTwo
  <2>3. QED
    BY <1>1, <2>2
<1>6. QED
  BY <1>2, <1>3, <1>4, <1>5

LEMMA ProbeInitial == ProbeInit /\ ProbeAssumption => ProbeTypeOK
<1> SUFFICES ASSUME ProbeInit, ProbeAssumption
             PROVE  ProbeTypeOK
  OBVIOUS
<1>1. 0 \in 0 .. ProbeCap /\ ProbeCap \in 0 .. ProbeCap /\ 0 \in -1 .. MaxLead
  BY ProbeAges DEF ProbeAssumption
<1>2. pongAge \in 0 .. ProbeCap /\ probedAge \in 0 .. ProbeCap /\ tickGap \in 0 .. ProbeCap
  BY <1>1 DEF ProbeInit
<1>3. lead \in -1 .. MaxLead /\ pollLeft \in 0 .. 1 /\ echoes \subseteq {"last", "older"}
  BY <1>1 DEF ProbeInit
<1>4. QED
  BY <1>2, <1>3 DEF ProbeInit, ProbeTypeOK

\* Whatever sends a ping leaves the session's count and the echoes in their types.
LEMMA PingTyped ==
  ASSUME ProbeTypeOK, ProbeAssumption, Pinged
  PROVE  lead' \in -1 .. MaxLead /\ echoes' \subseteq {"last", "older"}
BY ProbeAges DEF Pinged, Outpaced, ProbeTypeOK

LEMMA ProbeKept == ProbeTypeOK /\ ProbeAssumption /\ [ProbeNext]_probeVars => ProbeTypeOK'
<1> SUFFICES ASSUME ProbeTypeOK, ProbeAssumption, [ProbeNext]_probeVars
             PROVE  ProbeTypeOK'
  OBVIOUS
<1> USE DEF ProbeTypeOK
<1>1. /\ ProbeCap \in Nat /\ 0 \in 0 .. ProbeCap /\ ProbeCap \in 0 .. ProbeCap
      /\ 0 \in -1 .. MaxLead /\ -1 \in -1 .. MaxLead /\ 1 .. MaxLead \subseteq -1 .. MaxLead
      /\ pongAge \in 0 .. ProbeCap /\ probedAge \in 0 .. ProbeCap /\ tickGap \in 0 .. ProbeCap
  BY ProbeAges DEF ProbeAssumption
<1>2. CASE SessionUp
  <2>1. lead' \in -1 .. MaxLead
    BY <1>1, <1>2 DEF SessionUp
  <2>2. pongAge' \in 0 .. ProbeCap /\ probedAge' \in 0 .. ProbeCap /\ tickGap' \in 0 .. ProbeCap
    BY <1>1, <1>2 DEF SessionUp
  <2>3. pollLeft' \in 0 .. 1 /\ echoes' \subseteq {"last", "older"}
    BY <1>2 DEF SessionUp
  <2>4. QED
    BY <1>2, <2>1, <2>2, <2>3 DEF SessionUp
<1>3. CASE SessionLost \/ RelayDies \/ DataArrives \/ PingFails \/ BroadcastWake \/ PollEchoed
           \/ PollGivesUp
  <2>1. /\ pongAge' \in 0 .. ProbeCap /\ probedAge' \in 0 .. ProbeCap
        /\ tickGap' \in 0 .. ProbeCap
    BY <1>1, <1>3 DEF SessionLost, RelayDies, DataArrives, PingFails, BroadcastWake, PollEchoed,
       PollGivesUp
  <2>2. /\ live' \in BOOLEAN /\ dead' \in BOOLEAN /\ recent' \in BOOLEAN
        /\ prober' \in {"selects", "polls", "gone"} /\ (~live' => prober' = "gone")
        /\ UNCHANGED <<lead, probeable, pollLeft, echoes>>
    BY <1>3 DEF SessionLost, RelayDies, DataArrives, PingFails, BroadcastWake, PollEchoed,
       PollGivesUp, Killed, Selecting, Polling
  <2>3. QED
    BY <2>1, <2>2
<1>4. CASE TickProbe
  <2>1. /\ lead' \in -1 .. MaxLead /\ echoes' \subseteq {"last", "older"}
        /\ pongAge' \in 0 .. ProbeCap
    BY <1>1, <1>4, PingTyped DEF TickProbe
  <2>2. /\ live' \in BOOLEAN /\ prober' \in {"selects", "polls", "gone"}
        /\ ~live' => prober' = "gone"
    BY <1>4 DEF TickProbe, Killed, Selecting
  <2>3. /\ tickGap' = 0 /\ UNCHANGED <<dead, probeable, pollLeft, probedAge, recent>>
    BY <1>4 DEF TickProbe
  <2>4. QED
    BY <1>1, <2>1, <2>2, <2>3
<1>5. CASE ProbeOnWake
  <2>1. lead' \in -1 .. MaxLead /\ echoes' \subseteq {"last", "older"}
    BY <1>5, PingTyped DEF ProbeOnWake
  <2>2. /\ prober' \in {"selects", "polls", "gone"} /\ live /\ pollLeft' \in 0 .. 1
        /\ probedAge' \in 0 .. ProbeCap
        /\ UNCHANGED <<live, dead, pongAge, probeable, tickGap, recent>>
    BY <1>1, <1>5 DEF ProbeOnWake, Selecting
  <2>3. QED
    BY <1>1, <2>1, <2>2
<1>6. CASE \E pong \in {"last", "older"} : PongArrives(pong)
  <2>1. /\ lead' \in -1 .. MaxLead /\ echoes' \subseteq {"last", "older"} /\ pongAge' = 0
        /\ probeable' = TRUE
        /\ UNCHANGED <<live, dead, prober, pollLeft, probedAge, tickGap, recent>>
    BY <1>1, <1>6 DEF PongArrives
  <2>2. QED
    BY <1>1, <2>1
<1>7. CASE PassProbe
  <2>1. /\ pongAge' \in 0 .. ProbeCap /\ probedAge' \in 0 .. ProbeCap /\ tickGap' \in 0 .. ProbeCap
        /\ pollLeft' \in 0 .. 1
    BY <1>1, <1>7, ProbeAges DEF PassProbe
  <2>2. QED
    BY <1>7, <2>1 DEF PassProbe
<1>8. CASE SuspendProbe
  <2>1. /\ pongAge' \in 0 .. ProbeCap /\ probedAge' \in 0 .. ProbeCap
        /\ tickGap' \in 0 .. ProbeCap /\ pollLeft' \in 0 .. 1
    BY <1>1, <1>8 DEF SuspendProbe
  <2>2. QED
    BY <1>8, <2>1 DEF SuspendProbe
<1>9. CASE UNCHANGED probeVars
  BY <1>9 DEF probeVars
<1>10. QED
  BY <1>2, <1>3, <1>4, <1>5, <1>6, <1>7, <1>8, <1>9 DEF ProbeNext

LEMMA CaptchaInitial == CaptchaInit /\ CaptchaAssumption => CaptchaTypeOK
<1> SUFFICES ASSUME CaptchaInit, CaptchaAssumption
             PROVE  CaptchaTypeOK
  OBVIOUS
<1>1. 0 \in 0 .. MaxDue
  BY DEF CaptchaAssumption
<1>2. QED
  BY <1>1 DEF CaptchaInit, CaptchaTypeOK, WaiterPlaces

LEMMA CaptchaKept ==
  CaptchaTypeOK /\ CaptchaAssumption /\ [CaptchaNext]_captchaVars => CaptchaTypeOK'
<1> SUFFICES ASSUME CaptchaTypeOK, CaptchaAssumption, [CaptchaNext]_captchaVars
             PROVE  CaptchaTypeOK'
  OBVIOUS
<1> USE DEF CaptchaTypeOK, WaiterPlaces, NewSession
<1>1. CASE StarterUp \/ StarterGivesUp \/ StarterNeedsCaptcha \/ OrphanEnds \/ TunnelLost
  BY <1>1 DEF StarterUp, StarterGivesUp, StarterNeedsCaptcha, OrphanEnds, TunnelLost, Hired
<1>2. CASE WaiterDrains \/ WaiterAnswered \/ WaiterProbes \/ ProbeEnds \/ WaiterResumes
           \/ WaiterRestarts \/ WaiterLeaves
  BY <1>2 DEF WaiterDrains, WaiterAnswered, WaiterProbes, ProbeEnds, WaiterResumes, WaiterRestarts,
     WaiterLeaves
<1>3. CASE NewConnections
  <2>1. passed' \in 0 .. MaxDue
    BY <1>3 DEF NewConnections, CaptchaAssumption
  <2>2. QED
    BY <1>3, <2>1 DEF NewConnections
<1>4. CASE WatchdogLooks
  <2>1. zero' \in {"none", "since", "long"}
    BY <1>4 DEF WatchdogLooks, ZeroAgain
  <2>2. passed = 0 /\ passed' \in {passed, passed + 1}
    BY <1>4 DEF WatchdogLooks
  <2>3. passed' \in 0 .. MaxDue
    BY <2>2 DEF CaptchaAssumption
  <2>4. QED
    BY <1>4, <2>1, <2>3 DEF WatchdogLooks
<1>5. CASE AppResumes
  <2>1. passed' \in 0 .. MaxDue
    BY <1>5 DEF AppResumes, CaptchaAssumption
  <2>2. QED
    BY <1>5, <2>1 DEF AppResumes
<1>6. CASE SolveCaptcha \/ SolveChecks
  <2>1. passed' \in 0 .. MaxDue /\ checks' \in 0 .. MaxDue
    BY <1>6 DEF SolveCaptcha, SolveChecks, CaptchaAssumption
  <2>2. QED
    BY <1>6, <2>1 DEF SolveCaptcha, SolveChecks, Solved
<1>7. CASE RefreshAsks \/ RefreshAnswers \/ StopsViewing
  BY <1>7 DEF RefreshAsks, RefreshAnswers, StopsViewing
<1>8. CASE UNCHANGED captchaVars
  BY <1>8 DEF captchaVars
<1>9. QED
  BY <1>1, <1>2, <1>3, <1>4, <1>5, <1>6, <1>7, <1>8 DEF CaptchaNext, CaptchaStep

-----------------------------------------------------------------------------
(* The theorems                                                            *)

\* Every variable of the six machines stays in its type: the mint's attempts, waves and
\* captcha tries end at their limits (creds.go), every clock of the TURN prober and of the
\* csqtt monitor and wake hook is an age (proxy.go, client.go), a receiver belongs to a
\* device that was built (bridge.go), a pump to a TUN that was opened (csqtt_bridge.go).
THEOREM ProgressTyped == ProgressSpec => []PartsTypeOK
<1> DEFINE Inv == /\ SilenceTypes /\ ProbeTypeOK /\ CaptchaTypeOK /\ MintInv
                  /\ DeviceInv /\ WaitInv /\ CsqttInv
<1>1. ProgressInit => Inv
  BY LivenessAssumption, ProbeAssumption, CaptchaAssumption, MintAssumption, TypesInitial,
     ProbeInitial, CaptchaInitial, MintInitial, BridgeInitial, CsqttInitial DEF ProgressInit
<1>2. Inv /\ [ProgressNext]_progressVars => Inv'
  BY LivenessAssumption, ProbeAssumption, CaptchaAssumption, MintAssumption, BridgeAssumption,
     CsqttBridgeAssumption, ProgressSteps, TypesKept, ProbeKept, CaptchaKept, MintKept,
     DeviceKept, WaitKept, CsqttKept
<1>3. Inv => PartsTypeOK
  <2> SUFFICES ASSUME Inv
               PROVE  PartsTypeOK
    OBVIOUS
  <2>1. LivenessTypeOK /\ MintTypeOK /\ CsqttBridgeTypeOK
    BY DEF SilenceTypes, MintInv, MintTypes, CsqttInv, CsqttTypes
  <2>2. BridgeTypeOK
    BY DEF BridgeTypeOK, DeviceInv, DeviceTypes, WhoseDevice, WaitInv
  <2>3. QED
    BY <2>1, <2>2 DEF PartsTypeOK
<1>4. QED
  BY <1>1, <1>2, <1>3, PTL DEF ProgressSpec, progressVars

\* A device of the WireGuard bridge that is up belongs to a registered tunnel or to one call
\* that will close it, and waiters of the start hear the one outcome (bridge.go); the csqtt
\* client is closed once, by the starter or the stop, and its TUN never outlives the stop
\* (csqtt_bridge.go); a caller gets a captcha the solver has not burned as long as VK gives
\* one (creds.go).
THEOREM NoMisuse == ProgressSpec => []NothingMisused
<1> DEFINE Inv == MintInv /\ DeviceInv /\ WaitInv /\ CsqttInv
<1>1. ProgressInit => Inv
  BY MintAssumption, MintInitial, BridgeInitial, CsqttInitial DEF ProgressInit
<1>2. Inv /\ [ProgressNext]_progressVars => Inv'
  BY MintAssumption, BridgeAssumption, CsqttBridgeAssumption, ProgressSteps, MintKept,
     DeviceKept, WaitKept, CsqttKept
<1>3. Inv => NothingMisused
  BY BridgeAssumption, DeviceHeld, CsqttHeld
     DEF NothingMisused, HandlesOwned, MintInv, WaitInv
<1>4. QED
  BY <1>1, <1>2, <1>3, PTL DEF ProgressSpec, progressVars

\* The solver gives up its remaining attempts only when VK answered the last two and named
\* no challenge in either (creds.go, nextEmptyShowHint); the csqtt monitor starts the clocks
\* over only if the process was suspended since the time it loads from lastTick, although
\* the wake hook stores between its loads (client.go:505-534 beside 207-219).
THEOREM StepsHaveReasons == ProgressSpec => StepsJustified
<1> DEFINE Inv == SilenceTypes /\ MintInv
<1>1. ProgressInit => Inv
  BY LivenessAssumption, MintAssumption, TypesInitial, MintInitial DEF ProgressInit
<1>2. Inv /\ [ProgressNext]_progressVars => Inv'
  BY LivenessAssumption, MintAssumption, ProgressSteps, TypesKept, MintKept
<1>3. Inv /\ Inv' /\ [ProgressNext]_progressVars
        => [PowFails /\ powTry < PowTries /\ step' = "untouched" =>
              \E n \in 2 .. Len(shows') : n = Len(shows') /\ ~shows'[n] /\ ~shows'[n - 1]]_mintVars
  BY MintSkips
<1>4. Inv /\ Inv' /\ [ProgressNext]_progressVars
        => [monitor = "prev" /\ monitor' = "any" => slept]_livenessVars
  BY LivenessAssumption, ProgressSteps, ResetAfterSleep DEF ResetStep
<1>5. QED
  BY <1>1, <1>2, <1>3, <1>4, PTL
     DEF ProgressSpec, progressVars, StepsJustified, SkippedOnVKsWord, ResetOnlyAfterSleep

\* A csqtt worker is given up only after DeadAfter of running time without an answer to its
\* probe (liveness.go, livenessVerdict), however ticks, suspensions and wakes fall into one
\* another -- if no suspension falls inside the wake hook: with one it is false.
THEOREM NoneGivenUpForSleep ==
  ASSUME ~WakeCut
  PROVE  ProgressSpec => []SilentWhileRunning
<1>1. ProgressInit => SilenceInv
  BY SilenceInitial, LivenessAssumption DEF ProgressInit
<1>2. SilenceInv /\ [ProgressNext]_progressVars => SilenceInv'
  BY SilenceKept, ProgressSteps, LivenessAssumption
<1>3. SilenceInv => SilentWhileRunning
  BY DEF SilenceInv
<1>4. QED
  BY <1>1, <1>2, <1>3, PTL DEF ProgressSpec, progressVars
=============================================================================
