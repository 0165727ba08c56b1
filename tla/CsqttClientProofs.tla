-------------------------- MODULE CsqttClientProofs --------------------------
(***************************************************************************)
(* Proofs about CsqttClient, for any workers, attempts, path changes,      *)
(* server restarts and faults.                                             *)
(***************************************************************************)
EXTENDS CsqttClient, TLAPS

\* Which places a worker holds a credential at, and at which it may have an
\* allocation.
Leased == {"gate", "dial", "attempt", "sending", "waiting", "ready", "down", "release"}
Allocated == {"attempt", "sending", "waiting", "ready", "down"}

HoldsByPlace ==
  /\ wpc \in [Workers -> Places]
  /\ lease \subseteq Workers /\ relay \subseteq Workers
  /\ \A w \in Workers : wpc[w] \in Leased <=> w \in lease
  /\ \A w \in relay : wpc[w] \in Allocated
  /\ ~started => \A w \in Workers \ {FirstWorker} : wpc[w] = "idle"
  /\ started \in BOOLEAN

LEMMA HoldsInit == ClientInit => HoldsByPlace
BY ClientAssumption DEF ClientInit, HoldsByPlace, Places, Leased, Allocated

LEMMA HoldsWorker ==
  ASSUME HoldsByPlace, NEW w \in Workers, WorkerStep(w) PROVE HoldsByPlace'
<1> USE DEF HoldsByPlace, Places, Leased, Allocated, Goto, EndsBecause, NextPlace, clientVars
<1>1. CASE TakeCredential(w) BY <1>1 DEF TakeCredential
<1>2. CASE BeginStart(w) BY <1>2 DEF BeginStart
<1>3. CASE DialAnswers(w) BY <1>3 DEF DialAnswers
<1>4. CASE BeginAttempt(w) BY <1>4 DEF BeginAttempt
<1>5. CASE SendGetconf(w) BY <1>5 DEF SendGetconf
<1>6. CASE Configured(w) BY <1>6 DEF Configured
<1>7. CASE Denied(w) BY <1>7 DEF Denied
<1>8. CASE AttemptTimesOut(w) BY <1>8 DEF AttemptTimesOut
<1>9. CASE SessionEnds(w) BY <1>9 DEF SessionEnds
<1>10. CASE CloseAllocation(w) BY <1>10 DEF CloseAllocation, NoRelay
<1>11. CASE Release(w) BY <1>11 DEF Release
<1>12. CASE BackoffOver(w) BY <1>12 DEF BackoffOver
<1> QED BY <1>1, <1>2, <1>3, <1>4, <1>5, <1>6, <1>7, <1>8, <1>9, <1>10, <1>11, <1>12 DEF WorkerStep

LEMMA HoldsElsewhere ==
  ASSUME HoldsByPlace, NEW w \in Workers,
         Kick(w) \/ Verdict(w) \/ CloseRelay(w) \/ RelayDies(w)
  PROVE  HoldsByPlace'
<1> USE DEF HoldsByPlace, workerVars, clientVars
<1>1. CASE Kick(w) BY <1>1 DEF Kick
<1>2. CASE Verdict(w) BY <1>2 DEF Verdict
<1>3. CASE CloseRelay(w) BY <1>3 DEF CloseRelay
<1>4. CASE RelayDies(w) BY <1>4 DEF RelayDies
<1> QED BY <1>1, <1>2, <1>3, <1>4

LEMMA HoldsClient ==
  ASSUME HoldsByPlace,
         \/ StartOthers \/ OnPathChange \/ Close \/ Joined
         \/ LoseMessage \/ GetconfArrives \/ ServerRestarts \/ Repair
  PROVE  HoldsByPlace'
<1> USE DEF HoldsByPlace, workerVars, clientVars
<1>1. CASE StartOthers BY <1>1, ClientAssumption DEF StartOthers, Places, Leased, Allocated
<1>2. CASE OnPathChange BY <1>2 DEF OnPathChange
<1>3. CASE Close BY <1>3 DEF Close
<1>4. CASE Joined BY <1>4 DEF Joined
<1>5. CASE LoseMessage BY <1>5 DEF LoseMessage
<1>6. CASE GetconfArrives BY <1>6 DEF GetconfArrives
<1>7. CASE ServerRestarts BY <1>7 DEF ServerRestarts
<1>8. CASE Repair BY <1>8 DEF Repair
<1> QED BY <1>1, <1>2, <1>3, <1>4, <1>5, <1>6, <1>7, <1>8

LEMMA HoldsKept == HoldsByPlace /\ [ClientNext]_csqttVars => HoldsByPlace'
<1> SUFFICES ASSUME HoldsByPlace, [ClientNext]_csqttVars PROVE HoldsByPlace'
  OBVIOUS
<1>1. CASE UNCHANGED csqttVars
  BY <1>1 DEF HoldsByPlace, csqttVars, workerVars, clientVars
<1>2. CASE ClientNext
  BY <1>2, HoldsWorker, HoldsElsewhere, HoldsClient DEF ClientNext
<1> QED BY <1>1, <1>2

\* client.go, Credential: a worker's allocation never outlives the lease of the
\* credential it was obtained with.
THEOREM LeaseCovers == ClientSpec => []LeaseCoversRelay
<1>1. HoldsByPlace => LeaseCoversRelay
  BY DEF HoldsByPlace, LeaseCoversRelay, Leased, Allocated
<1> QED BY <1>1, HoldsInit, HoldsKept, PTL DEF ClientSpec

-----------------------------------------------------------------------------
(* Kicks *)

\* KicksMeant with the types it needs.
KickInv ==
  /\ HoldsByPlace
  /\ used \in [Workers -> Nat] /\ ident \in Nat
  /\ kick \subseteq Workers /\ toKick \subseteq Workers
  /\ KicksMeant

LEMMA KickInit == ClientInit => KickInv
<1> SUFFICES ASSUME ClientInit PROVE KickInv
  OBVIOUS
<1>1. HoldsByPlace BY HoldsInit
<1> QED BY <1>1 DEF ClientInit, KickInv, KicksMeant, StaleWorkerKicked, KickNamesThisAllocation,
     Serving

LEMMA KickWorker ==
  ASSUME KickInv, NEW w \in Workers, WorkerStep(w) PROVE KickInv'
<1>1. HoldsByPlace' BY HoldsWorker DEF KickInv
<1> USE <1>1 DEF KickInv, HoldsByPlace, KicksMeant, StaleWorkerKicked, KickNamesThisAllocation,
     Serving,
      Goto, EndsBecause, NextPlace, clientVars
<1>2. CASE TakeCredential(w) BY <1>2 DEF TakeCredential
<1>3. CASE BeginStart(w) BY <1>3 DEF BeginStart, Drained
<1>4. CASE DialAnswers(w) BY <1>4 DEF DialAnswers
<1>5. CASE BeginAttempt(w) BY <1>5 DEF BeginAttempt
<1>6. CASE SendGetconf(w) BY <1>6 DEF SendGetconf
<1>7. CASE Configured(w) BY <1>7 DEF Configured
<1>8. CASE Denied(w) BY <1>8 DEF Denied
<1>9. CASE AttemptTimesOut(w) BY <1>9 DEF AttemptTimesOut
<1>10. CASE SessionEnds(w) BY <1>10 DEF SessionEnds
<1>11. CASE CloseAllocation(w) BY <1>11 DEF CloseAllocation
<1>12. CASE Release(w) BY <1>12 DEF Release
<1>13. CASE BackoffOver(w) BY <1>13 DEF BackoffOver
<1> QED BY <1>2, <1>3, <1>4, <1>5, <1>6, <1>7, <1>8, <1>9, <1>10, <1>11, <1>12, <1>13 DEF WorkerStep

LEMMA KickElsewhere ==
  ASSUME KickInv, NEW w \in Workers,
         Kick(w) \/ Verdict(w) \/ CloseRelay(w) \/ RelayDies(w)
  PROVE  KickInv'
<1>1. HoldsByPlace' BY HoldsElsewhere DEF KickInv
<1> USE <1>1 DEF KickInv, KicksMeant, StaleWorkerKicked, KickNamesThisAllocation, workerVars,
     clientVars
<1>2. CASE Kick(w) BY <1>2 DEF Kick
<1>3. CASE Verdict(w) BY <1>3 DEF Verdict
<1>4. CASE CloseRelay(w) BY <1>4 DEF CloseRelay
<1>5. CASE RelayDies(w) BY <1>5 DEF RelayDies
<1> QED BY <1>2, <1>3, <1>4, <1>5

LEMMA KickClient ==
  ASSUME KickInv,
         \/ StartOthers \/ OnPathChange \/ Close \/ Joined
         \/ LoseMessage \/ GetconfArrives \/ ServerRestarts \/ Repair
  PROVE  KickInv'
<1>1. HoldsByPlace' BY HoldsClient DEF KickInv
<1> USE <1>1 DEF KickInv, KicksMeant, StaleWorkerKicked, KickNamesThisAllocation, workerVars,
     clientVars
<1>2. CASE StartOthers BY <1>2 DEF StartOthers, HoldsByPlace, Serving
<1>3. CASE OnPathChange BY <1>3 DEF OnPathChange, ToRestart
<1>4. CASE Close BY <1>4 DEF Close
<1>5. CASE Joined BY <1>5 DEF Joined
<1>6. CASE LoseMessage BY <1>6 DEF LoseMessage
<1>7. CASE GetconfArrives BY <1>7 DEF GetconfArrives
<1>8. CASE ServerRestarts BY <1>8 DEF ServerRestarts, ToRestart
<1>9. CASE Repair BY <1>9 DEF Repair
<1> QED BY <1>2, <1>3, <1>4, <1>5, <1>6, <1>7, <1>8, <1>9

LEMMA KickKept == KickInv /\ [ClientNext]_csqttVars => KickInv'
<1> SUFFICES ASSUME KickInv, [ClientNext]_csqttVars PROVE KickInv'
  OBVIOUS
<1>1. CASE UNCHANGED csqttVars
  BY <1>1 DEF KickInv, HoldsByPlace, KicksMeant, StaleWorkerKicked, KickNamesThisAllocation,
     csqttVars, workerVars, clientVars
<1>2. CASE ClientNext
  BY <1>2, KickWorker, KickElsewhere, KickClient DEF ClientNext
<1> QED BY <1>1, <1>2

\* client.go, OnPathChange and session: nobody stays behind in an identity the
\* client has replaced without a kick before it, and no kick from before an
\* allocation ends the session that answers it.
THEOREM EveryKickMeant == ClientSpec => []KicksMeant
<1>1. KickInv => KicksMeant BY DEF KickInv
<1> QED BY <1>1, KickInit, KickKept, PTL DEF ClientSpec

-----------------------------------------------------------------------------
(* Types *)

Messages == [from : Workers, id : Identities, live : BOOLEAN]
\* What is under way can be answered only while its allocation is open, and
\* carries an identity the client has had.
NetInv ==
  /\ net \in Seq(Messages)
  /\ \A i \in DOMAIN net : net[i].live => net[i].from \in relay
TypeInv ==
  /\ HoldsByPlace /\ ClientTypeOK /\ NetInv /\ restarts \in Nat
  /\ \A w \in Workers : wpc[w] = "sending" => used[w] \in Identities

LEMMA TypeInit == ClientInit => TypeInv
<1> SUFFICES ASSUME ClientInit PROVE TypeInv
  OBVIOUS
<1>1. HoldsByPlace BY HoldsInit
<1>2. ClientTypeOK
  <2>1. 1 \in Identities /\ 0 \in 0 .. Attempts BY ClientAssumption DEF Identities
  <2>2. /\ wpc \in [Workers -> Places] /\ why \in [Workers -> {"own", "asked", "denied"}]
        /\ used \in [Workers -> Identities \cup {0}] /\ tries \in [Workers -> 0 .. Attempts]
    BY <2>1 DEF ClientInit, Places
  <2>3. \A w \in Workers : wpc[w] # "dial" /\ gate # {w} BY DEF ClientInit
  <2> QED BY <2>1, <2>2, <2>3 DEF ClientInit, ClientTypeOK
<1>3. NetInv /\ restarts \in Nat BY DEF ClientInit, NetInv
<1>4. \A w \in Workers : wpc[w] = "sending" => used[w] \in Identities BY DEF ClientInit
<1> QED BY <1>1, <1>2, <1>3, <1>4 DEF TypeInv

\* An allocation that closes takes its answers and its messages along.
LEMMA Orphans ==
  ASSUME NetInv, NEW w, net' = Orphaned(w), relay' = relay \ {w}
  PROVE  NetInv'
<1> DEFINE cut(i) == [net[i] EXCEPT !.live = @ /\ net[i].from # w]
<1>1. ASSUME NEW i \in DOMAIN net
      PROVE  /\ cut(i) \in Messages /\ cut(i).from = net[i].from
             /\ cut(i).live => net[i].live /\ net[i].from # w
  <2>1. net[i] \in Messages BY DEF NetInv
  <2>2. cut(i) \in Messages
    <3>1. (net[i].live /\ net[i].from # w) \in BOOLEAN OBVIOUS
    <3> QED BY <2>1, <3>1 DEF Messages
  <2>3. /\ cut(i).from = net[i].from
        /\ cut(i).live = (net[i].live /\ net[i].from # w)
    BY <2>1 DEF Messages
  <2> QED BY <2>2, <2>3
<1>2. net' = [i \in DOMAIN net |-> cut(i)] BY DEF Orphaned
<1> HIDE DEF cut
<1>3. net' \in Seq(Messages)
  BY <1>1, <1>2 DEF NetInv
<1>4. ASSUME NEW i \in DOMAIN net', net'[i].live
      PROVE  net'[i].from \in relay'
  BY <1>1, <1>2, <1>4 DEF NetInv
<1> QED BY <1>3, <1>4 DEF NetInv

LEMMA TypeWorker ==
  ASSUME TypeInv, NEW w \in Workers, WorkerStep(w) PROVE TypeInv'
<1>1. HoldsByPlace' BY HoldsWorker DEF TypeInv
<1> USE <1>1 DEF TypeInv, ClientTypeOK, Goto, EndsBecause, NextPlace, clientVars, serverVars
<1>2. CASE TakeCredential(w)
  <2>1. \A v \in Workers : wpc'[v] = "dial" <=> gate' = {v} BY <1>2 DEF TakeCredential
  <2>2. \A v \in Workers : wpc'[v] = "sending" => wpc[v] = "sending" BY <1>2 DEF TakeCredential
  <2> QED BY <1>2, <2>1, <2>2 DEF TakeCredential, NetInv, HoldsByPlace
<1>3. CASE BeginStart(w)
  <2>1. kick' \subseteq Workers /\ stale' \subseteq kick' BY <1>3 DEF BeginStart, Drained
  <2>2. \A v \in Workers : wpc'[v] = "dial" <=> gate' = {v} BY <1>3 DEF BeginStart
  <2> QED BY <1>3, <2>1, <2>2 DEF BeginStart, NetInv, HoldsByPlace
<1>4. CASE DialAnswers(w)
  <2>1. \A v \in Workers : wpc'[v] = "dial" <=> gate' = {v} BY <1>4 DEF DialAnswers, GateLeft
  <2> QED BY <1>4, <2>1 DEF DialAnswers, NetInv, HoldsByPlace, GateLeft
<1>5. CASE BeginAttempt(w)
  <2>1. tries' \in [Workers -> 0 .. Attempts] BY <1>5, ClientAssumption DEF BeginAttempt
  <2>2. used' \in [Workers -> Identities \cup {0}] BY <1>5 DEF BeginAttempt
  <2>3. \A v \in Workers : wpc'[v] = "dial" <=> gate' = {v} BY <1>5 DEF BeginAttempt
  <2>4. \A v \in Workers : wpc'[v] = "sending" => used'[v] \in Identities BY <1>5 DEF BeginAttempt
  <2>5. why' \in [Workers -> {"own", "asked", "denied"}] /\ kick' \subseteq Workers
        /\ stale' \subseteq kick'
    BY <1>5 DEF BeginAttempt
  <2> QED BY <1>5, <2>1, <2>2, <2>3, <2>4, <2>5 DEF BeginAttempt, NetInv, HoldsByPlace
<1>6. CASE SendGetconf(w)
  <2>1. NetInv'
    <3>1. CASE w \in relay /\ net' = Append(net, [from |-> w, id |-> used[w], live |-> TRUE])
      <4>1. [from |-> w, id |-> used[w], live |-> TRUE] \in Messages
        BY <1>6 DEF SendGetconf, Messages
      <4>2. net' \in Seq(Messages) BY <3>1, <4>1 DEF NetInv
      <4> QED BY <1>6, <3>1, <4>1, <4>2 DEF SendGetconf, NetInv
    <3> QED BY <1>6, <3>1 DEF SendGetconf, NetInv
  <2>2. \A v \in Workers : wpc'[v] = "dial" <=> gate' = {v} BY <1>6 DEF SendGetconf
  <2>3. \A v \in Workers : wpc'[v] = "sending" => wpc[v] = "sending" BY <1>6 DEF SendGetconf
  <2>4. why' \in [Workers -> {"own", "asked", "denied"}] BY <1>6 DEF SendGetconf
  <2> QED BY <1>6, <2>1, <2>2, <2>3, <2>4 DEF SendGetconf, HoldsByPlace
<1>7. CASE Configured(w) BY <1>7 DEF Configured, NetInv, HoldsByPlace
<1>8. CASE Denied(w) BY <1>8 DEF Denied, NetInv, HoldsByPlace
<1>9. CASE AttemptTimesOut(w) BY <1>9 DEF AttemptTimesOut, NetInv, HoldsByPlace
<1>10. CASE SessionEnds(w) BY <1>10 DEF SessionEnds, NetInv, HoldsByPlace
<1>11. CASE CloseAllocation(w)
  <2>1. NetInv' BY <1>11, Orphans DEF CloseAllocation, NoRelay
  <2>2. used' \in [Workers -> Identities \cup {0}] /\ tries' \in [Workers -> 0 .. Attempts]
    BY <1>11, ClientAssumption DEF CloseAllocation
  <2>3. sess' \subseteq relay' /\ reply' \subseteq relay' BY <1>11 DEF CloseAllocation, NoRelay
  <2> QED BY <1>11, <2>1, <2>2, <2>3 DEF CloseAllocation, HoldsByPlace
<1>12. CASE Release(w) BY <1>12 DEF Release, NetInv, HoldsByPlace
<1>13. CASE BackoffOver(w) BY <1>13 DEF BackoffOver, NetInv, HoldsByPlace
<1> QED BY <1>2, <1>3, <1>4, <1>5, <1>6, <1>7, <1>8, <1>9, <1>10, <1>11, <1>12, <1>13 DEF WorkerStep

LEMMA TypeElsewhere ==
  ASSUME TypeInv, NEW w \in Workers,
         Kick(w) \/ Verdict(w) \/ CloseRelay(w) \/ RelayDies(w)
  PROVE  TypeInv'
<1>1. HoldsByPlace' BY HoldsElsewhere DEF TypeInv
<1> USE <1>1 DEF TypeInv, ClientTypeOK, workerVars, clientVars, serverVars
<1>2. CASE Kick(w) BY <1>2 DEF Kick, NetInv
<1>3. CASE Verdict(w) BY <1>3 DEF Verdict, NetInv
<1>4. CASE CloseRelay(w)
  <2>1. NetInv' BY <1>4, Orphans DEF CloseRelay
  <2> QED BY <1>4, <2>1 DEF CloseRelay
<1>5. CASE RelayDies(w)
  <2>1. NetInv' BY <1>5, Orphans DEF RelayDies
  <2> QED BY <1>5, <2>1 DEF RelayDies
<1> QED BY <1>2, <1>3, <1>4, <1>5

\* The message at i is lost: the rest is as it was.
LEMMA Lost ==
  ASSUME NetInv, NEW i \in DOMAIN net, net' = RemoveAt(net, i), relay' = relay
  PROVE  NetInv'
<1>1. Len(net) \in Nat /\ i \in 1 .. Len(net) /\ net \in Seq(Messages) BY DEF NetInv
<1> DEFINE s == SubSeq(net, 1, i - 1)
           t == SubSeq(net, i + 1, Len(net))
<1>2. /\ s \in Seq(Messages) /\ Len(s) = i - 1 /\ \A j \in 1 .. Len(s) : s[j] = net[j]
  BY <1>1
<1>3. /\ t \in Seq(Messages) /\ Len(t) = Len(net) - i
      /\ \A j \in 1 .. Len(t) : t[j] = net[i + j]
  BY <1>1
<1>4. net' = s \o t BY DEF RemoveAt
<1> HIDE DEF s, t
<1>5. net' \in Seq(Messages) /\ Len(net') = Len(s) + Len(t)
  <2>1. s \o t \in Seq(Messages) BY <1>2, <1>3
  <2>2. Len(s \o t) = Len(s) + Len(t) BY <1>2, <1>3
  <2> QED BY <1>4, <2>1, <2>2
<1>6. ASSUME NEW j \in DOMAIN net', net'[j].live
      PROVE  net'[j].from \in relay'
  <2>1. net'[j] = IF j <= Len(s) THEN s[j] ELSE t[j - Len(s)] BY <1>2, <1>3, <1>4, <1>5
  <2>2. j \in 1 .. Len(s) + Len(t) BY <1>5
  <2>3. \E k \in DOMAIN net : net'[j] = net[k]
    <3>1. CASE j <= Len(s) BY <1>1, <1>2, <2>1, <2>2, <3>1
    <3>2. CASE ~(j <= Len(s))
      <4>1. j - Len(s) \in 1 .. Len(t) BY <1>2, <1>3, <2>2, <3>2
      <4>2. net'[j] = net[i + (j - Len(s))] BY <1>3, <2>1, <3>2, <4>1
      <4>3. i + (j - Len(s)) \in 1 .. Len(net) BY <1>1, <1>3, <4>1
      <4> QED BY <1>1, <4>2, <4>3
    <3> QED BY <3>1, <3>2
  <2> QED BY <1>6, <2>3 DEF NetInv
<1> QED BY <1>5, <1>6 DEF NetInv

LEMMA TypeClient ==
  ASSUME TypeInv,
         \/ StartOthers \/ OnPathChange \/ Close \/ Joined
         \/ LoseMessage \/ GetconfArrives \/ ServerRestarts \/ Repair
  PROVE  TypeInv'
<1>1. HoldsByPlace' BY HoldsClient DEF TypeInv
<1> USE <1>1 DEF TypeInv, ClientTypeOK, workerVars, clientVars, serverVars
<1>2. CASE StartOthers
  BY <1>2, ClientAssumption DEF StartOthers, NetInv, HoldsByPlace
<1>3. CASE OnPathChange
  <2>1. ident' \in Identities /\ Identities \subseteq Identities'
    BY <1>3, ClientAssumption DEF OnPathChange, EventsLeft, Identities
  <2> QED BY <1>3, <2>1 DEF OnPathChange, ToRestart, NetInv
<1>4. CASE Close BY <1>4 DEF Close, NetInv
<1>5. CASE Joined BY <1>5 DEF Joined, NetInv
<1>6. CASE LoseMessage
  <2>1. NetInv' BY <1>6, Lost DEF LoseMessage, NetInv
  <2> QED BY <1>6, <2>1 DEF LoseMessage
<1>7. CASE GetconfArrives
  <2>1. net \in Seq(Messages) /\ net # << >> BY <1>7 DEF GetconfArrives, NetInv
  <2>2. Head(net) \in Messages /\ Head(net) = net[1] /\ 1 \in DOMAIN net BY <2>1
  <2>3. Head(net).id \in Identities /\ (Head(net).live => Head(net).from \in relay)
    BY <2>2 DEF NetInv, Messages
  <2>4. epoch' \in Identities /\ sess' \subseteq relay /\ reply' \subseteq relay
    BY <1>7, <2>3 DEF GetconfArrives
  <2>5. NetInv'
    <3>1. /\ Tail(net) \in Seq(Messages) /\ Len(Tail(net)) = Len(net) - 1
          /\ \A j \in 1 .. Len(net) - 1 : Tail(net)[j] = net[j + 1] /\ j + 1 \in 1 .. Len(net)
      BY <2>1
    <3> QED BY <1>7, <2>1, <3>1 DEF GetconfArrives, NetInv
  <2> QED BY <1>7, <2>4, <2>5 DEF GetconfArrives
<1>8. CASE ServerRestarts
  <2>1. restarts' \in Nat BY <1>8 DEF ServerRestarts
  <2> QED BY <1>8, <2>1 DEF ServerRestarts, ToRestart, NetInv
<1>9. CASE Repair BY <1>9 DEF Repair, NetInv
<1> QED BY <1>2, <1>3, <1>4, <1>5, <1>6, <1>7, <1>8, <1>9

LEMMA TypeKept == TypeInv /\ [ClientNext]_csqttVars => TypeInv'
<1> SUFFICES ASSUME TypeInv, [ClientNext]_csqttVars PROVE TypeInv'
  OBVIOUS
<1>1. CASE UNCHANGED csqttVars
  BY <1>1 DEF TypeInv, ClientTypeOK, NetInv, HoldsByPlace, csqttVars, workerVars, clientVars,
     serverVars
<1>2. CASE ClientNext
  BY <1>2, TypeWorker, TypeElsewhere, TypeClient DEF ClientNext
<1> QED BY <1>1, <1>2

\* client.go: one worker at a time dials, and holds the start gate while it does; the
\* server serves, and answers, only allocations that are open; identities and attempts stay
\* within their limits.
THEOREM ClientTyped == ClientSpec => []ClientTypeOK
<1>1. TypeInv => ClientTypeOK BY DEF TypeInv
<1> QED BY <1>1, TypeInit, TypeKept, PTL DEF ClientSpec
=============================================================================
