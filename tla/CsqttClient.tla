----------------------------- MODULE CsqttClient -----------------------------
(***************************************************************************)
(* The csqtt client (pkg/csqtt/client.go): each worker takes a credential, *)
(* allocates a relay inside the start gate, announces itself with GETCONF  *)
(* under the client's identity, serves, and starts over when it is kicked  *)
(* or fails.  A path change replaces the identity of the whole client.     *)
(*                                                                         *)
(* The server is external: it keeps one epoch, the identity it heard last, *)
(* and drops every session of another one.                                 *)
(***************************************************************************)
EXTENDS Integers, SequencesExt

CONSTANTS
  Workers,       \* worker ids; FirstWorker starts alone
  FirstWorker,
  Attempts,      \* length of getconfSchedule
  MaxEvents,     \* bound: path changes and server restarts
  MaxFaults      \* bound: losses, failed calls and dead relays

ASSUME ClientAssumption ==
  /\ FirstWorker \in Workers /\ IsFiniteSet(Workers)
  /\ Attempts \in Nat \ {0}
  /\ MaxEvents \in Nat /\ MaxFaults \in Nat

VARIABLES
  wpc,        \* where each worker's goroutine is
  why,        \* why its session ended: "own", "asked" or "denied"
  used,       \* identity of its last GETCONF
  tries,      \* GETCONF attempts of this session
  kick,       \* workers with a request in their channel of one place
  stale,      \* kicks that are older than the worker's allocation (history)
  lease,      \* workers that hold a credential
  relay,      \* workers whose allocation is open
  gate,       \* the worker that holds the start gate, if any
  ident,      \* the client's identity
  toKick,     \* workers a running restartAll has still to kick
  started,    \* Dial has started the other workers
  ctxDone,    \* the client's context is cancelled
  closing,    \* Close was called: "no", "yes", "joined"
  net,        \* GETCONFs under way
  reply,      \* workers a TUNCONF is under way to
  epoch, sess, \* the server: its epoch, and the live allocations it serves
  restarts,   \* server restarts so far
  faults

workerVars == <<wpc, why, used, tries, stale, lease, relay, gate>>
clientVars == <<ident, started, ctxDone, closing>>
serverVars == <<net, reply, epoch, sess, restarts>>
csqttVars == <<workerVars, kick, toKick, clientVars, serverVars, faults>>

Places == {"idle", "creds", "gate", "dial", "attempt", "sending", "waiting",
           "ready", "down", "release", "backoff", "ended"}
Identities == 1 .. MaxEvents + 1
EventsLeft == ident - 1 + restarts < MaxEvents
Serving == {"dial", "attempt", "sending", "waiting", "ready"}

ClientInit ==
  /\ wpc = [w \in Workers |-> IF w = FirstWorker THEN "creds" ELSE "idle"]
  /\ why = [w \in Workers |-> "own"]
  /\ used = [w \in Workers |-> 0]
  /\ tries = [w \in Workers |-> 0]
  /\ kick = {} /\ stale = {} /\ lease = {} /\ relay = {}
  /\ gate = {}
  /\ ident = 1 /\ toKick = {} /\ started = FALSE /\ ctxDone = FALSE /\ closing = "no"
  /\ net = << >> /\ reply = {} /\ epoch = 0 /\ sess = {} /\ restarts = 0
  /\ faults = 0

Goto(w, place) == wpc' = [wpc EXCEPT ![w] = place]
EndsBecause(w, reason) == why' = [why EXCEPT ![w] = reason] /\ Goto(w, "down")
\* Bound: faults happen, and the server is followed, while the client lives.
Fault == ~ctxDone /\ faults < MaxFaults /\ faults' = faults + 1

\* What is under way from w's allocation can no longer be answered.
Orphaned(w) == [i \in DOMAIN net |-> [net[i] EXCEPT !.live = @ /\ net[i].from # w]]

\* run's loop after a session that ended by itself, or on the way in.
NextPlace == IF ctxDone THEN "ended" ELSE "backoff"

-----------------------------------------------------------------------------
\* A worker's session.

\* Creds, outside the gate.
TakeCredential(w) ==
  /\ wpc[w] = "creds"
  /\ \/ lease' = lease \cup {w} /\ Goto(w, "gate") /\ UNCHANGED faults
     \/ Fault /\ Goto(w, NextPlace) /\ UNCHANGED lease
  /\ UNCHANGED <<why, used, tries, stale, relay, gate, kick, toKick, clientVars, serverVars>>

\* gate.begin; a cancelled client goes no further.  A kick from before the
\* allocation is answered by it.
BugDrained(w) == kick  \* an old kick is left for the new session
Drained(w) == kick \ {w}
BeginStart(w) ==
  /\ wpc[w] = "gate" /\ gate = {}
  /\ IF ctxDone
     THEN lease' = lease \ {w} /\ Goto(w, "ended") /\ UNCHANGED <<gate, kick, stale>>
     ELSE /\ gate' = {w} /\ Goto(w, "dial") /\ UNCHANGED lease
          /\ kick' = Drained(w)
          /\ stale' = (stale \ {w}) \cup ({w} \cap kick')
  /\ UNCHANGED <<why, used, tries, relay, toKick, clientVars, serverVars, faults>>

BugGateLeft == gate  \* startDone is not called
GateLeft == {}

\* DialRelay answers; the gate is left either way.  On a failure the pool
\* hears it (Failed) and then gets the credential back.
DialAnswers(w) ==
  /\ wpc[w] = "dial"
  /\ gate' = GateLeft
  /\ \/ relay' = relay \cup {w} /\ Goto(w, "attempt") /\ UNCHANGED <<lease, faults>>
     \/ Fault /\ lease' = lease \ {w} /\ Goto(w, NextPlace) /\ UNCHANGED relay
  /\ UNCHANGED <<why, used, tries, stale, kick, toKick, clientVars, serverVars>>

\* One attempt of the schedule: a kick ends it, else the identity is read.
\* Without attempts left the session fails.
BeginAttempt(w) ==
  /\ wpc[w] = "attempt"
  /\ IF tries[w] = Attempts
     THEN EndsBecause(w, "own") /\ UNCHANGED <<used, tries, kick, stale>>
     ELSE IF w \in kick
     THEN EndsBecause(w, "asked") /\ kick' = kick \ {w} /\ stale' = stale \ {w}
          /\ UNCHANGED <<used, tries>>
     ELSE /\ used' = [used EXCEPT ![w] = ident] /\ tries' = [tries EXCEPT ![w] = @ + 1]
          /\ Goto(w, "sending") /\ UNCHANGED <<why, kick, stale>>
  /\ UNCHANGED <<lease, relay, gate, toKick, clientVars, serverVars, faults>>

\* The GETCONF is written, under the identity read before.
SendGetconf(w) ==
  /\ wpc[w] = "sending"
  /\ \/ w \in relay /\ net' = Append(net, [from |-> w, id |-> used[w], live |-> TRUE])
        /\ Goto(w, "waiting") /\ UNCHANGED why
     \/ w \notin relay /\ EndsBecause(w, "own") /\ UNCHANGED net
  /\ UNCHANGED <<used, tries, stale, lease, relay, gate, kick, toKick, clientVars,
                 reply, epoch, sess, restarts, faults>>

\* TUNCONF: the configuration is set (which lets Dial go on), READY is sent
\* and the worker serves.
Configured(w) ==
  /\ wpc[w] = "waiting" /\ w \in reply /\ w \in relay
  /\ reply' = reply \ {w}
  /\ Goto(w, "ready")
  /\ UNCHANGED <<why, used, tries, stale, lease, relay, gate, kick, toKick, clientVars,
                 net, epoch, sess, restarts, faults>>

\* DENIED or NOCONF, as the answer or pushed later: fatal for the client.
Denied(w) ==
  /\ wpc[w] \in {"waiting", "ready"} /\ w \in relay
  /\ Fault
  /\ IF wpc[w] = "waiting" THEN EndsBecause(w, "denied") /\ UNCHANGED ctxDone
     ELSE ctxDone' = TRUE /\ UNCHANGED <<why, wpc>>
  /\ UNCHANGED <<used, tries, stale, lease, relay, gate, kick, toKick, ident, started, closing,
                 serverVars>>

\* The wait of an attempt is over: nothing is coming, or it comes too late.
Coming(w) == w \in reply \/ \E i \in DOMAIN net : net[i].from = w /\ net[i].live
AttemptTimesOut(w) ==
  /\ wpc[w] = "waiting"
  /\ IF Coming(w) THEN Fault ELSE UNCHANGED faults
  /\ Goto(w, "attempt")
  /\ UNCHANGED <<why, used, tries, stale, lease, relay, gate, kick, toKick, clientVars, serverVars>>

BugOver(w) == w \notin relay  \* the select has no ctx.Done
Over(w) == w \notin relay \/ ctxDone

\* The select of the wait and of the serve loop: a kick, the read loop's end,
\* the client's end.
SessionEnds(w) ==
  /\ wpc[w] \in {"waiting", "ready"}
  /\ \/ w \in kick /\ kick' = kick \ {w} /\ stale' = stale \ {w} /\ EndsBecause(w, "asked")
     \/ Over(w) /\ EndsBecause(w, "own") /\ UNCHANGED <<kick, stale>>
  /\ UNCHANGED <<used, tries, lease, relay, gate, toKick, clientVars, serverVars, faults>>

\* The first deferred call: not ready, the relay closed.
BugNoRelay(w) == relay  \* only the credential is given back
NoRelay(w) == relay \ {w}
CloseAllocation(w) ==
  /\ wpc[w] = "down"
  /\ relay' = NoRelay(w) /\ sess' = sess \ {w} /\ reply' = reply \ {w}
  /\ net' = Orphaned(w)
  /\ used' = [used EXCEPT ![w] = 0] /\ tries' = [tries EXCEPT ![w] = 0]
  /\ Goto(w, "release")
  /\ UNCHANGED <<why, stale, lease, gate, kick, toKick, clientVars, epoch, restarts, faults>>

\* The second one: the credential goes back; then run looks at why.
Release(w) ==
  /\ wpc[w] = "release"
  /\ lease' = lease \ {w}
  /\ ctxDone' = (ctxDone \/ why[w] = "denied")
  /\ Goto(w, IF ctxDone \/ why[w] = "denied" THEN "ended"
             ELSE IF why[w] = "asked" THEN "creds" ELSE "backoff")
  /\ why' = [why EXCEPT ![w] = "own"]
  /\ UNCHANGED <<used, tries, stale, relay, gate, kick, toKick, ident, started, closing,
                 serverVars, faults>>

\* The backoff passes, or a kick cuts it short and is consumed by that.
BackoffOver(w) ==
  /\ wpc[w] = "backoff"
  /\ \/ ctxDone /\ Goto(w, "ended") /\ UNCHANGED <<kick, stale>>
     \/ ~ctxDone /\ Goto(w, "creds") /\ UNCHANGED <<kick, stale>>
     \/ w \in kick /\ kick' = kick \ {w} /\ stale' = stale \ {w} /\ Goto(w, "creds")
  /\ UNCHANGED <<why, used, tries, lease, relay, gate, toKick, clientVars, serverVars, faults>>

-----------------------------------------------------------------------------
\* The client.

\* Dial goes on when the first TUNCONF is there.
StartOthers ==
  /\ ~started /\ wpc[FirstWorker] = "ready" /\ ~ctxDone
  /\ started' = TRUE
  /\ wpc' = [w \in Workers |-> IF w = FirstWorker THEN wpc[w] ELSE "creds"]
  /\ UNCHANGED <<why, used, tries, stale, lease, relay, gate, kick, toKick, ident, ctxDone, closing,
                 serverVars, faults>>

BugToRestart == {w \in Workers : wpc[w] = "ready"}  \* only those that serve
ToRestart == Workers

\* OnPathChange: the identity first, then restartAll, worker by worker.
OnPathChange ==
  /\ started /\ ~ctxDone /\ toKick = {}
  /\ EventsLeft
  /\ ident' = ident + 1
  /\ toKick' = ToRestart
  /\ UNCHANGED <<workerVars, kick, started, ctxDone, closing, serverVars, faults>>

\* worker.restart; a full channel drops the request.
Kick(w) ==
  /\ w \in toKick
  /\ toKick' = toKick \ {w}
  /\ kick' = kick \cup {w}
  /\ UNCHANGED <<workerVars, clientVars, serverVars, faults>>

\* A ready worker on which nothing comes from the server, though another one
\* hears it.
BugSilent(w) == FALSE  \* the monitor does not judge
Silent(w) ==
  /\ wpc[w] = "ready" /\ w \notin sess
  /\ \E v \in sess \ {w} : wpc[v] = "ready"

\* The monitor's verdict.
Verdict(w) ==
  /\ started /\ ~ctxDone
  /\ Silent(w)
  /\ kick' = kick \cup {w}
  /\ UNCHANGED <<workerVars, toKick, clientVars, serverVars, faults>>

\* Close: DISCONNECT, then the context and every relay; it returns when the
\* workers have ended (or its budget is over).
Close ==
  /\ closing = "no" /\ started
  /\ closing' = "yes" /\ ctxDone' = TRUE
  /\ UNCHANGED <<workerVars, kick, toKick, ident, started, serverVars, faults>>

CloseRelay(w) ==
  /\ closing = "yes" /\ w \in relay
  /\ relay' = relay \ {w} /\ sess' = sess \ {w} /\ reply' = reply \ {w}
  /\ net' = Orphaned(w)
  /\ UNCHANGED <<wpc, why, used, tries, stale, lease, gate, kick, toKick, clientVars, epoch, restarts, faults>>

Joined ==
  /\ closing = "yes"
  /\ \A w \in Workers : wpc[w] = "ended"
  /\ closing' = "joined"
  /\ UNCHANGED <<workerVars, kick, toKick, ident, started, ctxDone, serverVars, faults>>

-----------------------------------------------------------------------------
\* The network and the server.

LoseMessage ==
  /\ Fault
  /\ \/ \E i \in DOMAIN net : net' = RemoveAt(net, i) /\ UNCHANGED reply
     \/ \E w \in reply : reply' = reply \ {w} /\ UNCHANGED net
  /\ UNCHANGED <<workerVars, kick, toKick, clientVars, epoch, sess, restarts>>

\* The relay dies under a worker.
RelayDies(w) ==
  /\ Fault /\ w \in relay
  /\ relay' = relay \ {w} /\ sess' = sess \ {w} /\ reply' = reply \ {w}
  /\ net' = Orphaned(w)
  /\ UNCHANGED <<wpc, why, used, tries, stale, lease, gate, kick, toKick, clientVars, epoch, restarts>>

\* GETCONFs do not overtake each other.  Another identity than the epoch's drops every session of the old one.
GetconfArrives ==
  /\ net # << >> /\ ~ctxDone
  /\ LET m == Head(net)
         heard == IF m.live THEN {m.from} ELSE {}
     IN  /\ epoch' = m.id
         /\ sess' = (IF m.id = epoch THEN sess ELSE {}) \cup heard
         /\ reply' = reply \cup heard
  /\ net' = Tail(net)
  /\ UNCHANGED <<workerVars, kick, toKick, clientVars, restarts, faults>>

\* The server restarts and says so; one of those that hear it kicks everyone.
ServerRestarts ==
  /\ EventsLeft /\ ~ctxDone
  /\ \E w \in sess : wpc[w] = "ready"
  /\ toKick = {}
  /\ restarts' = restarts + 1
  /\ epoch' = 0 /\ sess' = {}
  /\ toKick' = ToRestart
  /\ UNCHANGED <<workerVars, kick, clientVars, net, reply, faults>>

\* REPAIR: the server names workers it does not see.
Repair ==
  /\ started /\ Fault
  /\ \E v \in sess : wpc[v] = "ready"
  /\ \E S \in SUBSET (Workers \ sess) : S # {} /\ kick' = kick \cup S
  /\ UNCHANGED <<workerVars, toKick, clientVars, serverVars>>

WorkerStep(w) ==
  \/ TakeCredential(w) \/ BeginStart(w) \/ DialAnswers(w) \/ BeginAttempt(w) \/ SendGetconf(w)
  \/ Configured(w) \/ Denied(w) \/ AttemptTimesOut(w) \/ SessionEnds(w) \/ CloseAllocation(w)
  \/ Release(w) \/ BackoffOver(w)

ClientNext ==
  \/ \E w \in Workers : WorkerStep(w) \/ Kick(w) \/ Verdict(w) \/ CloseRelay(w) \/ RelayDies(w)
  \/ StartOthers \/ OnPathChange \/ Close \/ Joined
  \/ LoseMessage \/ GetconfArrives \/ ServerRestarts \/ Repair

\* Scheduling: goroutines run, timers fire, what is sent and not lost arrives.
\* Nothing makes a fault, a path change, a restart of the server or a Close
\* happen.
ClientFairness ==
  /\ \A w \in Workers :
       /\ WF_csqttVars(TakeCredential(w)) /\ SF_csqttVars(BeginStart(w))
       /\ WF_csqttVars(DialAnswers(w)) /\ WF_csqttVars(BeginAttempt(w))
       /\ WF_csqttVars(SendGetconf(w)) /\ WF_csqttVars(Configured(w))
       /\ WF_csqttVars(AttemptTimesOut(w) /\ ~Coming(w))
       /\ WF_csqttVars(SessionEnds(w)) /\ WF_csqttVars(CloseAllocation(w))
       /\ WF_csqttVars(Release(w)) /\ WF_csqttVars(BackoffOver(w))
       /\ WF_csqttVars(Kick(w)) /\ WF_csqttVars(Verdict(w))
  /\ WF_csqttVars(StartOthers) /\ WF_csqttVars(Joined) /\ WF_csqttVars(GetconfArrives)

ClientSpec == ClientInit /\ [][ClientNext]_csqttVars /\ ClientFairness

-----------------------------------------------------------------------------
\* Each goroutine is somewhere; who dials holds the gate; who has not dialled
\* has no allocation.
ClientTypeOK ==
  /\ wpc \in [Workers -> Places] /\ why \in [Workers -> {"own", "asked", "denied"}]
  /\ used \in [Workers -> Identities \cup {0}] /\ tries \in [Workers -> 0 .. Attempts]
  /\ kick \subseteq Workers /\ stale \subseteq kick /\ toKick \subseteq Workers
  /\ lease \subseteq Workers /\ reply \subseteq relay /\ sess \subseteq relay
  /\ gate \subseteq Workers
  /\ \A w \in Workers : wpc[w] = "dial" <=> gate = {w}
  /\ ident \in Identities /\ epoch \in Identities \cup {0}
  /\ started \in BOOLEAN /\ ctxDone \in BOOLEAN /\ closing \in {"no", "yes", "joined"}

\* client.go, Credential: a credential goes back to the pool "when the
\* allocation obtained with it is gone" -- the pool never counts fewer workers
\* on a slot than the relay does.
LeaseCoversRelay == relay \subseteq lease

\* A worker that announced itself, or is about to, under an identity the
\* client has replaced has a kick before it or about to come: none is left
\* behind in a dead epoch, however the path change falls into its attempts.
StaleWorkerKicked ==
  \A w \in Workers :
    wpc[w] \in {"sending", "waiting", "ready"} /\ used[w] # ident => w \in kick \cup toKick

\* client.go, session: "From here on a kick names THIS allocation": one from
\* before it never restarts a session that already answers it.
KickNamesThisAllocation ==
  \A w \in Workers : wpc[w] \in Serving => w \notin stale

\* A kick for every worker that needs one, and for nobody else.
KicksMeant == StaleWorkerKicked /\ KickNamesThisAllocation

\* Close, or a fatal answer: in the end every worker has ended, no allocation
\* is open and every credential is back -- also of a worker that dials while
\* Close runs over the relays.
EverythingReleased ==
  ctxDone ~> (\A w \in Workers : wpc[w] \in {"ended", "idle"}) /\ relay = {} /\ lease = {}

\* Whatever was lost, and whichever stale GETCONF threw the others out of the
\* server, in the end every worker serves in the client's own epoch, or the
\* client has stopped.
EveryoneAnnounced ==
  <>[](ctxDone \/ (epoch = ident /\ sess = Workers /\ \A w \in Workers : wpc[w] = "ready"))
=============================================================================
