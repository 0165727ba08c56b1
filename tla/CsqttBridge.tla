----------------------------- MODULE CsqttBridge -----------------------------
(***************************************************************************)
(* One csqtt tunnel handle (WireGuardBridge/csqtt_bridge.go): the start    *)
(* goroutine that dials and publishes the client, attaches that install a  *)
(* device and start three pumps, terminal failures from several sides,     *)
(* waiters on readiness, and the stop.  The client is published under      *)
(* clientMu and the device installed under devMu; the cancel takes neither *)
(* lock.                                                                   *)
(***************************************************************************)
EXTENDS Integers, FiniteSetsExt

CONSTANTS
  Joiners,  \* calls of csqttAttach
  Failures   \* what may end the tunnel: a refused credential, a client that stops

ASSUME CsqttBridgeAssumption ==
  /\ IsFiniteSet(Joiners) /\ IsFiniteSet(Failures)
  /\ "none" \notin Failures  \* a tunnel without a fatal text

VARIABLES
  listed,     \* the handle is in csqttTunnels
  cancelled,  \* e.ctx
  fatal,      \* e.fatal, None without one
  failing,    \* failures between recording the text and the cancel
  dial,    \* the start goroutine
  cli,        \* the client: none, live, closed
  field,      \* e.client is set
  closings,   \* who closes the client or has closed it (history)
  joining,    \* each attach: where it is
  dev,        \* e.dev: none, open, closed
  pumps,      \* the pumps that run
  turnoff,    \* the stop: where it is
  ready       \* csqttWaitReady's last answer

startVars == <<dial, cli, field>>
failVars == <<fatal, failing>>
devVars == <<joining, dev, pumps>>
csqttVars == <<listed, cancelled, failVars, startVars, closings, devVars, turnoff, ready>>

NoText == "none"
Pumps == {"up", "down", "events"}

CsqttInit ==
  /\ listed = TRUE /\ cancelled = FALSE /\ fatal = NoText /\ failing = {}
  /\ dial = "dials" /\ cli = "none" /\ field = FALSE /\ closings = {}
  /\ joining = [a \in Joiners |-> "lookup"] /\ dev = "none" /\ pumps = {}
  /\ turnoff = "called" /\ ready = "unasked"

-----------------------------------------------------------------------------
(* fail: the first text stays; then the cancel *)

FirstText(text) == IF fatal = NoText THEN text ELSE fatal
BeginFail(f) ==
  /\ f \notin failing /\ (cli = "live" \/ (f = "creds" /\ dial = "dials"))
  /\ fatal' = FirstText(f) /\ failing' = failing \cup {f}
  /\ UNCHANGED <<listed, cancelled, startVars, closings, devVars, turnoff, ready>>
EndFail(f) ==
  /\ f \in failing
  /\ cancelled' = TRUE /\ failing' = failing \ {f}
  /\ UNCHANGED <<listed, fatal, startVars, closings, devVars, turnoff, ready>>

-----------------------------------------------------------------------------
(* The start goroutine *)

\* The settle, the resolver or Dial fails, or is cancelled; `dialed` is closed
\* when the goroutine ends.
DialFails ==
  /\ dial = "dials"
  /\ dial' = "fails" /\ fatal' = FirstText("dial")
  /\ UNCHANGED <<listed, cancelled, failing, cli, field, closings, devVars, turnoff, ready>>
DialFailed ==
  /\ dial = "fails"
  /\ dial' = "over" /\ cancelled' = TRUE
  /\ UNCHANGED <<listed, failVars, cli, field, closings, devVars, turnoff, ready>>
SettleCancelled ==
  /\ dial = "dials" /\ cancelled
  /\ dial' = "over"
  /\ UNCHANGED <<listed, cancelled, failVars, cli, field, closings, devVars, turnoff, ready>>

\* Dial may return a client though the tunnel was cancelled meanwhile.
DialReturns ==
  /\ dial = "dials"
  /\ dial' = "publish" /\ cli' = "live"
  /\ UNCHANGED <<listed, cancelled, failVars, field, closings, devVars, turnoff, ready>>

\* publishClient: the check and the assignment are two steps under clientMu.
PublishChecks ==
  /\ dial = "publish"
  /\ dial' = IF cancelled THEN "close" ELSE "assign"
  /\ UNCHANGED <<listed, cancelled, failVars, cli, field, closings, devVars, turnoff, ready>>
PublishAssigns ==
  /\ dial = "assign"
  /\ field' = TRUE /\ dial' = "over"
  /\ UNCHANGED <<listed, cancelled, failVars, cli, closings, devVars, turnoff, ready>>
StarterCloses ==
  /\ dial = "close"
  /\ cli' = "closed" /\ closings' = closings \cup {"starter"} /\ dial' = "over"
  /\ UNCHANGED <<listed, cancelled, failVars, field, devVars, turnoff, ready>>

BugClientLock == TRUE  \* the field is read without clientMu
ClientLock == dial # "assign"
Dialed == dial = "over"

-----------------------------------------------------------------------------
(* csqttAttach *)

JoinLooksUp(a) ==
  /\ joining[a] = "lookup" /\ ClientLock
  /\ joining' = [joining EXCEPT ![a] = IF listed /\ field THEN "lock" ELSE "over"]
  /\ UNCHANGED <<listed, cancelled, failVars, startVars, closings, dev, pumps, turnoff, ready>>

DevLock == \A a \in Joiners : joining[a] # "open"
BugMayAttach == dev = "none"  \* the stop is not looked for under the lock
MayAttach == ~cancelled /\ dev = "none"

\* Under devMu: the checks, then the descriptor, the device and the pumps.
JoinChecks(a) ==
  /\ joining[a] = "lock" /\ DevLock
  /\ joining' = [joining EXCEPT ![a] = IF MayAttach THEN "open" ELSE "over"]
  /\ UNCHANGED <<listed, cancelled, failVars, startVars, closings, dev, pumps, turnoff, ready>>
JoinFails(a) ==
  /\ joining[a] = "open"
  /\ joining' = [joining EXCEPT ![a] = "over"]
  /\ UNCHANGED <<listed, cancelled, failVars, startVars, closings, dev, pumps, turnoff, ready>>
JoinAttaches(a) ==
  /\ joining[a] = "open"
  /\ dev' = "open" /\ pumps' = Pumps
  /\ joining' = [joining EXCEPT ![a] = "over"]
  /\ UNCHANGED <<listed, cancelled, failVars, startVars, closings, turnoff, ready>>

\* pumpUp's and drainEvents' only end is the device's; pumpDown's is the
\* context's, the client's or the device's.
PumpMayEnd(p) == dev = "closed" \/ (p = "down" /\ (cancelled \/ cli = "closed"))
PumpEnds(p) ==
  /\ p \in pumps /\ PumpMayEnd(p)
  /\ pumps' = pumps \ {p}
  /\ UNCHANGED <<listed, cancelled, failVars, startVars, closings, joining, dev, turnoff, ready>>

-----------------------------------------------------------------------------
(* csqttTurnOff *)

Goes(from, to) == turnoff = from /\ turnoff' = to

Unlist == /\ Goes("called", "cancel") /\ listed' = FALSE
          /\ UNCHANGED <<cancelled, failVars, startVars, closings, devVars, ready>>
CancelAll == /\ Goes("cancel", "dial") /\ cancelled' = TRUE
             /\ UNCHANGED <<listed, failVars, startVars, closings, devVars, ready>>

\* The dial is waited for, within a budget.
DialJoined == /\ Goes("dial", "client")
              /\ UNCHANGED <<listed, cancelled, failVars, startVars, closings, devVars, ready>>
CloseClient ==
  /\ ClientLock
  /\ Goes("client", "device")
  /\ IF field THEN cli' = "closed" /\ closings' = closings \cup {"stop"}
              ELSE UNCHANGED <<cli, closings>>
  /\ UNCHANGED <<listed, cancelled, failVars, dial, field, devVars, ready>>
CloseTun ==
  /\ DevLock
  /\ Goes("device", "pumps")
  /\ dev' = IF dev = "open" THEN "closed" ELSE dev
  /\ UNCHANGED <<listed, cancelled, failVars, startVars, closings, joining, pumps, ready>>
\* Within a budget too, which nobody who gets here needs.
PumpsJoined == /\ pumps = {} /\ Goes("pumps", "over")
               /\ UNCHANGED <<listed, cancelled, failVars, startVars, closings, devVars, ready>>

\* csqttWaitReady: who finds the dial over, or the tunnel cancelled, answers by
\* the text and the client.
WaitReady ==
  /\ listed /\ ClientLock /\ (Dialed \/ cancelled)
  /\ ready' = IF fatal = NoText /\ field THEN "1" ELSE "-1"
  /\ UNCHANGED <<listed, cancelled, failVars, startVars, closings, devVars, turnoff>>

-----------------------------------------------------------------------------
Starting == \/ DialFails \/ DialFailed \/ SettleCancelled \/ DialReturns
            \/ PublishChecks \/ PublishAssigns \/ StarterCloses
Attaching(a) == JoinLooksUp(a) \/ JoinChecks(a) \/ JoinFails(a) \/ JoinAttaches(a)
Stopping == CancelAll \/ DialJoined \/ CloseClient \/ CloseTun \/ PumpsJoined

CsqttNext ==
  \/ Starting \/ Unlist \/ Stopping \/ WaitReady
  \/ \E a \in Joiners : Attaching(a)
  \/ \E p \in Pumps : PumpEnds(p)
  \/ \E f \in Failures : BeginFail(f) \/ EndFail(f)

\* Dial returns, a call that has begun goes on, the pumps run.  Nobody is
\* obliged to call.
CsqttFairness ==
  /\ WF_csqttVars(Starting) /\ WF_csqttVars(Stopping)
  /\ \A a \in Joiners : WF_csqttVars(joining[a] # "lookup" /\ Attaching(a))
  /\ \A p \in Pumps : WF_csqttVars(PumpEnds(p))

CsqttSpec == CsqttInit /\ [][CsqttNext]_csqttVars /\ CsqttFairness

-----------------------------------------------------------------------------
\* Types; the pumps run over a device; a text is there before the cancel it
\* causes.
CsqttBridgeTypeOK ==
  /\ {listed, cancelled, field} \subseteq BOOLEAN
  /\ fatal \in Failures \cup {"dial", NoText} /\ failing \subseteq Failures
  /\ dial \in {"dials", "fails", "publish", "assign", "close", "over"}
  /\ cli \in {"none", "live", "closed"} /\ dev \in {"none", "open", "closed"}
  /\ pumps \subseteq Pumps /\ (pumps # {} => dev # "none")
  /\ failing # {} => fatal # NoText

\* csqtt_bridge.go, publishClient: "exactly one of them closes the client in
\* every interleaving": never both, and when the stop is over and the dial too,
\* nobody has left it open.
ClientClosedOnce ==
  /\ Cardinality(closings) <= 1
  /\ turnoff \in {"device", "pumps", "over"} /\ Dialed => cli # "live"

\* csqtt_bridge.go, csqttAttachImpl: no device is installed that the stop does
\* not close ("nobody's to close ... until jetsam").
TunClosed == turnoff \in {"pumps", "over"} => dev # "open"

\* The stop ends, every pump with it, and the client is closed in the end
\* whatever the dial did meanwhile.
TurnOffBegun == turnoff = "cancel"
TurnOffOver == turnoff = "over" /\ pumps = {} /\ cli # "live"
=============================================================================
