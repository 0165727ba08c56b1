------------------------------ MODULE WgBridge ------------------------------
(***************************************************************************)
(* One WireGuard tunnel handle (WireGuardBridge/bridge.go with             *)
(* pkg/turnbind/bind.go and the bootstrap signal of pkg/proxy): attaches   *)
(* that build a device outside the registry's lock and install it under    *)
(* it, stops that unregister under the same lock, stop the proxy and close *)
(* the device, the receive routine that Close waits for, and the waiters   *)
(* on the bootstrap's outcome.  Calls come from any thread.                *)
(***************************************************************************)
EXTENDS Integers, FiniteSetsExt

CONSTANTS
  Attaches,  \* calls of wgAttachWireGuard
  Stops,     \* calls of wgTurnOff
  Waiters    \* calls of wgWaitBootstrapReady

ASSUME BridgeAssumption ==
  /\ IsFiniteSet(Attaches) /\ IsFiniteSet(Stops) /\ IsFiniteSet(Waiters)
  /\ "nobody" \notin Attaches  \* an entry without a device

VARIABLES
  registered,  \* the entry is in `tunnels`
  device,      \* entry.device: the attach that built it, or None
  stopped,     \* the proxy's root context is cancelled
  attach,      \* each attach: where it is
  built,       \* devices that are up
  receiving,   \* devices whose receive routine runs
  closes,      \* how often each device was closed (history)
  stop,        \* each stop: where it is and the device it read
  outcome,     \* what the bootstrap signalled first: none, ready, failed
  channel,     \* bootstrapDoneCh, capacity 1
  caller       \* each caller: asks, holds a value, or its answer

deviceVars == <<registered, device, stopped, attach, built, receiving, closes, stop>>
waitVars == <<outcome, channel, caller>>
bridgeVars == <<deviceVars, waitVars>>

NoDevice == "nobody"

BridgeInit ==
  /\ registered = TRUE /\ device = NoDevice /\ stopped = FALSE
  /\ attach = [a \in Attaches |-> "lookup"] /\ built = {} /\ receiving = {}
  /\ closes = [a \in Attaches |-> 0]
  /\ stop = [o \in Stops |-> [pc |-> "called", dev |-> NoDevice]]
  /\ outcome = "none" /\ channel = "empty" /\ caller = [w \in Waiters |-> "asks"]

-----------------------------------------------------------------------------
(* wgAttachWireGuard *)

GoesTo(a, place) == attach' = [attach EXCEPT ![a] = place]

\* The entry, and in a section of its own whether it has a device.
AttachLooksUp(a) ==
  /\ attach[a] = "lookup"
  /\ GoesTo(a, IF registered THEN "check" ELSE "over")
  /\ UNCHANGED <<registered, device, stopped, built, receiving, closes, stop, waitVars>>
AttachChecks(a) ==
  /\ attach[a] = "check"
  /\ GoesTo(a, IF device = NoDevice THEN "build" ELSE "over")
  /\ UNCHANGED <<registered, device, stopped, built, receiving, closes, stop, waitVars>>

\* The descriptor, the configuration or Up fails: the device, if there is one,
\* is closed before its receive routine runs.
AttachFails(a) ==
  /\ attach[a] = "build"
  /\ GoesTo(a, "over")
  /\ UNCHANGED <<registered, device, stopped, built, receiving, closes, stop, waitVars>>

\* Up opens the bind and starts the receive routine.
DeviceUp(a) ==
  /\ attach[a] = "build"
  /\ built' = built \cup {a} /\ receiving' = receiving \cup {a}
  /\ GoesTo(a, "install")
  /\ UNCHANGED <<registered, device, stopped, closes, stop, waitVars>>

BugMayInstall == device = NoDevice  \* whether the entry is registered is not checked
MayInstall == registered /\ device = NoDevice

\* The check-and-set against the stop; who loses closes its own device.
Install(a) ==
  /\ attach[a] = "install"
  /\ IF MayInstall THEN device' = a /\ GoesTo(a, "over")
                   ELSE UNCHANGED device /\ GoesTo(a, "close")
  /\ UNCHANGED <<registered, stopped, built, receiving, closes, stop, waitVars>>

\* device.Close: the bind is marked, then the receive routine is waited for.
DeviceClosed(a) == /\ a \notin receiving
                   /\ built' = built \ {a}
                   /\ closes' = [closes EXCEPT ![a] = @ + 1]
CloseOwn(a) ==
  /\ attach[a] = "close"
  /\ DeviceClosed(a)
  /\ GoesTo(a, "over")
  /\ UNCHANGED <<registered, device, stopped, receiving, stop, waitVars>>

\* receive: a stopped proxy is a closed bind; nothing else ends the routine.
ReceiveEnds(a) ==
  /\ a \in receiving /\ stopped
  /\ receiving' = receiving \ {a}
  /\ UNCHANGED <<registered, device, stopped, attach, built, closes, stop, waitVars>>

-----------------------------------------------------------------------------
(* wgTurnOff *)

Unregister(o) ==
  /\ stop[o].pc = "called"
  /\ registered' = FALSE
  /\ stop' = [stop EXCEPT ![o] = IF registered THEN [pc |-> "proxy", dev |-> device]
                                               ELSE [pc |-> "over", dev |-> NoDevice]]
  /\ UNCHANGED <<device, stopped, attach, built, receiving, closes, waitVars>>


\* StopWithTimeout cancels, and returns within its budget.
BugMayStopProxy(o) == stop[o].pc = "proxy" /\ stop[o].dev \notin built  \* device first (build 56)
MayStopProxy(o) == stop[o].pc = "proxy"
StopProxy(o) ==
  /\ MayStopProxy(o)
  /\ stopped' = TRUE
  /\ stop' = [stop EXCEPT ![o].pc = IF stop[o].dev = NoDevice THEN "over" ELSE "device"]
  /\ UNCHANGED <<registered, device, attach, built, receiving, closes, waitVars>>
CloseDevice(o) ==
  /\ stop[o].pc = "device"
  /\ DeviceClosed(stop[o].dev)
  /\ stop' = [stop EXCEPT ![o].pc = "over"]
  /\ UNCHANGED <<registered, device, stopped, attach, receiving, waitVars>>

-----------------------------------------------------------------------------
(* The bootstrap's outcome *)

\* signalBootstrapDone, once: the first connection is up, or Start failed.
Signal(what) ==
  /\ outcome = "none"
  /\ outcome' = what /\ channel' = what
  /\ UNCHANGED <<caller, deviceVars>>

\* WaitBootstrap takes the value and puts it back for the others.
Takes(w) ==
  /\ caller[w] = "asks" /\ channel # "empty"
  /\ channel' = "empty" /\ caller' = [caller EXCEPT ![w] = channel]
  /\ UNCHANGED <<outcome, deviceVars>>
Replayed(w) == caller[w]
Replays(w) ==
  /\ caller[w] \in {"ready", "failed"}
  /\ channel' = Replayed(w)
  /\ caller' = [caller EXCEPT ![w] = IF @ = "ready" THEN "1" ELSE "-1"]
  /\ UNCHANGED <<outcome, deviceVars>>
TimesOut(w) ==
  /\ caller[w] = "asks"
  /\ caller' = [caller EXCEPT ![w] = "0"]
  /\ UNCHANGED <<outcome, channel, deviceVars>>
SeesStop(w) ==
  /\ caller[w] = "asks" /\ stopped
  /\ caller' = [caller EXCEPT ![w] = "-1"]
  /\ UNCHANGED <<outcome, channel, deviceVars>>
AsksAgain(w) ==
  /\ caller[w] = "0" /\ registered
  /\ caller' = [caller EXCEPT ![w] = "asks"]
  /\ UNCHANGED <<outcome, channel, deviceVars>>

-----------------------------------------------------------------------------
AttachSteps(a) == \/ AttachLooksUp(a) \/ AttachChecks(a) \/ AttachFails(a) \/ DeviceUp(a)
                  \/ Install(a) \/ CloseOwn(a) \/ ReceiveEnds(a)
StopSteps(o) == StopProxy(o) \/ CloseDevice(o)
WaiterSteps(w) == Takes(w) \/ Replays(w) \/ SeesStop(w)

BridgeNext ==
  \/ \E a \in Attaches : AttachSteps(a)
  \/ \E o \in Stops : Unregister(o) \/ StopSteps(o)
  \/ \E what \in {"ready", "failed"} : Signal(what)
  \/ \E w \in Waiters : WaiterSteps(w) \/ TimesOut(w) \/ AsksAgain(w)

\* A call that has begun goes on and the receive routine runs; nobody is
\* obliged to attach or to stop.
BridgeFairness ==
  /\ \A a \in Attaches : /\ WF_bridgeVars(attach[a] # "lookup" /\ AttachSteps(a))
                         /\ WF_bridgeVars(ReceiveEnds(a))
  /\ \A o \in Stops : WF_bridgeVars(StopSteps(o))

BridgeSpec == BridgeInit /\ [][BridgeNext]_bridgeVars /\ BridgeFairness

-----------------------------------------------------------------------------
Closers(a) == {b \in Attaches : b = a /\ attach[b] \in {"install", "close"}}
              \cup {o \in Stops : stop[o].pc \in {"proxy", "device"} /\ stop[o].dev = a}

\* Types; a device is closed once.
BridgeTypeOK ==
  /\ registered \in BOOLEAN /\ device \in Attaches \cup {NoDevice} /\ stopped \in BOOLEAN
  /\ attach \in [Attaches -> {"lookup", "check", "build", "install", "close", "over"}]
  /\ built \subseteq Attaches /\ receiving \subseteq built
  /\ \A a \in Attaches : closes[a] \in 0 .. 1
  /\ outcome \in {"none", "ready", "failed"} /\ channel \in {"empty", outcome}

\* bridge.go, deviceNow: "a device installed on a stopped tunnel is nobody's to
\* close": a device that is up belongs to a registered tunnel, or to exactly one
\* call that is going to close it.
DeviceOwned ==
  \A a \in built : IF registered /\ device = a
                   THEN Closers(a) = {} ELSE Cardinality(Closers(a)) = 1

\* bridge.go:770-777: a stop ends, with every device of the tunnel closed,
\* though Close waits for a receive routine that only the proxy's stop ends
\* (build 56 hung here) and attaches were under way.
StopBegun == \E o \in Stops : stop[o].pc = "proxy"
StopOver == built = {} /\ \A o \in Stops : stop[o].pc \notin {"proxy", "device"}

\* proxy.go, WaitBootstrap: "Multiple callers share the same signal": who keeps
\* asking gets the first outcome, or that of the stop.
OutcomeShared ==
  /\ \A w \in Waiters : caller[w] \in {"1", "ready"} => outcome = "ready"
  /\ outcome # "none" => channel # "empty" \/ \E w \in Waiters : caller[w] \in {"ready", "failed"}
=============================================================================
