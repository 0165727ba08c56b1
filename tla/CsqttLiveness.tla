---------------------------- MODULE CsqttLiveness ----------------------------
(***************************************************************************)
(* When a silent csqtt worker is given up on (pkg/csqtt: liveness.go,      *)
(* Client.monitor, Client.WakeHealthCheck): two goroutines without a lock, *)
(* the monitor's tick and the app's wake hook (one call at a time), each   *)
(* loading and storing the workers' clocks one after another; inbound      *)
(* packets; and a process that iOS may suspend at any moment.  Clocks are  *)
(* ages, in ticks of the monitor, that stop at the limit they are compared *)
(* with; a suspension makes them older by Gap, which exceeds every limit.  *)
(* An inbound packet, a session that becomes ready or ends, and the two    *)
(* stores of a reset of one worker are one step each: what a load finds    *)
(* between their stores it could have found before or after them.          *)
(***************************************************************************)
EXTENDS Integers, FiniteSetsExt

CONSTANTS
  Workers,               \* how many workers there are
  TickSlack,             \* descheduledSlack
  ProbeAfter, DeadAfter, ReadyGrace,
  WakeCut                \* whether a suspension may fall inside the wake hook

ASSUME LivenessAssumption ==
  /\ Workers \in Nat /\ TickSlack \in Nat \ {0} /\ ReadyGrace \in Nat \ {0}
  /\ ProbeAfter \in Nat \ {0} /\ DeadAfter \in Nat \ {0}
  /\ DeadAfter <= ProbeAfter  \* both are 30 s
  /\ WakeCut \in BOOLEAN

VARIABLES
  readyAge,   \* since the worker became ready, None while it is not
  rxAge,      \* worker.lastRx
  probeAge,   \* worker.probeAt, None without a probe
  anyAge,     \* Client.anyRx
  tickAge,    \* Client.lastTick, None before the first tick
  fired,        \* the ticker has fired
  monitor, turn, nowAge,  \* what the monitor does next, its worker, and its `now`
  wake, visit, wakeAge,   \* the same of the wake hook; its `ns`
  given,      \* the worker the monitor has just restarted
  asked,      \* running time since the probe was marked (history)
  slept       \* the process was suspended since the time in lastTick (history)

clocks == <<readyAge, rxAge, probeAge, anyAge, asked>>
tickVars == <<tickAge, slept>>
monitorVars == <<monitor, turn, nowAge>>
wakeVars == <<wake, visit, wakeAge>>
livenessVars == <<clocks, tickVars, fired, monitorVars, wakeVars, given>>

Peers == 1 .. Workers
Late == 1 + TickSlack
Gap == Max({ProbeAfter, ReadyGrace, Late}) + 1
None == -1
Ages == 0 .. 2 * Gap
Older(a, limit) == IF a = None THEN a ELSE Min({a + 1, limit})
\* A clock keeps its distance to the `now` of a monitor that judges by it, if both
\* are older than the suspension.
Oldest(a) == IF a = None THEN a
             ELSE IF monitor \in {"waits", "any", "reset"} THEN Gap
             ELSE IF nowAge = 0 THEN Gap + Min({a, Gap}) ELSE Max({a, Gap})
Each(value) == [p \in Peers |-> value]

LivenessInit ==
  /\ readyAge = Each(None) /\ rxAge = Each(ProbeAfter) /\ probeAge = Each(None)
  /\ anyAge = ProbeAfter /\ tickAge = None /\ fired = FALSE
  /\ monitor = "waits" /\ turn = 1 /\ nowAge = 0
  /\ wake = "none" /\ visit = 1 /\ wakeAge = 0
  /\ given = {} /\ asked = Each(None) /\ slept = FALSE

\* Time passes while the process runs: a tick is taken when it is due, and a tick or
\* a wake that has begun is over long before the next one.
Passes ==
  /\ ~fired /\ monitor = "waits" /\ wake = "none"
  /\ fired' = TRUE
  /\ readyAge' = [p \in Peers |-> Older(readyAge[p], ReadyGrace)]
  /\ rxAge' = [p \in Peers |-> Older(rxAge[p], ProbeAfter)]
  /\ probeAge' = [p \in Peers |-> Older(probeAge[p], DeadAfter)]
  /\ asked' = [p \in Peers |-> Older(asked[p], DeadAfter)]
  /\ anyAge' = Older(anyAge, ProbeAfter) /\ tickAge' = Older(tickAge, Late + 1)
  /\ UNCHANGED <<slept, monitorVars, wakeVars>>

\* The process is suspended for longer than a tick can be late, wherever its
\* goroutines are; the ticker may fire as soon as it runs again.
Suspended ==
  /\ wake = "none" \/ WakeCut
  /\ readyAge' = [p \in Peers |-> Oldest(readyAge[p])]
  /\ rxAge' = [p \in Peers |-> Oldest(rxAge[p])]
  /\ probeAge' = [p \in Peers |-> Oldest(probeAge[p])]
  /\ anyAge' = Oldest(anyAge) /\ tickAge' = Oldest(tickAge)
  /\ nowAge' = IF monitor = "waits" THEN 0 ELSE Gap
  /\ wakeAge' = IF wake = "none" THEN 0 ELSE Gap
  /\ slept' = TRUE /\ fired' \in {fired, TRUE}
  /\ UNCHANGED <<asked, monitor, turn, wake, visit>>

\* readLoop: any inbound answers the probe.
Inbound(p) ==
  /\ rxAge' = [rxAge EXCEPT ![p] = 0] /\ probeAge' = [probeAge EXCEPT ![p] = None]
  /\ anyAge' = 0 /\ asked' = [asked EXCEPT ![p] = None]
  /\ UNCHANGED <<readyAge, tickVars, fired, monitorVars, wakeVars>>

\* A session is ready: its TUNCONF was an inbound packet.
Ready(p) ==
  /\ readyAge[p] = None
  /\ readyAge' = [readyAge EXCEPT ![p] = 0]
  /\ rxAge' = [rxAge EXCEPT ![p] = 0] /\ probeAge' = [probeAge EXCEPT ![p] = None]
  /\ anyAge' = 0 /\ asked' = [asked EXCEPT ![p] = None]
  /\ UNCHANGED <<tickVars, fired, monitorVars, wakeVars>>

\* A session ends; its last inbound stays where it was.
Ended(p) ==
  /\ readyAge[p] # None
  /\ readyAge' = [readyAge EXCEPT ![p] = None] /\ probeAge' = [probeAge EXCEPT ![p] = None]
  /\ asked' = [asked EXCEPT ![p] = None]
  /\ UNCHANGED <<rxAge, anyAge, tickVars, fired, monitorVars, wakeVars>>

-----------------------------------------------------------------------------
\* The monitor.  The ticker's channel is read, `now` is taken.
TickFires ==
  /\ monitor = "waits" /\ fired
  /\ monitor' = "prev" /\ nowAge' = 0 /\ fired' = FALSE
  /\ UNCHANGED <<clocks, tickVars, turn, wakeVars>>

Since(a) == a - nowAge  \* now.Sub

\* livenessVerdict, over what the monitor loads: lastTick and anyRx, then of each
\* worker readyAt and lastRx, then probeAt.
BugTickLate == FALSE  \* a resumed process judges as any other
TickLate == tickAge # None /\ Since(tickAge) > Late
PathUp == Since(anyAge) < ProbeAfter
Judged(p) == /\ readyAge[p] # None /\ Since(readyAge[p]) >= ReadyGrace
             /\ Since(rxAge[p]) >= ProbeAfter
BugToProbe(p) == TRUE  \* the mark is renewed at every tick
ToProbe(p) == probeAge[p] = None
ToGiveUp(p) == probeAge[p] # None /\ Since(probeAge[p]) >= DeadAfter

\* A late tick judges nobody, nor does one while no worker hears anything.
TickReads ==
  /\ monitor = "prev"
  /\ monitor' = IF TickLate THEN "any" ELSE "judge"
  /\ turn' = IF TickLate \/ PathUp THEN 1 ELSE Workers + 1
  /\ UNCHANGED <<clocks, tickVars, fired, nowAge, wakeVars>>

WorkerReads ==
  /\ monitor = "judge" /\ turn <= Workers
  /\ IF Judged(turn) THEN monitor' = "probe" /\ UNCHANGED turn
                     ELSE turn' = turn + 1 /\ UNCHANGED monitor
  /\ UNCHANGED <<clocks, tickVars, fired, nowAge, wakeVars>>

\* The mark is loaded: the silent are probed, and those whose probe was not
\* answered restarted (what a kick may meet is CsqttClient's).
ProbeReads ==
  /\ monitor = "probe"
  /\ \/ ToProbe(turn) /\ monitor' = "mark" /\ given' = {} /\ UNCHANGED turn
     \/ /\ ~ToProbe(turn) /\ given' = {p \in {turn} : ToGiveUp(p)}
        /\ monitor' = "judge" /\ turn' = turn + 1
  /\ UNCHANGED <<clocks, tickVars, fired, nowAge, wakeVars>>

\* worker.probe
ProbeMarks ==
  /\ monitor = "mark"
  /\ probeAge' = [probeAge EXCEPT ![turn] = nowAge] /\ asked' = [asked EXCEPT ![turn] = 0]
  /\ monitor' = "judge" /\ turn' = turn + 1
  /\ UNCHANGED <<readyAge, rxAge, anyAge, tickVars, fired, nowAge, wakeVars>>

\* The reset of a late tick: every clock starts over from `now`.
ResetsAny ==
  /\ monitor = "any"
  /\ anyAge' = nowAge /\ monitor' = "reset"
  /\ UNCHANGED <<readyAge, rxAge, probeAge, asked, tickVars, fired, turn, nowAge, wakeVars>>

Resets ==
  /\ monitor = "reset" /\ turn <= Workers
  /\ rxAge' = [rxAge EXCEPT ![turn] = nowAge] /\ probeAge' = [probeAge EXCEPT ![turn] = None]
  /\ asked' = [asked EXCEPT ![turn] = None]
  /\ turn' = turn + 1
  /\ UNCHANGED <<readyAge, anyAge, tickVars, fired, monitor, nowAge, wakeVars>>

BugTickStored == tickAge  \* the tick leaves no mark
TickStored == nowAge

TickEnds ==
  /\ monitor \in {"judge", "reset"} /\ turn > Workers
  /\ tickAge' = TickStored /\ slept' = (nowAge # 0)
  /\ monitor' = "waits" /\ turn' = 1 /\ nowAge' = 0
  /\ UNCHANGED <<clocks, fired, wakeVars>>

MonitorSteps == \/ TickFires \/ TickReads \/ WorkerReads \/ ProbeMarks
                \/ ResetsAny \/ Resets \/ TickEnds

-----------------------------------------------------------------------------
\* WakeHealthCheck: every clock starts over from `ns`, who is ready is probed at
\* once, and the tick mark moves.
WakeBegins ==
  /\ wake = "none"
  /\ wake' = "any" /\ wakeAge' = 0
  /\ UNCHANGED <<clocks, tickVars, fired, monitorVars, visit>>

WakeStoresAny ==
  /\ wake = "any"
  /\ anyAge' = wakeAge /\ wake' = "clocks"
  /\ UNCHANGED <<readyAge, rxAge, probeAge, asked, tickVars, fired, monitorVars, visit, wakeAge>>

Probed(p) == readyAge[p] # None

WakeResets ==
  /\ wake = "clocks" /\ visit <= Workers
  /\ rxAge' = [rxAge EXCEPT ![visit] = wakeAge]
  /\ probeAge' = [probeAge EXCEPT ![visit] = None] /\ asked' = [asked EXCEPT ![visit] = None]
  /\ IF Probed(visit) THEN wake' = "mark" /\ UNCHANGED visit
                      ELSE visit' = visit + 1 /\ UNCHANGED wake
  /\ UNCHANGED <<readyAge, anyAge, tickVars, fired, monitorVars, wakeAge>>

WakeMarks ==
  /\ wake = "mark"
  /\ probeAge' = [probeAge EXCEPT ![visit] = wakeAge] /\ asked' = [asked EXCEPT ![visit] = 0]
  /\ wake' = "clocks" /\ visit' = visit + 1
  /\ UNCHANGED <<readyAge, rxAge, anyAge, tickVars, fired, monitorVars, wakeAge>>

BugTickMoved == tickAge  \* the wake leaves the last tick where it was
TickMoved == wakeAge

WakeEnds ==
  /\ wake = "clocks" /\ visit > Workers
  /\ tickAge' = TickMoved /\ slept' = (wakeAge # 0)
  /\ wake' = "none" /\ visit' = 1 /\ wakeAge' = 0
  /\ UNCHANGED <<clocks, fired, monitorVars>>

WakeSteps == WakeStoresAny \/ WakeResets \/ WakeMarks \/ WakeEnds

-----------------------------------------------------------------------------
LivenessNext ==
  \/ ProbeReads
  \/ /\ given' = {}
     /\ \/ Passes \/ Suspended \/ MonitorSteps \/ WakeBegins \/ WakeSteps
        \/ \E p \in Peers : Inbound(p) \/ Ready(p) \/ Ended(p)

\* Time passes, the ticker fires, a tick or a wake that has begun goes on.
LivenessRuns ==
  ProbeReads \/ (given' = {} /\ (Passes \/ MonitorSteps \/ WakeSteps))

-----------------------------------------------------------------------------
\* Types; and a tick's or a wake's mark is never older than a tick but after a
\* suspension.
LivenessTypeOK ==
  /\ readyAge \in [Peers -> Ages \cup {None}] /\ rxAge \in [Peers -> Ages]
  /\ probeAge \in [Peers -> Ages \cup {None}] /\ asked \in [Peers -> Ages \cup {None}]
  /\ anyAge \in Ages /\ tickAge \in {None, 0, 1} \cup Late + 1 .. 2 * Gap
  /\ fired \in BOOLEAN /\ slept \in BOOLEAN
  /\ monitor \in {"waits", "prev", "judge", "probe", "mark", "any", "reset"}
  /\ wake \in {"none", "any", "clocks", "mark"}
  /\ turn \in 1 .. Workers + 1 /\ (monitor \in {"probe", "mark"} => turn \in Peers)
  /\ visit \in 1 .. Workers + 1 /\ (wake = "mark" => visit \in Peers)
  /\ nowAge \in {0, Gap} /\ wakeAge \in {0, Gap} /\ given \subseteq Peers

\* liveness.go, descheduledSlack: an extension resumed after minutes must not
\* "find every worker dead": who is given up on was probed DeadAfter ago in running
\* time and has not been heard since, whatever suspensions, wakes and ticks fell in
\* between and into one another.
SilentWhileRunning == \A p \in given : asked[p] >= DeadAfter

\* client.go, Client.monitor: a tick resets the clocks only if the process was
\* suspended since the time it finds in lastTick.
ResetOnlyAfterSleep == [][monitor = "prev" /\ monitor' = "any" => slept]_livenessVars

\* A worker that is ready and never heard again, while others are heard again
\* and again, is restarted again and again -- unless suspensions or wakes never
\* end, each of which starts its clocks over.
SilentOneGivenUp ==
  \A p \in Peers :
    /\ <>[](readyAge[p] # None)
    /\ []<>(anyAge = 0)
    /\ <>[][~Suspended /\ ~WakeBegins /\ ~Inbound(p)]_livenessVars
    => []<>(p \in given)

-----------------------------------------------------------------------------
(* What the comments promise and the code does not keep *)

\* client.go:203-205, WakeHealthCheck: the tick after a wake must not "read the wake
\* gap as a deschedule and wipe the probes": a reset wipes no mark of this very moment.
\* It fails: a tick that has loaded the old mark resets beside the hook.
ProbesStand ==
  [][\A p \in Peers : Resets /\ turn = p => probeAge[p] # 0]_livenessVars
=============================================================================
