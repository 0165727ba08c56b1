# A TLA+ development of vk-turn-proxy-ios

This directory specifies, model-checks and proves properties of the Go core
of the tunnel: the code under `src/pkg` and `src/WireGuardBridge`. The
largest risk of that code is not in its packet formats but in its shared
state: a pool of TURN credentials that connections, a background grower,
timers, path events and a restart all change, and generations of connections
that replace one another while path events move them. These come first.

## 1. Inventory

| Component | Code | State | Operations | Interacts with |
|---|---|---|---|---|
| TURN credential pool | `pkg/proxy/creds.go`, `credpool.go` | slots (credential, seats, saturation, cooldown, claim and stamp), path pause, wake-up channel, cache file | `get`, `tryFill`, `release`, `markSaturated`, `invalidateEntry`, `invalidate`, `MarkInUseSlotsForPathChange`, `ExtendPauseAcquireForTransition`, `seedSlot`, `loadFromDisk`, `saveToDisk`, `runPeriodicSave`, `broadcastSlotAvailable` | called by connections, csqtt workers, grower, path monitor; calls the mint without its lock |
| Cascade detection | `creds.go` 1058-1245, 2388-2620 | last path event, pause deadline, broadcast timer | path event, transition, timer | part of the pool, driven by the app |
| Credential minting | `proxy.go` `fetchFreshCreds`, `creds_vk*.go`, `captcha_*.go` | one stored captcha answer, rate limits | fetch, solve, reuse | called by pool and grower |
| Background grower | `proxy.go` `growCredPool` | attempt counters | pick, fill, sleep, stop | pool |
| Connection loop | `proxy.go` `runConnection` and its sessions | failures in a row, session context | connect, fail, dormancy, restart | pool, path restart, lifecycle |
| Proxy lifecycle | `proxy.go` `Start`, `Pause`, `Resume`, `Stop`, `ForceReconnect`, watchdog | session context, captcha wait, bootstrap signal, paused flag | those calls | app, connections |
| Path restart | `pathrestart.go` | path epoch, debounce timer, epoch of each session | path up, fire | connection loop |
| csqtt client | `pkg/csqtt/client.go`, `turn.go`, `liveness.go`, `control.go` | workers, start gate, path generation, probe state | dial, path change, probe, kick, close | credential adapter, server |
| csqtt framing | `frame.go`, `dispatch.go`, `wrap.go` | sequence counters, reassembly flows, round-robin index | stripe, sequence, reassemble | csqtt client |
| csqtt bridge | `WireGuardBridge/csqtt_bridge.go` | attached client, credential adapter | attach, creds, refused, stop | pool, csqtt client, bind |
| WireGuard bridge, TURN bind | `bridge.go`, `turnbind/bind.go` | tunnel handles, packet channels | C API, receive, send, close | proxy, WireGuard |
| Packet path helpers | `rxreorder.go`, `uplinkpace.go`, `sendwait.go` | reordering window, token buckets | insert, flush, take | sessions |
| Obfuscation and SRTP framing | `wrap*.go`, `srtpwrap/srtp.go` | demultiplexer queues, pooled buffers, read deadlines, keys | wrap, demultiplex, deadline, close | sessions, relay sockets |
| Statistics, speed test, app, tools | `sockstats*.go`, `speedtest/`, Swift, `tools/` | counters, views | | |

What is hard in each, and what makes it correct:

* **Pool.** A mint runs for seconds without the lock and lands in a pool that
  may have been reset, cleared or claimed by another mint meanwhile: the slot
  belongs to whoever holds its stamp. Seats are counted by index, sessions
  outlive credentials. Deadlines pass while mints run. Waiters depend on a
  broadcast. A crash may fall between the publish and the save. Correct: seats
  are neither leaked nor counted twice, VK's quota per credential is kept, one
  credential sits in one slot, only an owner overwrites, nobody is parked for
  nothing, every caller is seated in the end.
* **Cascade detection.** Bursts of path events, classes at 500 ms and 90 s, a
  pause that may only be prolonged, one timer re-armed for it. Correct: the
  pause covers the last event and the broadcast comes at its end.
* **Minting.** Two mints at once share one captcha answer that is good once.
  Correct: the answer is used by one of them.
* **Connection loop, path restart.** A path event during a connect, a restart
  aimed at a session that has already been replaced. Correct: each session
  started before the last path event is restarted once, none started after it.
* **Lifecycle.** Pause and Resume overlap connects, a captcha wait and the
  watchdog. Correct: one generation of connections at a time; the bootstrap
  signal is given once.
* **csqtt client.** Path generations, the start gate's spacing, the liveness
  verdict against a late answer and a late tick, Close against workers that
  wait. Correct: no reset of a session that answers, no start before its turn,
  Close returns.
* **Sessions of a transport.** A relay of the previous session closes under the next
  one; a goroutine moves the seat its session's return releases; a write into a dead
  relay holds everything. Correct: what is cancelled ends, VK's refusals reach the
  pool before the session's return, seats are given back.
* **Packet path.** Pooled buffers change hands at every queue and error exit; counts
  that decide (pacing, reordering) are kept by hand. Correct: one owner per buffer,
  the long-run rate holds, a packet is called what it is.
* **Bridges.** Attach, stop, failure and waiters of a handle come from any thread.
  Correct: nothing installed after a stop, nothing closed twice, waiters woken.
* **csqtt framing.** Wrapping sequence numbers, duplicates, gaps, a full table.
  Correct: each packet is delivered at most once and in order within a flow.

`PROJECT.json` lists every component with its status, and each hazard at its line.

## 2. Structure

The order in which the project grew is the order of importance: the shared state of
the pool; the generations of sessions; then csqtt (stream, client, liveness,
bridge); then everything a session is made of.

| Module | Models | Abstracts from |
|---|---|---|
| `CredPool` | the pool and its users | deadlines are flags |
| `PathCascade` | path-event classes, the acquire pause and its one timer | one slot, integer ages |
| `Minting` | one mint: stored captcha answer, waves over client ids, solver attempts | HTTP, how a captcha is solved |
| `CookieRelays` | relay discovery and the caches of the logged-in mode | which requests a mint makes |
| `ConnSessions` | starters, connection loops, path restart | what a session carries |
| `CaptchaWait` | the captcha that stops the tunnel, its waiter, watchdog, `Resume` | one session context at a time |
| `TransportSessions` | sessions of a connection and the relays under them (DTLS, WRAP-A, SRTP) | packets |
| `DirectSession` | the transport without DTLS, which replaces its relay in place | packets |
| `ConnProbe` | the ping prober of a SRTP session, wake broadcast, suspension | the DTLS prober |
| `PacketPath` | queues, pumps and pooled buffers between wireguard-go and sessions | contents |
| `UplinkPace` | the uplink token bucket and its setter | wall-clock units |
| `RxReorder` | the downlink reorder instrument | the lateness histogram |
| `SrtpWrap`, `SrtpDeadline` | demultiplexer, queues, Close; read deadlines | cryptography |
| `CsqttStream`, `FlowChannel` | sequencer, striper, reassembler, queue to the TUN; the ordered channel they promise | payloads |
| `CsqttClient` | workers, start gate, GETCONF, identities, kicks, lease, Close, against an external server | timer lengths |
| `CsqttLiveness` | the monitor's tick and the wake hook, load by load and store by store; silence, probes, suspension | clocks beyond the limits they are compared with |
| `CsqttBridge`, `WgBridge` | one handle of either bridge | read-only calls |

`MCCredPool` and `MCConnSessions` name values for the configurations. `MCCounts`, `MCParts`
and `MCProgress` are sums of machines that share no state: a variable `part`, chosen
in the initial state, says which one runs while the others keep their first values. A
sum asks of each machine what an instance of its own would; liveness properties and
fairness are guarded by `part` where the machine's own variables do not tell.

How they meet. `PathCascade` is the detail behind `paused` of `CredPool`; `Minting`
and `CookieRelays` are what `VKGrants` and `VKRefuses` stand for; `ConnSessions` says who
starts and cancels the sessions of `TransportSessions`, whose pumps are `PacketPath`; a
verdict of `CsqttLiveness` is one of the kicks of `CsqttClient`; the credential
adapter of the csqtt bridge is `CredPool` with `CaptureFirst = TRUE`. One refinement
is checked: the two ends of `CsqttStream`, with their sequence numbers modulo
`SeqSpace`, their pending lists and tables that are dropped, implement `FlowChannel`,
where a flow hands out what it was given in order and at most once
(`OrderedFlows == Channel!ChannelSpec`, history `taken` and `out` mapped by name); section 5 has
its proof for every instance that sends fewer packets than half the sequence space. Other machines
are not composed: their product is beyond TLC, and each meets its neighbour
through a handful of calls that its environment makes at any moment.

## 3. The models

In every module `Bug...` operators are plausible mistakes in the definition that
follows them (a dropped guard, a flag not cleared, a swapped order). No action uses
them; each is put in place of its original to see a property fail. Variables marked
"history" are read by properties only.

### `CredPool`

One action per operation of the pool; the lock region of the code is the
action. `get()` drops the lock for the mint, so it is two groups of actions: one
before (`GetPaused`, `GetSeat`, `GetRefused`, `GetClaim`) and one after
(`ConnMinted`, `ConnMintFailed`, with `Publish` and `FallBack`). What a process
still does after unlocking is its `duty`: take a snapshot (under `mu`), write it
(under `saveMu`), broadcast. These are steps of their own, so a save of another
process, a timer or a crash may come between them.

| Variable | Code |
|---|---|
| `pool[s]` | `credPoolEntry`: `cred` (`NoCred` is nil), `sat` (before `saturatedUntil`), `pending` (before `availableAt`), `cooling` (before `cooldownUntil`), `fetching`, `gen`, `active`, `used` (`lastUsedAt` not zero) |
| `nextGen` | `nextGen`, the claim stamps |
| `paused` | before `pauseAcquireUntil` |
| `conn[c]` | a connection's place: about to ask, minting, seated, closing (it reported the end of its session and has not released yet), refused; its slot, its credential, its stamp, the wake-up channel it holds |
| `grower[g]` | `tryFill` in flight |
| `duty`, `snap`, `disk` | the rest of an operation after its unlock, the snapshot of `saveToDisk`, the cache file |
| `cookie` | `cookieAuthEnabled` |
| `minted`, `expired` | VK: what it granted, which credentials came within `credExpiryBuffer` of their end |
| `displaced`, `rejected` | history, read by properties only |

Abstractions. Time is the order of events: a deadline is a flag, set where the
code sets the time, cleared by an action of the environment; so any relative
order of deadlines is allowed, including those the constants of the code
exclude. A credential is a number. Lengths of waits are left out: a waiter may
wake by signal or by timer at any moment. The counters of auth errors feed log
lines only. In cookie mode every slot has its own credential (`Bucket`), which a
new mint renews; two relays of one link that share a user name are left out, and
so is a restart in cookie mode, since the order in which relays are found may
change with it. A session that reports 401/403 clears the slot
before it releases; one that reports 486 saturates it before it releases.

### `ConnSessions`

Separate from `CredPool`: a dial of a session here either comes up or ends, which
is what the pool's answers amount to for the loop.

A generation is one session context (`sessCtx`) and the `startConnections`
goroutine, the starter, launched with it. Since the starter reads the context
when it runs, generation and context are two things: `sgen[s]` is the context
starter `s` read. A loop `<<s, c>>` is the `runConnection` goroutine that starter
`s` launched for connection `c`; its sessions follow one another in it.

| Variable | Code |
|---|---|
| `gen`, `paused`, `stopped` | the newest `sessCtx`, cancelled by `Pause`; `p.ctx`, cancelled by `Stop` |
| `spc[s]`, `sgen[s]`, `attempts[s]` | where a starter is (spawned, waiting for conn 0, backing off, done), the context it read, its attempts |
| `pc[l]` | where a loop is: waiting, at the head of the loop, past its check (`entering`), dialing, up, its session's function returned (`ended`), gone |
| `ready[l]`, `signaled[l]` | `readyCh` of conn 0 holds its signal; `*signaled` |
| `hit[l]`, `stamp[l]`, `group[l]`, `asked[l]` | of the session: `connCtx` cancelled by a restart, the epoch `beginConnSession` returned, the group it announced first, the verdict that its end was a requested restart |
| `reg[c]`, `connEpoch[c]` | `connCancel[c]` (whose session it cancels) and `connEpoch[c]`, under `connMu` |
| `epoch`, `timer`, `firing` | `pathRestart`: `epoch`, the armed timer with the epoch its callback carries, callbacks that run already |
| `hello`, `rotated` | the group id in use, as a number of rotations; `OnPathUp` is between its two halves |
| `firstSessionUp` | the flag of that name, which gates restarts |

A step is what happens between two points where another goroutine can come in:
the check of the context and `beginConnSession` are two steps, as are the end of a
session and `endConnSession`, the two halves of `OnPathUp`, the firing of the
timer and its callback. A timer's `Stop` does not reach a callback that runs, so
`firing` may hold an older epoch beside a newer timer.

Abstractions. The captcha that makes `Resume` and `ForceReconnect` return early is
`CaptchaWait`'s, so a session context may be made more often than the code does; the
watchdog and the wake check, which call them, are likewise a choice to call at
any moment after the first starter has read its context. The lengths of
waits and the count of short failures that selects them are left out. A session
announces its group at most once here, the repeats carry the same bytes; a
session whose transport or peer knows no groups never announces one. Calls of
`OnPathUp` do not overlap, as the path monitor's queue is serial. What belongs to
a session is reset when it ends; the code drops it with the goroutine's frame.

### Minting, captcha and relays

`Minting` is one mint with every call it makes to VK as a choice. Others run beside
it and meet it only at `lastCaptcha*`: the parts of the stored answer are
loaded and cleared one atomic after another, so two mints may each get half. A mint
goes through the captcha-free path, then waves over the client ids (`left`), and per
id a request for a token with `attempt`s and a solver with `powTry`s. `CaptchaWait` has
the captcha that stops the tunnel: who published it, the one waiter, the ten minutes
`RefreshCaptchaURL` holds it, callers of `Resume` past their check, the watchdog. Time there is
the order of events, but the five minutes of the watchdog and the fifteen seconds
of `SolveCaptcha` are steps. `CookieRelays` keeps, per slot, the relay its credential is
for and the configuration that listed it, under `cookieMu`; `SetVKCookieAuth` stores
and clears in two steps. Which relays VK gives for a link (`serves`) is fixed at the start and any
nonempty set; a discovery appends those not seen yet, in any order.

### Sessions

`TransportSessions` is one connection: its sessions by number, each with its context
and its relay's goroutine. Under DTLS and WRAP-A the session does not wait for the
relay; under SRTP it holds it. A relay reports a 401 or 486 to the pool (`marked`) before it
cancels its session. A relay whose forwarder sticks in a write ends only by the write
deadline set at the cancel. `DirectSession` has the two goroutines around
`currentSlot`. `ConnProbe` has the prober's select (tick, wake), the five-second poll
after a wake, echoes under way, and counters that outlive the session; ages are in
ticks of `probeInterval`.

### Packets

`PacketPath` follows pooled buffers from caller to queue to pump to pool, through
every error exit. `UplinkPace` has one bucket per connection, charged before the
dequeue and settled after, and a setter that replaces the state under sleeping
writers; time is slices of the writer's sleep. `RxReorder` has the ring of marks, whose
slots are reused lap after lap; a histogram's running sum (`UpTo`) is the number of packets
in the buckets up to there. `SrtpWrap` has the demultiplexer between two queues
of bounded length, and the steps of `Close` over a relay that takes no more bytes.
`SrtpDeadline` has both deadline mechanisms of `srtp.go` (chosen by `style`), with a
timer whose goroutine has fired and waits for the lock.

### csqtt

`CsqttStream`: both ends are the same code, so one instance of sender and receiver is
enough. The wire carries `seq`, the index `n` of a packet in its flow is history; `sent` counts
packets against the bound. A release looks for the pending packet closest ahead of `expected`
(`Forward`, `Distance`, `Closest`), jumps to it and drains from there (`JumpTo`). A packet is
lost, overtaken, duplicated over a second worker; the gap timer's deadline is a flag.

`CsqttClient`: `wpc` is where each worker's goroutine is, from the credential through the gate, the
allocation, the GETCONF loop and back; the server is external and keeps only the
identity it heard last. `CsqttBridge` and `WgBridge`: each call is as many steps as it has lock
regions, so a stop may fall between the check of an attach and its install.

`CsqttLiveness` has two goroutines that share atomics and no lock: `Client.monitor` and
`WakeHealthCheck` (calls of it come one at a time, from the extension's wake callback).
Each load or store that the other can observe is a step of its own.

| Variable | Code |
|---|---|
| `readyAge`, `rxAge`, `probeAge` | of each worker `readyAt`, `lastRx`, `probeAt` |
| `anyAge`, `tickAge` | of the client `anyRx`, `lastTick` |
| `monitor`, `turn`, `nowAge` | what the monitor does next (wait for the ticker, load `prev`, judge a worker, load its probe mark, mark it, reset `anyRx`, reset the workers), its worker, its `now` |
| `wake`, `visit`, `wakeAge` | the same of the hook, its `ns` |
| `fired`, `given` | a tick waits in the ticker's channel; the worker just restarted |
| `asked`, `slept` | history: running time since a probe was marked; a suspension since the time in `lastTick` |

A clock is an age in ticks. Ages stop at the limit they are compared with, so a limit is
passed as soon as it is reached. A suspension adds `Gap`, more than any limit, to every clock, `now` and
`ns` included, and keeps the distance of each clock to a `now` the monitor judges by. Time
passes only while neither goroutine is under way: a tick and a hook end well before the next
tick, unless the process is suspended. The stores of `readLoop`, of a session that becomes ready or
ends, and the two of a reset of one worker are one step: what a load finds between them it could
have found before or after them. `WakeCut` says whether a suspension may fall between two
stores of the hook, see the disagreements below.

## 4. What TLC checks

| Run | Instance | Question | Properties |
|---|---|---|---|
| `counts` | seats: 3 connections, 2 slots of 2 seats, 2 mints, 486; stream: 2 workers, 2 flows, 3 packets, tables of 1 and 2, duplicates, wrap at 16 | are seats counted exactly and quotas kept; is csqtt's output an ordered channel and do its counts agree? | `CountsTypeOK`, `SeatsAccounted`, `CountsAgree`, `OrderedFlows` |
| `transport` | 2 connections with the channel read first (csqtt), 2 slots of 2 seats, path events, 486, expiry | is a caller parked for nothing, a seat's signal lost, a seat given on an unusable credential, a mint too many started? | `FreeSeatAnnounced`, `MintsBounded`, `NoParkingBesideEmptySlot`, `SeatsOnUsableCreds` |
| `claims` | 2 connections and a grower, 2 slots of 1 seat, resets, 401, both modes | does every late mint respect who owns the slot now? | `ClaimIntegrity`, `OneSlotPerCred`, `OnlyOwnerOverwrites`, `ClaimedSlotFilledByOwner` |
| `restart` | the same with a cache file, a crash at any step, app seed or none | does the pool come back sound? | `OneSlotPerCred` |
| `seated` | 2 connections and a grower, 2 slots of 1 seat, failing mints, fairness | is everybody seated in the end, and every freed seat announced? | `FreeSeatAnnounced`, `EventuallySeated` |
| `moves` | 1 connection, 2 session contexts, pauses, 2 path-ups, 2 bootstrap attempts | does a restart reach every registered session of an older group and no newer one? | `TypeOK`, `EpochImpliesGroup`, `RegisteredSessionsMove`, `RestartSparesNewer` |
| `moved` | 2 connections, 1 session context, pause and stop, 2 path-ups, fairness | does a path-up in the end move every session; does a cancelled context lose all its goroutines? | `OrphansDie`, `EveryoneMovesInTheEnd` |
| `client` | 2 workers, one event (path change or server restart), one fault, Close at any moment, fairness | is every worker brought to the client's own identity, and everything given back at the end? | `ClientTypeOK`, `LeaseCoversRelay`, `KicksMeant`, `EverythingReleased`, `EveryoneAnnounced` |
| `parts` | eight machines one at a time (`MCParts`) | do counts tell the truth, do buffers and relays have one owner, do pauses and deadlines fit, does what is cancelled end? | `UnitsTypeOK`, `CountsTrue`, `OwnedOnce`, `TimersFit`, `RefusalCharged`, `CancelledEnds` |
| `progress` | six machines one at a time (`MCProgress`), fairness; of them csqtt's verdict: 2 workers, monitor and wake hook step by step, suspensions outside the hook | are the dead given up in the end and only for running time, mints ended, tunnels tried again, handles released, and is nothing misused on the way? | `PartsTypeOK`, `NothingMisused`, `SilentWhileRunning`, `DeadOnesKilled`, `TunnelTriesAgain`, `MintEnds`, `StepsJustified`, `StopsReleaseAll` |
| `stale_pending` | one flow, pending lists of two | finding, see below | `NothingDeliverableHeld` |
| `seat_leak` | one direct session, 3 relays | finding, see below | `SeatGivenBack` |

Some of the properties of `counts`, `parts` and `progress` are conjunctions of named parts, one or
more per machine; each part is stated with its comment in the machine's module.

### Bounds

*Pool.* Ownership races need two minters and two slots (the slot lost and the slot
the mint is moved to); the grower makes a third party. Seat counting needs a slot that
two sessions share and a third one that spills over, hence 3 connections and 2 seats.
`MaxMints` limits the answers of VK: 2 to 4 allow a slot to be filled, lost,
refilled and a displaced mint to land. `MaxGen` limits which claims may fail: without
it claims and failures alternate for ever and `nextGen` grows.

*Sessions.* The interesting races are between two generations of one connection (two
contexts) and between a stale callback and a newer path-up (two path-ups); connections
meet only in the starter and in `restartSessionsOlderThan`, hence one connection where
generations race and two where they must all move. `MaxGen` and `MaxUps` bound events of
the app; two attempts show both a retry and a bootstrap that gives up.

*csqtt.* The stream starts one flow two packets before its numbers wrap, so that
three packets cross the wrap; the space of 16 is far above what is under way, as
2^32 is. One tracked flow at the sender and two at the receiver make both tables
overflow within three packets, so three sender ids are used. `MaxEvents` and
`MaxFaults` of the client are what happens to it: a path change or a server restart, and one of a
loss, a late answer, a refused call, a dead relay, a DENIED or a REPAIR, at any point.

*Parts.* Three path events (two bursts, or a burst of two and one later), with the code's times shrunk to ticks
that keep their order (gap < pause < window); four slices of pacing and two changes of rate (a
change while a writer sleeps on the one before); a ring of three marks and six counters (two
laps); two relays over two links and one reconfiguration; two packets over a queue of one, so that
a producer blocks; two sessions of a connection; three arrivals over queues of one, so
that the demultiplexer blocks; three calls of `SetReadDeadline` over three ticks.

*Progress.* `MaxLead` caps how far a session's count can fall behind the index's
last pong, `MaxDue` how many checks of `SolveCaptcha` and callers past their check are outstanding; two client ids, two attempts,
three solver tries and two waves; two attaches, two stops and two waiters of a handle;
the prober's ages stop at the largest threshold they are compared with.

*Verdict on silence (part of `progress`).* Two workers are one that is silent and one that keeps the path up. The limits are two
ticks for a silence and a probe, one for a fresh session, and a tick is late beyond one tick and
one of slack: enough for a probe to be marked, left, and judged at a later tick, with a suspension
or a hook anywhere between.

Deadlock is checked in `transport` and `seated`. Elsewhere the system may stop: after
a `Stop`, a Close, a fatal answer, at the end of a mint; and in the other runs of
the pool every caller may be in a mint that VK, out of `MaxMints` answers, never gives.

### Fairness

*Pool.* Its own steps (the acquire, the broadcast, a timer, a duty after unlock)
are weakly fair, as goroutines, `time.AfterFunc` and `time.After` are. VK is strongly
fair: a mint that is retried is granted in the end; were VK to refuse for ever nobody
could be seated. A session is not obliged to end: the instance has two seats for two
connections.

*Sessions.* Each starter, each loop between sessions, the announcement of a session
that is up, the second half of `OnPathUp`, the timer and each callback are weakly fair:
goroutines and runtime timers that wait for nothing else. A session whose context
is cancelled returns (the context closes its sockets). Nothing makes a dial succeed, a
session fail, or the app call. `EveryoneMovesInTheEnd` is checked with one session
context; with two it is false (see below).

*csqtt client.* Every step a worker takes by itself is weakly fair, a wait that has a timeout
ends by it, messages that are not lost arrive. Entering the start gate is strongly fair:
a Go channel serves its waiters in order. Events and faults are not obliged.

*Liveness and probe.* Time passes; a tick that is due is taken, and a tick or a wake hook that has begun goes on. The prober's tick is
strongly fair because its `select` chooses at random among what is ready. Suspensions, data and wakes
are not obliged.

*Captcha, mint, bridges, SRTP.* Goroutines run on; the app is not obliged to answer,
refresh, attach or stop. A call that has passed its first lookup goes on. VK answers
every request of a mint, one way or the other.

### Disagreements between comments and code

Two are runs that TLC ends with a counterexample.

* `stale_pending`: a push into a full pending list releases the lowest run, which moves
  `expected`, then holds the new packet although it may be the one `expected` names. It waits
  there for a later packet of its flow and the gap's time. `frame.go:220` says a push
  "appends everything now deliverable, in order".
* `seat_leak`: the reconnection goroutine of a direct session gives its seat back
  (`proxy.go:3066`) before it forgets it in `currentSlot` (3068). A session cancelled as that goroutine
  passes its half-second wait releases the same seat by its deferred call (3026): the pool counts one seat
  less than the others hold. The quoted line, `proxy.go:2385-2387`, is the comment on the same
  deferred call in `runDTLSSession`, whose seat nothing else moves. The model also has the opposite
  outcome, by a longer trace: the session ends while the goroutine asks for a new seat, which nobody then gives back.

The others are definitions at the end of their module, under "What the comments
promise and the code does not keep", and one property that a run checks with other constants
(`SilentWhileRunning`); TLC finds each of them violated under the constants given here.

| Definition | Instance | What happens |
|---|---|---|
| `NoSeatOverwritten` (`CredPool`) | those of the seats in `Counts.cfg` | the saturation of a slot chosen for a mint ends during the mint, a connection is seated there, and the mint is published over it; the comment says "active was 0" |
| `RejectionDropsOnlyRejected` (`CredPool`) | `Claims.cfg`, two seats per slot | two sessions share a rejected credential; the second one's `invalidateEntry(slot)` drops the credential minted after the first |
| `CacheForgetsRejected` (`CredPool`) | `Restart.cfg` with `Events <- Rejects` | a periodic save took its snapshot before a rejection and writes it after the rejection's own save |
| `EverySessionMoves` (`ConnSessions`) | `Moves.cfg` with `MaxAttempts = 1`, `Lifecycle <- Neither`, `MaxUps = 1` | a loop of the previous context that leaves late takes away its successor's cancel, and the restart passes the successor over |
| `OneLoopPerConn` (`ConnSessions`) | the same with `MaxGen = 2`, `MaxUps = 0` | two starters read the newest context after two `Resume`s in a row, and each launches a loop |
| `PendingIsWaitedFor` (`CaptchaWait`) | `Progress.cfg` | `RefreshCaptchaURL` publishes a captcha after its waiter has gone; a later check of `SolveCaptcha` or the app's own answer has to clear it |
| `GoneEndsIt` (`Minting`) | `Progress.cfg` | VK says the call is gone in answer to the request for a fresh captcha; the mint ends with the captcha instead |
| `PassedLinksMinted` (`CookieRelays`) | `Parts.cfg` | a link whose discovery failed is passed over and never asked again, though `cookieDiscoverIdx` counts links "already minted" |
| `VerdictExact` (`UplinkPace`) | `Parts.cfg` | a writer counts its wait before it counts itself as asleep: the setter drains nobody and prints before the amount is filed |
| `AllocatedCounted` (`TransportSessions`) | `Parts.cfg` | an old relay's deferred calls clear the local address the new session has stored |
| `ConfirmedByEcho` (`ConnProbe`) | `Progress.cfg` | the index's last pong number is ahead of what the next session, counting anew, has sent: the poll after a wake takes it for its echo |
| `ProbesStand` (`CsqttLiveness`) | `Progress.cfg` | a tick that is due when the process resumes loads the old `lastTick` and is late; the wake hook runs beside it, resets the clocks and marks its probes; the tick's own reset (`client.go:529-532`) wipes the marks. `client.go:203-205` says the hook moves `lastTick` so that this does not happen, which holds only for a tick that comes after the hook. The cost is time: the worker is probed again later. A second way: a tick suspended after its load takes back, by its own store to `lastTick` (534), what a hook has stored meanwhile, and the next tick is late |
| `SilentWhileRunning` (`CsqttLiveness`) | `Progress.cfg` with `WakeCut = TRUE` | the hook takes the time once and stores it lines later. Suspended in between, it stores a time before the suspension into `lastRx` and the probe marks, and a tick that does not find itself late (the first one; or the one after a late tick between whose reset and whose store to `lastTick` the hook has ended) gives up a worker that was silent for no running time. `descheduledSlack` (`liveness.go:97-101`) says every timeout verdict must guard against that. The run `progress` and the theorem leave this suspension out, since with it the property is false |
| `TunInOrder` (`CsqttStream`) | `StalePending.cfg`, `Counts.cfg` | `deliver` queues for the TUN after unlocking `reasmMu` |

### Further observations

Met while modelling; consequences of a choice, harmless, or without a line that says otherwise.

* Pool: `release(slot)` of a session whose expired credential was replaced gives back
  a seat of the successor, which is why `SeatsAccounted` speaks of histories without such
  an overwrite (`displaced`). `runConnection` reads the wake-up channel after its
  failed acquire, so it may miss a broadcast and sleeps its delay; csqtt's adapter
  reads it first. A slot whose `availableAt` passes is not announced. A caller that
  reads the old cookie may set `cookieAuthFatal` after `SetVKCookieAuth` has cleared it.
* Minting: a captcha answer may carry an empty client id; client ids are shuffled
  per wave; `token2` is asked for although the stored answer may make it useless.
* Captcha: `zeroConnSince` is not reset while a captcha is pending, so the watchdog may
  act as soon as it is cleared; a starter that was cancelled may still publish its captcha.
* Probe: after a freeze during the five-second poll the echo is not looked at again; the pong
  number kept is the last, not the largest; a ping that cannot be written ends the
  prober and not the session.
* Pacer: a write that never takes a packet settles with size 0 and is still charged
  the overhead. `rxreorder` prints a share of nothing when only refused packets came.
* Obfuscation: `runTURN` goes on without WRAP when its setup fails. The first
  handshake of a SRTP session has no bound on writes, only on reads. A DTLS queue
  that nobody reads holds media behind it until Close. The spurious-timeout branch of
  the demultiplexer cannot be reached.
* csqtt: no timer drives `releaseExpired`, so the end of a burst that lost a packet
  waits for the flow's next packet. A chunk's packets go to a worker that has just died until the
  chunk is used up. Repair requests are not deduplicated by their sequence. A worker inside
  its GETCONF loop may announce itself after Close has sent DISCONNECT. When every session is
  lost the rule for a single silent worker judges nobody; wakes in quick succession put the verdict off.
  After a terminal failure the client lives until the handle is turned off;
  `csqttWaitReady` may answer 1 for a handle that is being stopped.
* WireGuard bridge: of two racing attaches the loser's `Close` waits for a receive
  routine that ends only when the tunnel stops. A turn-off during the seeded
  start's wait lets `Start` run after the stop, without effect.

## 5. What is proved

TLAPS checks every theorem here for all values of the constants that satisfy the assumptions of
the modules. TLC evaluates those assumptions in every run. Most say that a size is
positive or a set finite. The others are facts of the code: `DualGap < CascadePause < CascadeWindow`
(500 ms, 30 s, 90 s, `PathCascade`), `DeadAfter <= ProbeAfter` (both 30 s, `CsqttLiveness`), growers
are not connections (`CredPool`). Some keep a
marker such as `"none"` or `"nobody"` out of the set it stands beside, where the code has a nil.

| Module | Theorems |
|---|---|
| `CredPoolProofs` | `TypeCorrect`, `ClaimsIntact`, `OwnerOverwrites`, `OwnerFills` |
| `CredPoolSeatsProofs` | `CredsApart`, `SeatsCounted`, `SeatsUsable`, `MintsCapped`, `ParkedForAMint`, `SignalNotLost` |
| `ConnSessionsProofs` | `TypeCorrect`, `RestartSpares`, `EpochGroup`, `EveryRegisteredMoves` |
| `CsqttClientProofs` | `LeaseCovers`, `EveryKickMeant`, `ClientTyped` |
| `CountsProofs` | `CountsTyped`, `CountsTrueAlways`, `FlowsInOrder` |
| `PartsProofs` | `RefusalsCharged`, `TimersAlwaysFit`, `NothingOwnedTwice` |
| `PartsCountsProofs` | `InstrumentsTrue`, `UnitsTyped` |
| `ProgressProofs` | `ProgressTyped`, `NoMisuse`, `StepsHaveReasons`, `NoneGivenUpForSleep` |

### `CredPoolProofs`

Holds for any number of connections, slots, seats, growers and mints, and for every
subset of the environment's events. It assumes `ConstantsAssumption` (the sizes are
positive) and `GrowersAssumption` (growers and the saver are not connections), which
TLC evaluates in every run of the pool.

* `TypeCorrect`: `Spec => []TypeOK`. Not only shapes: `active` never exceeds
  `ConnsPerSlot`, which rests on `PickSeatInSeats` (Phase 1 tests the count under
  the same lock) and on a failed mint leaving every count as it was.
* `ClaimsIntact`: `Spec => []ClaimIntegrity`. `ClaimIntegrity` alone is not
  inductive: a new stamp `nextGen + 1` is new only because no slot and no mint
  carries a larger one, so the invariant proved is `ClaimsInv`, its conjunction
  with `StampsIssued`. The step is one of three kinds, each a lemma: no mint starts or
  ends and slots are only reset (`ClaimsQuiet`); a mint ends (`ClaimsEnd`); a mint
  starts (`ClaimsStart`). Each action is shown to be of one kind; a restart ends all
  mints and resets all slots (`ClaimsKept`).
* `OwnerOverwrites` and `OwnerFills`: the action properties `OnlyOwnerOverwrites` and
  `ClaimedSlotFilledByOwner`. `WhoFills` shows that only a finishing mint puts a
  credential into a slot, and that the slot is then its own or one that is empty and
  unclaimed (`PlaceForEmpty`); with `ClaimIntegrity` the owner is unique.

### `CredPoolSeatsProofs`

The same assumptions. Each step of the pool is first reduced to the shape of its effect on slots
and seats (`Shaped`: nothing, a session sits down, leaves, a slot is claimed, filled, cleared, or
a restart); the invariants are then proved over shapes, not over the twenty actions.

* `CredsApart`: `Spec => []OneSlotPerCred`. A restart reads the pool back from the cache, so
  `CredsInv` says the same of the cache file and of every snapshot under way, and that all
  of them hold credentials VK has issued: a fresh one is in none. In cookie mode each slot has
  its own bucket instead.
* `SeatsCounted`: `Spec => []SeatsAccounted`. `SeatsInv`: the count of a slot is at most the
  number of sessions that sit in it, and exactly that, on the slot's own credential, as long as no slot
  was overwritten or cleared under live seats (`displaced`). The quota follows with `OneSlotPerCred`.
* `SeatsUsable`: the action property `SeatsOnUsableCreds`; the three ways into a seat are
  a free seat, a mint of one's own and the fallback after a failed one.
* `MintsCapped`: `Spec => []MintsBounded`. The cap counts slots, growers are not
  under it: the invariant is that the slots connections mint into are at most the target, and each
  grower adds at most one by `ClaimIntegrity`.
* `ParkedForAMint`: the action property `NoParkingBesideEmptySlot`. With a connection unseated the
  sessions are too few to fill slots up to the cap (`SeatsInv`), so some slot counted is being minted into.
* `SignalNotLost`: `Spec => []FreeSeatAnnounced` under `AdapterPool`: the channel is read before
  the request (`CaptureFirst`, what `csqttPoolAdapter` does), there is no restart and no
  cookie mode. These are the hypotheses under which it holds: `runConnection` reads the channel after its
  refusal and may miss a broadcast, a slot loaded in cooldown becomes usable by the clock alone, and the
  renewal of a bucket can open seats without a broadcast (section 4). Both runs that check
  the property satisfy `AdapterPool`. The induction shows that no step but one that is
  followed by a broadcast of its process makes `Seats` larger.

### `ConnSessionsProofs`

Holds for any number of connections, bootstrap attempts, session contexts and
path-ups, with or without pauses and `Stop`. It assumes `ConstantsAssumption` only.

* `TypeCorrect`: `Spec => []TypeOK`, from `TInv`, which adds to the types that a
  starter backs off only with an attempt left (`AttemptLeft`) and that the epoch, the
  timer and the callbacks never pass the rotations made (`EpochOrder`).
* `RestartSpares`: the action property `RestartSparesNewer`. The restart reads
  `connEpoch[c]` while the session has `stamp[l]`; `RegisteredRuns` says the
  two agree for a registered loop, which is in a session. It needs `Launched` (a
  starter that has not run has no loops), for otherwise a launch could reset a
  loop that is registered.
* `EpochGroup`: `Spec => []EpochImpliesGroup`. A session stamped with the current epoch
  can only have announced an older group if the epoch was not bumped although a
  session was up; `AnnouncedUp` (a session that is up, or has announced, has raised
  `firstSessionUp`) excludes that.
* `EveryRegisteredMoves`: `Spec => []RegisteredSessionsMove`. The property speaks of
  settled states; the invariant says what is owed before. `MovePending`: a registered
  session that is behind (its group is not the current one) and not cancelled still
  has its restart ahead, that is `OnPathUp` is between its halves or a timer or a
  callback carries an epoch larger than its stamp.

### `CsqttClientProofs`

Holds for any set of workers, number of attempts, events and faults, with Close at
any moment. It assumes `ClientAssumption` only.

* `LeaseCovers`: `ClientSpec => []LeaseCoversRelay`. The invariant is `HoldsByPlace`: a
  worker holds a credential exactly at the places between its taking and its release,
  an allocation at most at the places in between, and the workers `Dial` has not
  started are idle (`StartOthers` sends them on, and would otherwise move a worker
  that holds something).
* `EveryKickMeant`: `ClientSpec => []KicksMeant`. Its two halves need each other's
  bookkeeping: `KickInv` adds `HoldsByPlace` and the types of identities and kicks. A path
  change raises the identity and in the same step owes every worker a kick (`toKick`);
  a worker that drains its channel has not announced itself yet, so it will announce
  the new identity.
* `ClientTyped`: `ClientSpec => []ClientTypeOK`: the start gate has one holder, who is dialing;
  the server serves only open allocations. What is under way is answered only while its
  allocation is open (`NetInv`).

### `CountsProofs`

The data path of csqtt for any number of workers, flows and packets and any table sizes, beside
a pool whose types come from `CredPoolProofs`.

* The invariant `StreamInv(base)`, where `base` is how far each flow had come at the start:
  nothing under way, held or released lies outside the window from `base` to `taken`
  (`Window`, `WireNumbered`, `OutNumbered`); a tracked flow's sequence number is its true index
  modulo the space, and no id ahead of the present one was used (`SenderExact`); `pendingTotal` is the
  cardinality of everything held (`FlowsExact`). `base` cannot be read off the state, so the
  invariant is quantified over it.
* `CountsTyped` and `CountsTrueAlways`: `CountsTypeOK` and `CountsAgree`. The work is in `PushAt`, a
  chain of six steps (make room for the flow, for all, hold, drain, release, arm the timer): each
  keeps the record of a push sound (`Sound`: the packets held have numbers of their own, and `total` is
  their number beside those of the other flows).
* `FlowsInOrder`: `ASSUME Shorter PROVE CountsSpec => OrderedFlows`, the refinement of `FlowChannel`.
  `OrderInv` adds: what comes out of a flow increases, and `expected` is the number after the newest of
  it (`Leads`). A push keeps that (`Ordered`, `Near`): what is accepted lies forward of `expected`,
  hence is newer than all that came out; a release that jumps lands on the closest of the
  pending ones, so none of them is passed over. A flow is forgotten only when the receiver's
  table overflows, and then more flows than it holds have been used (`UsedMany`), which is when
  `FlowChannel` allows it. `Shorter == MaxPackets < Half`: `isForward` calls a number forward if it is
  less than half the space (2^31) ahead, so a packet delayed by half the space would be taken for
  a new one; the code rests on that never happening, and `Counts.cfg` satisfies it.

### `PartsProofs`

The parts of `MCParts` share no state: a step of the sum is a step or a stutter of each
(`PartsSteps`), so each has its own inductive invariant.

* `RefusalsCharged`: `TransportSpec => []RefusalCharged`. `RefusalInv`: an allocation
  that was refused is never used, a session that went on had one, a relay that cancels
  has reported before (`KillerTold`), and a session that left its handshake without coming up has either its
  context cancelled or an allocation (`LeftCharged`).
* `TimersAlwaysFit`: `PartsSpec => []TimersFit`. For the read deadlines the invariant names the
  goroutine that will close the channel of the standing deadline (`WillClose`), for either of the two
  mechanisms. For the path events, `StampTells`: the stamp is the age of the last event exactly while an unbroken
  chain leads to it from one that met live sessions.
* `NothingOwnedTwice`: `PartsSpec => []OwnedOnce`. Buffers are counted: `Owners(b) = 1` adds up the pool, the
  queues and the goroutines' hands, and every step moves one unit (lemmas on `Count` and `Holding`). A
  queued item finds its buffer as it was filled (`StillThere`). For the relays of the logged-in mode the
  list names no relay twice and a slot has the one of its place (`SlotInPlace`).

### `PartsCountsProofs`

* `InstrumentsTrue`: `PartsSpec => []CountsTrue`, for any burst, rate, costs and number of writers
  (finitely many, as connections are), any ring, histogram and cap on keypairs.
  The pacer's `RateKept` is not inductive. `Ledger` adds what a waiting writer has been charged but has not
  sent: tokens, sent and charge never exceed the burst and what the bucket's age earned. `Solvent` says why no
  writer is in debt when it goes on: its debt is at most one packet and the slices it has left to
  sleep pay for it. `Prompt`: who still sleeps has not slept a slice since the pacer was turned off.
  For the reorder instrument `Tells(p, T)`: the ring has a mark exactly for the counters of `T`, all the
  keypair has brought, that lie in the window behind the newest. Two counters share a slot only a whole lap
  apart (`SlotFacts`), so a mark is either the counter itself or was cleared when the window slid over it
  (`RingTells`), and the call is right (`CallIs`). `NearestRank` holds for every histogram and every
  percentage from 1 to 100; that a least bucket exists comes from the well-founded order of the
  finite sets (`LeastUpTo`).
* `UnitsTyped`: `PartsSpec => []UnitsTypeOK`: bounds of the queues (`Sizes`, `WrapFits`), who holds
  `cookieMu` (`Locked`), the links of the relay list (`Listed`), the seat of a session (`Seated`), and of the
  pacer that `inflight` is the number of its sleepers (`SleepsCounted`).

### `ProgressProofs`

* `ProgressTyped`: `ProgressSpec => []PartsTypeOK`; `NoMisuse`: `ProgressSpec => []NothingMisused`;
  `StepsHaveReasons`: the action properties of `StepsJustified`. One invariant per machine (`ProgressSteps`):
  `CsqttInv` follows the csqtt client from the goroutine that dials it to its one close and says that the
  stop cancels first (`StopOrder`); `DeviceInv` says whose a WireGuard device is at every place of an
  attach and a stop; `WaitInv` that the outcome is in the channel or with callers; `MintInv` that a streak of
  empty answers is the tail of what VK showed; `SilenceTypes`, with or without `WakeCut`, that the mark in
  `lastTick` is never more than a tick old without a suspension (`OnTime`), whichever of the two goroutines
  stored it last.
* `NoneGivenUpForSleep`: `ASSUME ~WakeCut PROVE ProgressSpec => []SilentWhileRunning`, for any number of
  workers and any limits with `DeadAfter <= ProbeAfter`. The property is about the step that gives up; the
  invariant `SilenceInv` says why that step may trust what it has loaded. `Ran(now, p)`: for a judge with this
  `now`, the probe or the last inbound of `p` looks no older than the running time since the probe, or that is
  up to the limit. `ClocksRan`: it holds whenever the monitor judges, or would judge because the time in
  `lastTick` is not late; during a reset it holds for the workers already reset. A suspension spoils it only for a
  monitor that will find itself late, since it keeps the distance of every clock to a `now` taken before
  (`AgeJumps`). `WakeRan`: the hook makes it true worker by worker before it moves `lastTick`. `ProbeInHand`:
  the silence that was found before the mark was loaded still stands beside it, or the mark is new.
  `NoEarlyProbe`: the first tick, which is never late, finds no old probe.

### Only model-checked

* Liveness: `EventuallySeated`, `EveryoneMovesInTheEnd`, `OrphansDie`, `EverythingReleased`, `EveryoneAnnounced`,
  `CancelledEnds`, `DeadOnesKilled`, `TunnelTriesAgain`, `MintEnds`, `StopsReleaseAll`. The prover has
  neither `ENABLED` nor the rules that use fairness.
* The two runs that end in a counterexample.

Every other property a run checks is stated by a theorem.


## 6. Not modelled

* How VK's pages are read and how a proof of work or a slider picture is solved; the HTTP
  requests, TLS fingerprints, made-up names. `Minting` has their outcomes.
* Cryptography and byte layouts: key schedules and masks of `wrap*.go`, `csqtt/wrap.go`, the text of
  control messages, the configuration parser, `getconf.go`.
* The server side of `srtpwrap`, which serves tests only; the fault injection of the
  csqtt stand.
* The background grower's pacing and exit, the prober of a DTLS session (it differs from the SRTP
  one in lengths), memory pressure, statistics (counters and log lines), histograms.
* The speed test, the iOS app, extension and widget, tools and vendored code. The
  calls they make into Go are the environment of the models.
* Of `ConnSessions`: what a session does with packets once it is up, and the
  handshakes before.
