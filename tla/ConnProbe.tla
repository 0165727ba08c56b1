----------------------------- MODULE ConnProbe -----------------------------
(***************************************************************************)
(* The liveness probe of one connection index (pkg/proxy/proxy.go:         *)
(* runSRTPSession, WakeHealthCheck's broadcast): a prober that pings at    *)
(* every tick and after every wake, the reader that takes the echoes, and  *)
(* the counters both keep per index, which outlive the session.            *)
(*                                                                         *)
(* Time is in ticks of probeInterval; ages at their cap stand for anything *)
(* longer.  A suspension is one longer than the freeze gap.                *)
(***************************************************************************)
EXTENDS Integers, FiniteSetsExt

CONSTANTS
  StaleAfter,   \* probeStaleThreshold, in ticks
  FreezeGap,    \* ticks a tick may be late
  MaxLead       \* bound: pings by which a session's count can fall behind the last

ASSUME ProbeAssumption ==
  /\ StaleAfter \in Nat \ {0} /\ FreezeGap \in Nat \ {0} /\ MaxLead \in Nat \ {0}

VARIABLES
  live,       \* a session of the index runs
  dead,       \* its relay answers no more
  lead,       \* lastPongSeq less the session's last ping: -1 for behind
  pongAge,    \* since lastPongTimes
  probeable,  \* serverProbeable
  prober,     \* its goroutine: selects, polls, or is gone
  pollLeft,   \* ticks until the probe's deadline
  probedAge,  \* since lastActiveProbeAt
  tickGap,    \* since lastTickAt
  due, woken, \* what the select has to take
  recent,     \* data seconds ago
  echoes,     \* pongs under way, of the last ping or of an older one
  heard       \* the last ping has been answered (history)

probeVars == <<live, dead, lead, pongAge, probeable, prober, pollLeft, probedAge, tickGap, due,
               woken, recent, echoes, heard>>

ProbeCap == Max({StaleAfter, FreezeGap}) + 1
Grows(a) == Min({a + 1, ProbeCap})
Selecting == live /\ prober = "selects"
Polling == live /\ prober = "polls"

ProbeInit ==
  /\ live = FALSE /\ dead = FALSE
  /\ lead = 0 /\ pongAge = ProbeCap /\ probeable = FALSE
  /\ prober = "gone" /\ pollLeft = 0 /\ probedAge = ProbeCap /\ tickGap = 0
  /\ due = FALSE /\ woken = FALSE /\ recent = FALSE
  /\ echoes = {} /\ heard = FALSE

-----------------------------------------------------------------------------
\* A session is up: its pings count from one again, while the index keeps the
\* number of the last pong it had, whatever that was.
SessionUp ==
  /\ ~live
  /\ live' = TRUE /\ dead' \in BOOLEAN
  /\ lead' \in IF probeable THEN 1 .. MaxLead ELSE {0}
  /\ pongAge' = 0 /\ prober' = "selects" /\ pollLeft' = 0
  /\ tickGap' = 0 /\ due' = FALSE /\ woken' = FALSE /\ recent' = FALSE
  /\ echoes' = {} /\ heard' = FALSE
  /\ UNCHANGED <<probeable, probedAge>>

\* The session ends: by connCancel, or for another reason.
Killed == live' = FALSE /\ prober' = "gone"
SessionLost ==
  /\ live /\ Killed
  /\ UNCHANGED <<dead, lead, pongAge, probeable, pollLeft, probedAge, tickGap, due, woken, recent,
                 echoes, heard>>

RelayDies ==
  /\ live /\ ~dead
  /\ dead' = TRUE
  /\ UNCHANGED <<live, lead, pongAge, probeable, prober, pollLeft, probedAge, tickGap, due, woken,
                 recent, echoes, heard>>

\* A ping goes out; the server may echo it, and the pongs under way are now
\* those of older pings.
Outpaced(pongs) == IF pongs = {} THEN {} ELSE {"older"}
Pinged ==
  /\ lead' = Max({-1, lead - 1}) /\ heard' = FALSE
  /\ \/ ~dead /\ echoes' = Outpaced(echoes) \cup {"last"}
     \/ echoes' = Outpaced(echoes)

\* The tick: a late one starts the pong clock over, else a ping and, once any
\* pong has been seen, the verdict on their age.
BugZombie == FALSE  \* silence has no end
Zombie == probeable /\ pongAge > StaleAfter
Frozen == tickGap > FreezeGap
TickProbe ==
  /\ Selecting /\ due
  /\ due' = FALSE /\ tickGap' = 0
  /\ IF Frozen
     THEN pongAge' = 0 /\ UNCHANGED <<live, prober, lead, heard, echoes>>
     ELSE /\ Pinged
          /\ IF Zombie THEN Killed ELSE UNCHANGED <<live, prober>>
          /\ UNCHANGED pongAge
  /\ UNCHANGED <<dead, probeable, pollLeft, probedAge, woken, recent>>

\* A ping that cannot be written ends the prober, not the session.
PingFails ==
  /\ Selecting /\ due /\ ~Frozen
  /\ prober' = "gone" /\ due' = FALSE
  /\ UNCHANGED <<live, dead, lead, pongAge, probeable, pollLeft, probedAge, tickGap, woken, recent,
                 echoes, heard>>

\* broadcastWake: a prober that polls has missed it.
BroadcastWake ==
  /\ Selecting /\ ~woken
  /\ woken' = TRUE
  /\ UNCHANGED <<live, dead, lead, pongAge, probeable, prober, pollLeft, probedAge, tickGap, due,
                 recent, echoes, heard>>

\* The prober is woken: it pings out of turn, unless nobody has ever echoed, it
\* did so within a tick, or data has just passed.
ProbeOnWake ==
  /\ Selecting /\ woken
  /\ woken' = FALSE
  /\ IF probeable /\ probedAge >= 1 /\ ~recent
     THEN Pinged /\ prober' = "polls" /\ pollLeft' = 1 /\ probedAge' = 0
     ELSE UNCHANGED <<lead, heard, echoes, prober, pollLeft, probedAge>>
  /\ UNCHANGED <<live, dead, pongAge, probeable, tickGap, due, recent>>

\* Its polls compare the index's last pong with the ping sent; at the deadline
\* the connection is killed.
Echoed == lead >= 0
PollEchoed ==
  /\ Polling /\ pollLeft > 0 /\ Echoed
  /\ prober' = "selects" /\ tickGap' = 0
  /\ UNCHANGED <<live, dead, lead, pongAge, probeable, pollLeft, probedAge, due, woken, recent,
                 echoes, heard>>

PollGivesUp ==
  /\ Polling /\ pollLeft = 0
  /\ Killed
  /\ UNCHANGED <<dead, lead, pongAge, probeable, pollLeft, probedAge, tickGap, due, woken, recent,
                 echoes, heard>>

\* The reader takes a pong, in whatever order they come; or data.
PongArrives(pong) ==
  /\ live /\ pong \in echoes
  /\ lead' = IF pong = "last" THEN 0 ELSE -1
  /\ heard' = (heard \/ pong = "last")
  /\ echoes' = echoes \ {pong}
  /\ pongAge' = 0 /\ probeable' = TRUE
  /\ UNCHANGED <<live, dead, prober, pollLeft, probedAge, tickGap, due, woken, recent>>

DataArrives ==
  /\ live /\ ~dead /\ ~recent
  /\ recent' = TRUE
  /\ UNCHANGED <<live, dead, lead, pongAge, probeable, prober, pollLeft, probedAge, tickGap, due,
                 woken, echoes, heard>>

\* A tick's time passes while the process runs, so while nobody has a step to
\* make; or the process is suspended, for longer than any threshold.
PassProbe ==
  /\ Selecting => ~due /\ ~woken
  /\ Polling => pollLeft > 0 /\ ~Echoed
  /\ pongAge' = Grows(pongAge) /\ probedAge' = Grows(probedAge) /\ tickGap' = Grows(tickGap)
  /\ pollLeft' = Max({0, pollLeft - 1})
  /\ due' = live /\ recent' = FALSE
  /\ UNCHANGED <<live, dead, lead, probeable, prober, woken, echoes, heard>>

SuspendProbe ==
  /\ pongAge' = ProbeCap /\ probedAge' = ProbeCap /\ tickGap' = ProbeCap
  /\ pollLeft' = 0 /\ due' = live /\ recent' = FALSE
  /\ UNCHANGED <<live, dead, lead, probeable, prober, woken, echoes, heard>>

ProbeNext ==
  \/ SessionUp \/ SessionLost \/ RelayDies \/ DataArrives
  \/ TickProbe \/ PingFails \/ BroadcastWake \/ ProbeOnWake \/ PollEchoed \/ PollGivesUp
  \/ \E pong \in {"last", "older"} : PongArrives(pong)
  \/ PassProbe \/ SuspendProbe

\* The prober runs, its select picks among what is ready at random, and time
\* passes.
ProbeFairness ==
  /\ SF_probeVars(TickProbe) /\ WF_probeVars(ProbeOnWake)
  /\ WF_probeVars(PollEchoed) /\ WF_probeVars(PollGivesUp) /\ WF_probeVars(PassProbe)

ProbeSpec == ProbeInit /\ [][ProbeNext]_probeVars /\ ProbeFairness

-----------------------------------------------------------------------------
\* Types.
ProbeTypeOK ==
  /\ live \in BOOLEAN /\ dead \in BOOLEAN /\ probeable \in BOOLEAN /\ recent \in BOOLEAN
  /\ lead \in -1 .. MaxLead
  /\ {pongAge, probedAge, tickGap} \subseteq 0 .. ProbeCap
  /\ prober \in {"selects", "polls", "gone"} /\ (~live => prober = "gone")
  /\ pollLeft \in 0 .. 1 /\ echoes \subseteq {"last", "older"}

\* proxy.go, lastPongTimes: a session whose relay has died is killed in the
\* end, once the server is known to echo, however wakes and suspensions fell:
\* unless suspensions never end, or a ping that could not be written has ended
\* its prober.  (Wakes may go on for ever, time between them.)
DeadSessionKilled ==
  <>[][~SuspendProbe]_probeVars /\ []<><<PassProbe>>_probeVars =>
    (live /\ dead /\ probeable ~> ~live \/ prober = "gone")

-----------------------------------------------------------------------------
(* What the comments promise and the code does not keep *)

\* proxy.go:1420-1423: the probe a wake sends will "either confirm the data plane
\* is healthy within 5s or kill the conn": who is confirmed has answered it.
\* It fails: the number of the index's last pong outlives its session, and may be
\* ahead of what the next session, counting anew, has sent.
ConfirmedByEcho == [][PollEchoed => heard]_probeVars
=============================================================================
