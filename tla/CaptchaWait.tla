---------------------------- MODULE CaptchaWait ----------------------------
(***************************************************************************)
(* A captcha that stops the tunnel and the ways it starts again            *)
(* (pkg/proxy/proxy.go): the starter that publishes the captcha, the one   *)
(* goroutine that waits for its answer and asks VK now and then whether it *)
(* still wants one, the app's SolveCaptcha and RefreshCaptchaURL, Resume   *)
(* and ForceReconnect, which do nothing while a captcha is pending, and    *)
(* the watchdog.                                                           *)
(***************************************************************************)
EXTENDS Integers

CONSTANT MaxDue  \* bound: SolveCaptcha's checks outstanding, calls past their check

ASSUME CaptchaAssumption == MaxDue \in Nat \ {0}

VARIABLES
  pending,   \* captchaImageURL is set
  answered,  \* an answer lies in captchaCh
  waiter,    \* waitCaptchaAndRestart: none, or where it is; captchaWaiterActive with it
  viewing,   \* RefreshCaptchaURL less than ten minutes ago
  refresh,   \* a RefreshCaptchaURL under way
  passed,    \* callers of Resume and ForceReconnect past their check
  starter,   \* startConnections of the current session: none, runs
  orphans,   \* one of a cancelled session still runs
  up,        \* connections are active
  zero,      \* watchdog: none, since when no connection, five minutes
  checks     \* SolveCaptcha's, 15 s from now

captchaVars == <<pending, answered, waiter, viewing, refresh, passed, starter, orphans, up, zero,
                 checks>>

WaiterPlaces == {"none", "drains", "waits", "probes", "resumes", "restarts", "leaves"}

CaptchaInit ==
  /\ pending = FALSE /\ answered = FALSE /\ waiter = "none"
  /\ viewing = FALSE /\ refresh = FALSE
  /\ passed = 0 /\ starter = "runs" /\ orphans = FALSE
  /\ up = FALSE /\ zero = "none" /\ checks = 0

-----------------------------------------------------------------------------
\* startConnections.

\* The first connection is up and the others follow; or every attempt failed.
StarterUp ==
  /\ starter = "runs"
  /\ starter' = "none" /\ up' = TRUE
  /\ UNCHANGED <<pending, answered, waiter, viewing, refresh, passed, orphans, zero, checks>>

StarterGivesUp ==
  /\ starter = "runs"
  /\ starter' = "none"
  /\ UNCHANGED <<pending, answered, waiter, viewing, refresh, passed, orphans, up, zero, checks>>

\* VK wants a captcha: it is published, and a waiter started if there is none.
Hired == IF waiter = "none" THEN "drains" ELSE waiter
StarterNeedsCaptcha ==
  /\ \/ starter = "runs" /\ starter' = "none" /\ UNCHANGED orphans
     \/ orphans /\ orphans' = FALSE /\ UNCHANGED starter
  /\ pending' = TRUE /\ waiter' = Hired
  /\ UNCHANGED <<answered, viewing, refresh, passed, up, zero, checks>>

\* A starter of a cancelled session ends.
OrphanEnds ==
  /\ orphans
  /\ orphans' = FALSE
  /\ UNCHANGED <<pending, answered, waiter, viewing, refresh, passed, starter, up, zero, checks>>

\* The connections are lost.
TunnelLost ==
  /\ up
  /\ up' = FALSE
  /\ UNCHANGED <<pending, answered, waiter, viewing, refresh, passed, starter, orphans, zero,
                 checks>>

-----------------------------------------------------------------------------
\* waitCaptchaAndRestart.

WaiterDrains ==
  /\ waiter = "drains"
  /\ answered' = FALSE /\ waiter' = "waits"
  /\ UNCHANGED <<pending, viewing, refresh, passed, starter, orphans, up, zero, checks>>

WaiterAnswered ==
  /\ waiter = "waits" /\ answered
  /\ answered' = FALSE /\ pending' = FALSE /\ waiter' = "resumes"
  /\ UNCHANGED <<viewing, refresh, passed, starter, orphans, up, zero, checks>>

\* Two or ten minutes without an answer are over, and nobody looks at the
\* captcha.
MayProbe == ~viewing
WaiterProbes ==
  /\ waiter = "waits" /\ ~answered /\ MayProbe
  /\ waiter' = "probes"
  /\ UNCHANGED <<pending, answered, viewing, refresh, passed, starter, orphans, up, zero, checks>>

\* VK wants none any more, wants another one, or cannot be reached.
ProbeEnds ==
  /\ waiter = "probes"
  /\ \/ pending' = FALSE /\ waiter' = "resumes"
     \/ pending' = TRUE /\ waiter' = "waits"
     \/ waiter' = "waits" /\ UNCHANGED pending
  /\ UNCHANGED <<answered, viewing, refresh, passed, starter, orphans, up, zero, checks>>

\* Its Resume, then the flag.
WaiterResumes ==
  /\ waiter = "resumes"
  /\ waiter' = IF pending THEN "leaves" ELSE "restarts"
  /\ UNCHANGED <<pending, answered, viewing, refresh, passed, starter, orphans, up, zero, checks>>

NewSession == orphans' = (orphans \/ starter = "runs") /\ starter' = "runs" /\ up' = FALSE

WaiterRestarts ==
  /\ waiter = "restarts"
  /\ waiter' = "leaves" /\ NewSession
  /\ UNCHANGED <<pending, answered, viewing, refresh, passed, zero, checks>>

WaiterLeaves ==
  /\ waiter = "leaves"
  /\ waiter' = "none"
  /\ UNCHANGED <<pending, answered, viewing, refresh, passed, starter, orphans, up, zero, checks>>

-----------------------------------------------------------------------------
\* Resume and ForceReconnect past their check: the session is cancelled, a new
\* one started, whatever has been published since.
NewConnections ==
  /\ passed > 0
  /\ passed' = passed - 1 /\ NewSession
  /\ UNCHANGED <<pending, answered, waiter, viewing, refresh, zero, checks>>

\* The watchdog looks every 30 s, not while a captcha is pending: no
\* connection for five minutes is one reason to reconnect, a silent tunnel
\* another.
BugZeroAgain == "since"  \* the clock starts over at every look
ZeroAgain == IF zero = "none" THEN "since" ELSE "long"
WatchdogLooks ==
  /\ ~pending
  /\ passed = 0
  /\ CASE up -> zero' = "none" /\ passed' \in {passed, passed + 1}
       [] ~up /\ zero = "long" -> zero' = "none" /\ passed' = passed + 1
       [] OTHER -> zero' = ZeroAgain /\ UNCHANGED passed
  /\ UNCHANGED <<pending, answered, waiter, viewing, refresh, starter, orphans, up, checks>>

\* The app wakes: Resume.
AppResumes ==
  /\ ~pending /\ passed = 0
  /\ passed' = passed + 1
  /\ UNCHANGED <<pending, answered, waiter, viewing, refresh, starter, orphans, up, zero, checks>>

-----------------------------------------------------------------------------
\* The app.  SolveCaptcha clears the captcha, offers the answer to who waits
\* and looks again 15 s later.
BugSolved == pending  \* left to who takes the answer
Solved == FALSE
SolveCaptcha ==
  /\ checks < MaxDue
  /\ pending' = Solved
  /\ answered' = TRUE
  /\ checks' = checks + 1
  /\ UNCHANGED <<waiter, viewing, refresh, passed, starter, orphans, up, zero>>

SolveChecks ==
  /\ checks > 0 /\ passed < MaxDue
  /\ checks' = checks - 1
  /\ passed' = IF up \/ pending THEN passed ELSE passed + 1
  /\ UNCHANGED <<pending, answered, waiter, viewing, refresh, starter, orphans, up, zero>>

\* RefreshCaptchaURL asks VK, then publishes what it got, if anything.
RefreshAsks ==
  /\ ~refresh
  /\ refresh' = TRUE /\ viewing' = TRUE
  /\ UNCHANGED <<pending, answered, waiter, passed, starter, orphans, up, zero, checks>>

RefreshAnswers ==
  /\ refresh
  /\ refresh' = FALSE
  /\ pending' \in {pending, TRUE}
  /\ UNCHANGED <<answered, waiter, viewing, passed, starter, orphans, up, zero, checks>>

StopsViewing ==
  /\ viewing /\ ~refresh
  /\ viewing' = FALSE
  /\ UNCHANGED <<pending, answered, waiter, refresh, passed, starter, orphans, up, zero, checks>>

CaptchaStep ==
  \/ StarterUp \/ StarterGivesUp \/ StarterNeedsCaptcha \/ OrphanEnds
  \/ WaiterDrains \/ WaiterAnswered \/ WaiterProbes \/ ProbeEnds \/ WaiterResumes
  \/ WaiterRestarts \/ WaiterLeaves
  \/ NewConnections \/ WatchdogLooks \/ SolveChecks \/ RefreshAnswers \/ StopsViewing
CaptchaNext == CaptchaStep \/ TunnelLost \/ AppResumes \/ SolveCaptcha \/ RefreshAsks

\* Every goroutine goes on; VK answers or its calls time out.
CaptchaFairness ==
  /\ WF_captchaVars(StarterUp \/ StarterGivesUp \/ StarterNeedsCaptcha) /\ WF_captchaVars(OrphanEnds)
  /\ WF_captchaVars(WaiterDrains) /\ WF_captchaVars(WaiterAnswered)
  /\ WF_captchaVars(WaiterProbes) /\ WF_captchaVars(ProbeEnds)
  /\ WF_captchaVars(WaiterResumes) /\ WF_captchaVars(WaiterRestarts)
  /\ WF_captchaVars(WaiterLeaves)
  /\ WF_captchaVars(NewConnections) /\ WF_captchaVars(WatchdogLooks)
  /\ WF_captchaVars(SolveChecks) /\ WF_captchaVars(RefreshAnswers)

CaptchaSpec == CaptchaInit /\ [][CaptchaNext]_captchaVars /\ CaptchaFairness

-----------------------------------------------------------------------------
\* Types; one waiter at most, the flag with it.
CaptchaTypeOK ==
  /\ {pending, answered, viewing, refresh, orphans, up} \subseteq BOOLEAN
  /\ waiter \in WaiterPlaces /\ starter \in {"none", "runs"}
  /\ passed \in 0 .. MaxDue /\ checks \in 0 .. MaxDue /\ zero \in {"none", "since", "long"}

\* proxy.go, SolveCaptcha: "this guarantees fresh connections are started": if
\* the user answers whenever a captcha is pending for good, the tunnel never
\* stays down with nobody trying, whoever took the answer, whatever was
\* published late; as long as RefreshCaptchaURL is not called for ever.
TunnelTriesAgain ==
  /\ <>[]~refresh
  /\ <>[]pending => []<><<SolveCaptcha>>_captchaVars
  => []<>(starter = "runs" \/ up)

-----------------------------------------------------------------------------
(* What the comments promise and the code does not keep *)

\* proxy.go:1284-1286, Resume: while a captcha is pending "there's already a
\* waitCaptchaAndRestart goroutine that will handle it".
\* It fails: RefreshCaptchaURL publishes also when the waiter has gone.
PendingIsWaitedFor == pending => waiter # "none"
=============================================================================
