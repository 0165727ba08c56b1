------------------------------- MODULE Minting -------------------------------
(***************************************************************************)
(* One mint of TURN credentials on the anonymous path (pkg/proxy:          *)
(* fetchFreshCreds, GetVKCreds, getVKCredsWithClientID, solveCaptchaPoW):  *)
(* the stored captcha answer it takes, the captcha-free path, the waves    *)
(* over the client ids, and per client id the request for a token with its *)
(* captchas and the solver's attempts.  Other mints run beside it; they    *)
(* meet it only at the stored answer.                                      *)
(*                                                                         *)
(* VK's answers are choices, constrained by nothing but that a call that   *)
(* is gone stays gone.                                                     *)
(***************************************************************************)
EXTENDS Integers, SequencesExt

CONSTANTS
  Clients,    \* client ids in vkCredentialsList; they are shuffled, nothing tells them apart
  StepTries,  \* requests for a token per client id
  PowTries,   \* maxPoWRetries
  Waves       \* maxNetworkRetries

ASSUME MintAssumption ==
  {Clients, StepTries, PowTries, Waves} \subseteq Nat \ {0}

VARIABLES
  step,     \* where the mint is
  stored,   \* what lastCaptcha* hold
  loaded,   \* the part just loaded and not cleared yet
  taken,    \* the parts this mint has
  left,     \* how many client ids the wave has not tried
  wave, allTransient,
  attempt,  \* of the request for a token
  token,    \* token2
  captcha,  \* the one it holds: none, untouched, touched by the solver
  powTry, emptyShow,
  ended,    \* what the caller gets
  gone,     \* the call is over (history: told, the mint has been told)
  told,
  shows,    \* what VK said of its challenge at the last attempts (history)
  refused   \* the last request brought no captcha (history)

stepVars == <<stored, loaded, taken>>
waveVars == <<left, wave, allTransient>>
askVars == <<attempt, token>>
powVars == <<captcha, powTry, emptyShow, shows>>
mintVars == <<step, stepVars, waveVars, askVars, powVars, ended, gone, told, refused>>

Parts == {"sid", "key", "token1"}
Next3 == [sid |-> "key", key |-> "token1"]
MintSteps == {"sid", "key", "token1", "free", "client", "step1", "step2", "pow", "fresh", "untouched",
              "join", "done"}
Replies == {"ok", "captcha", "gone", "transient", "bad"}

MintInit ==
  /\ step = "sid" /\ stored \in {{}, {"token1"}, {"sid", "token1"}} /\ loaded = "none" /\ taken = {}
  /\ left = Clients /\ wave = 1 /\ allTransient = TRUE
  /\ attempt = 1 /\ token = FALSE
  /\ captcha = "none" /\ powTry = 1 /\ emptyShow = 0 /\ shows = << >>
  /\ ended = "no" /\ gone = FALSE /\ told = FALSE /\ refused = FALSE

-----------------------------------------------------------------------------
\* The call may end at any time; the app answers a captcha; another mint takes
\* what is stored.
CallEnds == ~gone /\ gone' = TRUE /\ UNCHANGED <<step, stepVars, waveVars, askVars, powVars, ended,
                                                told, refused>>
Answered ==
  /\ "key" \notin stored
  /\ stored' = stored \cup {"key"}
  /\ UNCHANGED <<step, loaded, taken, waveVars, askVars, powVars, ended, gone, told, refused>>
OtherMintTakes(part) ==
  /\ part \in stored
  /\ stored' = stored \ {part}
  /\ UNCHANGED <<step, loaded, taken, waveVars, askVars, powVars, ended, gone, told, refused>>

\* fetchFreshCreds: each part is loaded, and cleared in a second step.
LoadPart ==
  /\ step \in Parts /\ loaded = "none"
  /\ loaded' = IF step \in stored THEN step ELSE "nothing"
  /\ UNCHANGED <<step, stored, taken, waveVars, askVars, powVars, ended, gone, told, refused>>
ClearPart ==
  /\ step \in Parts /\ loaded # "none"
  /\ loaded' = "none"
  /\ stored' = stored \ {loaded} /\ taken' = taken \cup ({loaded} \cap Parts)
  /\ step' = CASE step # "token1" -> Next3[step]
               [] {"sid", "token1"} \cap taken' = {} /\ step = "token1" -> "free"
               [] OTHER -> "client"
  /\ UNCHANGED <<waveVars, askVars, powVars, ended, gone, told, refused>>

-----------------------------------------------------------------------------
Says(reply) == (reply = "gone") => gone
Ends(how) == step' = "done" /\ ended' = how

\* getVKCredsViaVKCallsPath: whatever else it says, the legacy path is tried
\* unless the call is gone.
FreePath ==
  /\ step = "free"
  /\ \E reply \in Replies :
       /\ Says(reply)
       /\ told' = (reply = "gone")
       /\ CASE reply = "ok" -> Ends("creds")
            [] reply = "gone" -> Ends("gone")
            [] OTHER -> step' = "client" /\ UNCHANGED ended
  /\ UNCHANGED <<stepVars, waveVars, askVars, powVars, gone, refused>>

\* The next client id of the wave.
TryClient ==
  /\ step = "client"
  /\ left > 0 /\ left' = left - 1
  /\ step' = IF "token1" \in taken THEN "step2" ELSE "step1"
  /\ attempt' = 1 /\ token' = FALSE
  /\ UNCHANGED <<stepVars, wave, allTransient, powVars, ended, gone, told, refused>>

\* A client id failed: the next one, or the next wave if the whole wave failed
\* on the network, or the end.
BugMoreWaves(transient) == left = 0 /\ allTransient /\ transient  \* waves without end
MoreWaves(transient) == left = 0 /\ allTransient /\ transient /\ wave < Waves
ClientFails(transient) ==
  /\ CASE left > 0 -> /\ step' = "client" /\ allTransient' = (allTransient /\ transient)
                       /\ UNCHANGED <<ended, left, wave>>
       [] MoreWaves(transient) -> /\ step' = "client" /\ left' = Clients /\ wave' = wave + 1
                                  /\ allTransient' = TRUE /\ UNCHANGED ended
       [] OTHER -> Ends("failed") /\ UNCHANGED waveVars

\* Step 1, the token the captcha is tied to; a preview whose answer is ignored.
GetToken1 ==
  /\ step = "step1"
  /\ \/ step' = "step2" /\ UNCHANGED <<waveVars, ended>>
     \/ \E transient \in BOOLEAN : ClientFails(transient)
  /\ UNCHANGED <<stepVars, askVars, powVars, gone, told, refused>>

\* Step 2.  When its tries are used up a token got on the way still serves.
BugNextTry == 1
NextTry == attempt + 1
AskToken ==
  /\ step = "step2" /\ attempt <= StepTries
  /\ \E reply \in Replies :
       /\ Says(reply)
       /\ told' = (reply = "gone")
       /\ CASE reply = "ok" -> /\ step' = "join" /\ token' = TRUE
                               /\ UNCHANGED <<ended, waveVars, powVars>>
            [] reply = "captcha" -> /\ step' = "pow" /\ captcha' = "untouched"
                                    /\ powTry' = 1 /\ emptyShow' = 0 /\ shows' = << >>
                                    /\ UNCHANGED <<ended, token, waveVars>>
            [] reply = "gone" -> Ends("gone") /\ UNCHANGED <<token, waveVars, powVars>>
            [] reply \in {"transient", "bad"} -> /\ ClientFails(reply = "transient")
                                                 /\ UNCHANGED <<token, powVars>>
  /\ UNCHANGED <<stepVars, attempt, gone, refused>>
TriesUsedUp ==
  /\ step = "step2" /\ attempt > StepTries
  /\ IF token THEN step' = "join" /\ UNCHANGED <<waveVars, ended>> ELSE ClientFails(FALSE)
  /\ UNCHANGED <<stepVars, askVars, powVars, gone, told, refused>>

-----------------------------------------------------------------------------
\* solveCaptchaPoW, and what its failure says about VK.
PowSolves ==
  /\ step = "pow"
  /\ step' = "step2" /\ attempt' = NextTry /\ captcha' = "touched"
  /\ UNCHANGED <<stepVars, waveVars, token, powTry, emptyShow, shows, ended, gone, told, refused>>

BugNextEmptyShow(reached, show) == IF show THEN 0 ELSE emptyShow + 1
NextEmptyShow(reached, show) ==
  CASE show -> 0
    [] ~show /\ ~reached -> emptyShow
    [] ~show /\ reached -> emptyShow + 1
Skips(empty) == empty >= 2
PowFails ==
  /\ step = "pow"
  /\ \E reached, show \in BOOLEAN :
       /\ emptyShow' = NextEmptyShow(reached, show)
       /\ shows' = IF reached \/ show THEN Append(shows, show) ELSE shows
       /\ step' = IF powTry < PowTries /\ ~Skips(emptyShow') THEN "fresh" ELSE "untouched"
  /\ captcha' = "touched"
  /\ UNCHANGED <<stepVars, waveVars, askVars, powTry, ended, gone, told, refused>>

\* Another captcha for the next attempt; or, unasked, the token.
FreshCaptcha ==
  /\ step = "fresh"
  /\ \E reply \in Replies :
       /\ Says(reply)
       /\ told' = (told \/ reply = "gone")
       /\ CASE reply = "captcha" -> /\ step' = "pow" /\ captcha' = "untouched"
                                    /\ powTry' = powTry + 1
                                    /\ UNCHANGED askVars
            [] reply = "ok" -> /\ step' = "step2" /\ token' = TRUE /\ attempt' = NextTry
                               /\ UNCHANGED <<captcha, powTry>>
            [] OTHER -> /\ step' = "untouched" /\ token' = (token /\ reply = "transient")
                        /\ UNCHANGED <<attempt, captcha, powTry>>
  /\ UNCHANGED <<stepVars, waveVars, emptyShow, shows, ended, gone, refused>>

\* The caller is to get a captcha the solver has not used up.
BugForCaller(reply) == captcha
ForCaller(reply) == IF reply = "captcha" THEN "untouched" ELSE captcha
UntouchedCaptcha ==
  /\ step = "untouched"
  /\ \E reply \in Replies :
       /\ Says(reply)
       /\ told' = (told \/ reply = "gone")
       /\ captcha' = ForCaller(reply) /\ refused' = (reply # "captcha")
       /\ Ends("captcha")
  /\ UNCHANGED <<stepVars, waveVars, askVars, powTry, emptyShow, shows, gone>>

\* Steps 3 and 4: login and join.
Join ==
  /\ step = "join"
  /\ \/ Ends("creds") /\ UNCHANGED waveVars
     \/ \E transient \in BOOLEAN : ClientFails(transient)
  /\ UNCHANGED <<stepVars, askVars, powVars, gone, told, refused>>

MintStep ==
  \/ LoadPart \/ ClearPart \/ FreePath \/ TryClient \/ GetToken1 \/ AskToken \/ TriesUsedUp
  \/ PowSolves \/ PowFails \/ FreshCaptcha \/ UntouchedCaptcha \/ Join
MintNext == MintStep \/ CallEnds \/ Answered \/ \E part \in Parts : OtherMintTakes(part)

\* The mint goes on: VK answers or its requests time out.
MintFairness == WF_mintVars(MintStep)

MintSpec == MintInit /\ [][MintNext]_mintVars /\ MintFairness

-----------------------------------------------------------------------------
\* Types; the counters stay within their limits.
MintTypeOK ==
  /\ step \in MintSteps /\ stored \subseteq Parts /\ taken \subseteq Parts
  /\ loaded \in Parts \cup {"none", "nothing"}
  /\ left \in 0 .. Clients /\ wave \in 1 .. Waves /\ attempt \in 1 .. StepTries + 1
  /\ captcha \in {"none", "untouched", "touched"}
  /\ powTry \in 1 .. PowTries /\ emptyShow \in 0 .. PowTries
  /\ ended \in {"no", "creds", "gone", "failed", "captcha"} /\ (ended = "no" <=> step # "done")

\* Every fetch that has begun ends, though VK asks for a captcha at every turn, tokens come
\* between and the network comes and goes.
MintEnds == step # "sid" ~> step = "done"

\* creds.go, nextEmptyShowHint: the remaining attempts are skipped only on VK's
\* word: it answered two attempts in a row, and named no challenge in either.
SkippedOnVKsWord ==
  [][PowFails /\ powTry < PowTries /\ step' = "untouched" =>
       \E n \in 2 .. Len(shows') : n = Len(shows') /\ ~shows'[n] /\ ~shows'[n - 1]]_mintVars

\* creds.go: the captcha the caller gets is not one the solver has burned, as
\* long as VK still gives one.
CallerGetsUntouched == ended = "captcha" /\ captcha = "touched" => refused

-----------------------------------------------------------------------------
(* What the comments promise and the code does not keep *)

\* creds.go: on a fatal call error "return immediately with the VK message": a
\* mint that VK has told that the call is gone ends with that message.
\* It fails: said in answer to the request for a fresh captcha
\* (creds.go:638-648) it is dropped, and the mint ends with the captcha.
GoneEndsIt == told /\ step = "done" => ended = "gone"
=============================================================================
