----------------------------- MODULE MCProgress -----------------------------
(***************************************************************************)
(* Six machines that share no state: the csqtt verdict on silence, the     *)
(* probe of a TURN session, the wait for a captcha, a mint, and the        *)
(* handles of the two bridges.  One instance checks them one at a time:    *)
(* `part` says which runs, the variables of the others keep their first    *)
(* values.                                                                 *)
(***************************************************************************)
EXTENDS CsqttLiveness, ConnProbe, CaptchaWait, Minting, WgBridge, CsqttBridge

VARIABLE part

Only(p) ==
  /\ part = p /\ UNCHANGED part
  /\ IF p = "liveness" THEN TRUE ELSE UNCHANGED livenessVars
  /\ IF p = "probe" THEN TRUE ELSE UNCHANGED probeVars
  /\ IF p = "captcha" THEN TRUE ELSE UNCHANGED captchaVars
  /\ IF p = "mint" THEN TRUE ELSE UNCHANGED mintVars
  /\ IF p = "wg" THEN TRUE ELSE UNCHANGED bridgeVars
  /\ IF p = "csqtt" THEN TRUE ELSE UNCHANGED csqttVars

ProgressInit ==
  /\ part \in {"liveness", "probe", "captcha", "mint", "wg", "csqtt"}
  /\ part = "mint" \/ stored = {}
  /\ LivenessInit /\ ProbeInit /\ CaptchaInit /\ MintInit /\ BridgeInit /\ CsqttInit

ProgressNext ==
  \/ Only("liveness") /\ LivenessNext
  \/ Only("probe") /\ ProbeNext
  \/ Only("captcha") /\ CaptchaNext
  \/ Only("mint") /\ MintNext
  \/ Only("wg") /\ BridgeNext
  \/ Only("csqtt") /\ CsqttNext

\* Each machine's own fairness, in the instance it runs in.
ProgressFairness ==
  /\ WF_livenessVars(part = "liveness" /\ LivenessRuns)
  /\ SF_probeVars(part = "probe" /\ TickProbe)
  /\ WF_probeVars(part = "probe" /\ ProbeOnWake)
  /\ WF_probeVars(part = "probe" /\ PollEchoed)
  /\ WF_probeVars(part = "probe" /\ PollGivesUp)
  /\ WF_probeVars(part = "probe" /\ PassProbe)
  /\ WF_captchaVars(part = "captcha" /\ (StarterUp \/ StarterGivesUp \/ StarterNeedsCaptcha))
  /\ WF_captchaVars(part = "captcha" /\ OrphanEnds)
  /\ WF_captchaVars(part = "captcha" /\ WaiterDrains)
  /\ WF_captchaVars(part = "captcha" /\ WaiterAnswered)
  /\ WF_captchaVars(part = "captcha" /\ WaiterProbes)
  /\ WF_captchaVars(part = "captcha" /\ ProbeEnds)
  /\ WF_captchaVars(part = "captcha" /\ WaiterResumes)
  /\ WF_captchaVars(part = "captcha" /\ WaiterRestarts)
  /\ WF_captchaVars(part = "captcha" /\ WaiterLeaves)
  /\ WF_captchaVars(part = "captcha" /\ NewConnections)
  /\ WF_captchaVars(part = "captcha" /\ WatchdogLooks)
  /\ WF_captchaVars(part = "captcha" /\ SolveChecks)
  /\ WF_captchaVars(part = "captcha" /\ RefreshAnswers)
  /\ WF_mintVars(part = "mint" /\ MintStep)
  /\ \A a \in Attaches : /\ WF_bridgeVars(part = "wg" /\ attach[a] # "lookup" /\ AttachSteps(a))
                         /\ WF_bridgeVars(part = "wg" /\ ReceiveEnds(a))
  /\ \A o \in Stops : WF_bridgeVars(part = "wg" /\ StopSteps(o))
  /\ WF_csqttVars(part = "csqtt" /\ Starting) /\ WF_csqttVars(part = "csqtt" /\ Stopping)
  /\ \A a \in Joiners : WF_csqttVars(part = "csqtt" /\ joining[a] # "lookup" /\ Attaching(a))
  /\ \A p \in Pumps : WF_csqttVars(part = "csqtt" /\ PumpEnds(p))

ProgressSpec ==
  /\ ProgressInit
  /\ [][ProgressNext]_<<part, livenessVars, probeVars, captchaVars, mintVars, bridgeVars,
                        csqttVars>>
  /\ ProgressFairness

\* Types of the six.
PartsTypeOK == /\ LivenessTypeOK /\ ProbeTypeOK /\ CaptchaTypeOK /\ MintTypeOK
               /\ BridgeTypeOK /\ CsqttBridgeTypeOK

\* Nothing a handle owns is left over or closed twice, in either bridge, and
\* its waiters hear what happened.
HandlesOwned == DeviceOwned /\ ClientClosedOnce /\ TunClosed /\ OutcomeShared

\* Handles have owners, and a captcha handed on is unused.
NothingMisused == HandlesOwned /\ CallerGetsUntouched

\* Attempts are skipped on VK's word, clocks are started over on a suspension.
StepsJustified == SkippedOnVKsWord /\ ResetOnlyAfterSleep

\* The silent csqtt worker and the dead TURN session are both given up.
DeadOnesKilled == /\ part = "liveness" => SilentOneGivenUp
                  /\ part = "probe" => DeadSessionKilled

\* Either bridge's stop ends with everything of the handle released.
StopsReleaseAll ==
  \/ part = "wg" /\ StopBegun
  \/ part = "csqtt" /\ TurnOffBegun
  ~> (part = "wg" /\ StopOver) \/ (part = "csqtt" /\ TurnOffOver)
=============================================================================
