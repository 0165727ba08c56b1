------------------------------- MODULE MCParts -------------------------------
(***************************************************************************)
(* Eight parts of the packet and session layer that share no state: the      *)
(* pacer, the reorder instrument, the relays of a logged-in session, the   *)
(* path-event classes, the packet buffers, the sessions of a connection.   *)
(* One instance checks them one at a time: `part` says which runs, the     *)
(* variables of the others keep their first values.                        *)
(***************************************************************************)
EXTENDS UplinkPace, RxReorder, CookieRelays, PathCascade, PacketPath, TransportSessions,
        SrtpWrap, SrtpDeadline

VARIABLE part

Only(p) ==
  /\ part = p /\ UNCHANGED part
  /\ IF p = "pace" THEN TRUE ELSE UNCHANGED paceVars
  /\ IF p = "reorder" THEN TRUE ELSE UNCHANGED rxVars
  /\ IF p = "cookie" THEN TRUE ELSE UNCHANGED cookieVars
  /\ IF p = "cascade" THEN TRUE ELSE UNCHANGED cascadeVars
  /\ IF p = "packets" THEN TRUE ELSE UNCHANGED packetVars
  /\ IF p = "sessions" THEN TRUE ELSE UNCHANGED transportVars
  /\ IF p = "srtp" THEN TRUE ELSE UNCHANGED wrapVars
  /\ IF p = "deadline" THEN TRUE ELSE UNCHANGED deadlineVars

\* Where a part has several initial states, the other parts see one of them.
PartsInit ==
  /\ part \in {"pace", "reorder", "cookie", "cascade", "packets", "sessions", "srtp", "deadline"}
  /\ PaceInit /\ RxInit /\ CookieInit /\ CascadeInit /\ PacketInit /\ TransportInit
  /\ WrapInit /\ DlInit
  /\ part = "cookie" \/ serves = CHOOSE s \in ServesAll : TRUE
  /\ part = "cascade" \/ (seat.idle = Never /\ seat.loading = 0)
  /\ part = "sessions" \/ kind = "srtp"
  /\ part = "deadline" \/ style = "wrapped"

PartsNext ==
  \/ Only("pace") /\ PaceNext
  \/ Only("reorder") /\ RxNext
  \/ Only("cookie") /\ CookieNext
  \/ Only("cascade") /\ CascadeNext
  \/ Only("packets") /\ PacketNext
  \/ Only("sessions") /\ TransportNext
  \/ Only("srtp") /\ WrapNext
  \/ Only("deadline") /\ DlNext

\* The sessions and the SRTP connection are asked to get somewhere: their
\* goroutines run on, a read of a closed connection sees that it is closed.
PartsFairness ==
  /\ \A n \in Sessions : WF_transportVars(part = "sessions" /\ RelaySteps(n))
  /\ WF_transportVars(part = "sessions" /\ SessionSteps)
  /\ WF_wrapVars(part = "srtp" /\ (DemuxPuts \/ DemuxEnds))
  /\ WF_wrapVars(part = "srtp" /\ WakeRelay)
  /\ WF_wrapVars(part = "srtp" /\ CloseStep)
  /\ WF_wrapVars(part = "srtp" /\ (Delivered \/ (closing > 0 /\ ReadEnds)))
  /\ WF_wrapVars(part = "srtp" /\ (WriteOver \/ WriterCancelled))

PartsSpec ==
  /\ PartsInit
  /\ [][PartsNext]_<<part, paceVars, rxVars, cookieVars, cascadeVars, packetVars, transportVars,
                    wrapVars, deadlineVars>>
  /\ PartsFairness

\* Types of the eight.
UnitsTypeOK == /\ PaceTypeOK /\ RxTypeOK /\ CookieTypeOK /\ CascadeTypeOK /\ PacketTypeOK
               /\ TransportTypeOK /\ WrapTypeOK /\ DlTypeOK

\* What the instruments and the pacer count is what was there.
CountsTrue == RateKept /\ ToggleLands /\ CalledWhatItIs /\ PercentilesExact

\* No relay for two slots, no buffer for two owners.
OwnedOnce == SlotsApart /\ BuffersIntact /\ WrapOwned

\* Pauses and deadlines fit what they were made for.
TimersFit == PauseFits /\ ReadDeadlineHolds

\* What was cancelled or closed ends.
CancelledEnds == /\ part = "sessions" => CancelledRelayEnds
                 /\ part = "srtp" => SrtpCloseEnds
=============================================================================
