------------------------------- MODULE MCCounts -------------------------------
(***************************************************************************)
(* The two places where much is counted by hand: the seats of the pool,    *)
(* and what csqtt's two ends number and hold.  They share no state; one    *)
(* instance checks them one at a time: `part` says which runs, the         *)
(* variables of the other keep their first values.                         *)
(***************************************************************************)
EXTENDS MCCredPool, CsqttStream

VARIABLE part

CountsInit ==
  /\ part \in {"seats", "stream"} /\ Init /\ StreamInit
  /\ part = "seats" => taken[<<1, CHOOSE f \in Flows : TRUE>>] = StartAt

CountsNext ==
  \/ part = "seats" /\ Next /\ UNCHANGED <<part, streamVars>>
  \/ part = "stream" /\ StreamNext /\ UNCHANGED <<part, vars>>

CountsSpec == CountsInit /\ [][CountsNext]_<<part, vars, streamVars>>

\* Types of the two.
CountsTypeOK == TypeOK /\ StreamTypeOK
=============================================================================
