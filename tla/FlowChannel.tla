----------------------------- MODULE FlowChannel -----------------------------
(***************************************************************************)
(* What CQF1 framing promises for one flow of one sender: its packets come *)
(* out in the order they went in, each at most once.  Packets may be lost. *)
(* The promise may be forgotten only when more flows than MaxTracked have  *)
(* been in use, for then the receiver's table has been dropped.            *)
(***************************************************************************)
EXTENDS Integers, Sequences, FiniteSets

CONSTANTS Keys,        \* a key is one flow of one sender
          MaxTracked   \* flows the receiver keeps apart

VARIABLES taken,       \* how many packets of a key were numbered
          out          \* indices handed out, in the order they came

channelVars == <<taken, out>>

\* A flow in use before has handed out its newest packet.
ChannelInit ==
  /\ taken \in [Keys -> Nat]
  /\ out = [k \in Keys |-> IF taken[k] = 0 THEN << >> ELSE <<taken[k] - 1>>]

Take(k) ==
  /\ taken' = [taken EXCEPT ![k] = @ + 1]
  /\ UNCHANGED out

Increasing(s) == \A i, j \in DOMAIN s : i < j => s[i] < s[j]

\* Some packets of key k come out, newer and newer, none that was not taken.
HandOut(k) ==
  /\ Len(out'[k]) >= Len(out[k])
  /\ SubSeq(out'[k], 1, Len(out[k])) = out[k]
  /\ Increasing(out'[k])
  /\ \A i \in DOMAIN out'[k] : out'[k][i] < taken[k]
  /\ \A j \in Keys \ {k} : out'[j] = out[j]
  /\ UNCHANGED taken

Used == {k \in Keys : taken[k] > 0}

\* The table is dropped on the arrival of a packet of key k, which may come
\* out in the same step.
Forget(k) ==
  /\ Cardinality(Used) > MaxTracked
  /\ out'[k] = << >> \/ \E n \in 0 .. taken[k] - 1 : out'[k] = <<n>>
  /\ \A j \in Keys \ {k} : out'[j] = << >>
  /\ UNCHANGED taken

ChannelNext == \E k \in Keys : Take(k) \/ HandOut(k) \/ Forget(k)

ChannelSpec == ChannelInit /\ [][ChannelNext]_channelVars
=============================================================================
