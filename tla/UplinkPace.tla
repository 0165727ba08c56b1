----------------------------- MODULE UplinkPace -----------------------------
(***************************************************************************)
(* The uplink pacer (pkg/proxy/uplinkpace.go): a token bucket per          *)
(* connection, charged for a packet of the largest size before the writer  *)
(* takes one from the queue and credited with the rest once its size is    *)
(* known, and a setter that changes the rate under running writers and     *)
(* prints the verdict of the generation it ended.                          *)
(*                                                                         *)
(* Time is in slices of the writer's sleep, costs in tokens.  Buckets are  *)
(* credited slice by slice here and at the next take in the code: the      *)
(* burst caps both sums at the same value.  The sleep that the end of the  *)
(* tunnel cuts short is left out.                                          *)
(***************************************************************************)
EXTENDS Integers, FiniteSetsExt

CONSTANTS
  Writers,      \* one per connection index
  MaxCost,      \* paceMaxCost
  Costs,        \* what a packet can cost, at most MaxCost
  Burst, Rate,  \* of a pacer that is on, per slice
  MaxChanges,   \* bound: calls of SetUplinkPace
  Horizon       \* bound: slices

ASSUME PaceAssumption ==
  /\ IsFiniteSet(Writers)
  /\ Burst \in Nat \ {0} /\ Rate \in Nat \ {0} /\ MaxCost \in Nat
  /\ Costs \subseteq 1 .. MaxCost /\ Costs # {}
  /\ MaxChanges \in Nat /\ Horizon \in Nat

VARIABLES
  paceCur,     \* the current state: its generation, on or off
  paceOn,      \* per generation: whether it paces
  buckets,     \* per writer: [gen, tokens], gen 0 for none
  writers,     \* per writer: [at, gen, left], its place and its ticket
  setter,      \* generation the setter is about to report, 0 for none
  inflight,    \* per generation: writers asleep
  waited, filed, \* per generation: sleeps counted, sleeps whose time is filed
  verdict,     \* per generation: what was printed, when drained
  sent,        \* per writer: cost of what its bucket let through (history)
  age,         \* per writer: slices since its bucket was built (history)
  idle,        \* per writer: slices slept since the pacer was turned off (history)
  clock

paceVars == <<paceCur, paceOn, buckets, writers, setter, inflight, waited, filed, verdict,
              sent, age, idle, clock>>

Gens == 1 .. MaxChanges + 1
NoBucket == [gen |-> 0, tokens |-> 0]
NoTicket == [at |-> "free", gen |-> 0, left |-> 0]
NoVerdict == [waited |-> 0, filed |-> 0, drained |-> FALSE]
PerGen(value) == [g \in Gens |-> value]
Cap(tokens) == Min({Burst, tokens})

PaceInit ==
  /\ paceCur = 1 /\ paceOn = PerGen(FALSE)
  /\ buckets = [w \in Writers |-> NoBucket]
  /\ writers = [w \in Writers |-> NoTicket]
  /\ setter = 0
  /\ inflight = PerGen(0) /\ waited = PerGen(0) /\ filed = PerGen(0)
  /\ verdict = PerGen(NoVerdict)
  /\ sent = [w \in Writers |-> 0] /\ age = [w \in Writers |-> 0] /\ idle = [w \in Writers |-> 0]
  /\ clock = 0

accounts == <<inflight, waited, filed>>
setting == <<paceCur, paceOn, setter, verdict>>
At(w, place) == writers[w].at = place

-----------------------------------------------------------------------------
\* paceReserve.

\* The state is loaded once; an unpaced writer goes to the queue at once.
LoadState(w) ==
  /\ At(w, "free")
  /\ writers' = [writers EXCEPT ![w] = IF paceOn[paceCur]
                                       THEN [at |-> "loaded", gen |-> paceCur, left |-> 0]
                                       ELSE [at |-> "granted", gen |-> 0, left |-> 0]]
  /\ UNCHANGED <<setting, buckets, accounts, sent, age, idle, clock>>

\* A bucket of another generation is replaced; the largest packet is charged,
\* and a debt is slept off.
Bucket(w) ==
  IF buckets[w].gen = writers[w].gen THEN buckets[w]
  ELSE [gen |-> writers[w].gen, tokens |-> Burst]
Fresh(w) == buckets[w].gen # writers[w].gen
BugDebt(tokens) == 0  \* an overdraft does not delay the writer
Debt(tokens) == IF tokens >= 0 THEN 0 ELSE (Rate - 1 - tokens) \div Rate
TakeTokens(w) ==
  /\ At(w, "loaded")
  /\ LET tokens == Bucket(w).tokens - MaxCost
     IN  /\ buckets' = [buckets EXCEPT ![w] = [gen |-> writers[w].gen, tokens |-> tokens]]
         /\ writers' = [writers EXCEPT ![w].at = IF Debt(tokens) = 0 THEN "granted" ELSE "waits",
                                       ![w].left = Debt(tokens)]
  /\ sent' = [sent EXCEPT ![w] = IF Fresh(w) THEN 0 ELSE @]
  /\ age' = [age EXCEPT ![w] = IF Fresh(w) THEN 0 ELSE @]
  /\ UNCHANGED <<setting, accounts, idle, clock>>

CountWait(w) ==
  /\ At(w, "waits")
  /\ waited' = [waited EXCEPT ![writers[w].gen] = @ + 1]
  /\ writers' = [writers EXCEPT ![w].at = "counted"]
  /\ UNCHANGED <<setting, buckets, inflight, filed, sent, age, idle, clock>>

FallAsleep(w) ==
  /\ At(w, "counted")
  /\ inflight' = [inflight EXCEPT ![writers[w].gen] = @ + 1]
  /\ writers' = [writers EXCEPT ![w].at = "asleep"]
  /\ idle' = [idle EXCEPT ![w] = 0]
  /\ UNCHANGED <<setting, buckets, waited, filed, sent, age, clock>>

\* After the last slice, the time is filed, then the sleep is over.
FileWait(w) ==
  /\ At(w, "asleep") /\ writers[w].left = 0
  /\ filed' = [filed EXCEPT ![writers[w].gen] = @ + 1]
  /\ writers' = [writers EXCEPT ![w].at = "filed"]
  /\ UNCHANGED <<setting, buckets, inflight, waited, sent, age, idle, clock>>

WakeUp(w) ==
  /\ At(w, "filed")
  /\ inflight' = [inflight EXCEPT ![writers[w].gen] = @ - 1]
  /\ writers' = [writers EXCEPT ![w].at = "granted"]
  /\ UNCHANGED <<setting, buckets, waited, filed, sent, age, idle, clock>>

\* One slice passes for all; a sleeper that finds the pacer off has done.
BugStillOwed(w) == writers[w].left - 1  \* a sleep is finished whatever happens
StillOwed(w) == IF paceOn[paceCur] THEN writers[w].left - 1 ELSE 0
Asleep(w) == At(w, "asleep") /\ writers[w].left > 0
Slice ==
  /\ clock < Horizon
  /\ clock' = clock + 1
  /\ buckets' = [w \in Writers |-> [buckets[w] EXCEPT !.tokens = Cap(@ + Rate)]]
  /\ writers' = [w \in Writers |-> IF Asleep(w) THEN [writers[w] EXCEPT !.left = StillOwed(w)]
                                   ELSE writers[w]]
  /\ age' = [w \in Writers |-> age[w] + 1]
  /\ idle' = [w \in Writers |-> IF Asleep(w) /\ ~paceOn[paceCur] THEN idle[w] + 1 ELSE idle[w]]
  /\ UNCHANGED <<setting, accounts, sent>>

-----------------------------------------------------------------------------
\* paceSettle, when the queue gives a packet; what was reserved in excess goes
\* to the bucket the connection has by then.
BugExcess(cost) == MaxCost
Excess(cost) == MaxCost - cost
Settle(w) ==
  /\ At(w, "granted")
  /\ writers' = [writers EXCEPT ![w] = NoTicket]
  /\ IF writers[w].gen = 0 THEN UNCHANGED <<buckets, sent>>
     ELSE \E cost \in Costs :
            /\ buckets' = [buckets EXCEPT ![w].tokens =
                             IF buckets[w].gen = 0 THEN @ ELSE Cap(@ + Excess(cost))]
            /\ sent' = [sent EXCEPT ![w] = @ + cost]
  /\ UNCHANGED <<setting, accounts, age, idle, clock>>

\* PaceResetConn, between two sessions of the connection, so between writers.
PaceResetConn(w) ==
  /\ At(w, "free")
  /\ buckets' = [buckets EXCEPT ![w] = NoBucket]
  /\ sent' = [sent EXCEPT ![w] = 0] /\ age' = [age EXCEPT ![w] = 0]
  /\ UNCHANGED <<setting, writers, accounts, idle, clock>>

-----------------------------------------------------------------------------
\* SetUplinkPace: publish, drain, print; a setter at a time.
SetUplinkPace(on) ==
  /\ setter = 0
  /\ paceCur <= MaxChanges
  /\ paceCur' = paceCur + 1
  /\ paceOn' = [paceOn EXCEPT ![paceCur + 1] = on]
  /\ setter' = IF paceOn[paceCur] THEN paceCur ELSE 0
  /\ UNCHANGED <<buckets, writers, accounts, verdict, sent, age, idle, clock>>

\* Nobody sleeps under the old generation, or 200 ms are over.
DrainedGen(g) == inflight[g] = 0
PrintVerdict(drained) ==
  /\ setter # 0
  /\ IF drained THEN DrainedGen(setter) ELSE inflight[setter] > 0
  /\ verdict' = [verdict EXCEPT ![setter] =
                   [waited |-> waited[setter], filed |-> filed[setter], drained |-> drained]]
  /\ setter' = 0
  /\ UNCHANGED <<paceCur, paceOn, buckets, writers, accounts, sent, age, idle, clock>>

PaceNext ==
  \/ \E w \in Writers :
       \/ LoadState(w) \/ TakeTokens(w) \/ CountWait(w) \/ FallAsleep(w) \/ FileWait(w)
       \/ WakeUp(w) \/ Settle(w) \/ PaceResetConn(w)
  \/ Slice
  \/ \E b \in BOOLEAN : SetUplinkPace(b) \/ PrintVerdict(b)

PaceSpec == PaceInit /\ [][PaceNext]_paceVars

-----------------------------------------------------------------------------
\* Types; the bucket never holds more than a burst, and nobody is counted as
\* asleep for ever: inflight is the sleepers.
PaceTypeOK ==
  /\ paceCur \in Gens /\ paceOn \in [Gens -> BOOLEAN] /\ setter \in Gens \cup {0}
  /\ \A w \in Writers : buckets[w].gen \in Gens \cup {0} /\ buckets[w].tokens <= Burst
  /\ \A g \in Gens : inflight[g] =
       Cardinality({w \in Writers : writers[w].gen = g /\ writers[w].at \in {"asleep", "filed"}})
  /\ \A g \in Gens : filed[g] <= waited[g]

\* uplinkpace.go: "the long-run rate stays exact -- the refund credits the
\* bucket, so the net debit per packet is its true cost": while the pacer is
\* on, what a connection has sent never exceeds a burst and the rate times its
\* bucket's age, whatever the sizes and however late the refunds.
RateKept ==
  \A w \in Writers :
    buckets[w].gen = paceCur /\ idle[w] = 0 => sent[w] <= Burst + Rate * age[w]

\* A sleeper notices within a slice that the pacer was turned off.
ToggleLands == \A w \in Writers : idle[w] <= 1

-----------------------------------------------------------------------------
(* What the comments promise and the code does not keep *)

\* uplinkpace.go:484-486: waited and total "are exact because the setter drains
\* on inflight": a verdict that drained is never outrun by its generation.  It
\* fails: a writer counts its wait before it counts itself as inflight, so a
\* setter in between drains nobody and prints before the amount is filed.
VerdictExact ==
  \A g \in Gens : verdict[g].drained =>
    verdict[g].waited = waited[g] /\ verdict[g].filed = filed[g]
=============================================================================
