-------------------------- MODULE PartsCountsProofs --------------------------
(***************************************************************************)
(* Proofs about MCParts, for any constants: that what the pacer and the    *)
(* reorder instrument count is what was there (CountsTrue), and that every *)
(* part keeps its types and bounds (UnitsTypeOK).                          *)
(***************************************************************************)
EXTENDS PartsProofs, WellFoundedInduction

-----------------------------------------------------------------------------
(* The pacer of the uplink                                                 *)

WriterPlaces == {"free", "loaded", "waits", "counted", "asleep", "filed", "granted"}
PaceTypes ==
  /\ paceCur \in Gens /\ paceOn \in [Gens -> BOOLEAN] /\ setter \in Gens \cup {0}
  /\ buckets \in [Writers -> [gen : Gens \cup {0}, tokens : Int]]
  /\ writers \in [Writers -> [at : WriterPlaces, gen : Gens \cup {0}, left : Nat]]
  /\ inflight \in [Gens -> Int] /\ waited \in [Gens -> Int] /\ filed \in [Gens -> Int]
  /\ sent \in [Writers -> Nat] /\ age \in [Writers -> Nat] /\ idle \in [Writers -> Nat]
\* What n slices earn.
Earned(n) == Rate * n
\* A writer whose packet was charged to the bucket in full.
Charged(w) == writers[w].gen # 0 /\ writers[w].at \notin {"free", "loaded"}
\* A ticket is of a generation that paces; the bucket is its ticket's while the
\* charge stands; only a waiting writer has slices left.
TicketFits(w) ==
  /\ writers[w].at = "free" => writers[w].gen = 0
  /\ writers[w].at \in {"loaded", "waits", "counted", "asleep", "filed"} => writers[w].gen # 0
  /\ writers[w].at \notin {"waits", "counted", "asleep"} => writers[w].left = 0
  /\ writers[w].gen <= paceCur /\ (writers[w].gen # 0 => paceOn[writers[w].gen])
  /\ buckets[w].gen <= paceCur /\ (buckets[w].gen # 0 => paceOn[buckets[w].gen])
  /\ Charged(w) => buckets[w].gen = writers[w].gen
\* The bucket is what was earned less what was sent and what is charged.
Ledger(w) ==
  /\ buckets[w].tokens <= Burst
  /\ buckets[w].gen # 0 =>
       buckets[w].tokens + sent[w] + (IF Charged(w) THEN MaxCost ELSE 0) <= Burst + Earned(age[w])
\* The present debt is at most a packet, and slept off before the next.
Solvent(w) ==
  buckets[w].gen = paceCur =>
    buckets[w].tokens + Earned(writers[w].left) >= 0 /\ buckets[w].tokens >= -MaxCost
Prompt(w) == idle[w] <= 1 /\ (Asleep(w) => idle[w] = 0)
WriterInv == \A w \in Writers : TicketFits(w) /\ Ledger(w) /\ Solvent(w) /\ Prompt(w)

\* Writers with a ticket of generation g at one of the places P.
Placed(g, P) == {w \in Writers : writers[w].gen = g /\ writers[w].at \in P}
SleepsCounted ==
  \A g \in Gens : /\ inflight[g] = Cardinality(Placed(g, {"asleep", "filed"}))
                  /\ waited[g] = filed[g] + Cardinality(Placed(g, {"counted", "asleep"}))
PaceInv == PaceTypes /\ WriterInv /\ SleepsCounted

LEMMA EarnedMore ==
  /\ Earned(0) = 0
  /\ \A n \in Nat : Earned(n) \in Nat /\ Earned(n + 1) = Earned(n) + Rate
  /\ \A n \in Nat : n > 0 => Earned(n - 1) = Earned(n) - Rate
<1>1. Rate \in Nat \ {0}
  BY PaceAssumption
<1>2. Earned(0) = 0
  BY <1>1 DEF Earned
<1>3. ASSUME NEW n \in Nat
      PROVE  Earned(n) \in Nat /\ Earned(n + 1) = Earned(n) + Rate
  BY <1>1 DEF Earned
<1>4. ASSUME NEW n \in Nat, n > 0
      PROVE  Earned(n - 1) = Earned(n) - Rate
  BY <1>1 DEF Earned
<1>5. QED
  BY <1>2, <1>3, <1>4

\* The sleep is long enough for the debt.
LEMMA DebtPaid ==
  ASSUME NEW t \in Int
  PROVE  Debt(t) \in Nat /\ t + Earned(Debt(t)) >= 0
<1>1. Rate \in Nat \ {0}
  BY PaceAssumption
<1>2. CASE t >= 0
  BY <1>2, EarnedMore DEF Debt
<1>3. CASE t < 0
  <2> DEFINE a == Rate - 1 - t
  <2>1. a \in Nat /\ Debt(t) = a \div Rate
    BY <1>1, <1>3 DEF Debt
  <2>2. (a % Rate) \in 0 .. Rate - 1 /\ a = (Rate * (a \div Rate)) + (a % Rate)
        /\ a \div Rate \in Nat
    BY <1>1, <2>1
  <2>3. QED
    BY <1>1, <2>1, <2>2 DEF Earned
<1>4. QED
  BY <1>2, <1>3

LEMMA CapIs ==
  ASSUME NEW t \in Int
  PROVE  /\ Cap(t) \in Int /\ Cap(t) <= Burst /\ Cap(t) <= t
         /\ Cap(t) = Burst \/ Cap(t) = t
<1>1. Burst \in Int
  BY PaceAssumption
<1>2. Cap(t) = IF Burst < t THEN Burst ELSE t
  BY <1>1, MinMaxOfTwo DEF Cap
<1>3. QED
  BY <1>1, <1>2

\* Whether ticket r is of generation g at one of the places P, as a number.
Sits(r, g, P) == IF r.gen = g /\ r.at \in P THEN 1 ELSE 0

\* The writers at some places after one of them has moved.
LEMMA PlacedMoves ==
  ASSUME NEW g, NEW P, NEW w \in Writers, NEW r, PaceTypes,
         writers' = [writers EXCEPT ![w] = r]
  PROVE  /\ Cardinality(Placed(g, P)) \in Nat
         /\ Cardinality(Placed(g, P)') =
              Cardinality(Placed(g, P)) + Sits(r, g, P) - Sits(writers[w], g, P)
<1> DEFINE S == Placed(g, P)
<1>1. IsFiniteSet(S) /\ Cardinality(S) \in Nat
  BY PaceAssumption, FS_Subset, FS_CardinalityType DEF Placed
<1>2. S \subseteq Writers /\ Sits(writers[w], g, P) = IF w \in S THEN 1 ELSE 0
  BY DEF Placed, Sits
<1>3. /\ Sits(r, g, P) \in {0, 1}
      /\ S' = IF Sits(r, g, P) = 1 THEN S \cup {w} ELSE S \ {w}
  BY DEF Placed, PaceTypes, Sits
<1>4. Cardinality(S \cup {w}) = IF w \in S THEN Cardinality(S) ELSE Cardinality(S) + 1
  BY <1>1, FS_AddElement
<1>5. Cardinality(S \ {w}) = IF w \in S THEN Cardinality(S) - 1 ELSE Cardinality(S)
  BY <1>1, FS_RemoveElement
<1> HIDE DEF S
<1>6. Cardinality(S') = Cardinality(S) + Sits(r, g, P) - Sits(writers[w], g, P)
  BY <1>1, <1>2, <1>3, <1>4, <1>5
<1>7. QED
  BY <1>1, <1>6 DEF S

LEMMA PaceInitial == PaceInit => PaceInv
<1> SUFFICES ASSUME PaceInit PROVE PaceInv
  OBVIOUS
<1>1. 1 \in Gens /\ 0 \notin Gens /\ Burst \in Nat \ {0} /\ MaxCost \in Nat
  BY PaceAssumption DEF Gens
<1>2. PaceTypes
  BY <1>1 DEF PaceInit, PaceTypes, PerGen, NoBucket, NoTicket, WriterPlaces
<1>3. ASSUME NEW w \in Writers
      PROVE  TicketFits(w) /\ Ledger(w) /\ Solvent(w) /\ Prompt(w)
  <2>1. /\ writers[w] = NoTicket /\ buckets[w] = NoBucket /\ idle[w] = 0 /\ sent[w] = 0
        /\ age[w] = 0 /\ paceCur = 1 /\ ~Charged(w)
    BY DEF PaceInit, Charged, NoTicket
  <2>2. QED
    BY <1>1, <2>1, EarnedMore DEF TicketFits, Ledger, Solvent, Prompt, Asleep, At, NoBucket,
       NoTicket
<1>4. \A g : Placed(g, {"asleep", "filed"}) = {} /\ Placed(g, {"counted", "asleep"}) = {}
  BY DEF PaceInit, Placed, NoTicket
<1>5. Cardinality({}) = 0
  BY FS_EmptySet
<1>6. SleepsCounted
  BY <1>4, <1>5 DEF PaceInit, PerGen, SleepsCounted
<1>7. QED
  BY <1>2, <1>3, <1>6 DEF PaceInv, WriterInv

\* What a step of writer w changes for the others.
OnlyWriter(w) ==
  /\ \A v \in Writers \ {w} :
       /\ writers'[v] = writers[v] /\ buckets'[v] = buckets[v] /\ sent'[v] = sent[v]
       /\ age'[v] = age[v] /\ idle'[v] = idle[v]
  /\ paceCur' = paceCur /\ paceOn' = paceOn
WriterKept(w) == TicketFits(w) /\ Ledger(w) /\ Solvent(w) /\ Prompt(w)
LEMMA OthersKept ==
  ASSUME NEW w \in Writers, WriterInv, OnlyWriter(w), WriterKept(w)'
  PROVE  WriterInv'
BY DEF WriterInv, OnlyWriter, WriterKept, TicketFits, Ledger, Solvent, Prompt, Asleep, At, Charged

\* The counts when writer w goes on with ticket r, and counts by the way.
Accounted(w, r) ==
  \A g \in Gens :
    /\ inflight'[g] = inflight[g] + Sits(r, g, {"asleep", "filed"})
                                  - Sits(writers[w], g, {"asleep", "filed"})
    /\ waited'[g] - filed'[g] = waited[g] - filed[g] + Sits(r, g, {"counted", "asleep"})
                                  - Sits(writers[w], g, {"counted", "asleep"})
LEMMA SleepsKept ==
  ASSUME NEW w \in Writers, NEW r, PaceInv, PaceTypes', writers' = [writers EXCEPT ![w] = r],
         Accounted(w, r)
  PROVE  SleepsCounted'
<1> SUFFICES ASSUME NEW g \in Gens
             PROVE  /\ inflight'[g] = Cardinality(Placed(g, {"asleep", "filed"})')
                    /\ waited'[g] = filed'[g] + Cardinality(Placed(g, {"counted", "asleep"})')
  BY DEF SleepsCounted, Placed
<1>1. /\ inflight[g] = Cardinality(Placed(g, {"asleep", "filed"})) /\ inflight[g] \in Int
      /\ waited[g] = filed[g] + Cardinality(Placed(g, {"counted", "asleep"}))
      /\ waited[g] \in Int /\ filed[g] \in Int /\ PaceTypes
      /\ waited'[g] \in Int /\ filed'[g] \in Int
  BY DEF PaceInv, SleepsCounted, PaceTypes
<1>2. \A P : Sits(r, g, P) \in Int /\ Sits(writers[w], g, P) \in Int
  BY DEF Sits
<1>3. /\ Cardinality(Placed(g, {"asleep", "filed"})) \in Nat
      /\ Cardinality(Placed(g, {"asleep", "filed"})') =
           Cardinality(Placed(g, {"asleep", "filed"}))
           + Sits(r, g, {"asleep", "filed"}) - Sits(writers[w], g, {"asleep", "filed"})
  BY <1>1, PlacedMoves
<1>4. /\ Cardinality(Placed(g, {"counted", "asleep"})) \in Nat
      /\ Cardinality(Placed(g, {"counted", "asleep"})') =
           Cardinality(Placed(g, {"counted", "asleep"}))
           + Sits(r, g, {"counted", "asleep"}) - Sits(writers[w], g, {"counted", "asleep"})
  BY <1>1, PlacedMoves
<1>5. QED
  BY <1>1, <1>2, <1>3, <1>4 DEF Accounted

LEMMA PaceLoad ==
  ASSUME NEW w \in Writers, PaceInv, LoadState(w)
  PROVE  PaceInv'
<1> DEFINE r == IF paceOn[paceCur] THEN [at |-> "loaded", gen |-> paceCur, left |-> 0]
                ELSE [at |-> "granted", gen |-> 0, left |-> 0]
<1>1. PaceTypes'
  BY DEF PaceInv, PaceTypes, LoadState, WriterPlaces, setting, accounts
<1>2. OnlyWriter(w) /\ WriterKept(w)'
  BY DEF PaceInv, PaceTypes, WriterInv, LoadState, OnlyWriter, WriterKept, TicketFits, Ledger,
     Solvent, Prompt, Asleep, At, Charged, setting, Gens
<1>3. writers' = [writers EXCEPT ![w] = r] /\ r.at \in {"loaded", "granted"}
      /\ writers[w].at = "free" /\ inflight' = inflight /\ waited' = waited /\ filed' = filed
  BY DEF LoadState, accounts, At
<1>4. SleepsCounted'
  <2> HIDE DEF r
  <2>1. Accounted(w, r)
    BY <1>3 DEF Accounted, Sits, PaceInv, PaceTypes
  <2>2. QED
    BY <1>1, <1>3, <2>1, SleepsKept
<1>5. QED
  BY <1>1, <1>2, <1>4, OthersKept DEF PaceInv

LEMMA TicketMade ==
  ASSUME NEW A, NEW G, NEW e \in [at : A, gen : G, left : Nat], NEW place, NEW d
  PROVE  [e EXCEPT !.at = place, !.left = d] = [at |-> place, gen |-> e.gen, left |-> d]
<1> DEFINE f == [e EXCEPT !.at = place]
<1>1. f = [at |-> place, gen |-> e.gen, left |-> e.left]
  OBVIOUS
<1> HIDE DEF f
<1>2. [f EXCEPT !.left = d] = [at |-> place, gen |-> e.gen, left |-> d]
  BY <1>1
<1>3. QED
  BY <1>2 DEF f

LEMMA PaceTake ==
  ASSUME NEW w \in Writers, PaceInv, TakeTokens(w)
  PROVE  PaceInv'
<1> DEFINE g == writers[w].gen
           t == Bucket(w).tokens - MaxCost
           r == [at |-> IF Debt(t) = 0 THEN "granted" ELSE "waits", gen |-> g, left |-> Debt(t)]
<1>1. /\ writers[w].at = "loaded" /\ g \in Gens /\ g # 0 /\ g <= paceCur /\ paceOn[g] /\ g \in Nat
      /\ writers[w].left = 0 /\ ~Charged(w)
  <2>1. writers[w].at = "loaded" /\ TicketFits(w)
    BY DEF PaceInv, WriterInv, TakeTokens, At
  <2>2. g \in Gens \cup {0} /\ Gens \subseteq Nat
    BY DEF PaceInv, PaceTypes, Gens
  <2>3. QED
    BY <2>1, <2>2 DEF TicketFits, Charged
<1>2. MaxCost \in Nat /\ Burst \in Nat \ {0}
  BY PaceAssumption
<1>3. /\ buckets[w].tokens \in Int /\ sent[w] \in Nat /\ age[w] \in Nat /\ buckets[w].gen \in Nat
      /\ idle[w] \in Nat /\ idle[w] <= 1
  BY DEF PaceInv, PaceTypes, Gens, WriterInv, Prompt
<1>4. t \in Int /\ Debt(t) \in Nat /\ t + Earned(Debt(t)) >= 0
  <2>1. t \in Int
    BY <1>2, <1>3 DEF Bucket
  <2>2. QED
    BY <2>1, DebtPaid
<1>5. /\ writers' = [writers EXCEPT ![w] = r]
      /\ buckets' = [buckets EXCEPT ![w] = [gen |-> g, tokens |-> t]]
      /\ sent' = [sent EXCEPT ![w] = IF Fresh(w) THEN 0 ELSE @]
      /\ age' = [age EXCEPT ![w] = IF Fresh(w) THEN 0 ELSE @]
      /\ paceCur' = paceCur /\ paceOn' = paceOn /\ setter' = setter
      /\ inflight' = inflight /\ waited' = waited /\ filed' = filed /\ idle' = idle
  <2>1. writers[w] \in [at : WriterPlaces, gen : Gens \cup {0}, left : Nat]
    BY DEF PaceInv, PaceTypes
  <2>2. [writers[w] EXCEPT !.at = IF Debt(t) = 0 THEN "granted" ELSE "waits", !.left = Debt(t)] = r
    BY <2>1, TicketMade
  <2>3. writers' = [writers EXCEPT ![w] = [@ EXCEPT
                     !.at = IF Debt(t) = 0 THEN "granted" ELSE "waits", !.left = Debt(t)]]
    BY DEF TakeTokens
  <2>4. writers' = [writers EXCEPT ![w] = r]
    BY <2>2, <2>3
  <2>5. QED
    BY <2>4 DEF TakeTokens, setting, accounts
<1>6. /\ ~Fresh(w) => buckets[w].gen = g /\ t = buckets[w].tokens - MaxCost
                      /\ t + MaxCost + sent[w] <= Burst + Earned(age[w])
      /\ Fresh(w) => t = Burst - MaxCost
      /\ t <= Burst
      /\ g = paceCur => t >= -MaxCost
  <2>1. buckets[w].tokens <= Burst
    BY DEF PaceInv, WriterInv, Ledger
  <2>2. ASSUME ~Fresh(w)
        PROVE  buckets[w].gen = g /\ t = buckets[w].tokens - MaxCost
    BY <2>2 DEF Fresh, Bucket
  <2>3. ASSUME ~Fresh(w)
        PROVE  buckets[w].tokens + sent[w] <= Burst + Earned(age[w])
    BY <1>1, <1>3, <2>2, <2>3 DEF PaceInv, WriterInv, Ledger
  <2>4. ASSUME ~Fresh(w), g = paceCur
        PROVE  buckets[w].tokens >= 0
    BY <1>1, <1>3, <2>2, <2>4, EarnedMore DEF PaceInv, WriterInv, Solvent
  <2>5. ASSUME Fresh(w)
        PROVE  t = Burst - MaxCost
    BY <2>5 DEF Fresh, Bucket
  <2>6. Earned(age[w]) \in Nat
    BY <1>3, EarnedMore
  <2> HIDE DEF t
  <2>7. QED
    BY <1>2, <1>3, <1>4, <2>1, <2>2, <2>3, <2>4, <2>5, <2>6
<1> HIDE DEF t, g
<1>7. PaceTypes'
  BY <1>1, <1>3, <1>4, <1>5 DEF PaceInv, PaceTypes, WriterPlaces
<1>8. writers[w] = writers[w] /\ writers'[w] = r /\ buckets'[w] = [gen |-> g, tokens |-> t]
      /\ sent'[w] = (IF Fresh(w) THEN 0 ELSE sent[w]) /\ age'[w] = (IF Fresh(w) THEN 0 ELSE age[w])
      /\ idle'[w] = idle[w]
  BY <1>5 DEF PaceInv, PaceTypes
<1>9. OnlyWriter(w)
  BY <1>5 DEF OnlyWriter, PaceInv, PaceTypes
<1>10. TicketFits(w)' /\ Charged(w)'
  BY <1>1, <1>4, <1>5, <1>8 DEF TicketFits, Charged
<1>11. Ledger(w)'
  BY <1>1, <1>2, <1>3, <1>4, <1>6, <1>8, <1>10, EarnedMore DEF Ledger
<1>12. Solvent(w)' /\ Prompt(w)'
  BY <1>1, <1>3, <1>4, <1>5, <1>6, <1>8 DEF Solvent, Prompt, Asleep, At
<1>13. SleepsCounted'
  <2>1. Accounted(w, r)
    BY <1>1, <1>5 DEF Accounted, Sits, PaceInv, PaceTypes
  <2> HIDE DEF r
  <2>2. QED
    BY <1>5, <1>7, <2>1, SleepsKept
<1>14. QED
  BY <1>7, <1>9, <1>10, <1>11, <1>12, <1>13, OthersKept DEF PaceInv, WriterKept

\* A writer goes from one place of its wait to the next.
LEMMA GoesOn ==
  ASSUME NEW w \in Writers, NEW at \in WriterPlaces \ {"free", "loaded"}, PaceInv, PaceTypes',
         writers[w].at \in {"waits", "counted", "asleep", "filed"},
         writers' = [writers EXCEPT ![w].at = at],
         writers[w].left = 0 \/ at \in {"waits", "counted", "asleep"},
         buckets' = buckets, sent' = sent, age' = age, paceCur' = paceCur, paceOn' = paceOn,
         \/ idle' = idle /\ at # "asleep"
         \/ idle' = [idle EXCEPT ![w] = 0],
         Accounted(w, [writers[w] EXCEPT !.at = at])
  PROVE  PaceInv'
<1> DEFINE r == [writers[w] EXCEPT !.at = at]
<1>1. writers' = [writers EXCEPT ![w] = r] /\ r.at = at /\ r.gen = writers[w].gen
      /\ r.left = writers[w].left /\ writers'[w] = r
  BY DEF PaceInv, PaceTypes
<1>2. writers[w].gen # 0 /\ Charged(w) /\ Charged(w)'
  BY <1>1 DEF PaceInv, WriterInv, TicketFits, Charged
<1> HIDE DEF r
<1>3. OnlyWriter(w)
  BY <1>1 DEF OnlyWriter, PaceInv, PaceTypes
<1>4. TicketFits(w)' /\ Ledger(w)' /\ Solvent(w)'
  BY <1>1, <1>2 DEF PaceInv, WriterInv, TicketFits, Ledger, Solvent
<1>5. Prompt(w)'
  BY <1>1 DEF PaceInv, PaceTypes, WriterInv, Prompt, Asleep, At
<1>6. SleepsCounted'
  <2>1. Accounted(w, r)
    BY DEF r
  <2>2. QED
    BY <1>1, <2>1, SleepsKept
<1>7. QED
  BY <1>3, <1>4, <1>5, <1>6, OthersKept DEF PaceInv, WriterKept

LEMMA PaceWaits ==
  ASSUME NEW w \in Writers, PaceInv,
         CountWait(w) \/ FallAsleep(w) \/ FileWait(w) \/ WakeUp(w)
  PROVE  PaceInv'
<1> USE DEF PaceInv
<1>1. writers[w].at \in {"waits", "counted", "asleep", "filed"} /\ writers[w].gen \in Gens
      /\ writers[w].left \in Nat
  BY DEF CountWait, FallAsleep, FileWait, WakeUp, At, WriterInv, TicketFits, PaceTypes
<1>2. \A g \in Gens : inflight[g] \in Int /\ waited[g] \in Int /\ filed[g] \in Int
  BY DEF PaceTypes
<1>3. CASE CountWait(w)
  <2>1. PaceTypes'
    BY <1>1, <1>3 DEF CountWait, PaceTypes, WriterPlaces, setting
  <2>2. Accounted(w, [writers[w] EXCEPT !.at = "counted"])
    <3>1. /\ writers[w].at = "waits" /\ inflight' = inflight /\ filed' = filed
          /\ waited' = [waited EXCEPT ![writers[w].gen] = @ + 1]
          /\ [writers[w] EXCEPT !.at = "counted"].at = "counted"
          /\ [writers[w] EXCEPT !.at = "counted"].gen = writers[w].gen
      BY <1>3 DEF CountWait, PaceTypes, At
    <3>2. \A g \in Gens : waited'[g] = waited[g] + IF g = writers[w].gen THEN 1 ELSE 0
      BY <1>1, <1>2, <3>1 DEF PaceTypes
    <3>3. QED
      BY <1>1, <1>2, <3>1, <3>2 DEF Accounted, Sits
  <2>3. QED
    BY <1>3, <2>1, <2>2, GoesOn DEF CountWait, At, WriterPlaces, setting
<1>4. CASE FallAsleep(w)
  <2>1. PaceTypes'
    BY <1>1, <1>4 DEF FallAsleep, PaceTypes, WriterPlaces, setting
  <2>2. Accounted(w, [writers[w] EXCEPT !.at = "asleep"])
    BY <1>1, <1>2, <1>4 DEF FallAsleep, Accounted, Sits, PaceTypes, At
  <2>3. QED
    BY <1>4, <2>1, <2>2, GoesOn DEF FallAsleep, At, WriterPlaces, setting
<1>5. CASE FileWait(w)
  <2>1. PaceTypes'
    BY <1>1, <1>5 DEF FileWait, PaceTypes, WriterPlaces, setting
  <2>2. Accounted(w, [writers[w] EXCEPT !.at = "filed"])
    BY <1>1, <1>2, <1>5 DEF FileWait, Accounted, Sits, PaceTypes, At
  <2>3. QED
    BY <1>5, <2>1, <2>2, GoesOn DEF FileWait, At, WriterPlaces, setting
<1>6. CASE WakeUp(w)
  <2>1. PaceTypes'
    <3>1. inflight' \in [Gens -> Int]
      BY <1>1, <1>2, <1>6 DEF WakeUp, PaceTypes
    <3>2. writers' \in [Writers -> [at : WriterPlaces, gen : Gens \cup {0}, left : Nat]]
      BY <1>1, <1>6 DEF WakeUp, PaceTypes, WriterPlaces
    <3>3. QED
      BY <1>6, <3>1, <3>2 DEF WakeUp, PaceTypes, setting
  <2>2. Accounted(w, [writers[w] EXCEPT !.at = "granted"])
    BY <1>1, <1>2, <1>6 DEF WakeUp, Accounted, Sits, PaceTypes, At
  <2>3. writers[w].left = 0
    BY <1>6 DEF WakeUp, At, WriterInv, TicketFits
  <2>4. QED
    BY <1>6, <2>1, <2>2, <2>3, GoesOn DEF WakeUp, At, WriterPlaces, setting
<1>7. QED
  BY <1>3, <1>4, <1>5, <1>6

LEMMA PaceSettle ==
  ASSUME NEW w \in Writers, PaceInv, Settle(w)
  PROVE  PaceInv'
<1>1. /\ writers[w].at = "granted" /\ writers[w].left = 0 /\ TicketFits(w) /\ Ledger(w)
      /\ Solvent(w) /\ Prompt(w)
  BY DEF PaceInv, WriterInv, Settle, At, TicketFits
<1>2. /\ MaxCost \in Nat /\ Burst \in Nat \ {0} /\ \A cost \in Costs : cost \in 1 .. MaxCost
  BY PaceAssumption
<1>3. /\ buckets[w].tokens \in Int /\ sent[w] \in Nat /\ age[w] \in Nat /\ buckets[w].gen \in Nat
      /\ writers[w].gen \in Nat /\ paceCur \in Nat /\ Earned(age[w]) \in Nat
  <2>1. Gens \cup {0} \subseteq Nat
    BY DEF Gens
  <2>2. /\ buckets[w] \in [gen : Gens \cup {0}, tokens : Int] /\ writers[w].gen \in Gens \cup {0}
        /\ sent[w] \in Nat /\ age[w] \in Nat /\ paceCur \in Gens
    BY DEF PaceInv, PaceTypes
  <2>3. QED
    BY <2>1, <2>2, EarnedMore
<1>4. /\ writers' = [writers EXCEPT ![w] = NoTicket] /\ age' = age /\ idle' = idle
      /\ paceCur' = paceCur /\ paceOn' = paceOn /\ setter' = setter
      /\ inflight' = inflight /\ waited' = waited /\ filed' = filed
  BY DEF Settle, setting, accounts
<1>5. writers'[w] = NoTicket /\ ~Charged(w)'
  BY <1>4 DEF PaceInv, PaceTypes, Charged, NoTicket
<1>6. /\ PaceTypes' /\ OnlyWriter(w) /\ Ledger(w)' /\ Solvent(w)'
      /\ buckets'[w].gen = buckets[w].gen
  <2>1. CASE writers[w].gen = 0
    <3>1. buckets' = buckets /\ sent' = sent
      BY <2>1 DEF Settle
    <3>2. PaceTypes'
      BY <1>4, <3>1 DEF PaceInv, PaceTypes, NoTicket, WriterPlaces
    <3>3. OnlyWriter(w)
      BY <1>4, <3>1 DEF OnlyWriter, PaceInv, PaceTypes
    <3>4. ~Charged(w)
      BY <2>1 DEF Charged
    <3>5. Ledger(w)' /\ Solvent(w)'
      BY <1>1, <1>4, <1>5, <3>1, <3>4 DEF Ledger, Solvent, NoTicket
    <3>6. QED
      BY <3>1, <3>2, <3>3, <3>5
  <2>2. CASE writers[w].gen # 0
    <3>1. Charged(w) /\ buckets[w].gen = writers[w].gen
      BY <1>1, <2>2 DEF Charged, TicketFits
    <3>2. PICK cost \in Costs :
            /\ buckets' = [buckets EXCEPT ![w].tokens =
                             IF buckets[w].gen = 0 THEN @ ELSE Cap(@ + Excess(cost))]
            /\ sent' = [sent EXCEPT ![w] = @ + cost]
      BY <2>2 DEF Settle
    <3> DEFINE t == Cap(buckets[w].tokens + (MaxCost - cost))
    <3>3. cost \in Nat /\ cost <= MaxCost
      BY <1>2
    <3>4. /\ t \in Int /\ t <= Burst /\ t <= buckets[w].tokens + (MaxCost - cost)
          /\ t = Burst \/ t = buckets[w].tokens + (MaxCost - cost)
      BY <1>2, <1>3, <3>3, CapIs
    <3>5. buckets' = [buckets EXCEPT ![w].tokens = t]
      BY <2>2, <3>1, <3>2 DEF Excess
    <3> HIDE DEF t
    <3>6. PaceTypes'
      BY <1>4, <3>2, <3>3, <3>4, <3>5 DEF PaceInv, PaceTypes, NoTicket, WriterPlaces
    <3>7. OnlyWriter(w)
      BY <1>4, <3>2, <3>5 DEF OnlyWriter, PaceInv, PaceTypes
    <3>8. buckets'[w].tokens = t /\ buckets'[w].gen = buckets[w].gen /\ sent'[w] = sent[w] + cost
          /\ age'[w] = age[w]
      BY <1>4, <3>2, <3>5 DEF PaceInv, PaceTypes
    <3>9. Ledger(w)'
      BY <1>1, <1>2, <1>3, <1>5, <3>1, <3>3, <3>4, <3>8 DEF Ledger
    <3>10. Solvent(w)'
      BY <1>1, <1>2, <1>3, <1>4, <1>5, <3>3, <3>4, <3>8, EarnedMore DEF Solvent, NoTicket
    <3>11. QED
      BY <3>6, <3>7, <3>8, <3>9, <3>10
  <2>3. QED
    BY <2>1, <2>2
<1>7. TicketFits(w)' /\ Prompt(w)'
  BY <1>1, <1>3, <1>4, <1>5, <1>6 DEF TicketFits, Prompt, NoTicket, Asleep, At
<1>8. Accounted(w, NoTicket)
  <2>1. \A g \in Gens : inflight[g] \in Int /\ waited[g] \in Int /\ filed[g] \in Int
    BY DEF PaceInv, PaceTypes
  <2>2. QED
    BY <1>1, <1>4, <2>1 DEF Accounted, Sits, NoTicket
<1>9. QED
  BY <1>4, <1>6, <1>7, <1>8, SleepsKept, OthersKept DEF PaceInv, WriterKept

LEMMA PaceReset ==
  ASSUME NEW w \in Writers, PaceInv, PaceResetConn(w)
  PROVE  PaceInv'
<1>1. /\ writers' = writers /\ idle' = idle /\ paceCur' = paceCur /\ paceOn' = paceOn
      /\ setter' = setter /\ inflight' = inflight /\ waited' = waited /\ filed' = filed
      /\ buckets' = [buckets EXCEPT ![w] = NoBucket]
      /\ sent' = [sent EXCEPT ![w] = 0] /\ age' = [age EXCEPT ![w] = 0]
      /\ writers[w].at = "free"
  BY DEF PaceResetConn, setting, accounts, At
<1>2. PaceTypes'
  BY <1>1 DEF PaceInv, PaceTypes, NoBucket
<1>3. OnlyWriter(w)
  BY <1>1 DEF OnlyWriter, PaceInv, PaceTypes
<1>4. buckets'[w].gen = 0 /\ buckets'[w].tokens = 0 /\ ~Charged(w) /\ ~Charged(w)' /\ TicketFits(w)
      /\ Prompt(w) /\ paceCur \in Nat \ {0} /\ Burst \in Nat
  BY <1>1, PaceAssumption DEF PaceInv, PaceTypes, NoBucket, Charged, WriterInv, Gens
<1>5. WriterKept(w)'
  BY <1>1, <1>4 DEF WriterKept, TicketFits, Ledger, Solvent, Prompt, Asleep, At
<1>6. SleepsCounted'
  BY <1>1 DEF PaceInv, SleepsCounted, Placed
<1>7. QED
  BY <1>2, <1>3, <1>5, <1>6, OthersKept DEF PaceInv

LEMMA PaceSlice ==
  ASSUME PaceInv, Slice
  PROVE  PaceInv'
<1>1. /\ buckets' = [w \in Writers |-> [buckets[w] EXCEPT !.tokens = Cap(@ + Rate)]]
      /\ writers' = [w \in Writers |-> IF Asleep(w) THEN [writers[w] EXCEPT !.left = StillOwed(w)]
                                       ELSE writers[w]]
      /\ age' = [w \in Writers |-> age[w] + 1]
      /\ idle' = [w \in Writers |-> IF Asleep(w) /\ ~paceOn[paceCur] THEN idle[w] + 1 ELSE idle[w]]
      /\ sent' = sent /\ paceCur' = paceCur /\ paceOn' = paceOn /\ setter' = setter
      /\ inflight' = inflight /\ waited' = waited /\ filed' = filed
  BY DEF Slice, setting, accounts
<1>2. Rate \in Nat \ {0} /\ Burst \in Nat \ {0} /\ MaxCost \in Nat
  BY PaceAssumption
<1>3. ASSUME NEW w \in Writers
      PROVE  /\ buckets[w].tokens \in Int /\ sent[w] \in Nat /\ age[w] \in Nat
             /\ buckets[w].gen \in Gens \cup {0} /\ idle[w] \in Nat /\ writers[w].left \in Nat
             /\ writers[w].gen \in Gens \cup {0} /\ writers[w].at \in WriterPlaces
             /\ writers[w] \in [at : WriterPlaces, gen : Gens \cup {0}, left : Nat]
             /\ buckets[w] \in [gen : Gens \cup {0}, tokens : Int]
  BY DEF PaceInv, PaceTypes
<1>4. ASSUME NEW w \in Writers, Asleep(w)
      PROVE  /\ StillOwed(w) \in Nat /\ writers[w].left > 0
             /\ paceOn[paceCur] => StillOwed(w) = writers[w].left - 1
             /\ ~paceOn[paceCur] => StillOwed(w) = 0
  BY <1>3, <1>4 DEF StillOwed, Asleep
<1>5. ASSUME NEW w \in Writers
      PROVE  /\ buckets'[w].gen = buckets[w].gen
             /\ buckets'[w].tokens = Cap(buckets[w].tokens + Rate)
             /\ writers'[w].at = writers[w].at /\ writers'[w].gen = writers[w].gen
             /\ writers'[w].left = IF Asleep(w) THEN StillOwed(w) ELSE writers[w].left
             /\ age'[w] = age[w] + 1
  <2>1. /\ buckets'[w] = [buckets[w] EXCEPT !.tokens = Cap(buckets[w].tokens + Rate)]
        /\ writers'[w] = IF Asleep(w) THEN [writers[w] EXCEPT !.left = StillOwed(w)]
                                       ELSE writers[w]
        /\ age'[w] = age[w] + 1
    BY <1>1
  <2>2. QED
    BY <1>3, <2>1
<1>6. PaceTypes'
  <2>1. \A w \in Writers : buckets[w].tokens + Rate \in Int
    BY <1>2, <1>3
  <2>2. \A w \in Writers : Cap(buckets[w].tokens + Rate) \in Int
    BY <2>1, CapIs
  <2>3. buckets' \in [Writers -> [gen : Gens \cup {0}, tokens : Int]]
    BY <1>1, <1>3, <2>2
  <2>4. writers' \in [Writers -> [at : WriterPlaces, gen : Gens \cup {0}, left : Nat]]
    BY <1>1, <1>3, <1>4
  <2>5. age' \in [Writers -> Nat] /\ idle' \in [Writers -> Nat]
    BY <1>1, <1>3
  <2>6. QED
    BY <1>1, <2>3, <2>4, <2>5 DEF PaceInv, PaceTypes
<1>7. ASSUME NEW w \in Writers
      PROVE  WriterKept(w)'
  <2> DEFINE t == buckets[w].tokens + Rate
  <2>1. t \in Int /\ Cap(t) \in Int /\ Cap(t) <= Burst /\ Cap(t) <= t /\ (Cap(t) = Burst \/ Cap(t) = t)
    BY <1>2, <1>3, CapIs
  <2>2. buckets'[w].tokens = Cap(t)
    BY <1>5
  <2>3. TicketFits(w) /\ Ledger(w) /\ Solvent(w) /\ Prompt(w) /\ (Charged(w)' <=> Charged(w))
    BY <1>5 DEF PaceInv, WriterInv, Charged
  <2>4. TicketFits(w)'
    BY <1>1, <1>5, <2>3 DEF TicketFits, Asleep, At
  <2>5. Ledger(w)'
    <3>1. Earned(age[w]) \in Nat /\ Earned(age[w] + 1) = Earned(age[w]) + Rate
      BY <1>3, EarnedMore
    <3> HIDE DEF t
    <3>2. Cap(t) <= Burst /\ Cap(t) \in Int /\ Cap(t) <= buckets[w].tokens + Rate
      BY <2>1 DEF t
    <3>3. sent'[w] = sent[w] /\ sent[w] \in Nat /\ buckets[w].tokens \in Int
      BY <1>1, <1>3
    <3>4. QED
      BY <1>2, <1>5, <2>2, <2>3, <3>1, <3>2, <3>3 DEF Ledger
  <2>6. Solvent(w)'
    <3>1. SUFFICES ASSUME buckets[w].gen = paceCur
                   PROVE  Cap(t) + Earned(writers'[w].left) >= 0 /\ Cap(t) >= -MaxCost
      BY <1>1, <1>5, <2>2 DEF Solvent
    <3>2. paceOn[paceCur]
      BY <1>3, <2>3, <3>1 DEF TicketFits, PaceInv, PaceTypes, Gens
    <3>3. buckets[w].tokens + Earned(writers[w].left) >= 0 /\ buckets[w].tokens >= -MaxCost
      BY <2>3, <3>1 DEF Solvent
    <3>4. /\ writers'[w].left \in Nat /\ Earned(writers'[w].left) \in Nat
          /\ Earned(writers[w].left) \in Nat
          /\ Earned(writers'[w].left) >= Earned(writers[w].left) - Rate
      <4>1. \/ writers'[w].left = writers[w].left
            \/ writers[w].left > 0 /\ writers'[w].left = writers[w].left - 1
        <5>1. /\ Asleep(w) => writers'[w].left = StillOwed(w)
              /\ ~Asleep(w) => writers'[w].left = writers[w].left
          BY <1>5
        <5>2. Asleep(w) => writers[w].left > 0 /\ StillOwed(w) = writers[w].left - 1
          BY <1>4, <3>2
        <5>3. QED
          BY <5>1, <5>2
      <4>2. writers'[w].left \in Nat /\ writers[w].left \in Nat
        BY <1>3, <4>1
      <4>3. /\ Earned(writers'[w].left) \in Nat /\ Earned(writers[w].left) \in Nat
            /\ writers[w].left > 0 => Earned(writers[w].left - 1) = Earned(writers[w].left) - Rate
        BY <4>2, EarnedMore
      <4>4. CASE writers'[w].left = writers[w].left
        BY <1>2, <4>2, <4>3, <4>4
      <4>5. CASE writers[w].left > 0 /\ writers'[w].left = writers[w].left - 1
        <5>1. Earned(writers'[w].left) = Earned(writers[w].left) - Rate
          BY <4>3, <4>5
        <5>2. QED
          BY <1>2, <4>2, <4>3, <5>1
      <4>6. QED
        BY <4>1, <4>4, <4>5
    <3>5. buckets[w].tokens \in Int
      BY <1>3
    <3>6. t = buckets[w].tokens + Rate
      OBVIOUS
    <3> HIDE DEF t
    <3>7. QED
      BY <1>2, <2>1, <3>3, <3>4, <3>5, <3>6
  <2>7. Prompt(w)'
    <3>1. /\ idle'[w] = IF Asleep(w) /\ ~paceOn[paceCur] THEN idle[w] + 1 ELSE idle[w]
          /\ idle[w] \in Nat
      BY <1>1, <1>3
    <3>2. Asleep(w)' => Asleep(w)
      BY <1>5 DEF Asleep, At
    <3>3. Asleep(w) /\ ~paceOn[paceCur] => ~Asleep(w)'
      BY <1>4, <1>5 DEF Asleep
    <3>4. QED
      BY <2>3, <3>1, <3>2, <3>3 DEF Prompt
  <2>8. QED
    BY <2>4, <2>5, <2>6, <2>7 DEF WriterKept
<1>8. SleepsCounted'
  <2>1. \A g, P : Placed(g, P)' = Placed(g, P)
    BY <1>5 DEF Placed
  <2>2. QED
    BY <1>1, <2>1 DEF PaceInv, SleepsCounted
<1>9. QED
  BY <1>6, <1>7, <1>8 DEF PaceInv, WriterInv, WriterKept

LEMMA PaceSetter ==
  ASSUME PaceInv, NEW b \in BOOLEAN, SetUplinkPace(b) \/ PrintVerdict(b)
  PROVE  PaceInv'
<1>1. UNCHANGED <<buckets, writers, accounts, sent, age, idle>>
  BY DEF SetUplinkPace, PrintVerdict
<1>2. SleepsCounted'
  BY <1>1 DEF PaceInv, SleepsCounted, Placed, accounts
<1>3. CASE SetUplinkPace(b)
  <2>1. paceCur' = paceCur + 1 /\ paceCur \in Gens /\ paceCur' \in Gens
        /\ paceOn' = [paceOn EXCEPT ![paceCur'] = b]
    BY <1>3, PaceAssumption DEF SetUplinkPace, PaceInv, PaceTypes, Gens
  <2>2. PaceTypes'
    BY <1>1, <1>3, <2>1 DEF PaceInv, PaceTypes, SetUplinkPace, accounts
  <2>3. ASSUME NEW w \in Writers
        PROVE  WriterKept(w)'
    <3>1. TicketFits(w) /\ Ledger(w) /\ Prompt(w)
      BY DEF PaceInv, WriterInv
    <3>2. buckets[w].gen <= paceCur /\ buckets[w].gen \in Nat /\ writers[w].gen <= paceCur
          /\ writers[w].gen \in Nat /\ buckets[w].gen \in Gens \cup {0}
          /\ writers[w].gen \in Gens \cup {0}
      BY <3>1 DEF TicketFits, PaceInv, PaceTypes, Gens
    <3>3. \A g \in Gens : g # paceCur' => paceOn'[g] = paceOn[g]
      BY <2>1 DEF PaceInv, PaceTypes
    <3>4. paceCur \in Nat
      BY <2>1 DEF Gens
    <3>5. TicketFits(w)'
      BY <1>1, <2>1, <3>1, <3>2, <3>3, <3>4 DEF TicketFits, Charged
    <3>6. Solvent(w)'
      BY <1>1, <2>1, <3>2, <3>4 DEF Solvent
    <3>7. Ledger(w)' /\ Prompt(w)'
      BY <1>1, <3>1 DEF Ledger, Prompt, Charged, Asleep, At
    <3>8. QED
      BY <3>5, <3>6, <3>7 DEF WriterKept
  <2>4. QED
    BY <1>2, <2>2, <2>3 DEF PaceInv, WriterInv, WriterKept
<1>4. CASE PrintVerdict(b)
  <2>1. paceCur' = paceCur /\ paceOn' = paceOn /\ setter' = 0
    BY <1>4 DEF PrintVerdict
  <2>2. PaceTypes' /\ WriterInv'
    BY <1>1, <2>1 DEF PaceInv, PaceTypes, accounts, WriterInv, TicketFits, Ledger, Solvent, Prompt,
       Charged, Asleep, At
  <2>3. QED
    BY <1>2, <2>2 DEF PaceInv
<1>5. QED
  BY <1>3, <1>4

LEMMA PaceKept == PaceInv /\ [PaceNext]_paceVars => PaceInv'
<1> SUFFICES ASSUME PaceInv, [PaceNext]_paceVars
             PROVE  PaceInv'
  OBVIOUS
<1>1. CASE UNCHANGED paceVars
  <2>1. PaceTypes'
    BY <1>1 DEF paceVars, PaceInv, PaceTypes
  <2>2. SleepsCounted'
    BY <1>1 DEF paceVars, PaceInv, SleepsCounted, Placed
  <2>3. WriterInv'
    BY <1>1 DEF paceVars, PaceInv, WriterInv, TicketFits, Ledger, Solvent, Prompt, Charged, Asleep,
       At
  <2>4. QED
    BY <2>1, <2>2, <2>3 DEF PaceInv
<1>2. CASE PaceNext
  BY <1>2, PaceLoad, PaceTake, PaceWaits, PaceSettle, PaceReset, PaceSlice, PaceSetter
     DEF PaceNext
<1>3. QED
  BY <1>1, <1>2

LEMMA PaceHeld == PaceInv => PaceTypeOK /\ RateKept /\ ToggleLands
<1> SUFFICES ASSUME PaceInv
             PROVE  PaceTypeOK /\ RateKept /\ ToggleLands
  OBVIOUS
<1>1. ToggleLands
  BY DEF PaceInv, WriterInv, Prompt, ToggleLands
<1>2. RateKept
  <2> SUFFICES ASSUME NEW w \in Writers, buckets[w].gen = paceCur
               PROVE  sent[w] <= Burst + Rate * age[w]
    BY DEF RateKept
  <2>1. /\ TicketFits(w) /\ Ledger(w) /\ Solvent(w) /\ paceCur \in Nat \ {0}
        /\ buckets[w].tokens \in Int /\ sent[w] \in Nat /\ age[w] \in Nat
    BY DEF PaceInv, PaceTypes, WriterInv, Gens
  <2>2. MaxCost \in Nat /\ Burst \in Nat /\ Earned(age[w]) \in Nat /\ Earned(0) = 0
    BY <2>1, PaceAssumption, EarnedMore
  <2>3. ~Charged(w) => writers[w].left = 0
    BY <2>1 DEF TicketFits, Charged
  <2>4. sent[w] <= Burst + Earned(age[w])
    BY <2>1, <2>2, <2>3 DEF Ledger, Solvent
  <2>5. QED
    BY <2>4 DEF Earned
<1>3. PaceTypeOK
  <2>1. \A g \in Gens : inflight[g] = Cardinality(Placed(g, {"asleep", "filed"}))
    BY DEF PaceInv, SleepsCounted
  <2>2. ASSUME NEW g \in Gens
        PROVE  filed[g] <= waited[g]
    <3>1. Cardinality(Placed(g, {"counted", "asleep"})) \in Nat
      BY PaceAssumption, FS_Subset, FS_CardinalityType DEF Placed
    <3>2. QED
      BY <3>1 DEF PaceInv, PaceTypes, SleepsCounted
  <2>3. QED
    BY <2>1, <2>2 DEF PaceInv, PaceTypes, WriterInv, Ledger, PaceTypeOK, Placed
<1>4. QED
  BY <1>1, <1>2, <1>3

-----------------------------------------------------------------------------
(* The reorder instrument: marks on a ring                                 *)

\* Counters share a slot of the ring exactly when they are whole laps apart.
LEMMA SlotFacts ==
  /\ \A x \in Int : Slot(x) \in 0 .. RxWindow - 1 /\ Slot(x + RxWindow) = Slot(x)
  /\ \A x, y \in Int : Slot(x) = Slot(y) /\ x < y => y - x >= RxWindow
<1>1. RxWindow \in Nat \ {0}
  BY RxAssumption
<1>2. ASSUME NEW x \in Int
      PROVE  /\ (x % RxWindow) \in 0 .. RxWindow - 1 /\ x \div RxWindow \in Int
             /\ x = (RxWindow * (x \div RxWindow)) + (x % RxWindow)
  BY <1>1
<1>3. ASSUME NEW q \in Int, NEW m \in 0 .. RxWindow - 1
      PROVE  ((RxWindow * q) + m) % RxWindow = m
  BY <1>1
<1>4. ASSUME NEW x \in Int
      PROVE  (x + RxWindow) % RxWindow = x % RxWindow
  <2> DEFINE q == x \div RxWindow
             m == x % RxWindow
  <2>1. x + RxWindow = (RxWindow * (q + 1)) + m
    <3>1. q \in Int /\ m \in Int /\ x = (RxWindow * q) + m
      BY <1>2
    <3> HIDE DEF q, m
    <3>2. RxWindow * (q + 1) = (RxWindow * q) + RxWindow /\ RxWindow * q \in Int
      BY <1>1, <3>1
    <3>3. QED
      BY <1>1, <3>1, <3>2
  <2>2. (x \div RxWindow) + 1 \in Int /\ (x % RxWindow) \in 0 .. RxWindow - 1
    BY <1>2
  <2>3. ((RxWindow * ((x \div RxWindow) + 1)) + (x % RxWindow)) % RxWindow = x % RxWindow
    BY <1>3, <2>2
  <2>4. QED
    BY <2>1, <2>3
<1>5. ASSUME NEW x \in Int, NEW y \in Int, x % RxWindow = y % RxWindow, x < y
      PROVE  y - x >= RxWindow
  <2> DEFINE d == (y \div RxWindow) - (x \div RxWindow)
  <2>1. d \in Int /\ y - x = RxWindow * d
    BY <1>1, <1>2, <1>5
  <2> HIDE DEF d
  <2>2. \A e \in Int : e <= 0 => RxWindow * e <= 0
    BY <1>1
  <2>3. d >= 1
    BY <1>5, <2>1, <2>2
  <2>4. \A e \in Int : e >= 1 => RxWindow * e >= RxWindow
    BY <1>1
  <2>5. QED
    BY <2>1, <2>3, <2>4
<1>6. QED
  BY <1>2, <1>4, <1>5 DEF Slot

Peer == [max : Int, ring : SUBSET (0 .. RxWindow - 1), idle : BOOLEAN]
\* The ring of a keypair that has brought the counters T: the newest, and one
\* mark for each counter of the window behind it.
Tells(p, T) ==
  /\ p \in Peer /\ T \subseteq Int
  /\ p.max \in T /\ \A x \in T : x <= p.max
  /\ \A x \in T : p.max - x < RxWindow => Slot(x) \in p.ring
  /\ \A m \in p.ring : \E x \in T : p.max - x < RxWindow /\ Slot(x) = m

LEMMA CallSays ==
  ASSUME NEW p, NEW T, Tells(p, T), NEW c \in Int
  PROVE  /\ Call(p, c) = "dup" <=> c \in T /\ p.max - c < RxWindow
         /\ Call(p, c) = "inOrder" <=> c > p.max
         /\ Call(p, c) = "stale" <=> p.max - c >= RxWindow
         /\ Call(p, c) \in {"inOrder", "stale", "dup", "displaced"}
<1>1. p.max \in Int /\ RxWindow \in Nat \ {0} /\ \A x \in T : x \in Int /\ x <= p.max
  BY RxAssumption DEF Tells, Peer
<1>2. ASSUME c <= p.max, p.max - c < RxWindow, Slot(c) \in p.ring
      PROVE  c \in T
  <2>1. PICK x \in T : p.max - x < RxWindow /\ Slot(x) = Slot(c)
    BY <1>2 DEF Tells
  <2>2. x \in Int /\ x <= p.max
    BY <1>1
  <2>3. ~(x < c) /\ ~(c < x)
    BY <1>1, <1>2, <2>1, <2>2, SlotFacts
  <2>4. x = c
    BY <2>2, <2>3
  <2>5. QED
    BY <2>4
<1>3. c \in T /\ p.max - c < RxWindow => Slot(c) \in p.ring /\ c <= p.max
  BY <1>1 DEF Tells
<1>4. c <= p.max \/ c > p.max
  BY <1>1
<1>5. ~(c <= p.max /\ c > p.max) /\ (p.max - c >= RxWindow => c <= p.max)
      /\ ~(p.max - c >= RxWindow /\ p.max - c < RxWindow)
      /\ (p.max - c >= RxWindow \/ p.max - c < RxWindow)
  BY <1>1
<1>6. QED
  BY <1>2, <1>3, <1>4, <1>5 DEF Call

LEMMA NewestIs ==
  ASSUME NEW p, NEW T, Tells(p, T)
  PROVE  Max(T) = p.max
<1>1. p.max \in T /\ \A x \in T : p.max >= x
  BY DEF Tells, Peer
<1>2. ASSUME NEW m \in T, \A x \in T : m >= x
      PROVE  m = p.max
  BY <1>1, <1>2 DEF Tells, Peer
<1>3. QED
  BY <1>1, <1>2 DEF Max

\* The ring after one more counter.
LEMMA RingTells ==
  ASSUME NEW p, NEW T, Tells(p, T), NEW c \in Int
  PROVE  Tells([max |-> Max({p.max, c}), ring |-> Ring(p, c), idle |-> FALSE], T \cup {c})
<1> DEFINE m == Max({p.max, c})
           R == Ring(p, c)
           W == T \cup {c}
<1>1. p.max \in Int /\ RxWindow \in Nat \ {0} /\ (\A x \in T : x \in Int /\ x <= p.max)
      /\ p.ring \subseteq 0 .. RxWindow - 1 /\ p.max \in T
  BY RxAssumption DEF Tells, Peer
<1>2. m = IF p.max < c THEN c ELSE p.max
  BY <1>1, MinMaxOfTwo
<1>3. Slot(c) \in 0 .. RxWindow - 1
  BY SlotFacts
<1>4. R \subseteq 0 .. RxWindow - 1
  BY <1>1, <1>3 DEF Ring
<1>5. m \in Int /\ m \in W /\ W \subseteq Int /\ \A x \in W : x <= m
  BY <1>1, <1>2
<1>6. ASSUME NEW x \in W, m - x < RxWindow
      PROVE  Slot(x) \in R
  <2>1. CASE Call(p, c) = "inOrder"
    <3>1. c > p.max /\ m = c /\ R = (p.ring \ SlidOver(p, c)) \cup {Slot(c)}
      BY <1>1, <1>2, <2>1, CallSays DEF Ring
    <3>2. SUFFICES ASSUME x \in T
                   PROVE  Slot(x) \in p.ring /\ Slot(x) \notin SlidOver(p, c)
      BY <3>1
    <3>3. x \in Int /\ x <= p.max /\ c - x < RxWindow
      BY <1>1, <1>6, <3>1, <3>2
    <3>4. Slot(x) \in p.ring
      BY <1>1, <3>1, <3>2, <3>3 DEF Tells
    <3>5. ~(c - p.max >= RxWindow)
      BY <1>1, <3>3
    <3>6. \A y \in p.max + 1 .. c : Slot(y) # Slot(x)
      <4>1. ASSUME NEW y \in p.max + 1 .. c
            PROVE  Slot(y) # Slot(x)
        <5>1. y \in Int /\ x < y /\ y - x < RxWindow
          BY <1>1, <3>1, <3>3
        <5>2. QED
          BY <1>1, <3>3, <5>1, SlotFacts
      <4>2. QED
        BY <4>1
    <3>7. QED
      BY <3>4, <3>5, <3>6 DEF SlidOver
  <2>2. CASE Call(p, c) = "displaced"
    <3>1. R = p.ring \cup {Slot(c)} /\ ~(c > p.max)
      BY <2>2, CallSays DEF Ring
    <3>2. m = p.max
      BY <1>1, <1>2, <3>1
    <3>3. QED
      BY <1>6, <3>1, <3>2 DEF Tells
  <2>3. CASE Call(p, c) \in {"dup", "stale"}
    <3>1. R = p.ring /\ ~(c > p.max)
      BY <2>3, CallSays DEF Ring
    <3>2. m = p.max /\ (x = c => c \in T)
      BY <1>1, <1>2, <1>6, <2>3, <3>1, CallSays
    <3>3. QED
      BY <1>6, <3>1, <3>2 DEF Tells
  <2>4. QED
    BY <2>1, <2>2, <2>3, CallSays
<1>7. ASSUME NEW s \in R
      PROVE  \E x \in W : m - x < RxWindow /\ Slot(x) = s
  <2>1. CASE s = Slot(c) /\ m - c < RxWindow
    BY <2>1
  <2>2. CASE Call(p, c) = "inOrder"
    <3>1. c > p.max /\ m = c /\ R = (p.ring \ SlidOver(p, c)) \cup {Slot(c)} /\ m - c < RxWindow
      BY <1>1, <1>2, <2>2, CallSays DEF Ring
    <3>2. CASE s \in p.ring \ SlidOver(p, c)
      <4>1. PICK x \in T : p.max - x < RxWindow /\ Slot(x) = s
        BY <3>2 DEF Tells
      <4>2. x \in Int /\ x <= p.max
        BY <1>1
      <4>3. ~(c - p.max >= RxWindow)
        BY <1>1, <3>2 DEF SlidOver
      <4>4. ASSUME c - x >= RxWindow PROVE FALSE
        <5>1. x + RxWindow \in p.max + 1 .. c
          BY <1>1, <4>1, <4>2, <4>4
        <5>2. Slot(x + RxWindow) = s
          BY <4>1, <4>2, SlotFacts
        <5>3. QED
          BY <3>2, <4>3, <5>1, <5>2 DEF SlidOver
      <4>5. c - x < RxWindow
        BY <1>1, <4>2, <4>4
      <4>6. QED
        BY <3>1, <4>1, <4>5
    <3>3. QED
      BY <2>1, <3>1, <3>2
  <2>3. CASE Call(p, c) = "displaced"
    <3>1. R = p.ring \cup {Slot(c)} /\ ~(c > p.max) /\ ~(p.max - c >= RxWindow)
      BY <2>3, CallSays DEF Ring
    <3>2. m = p.max /\ m - c < RxWindow
      BY <1>1, <1>2, <3>1
    <3>3. QED
      BY <2>1, <3>1, <3>2 DEF Tells
  <2>4. CASE Call(p, c) \in {"dup", "stale"}
    <3>1. R = p.ring /\ ~(c > p.max)
      BY <2>4, CallSays DEF Ring
    <3>2. m = p.max
      BY <1>1, <1>2, <3>1
    <3>3. QED
      BY <3>1, <3>2 DEF Tells
  <2>5. QED
    BY <2>2, <2>3, <2>4, CallSays
<1> HIDE DEF m, R, W
<1>8. Tells([max |-> m, ring |-> R, idle |-> FALSE], W)
  BY <1>4, <1>5, <1>6, <1>7 DEF Tells, Peer
<1>9. QED
  BY <1>8 DEF m, R, W

-----------------------------------------------------------------------------
(* The histogram                                                           *)

\* One element for each packet at most v behind.
Bars(h, v) == UNION {{d} \X (1 .. h[d]) : d \in 0 .. v}

LEMMA BarsAre ==
  ASSUME NEW h \in [0 .. DepthBuckets -> Nat], NEW v \in Int, v <= DepthBuckets
  PROVE  /\ IsFiniteSet(Bars(h, v)) /\ UpTo(h, v) = Cardinality(Bars(h, v)) /\ UpTo(h, v) \in Nat
         /\ \A e : e \in Bars(h, v) <=> \E d \in 0 .. v, i \in Nat : i \in 1 .. h[d] /\ e = <<d, i>>
<1> DEFINE f == [d \in 0 .. v |-> {d} \X (1 .. h[d])]
           F == {{d} \X (1 .. h[d]) : d \in 0 .. v}
<1>1. \A d \in 0 .. v : h[d] \in Nat /\ d \in 0 .. DepthBuckets
  BY RxAssumption
<1>2. f \in Surjection(0 .. v, F)
  BY DEF Surjection
<1>3. IsFiniteSet(0 .. v)
  BY FS_Interval
<1>4. IsFiniteSet(F)
  <2> HIDE DEF f, F
  <2> QED BY <1>2, <1>3, FS_Surjection
<1>5. ASSUME NEW T \in F
      PROVE  IsFiniteSet(T)
  <2>1. PICK d \in 0 .. v : T = {d} \X (1 .. h[d])
    OBVIOUS
  <2>2. 1 \in Int /\ h[d] \in Int
    BY <1>1
  <2>3. IsFiniteSet({d})
    BY FS_Singleton
  <2>4. IsFiniteSet(1 .. h[d])
    BY <2>2, FS_Interval
  <2>5. QED
    BY <2>1, <2>3, <2>4, FS_Product
<1>6. IsFiniteSet(UNION F)
  <2> HIDE DEF F
  <2> QED BY <1>4, <1>5, FS_UNION
<1>7. Bars(h, v) = UNION F /\ UpTo(h, v) = Cardinality(Bars(h, v))
  BY DEF Bars, UpTo
<1>8. \A e : e \in Bars(h, v) <=> \E d \in 0 .. v, i \in Nat : i \in 1 .. h[d] /\ e = <<d, i>>
  BY <1>1 DEF Bars
<1>9. QED
  <2> HIDE DEF F
  <2> QED BY <1>6, <1>7, <1>8, FS_CardinalityType

LEMMA NoBars == UpTo(NoDepths, DepthBuckets) = 0
<1>1. NoDepths \in [0 .. DepthBuckets -> Nat] /\ DepthBuckets \in Int /\ DepthBuckets <= DepthBuckets
  BY RxAssumption DEF NoDepths
<1>2. \A d \in 0 .. DepthBuckets : 1 .. NoDepths[d] = {}
  BY DEF NoDepths
<1>3. Bars(NoDepths, DepthBuckets) = {}
  BY <1>2 DEF Bars
<1>4. QED
  BY <1>1, <1>3, BarsAre, FS_EmptySet

\* One more packet d behind.
LEMMA OneBar ==
  ASSUME NEW h \in [0 .. DepthBuckets -> Nat], NEW d \in 0 .. DepthBuckets
  PROVE  LET g == [h EXCEPT ![d] = @ + 1]
         IN  /\ g \in [0 .. DepthBuckets -> Nat]
             /\ UpTo(g, DepthBuckets) = UpTo(h, DepthBuckets) + 1
<1> DEFINE g == [h EXCEPT ![d] = @ + 1]
           x == <<d, h[d] + 1>>
<1>1. g \in [0 .. DepthBuckets -> Nat] /\ h[d] \in Nat /\ g[d] = h[d] + 1
      /\ \A e \in 0 .. DepthBuckets : e # d => g[e] = h[e]
  OBVIOUS
<1>2. DepthBuckets \in Int /\ DepthBuckets <= DepthBuckets
  BY RxAssumption
<1>3. \A e : e \in Bars(h, DepthBuckets)
             <=> \E a \in 0 .. DepthBuckets, i \in Nat : i \in 1 .. h[a] /\ e = <<a, i>>
  BY <1>2, BarsAre
<1> HIDE DEF g
<1>4. \A e : e \in Bars(g, DepthBuckets)
             <=> \E a \in 0 .. DepthBuckets, i \in Nat : i \in 1 .. g[a] /\ e = <<a, i>>
  BY <1>1, <1>2, BarsAre
<1>5. x \notin Bars(h, DepthBuckets)
  BY <1>1, <1>3
<1>6. \A i \in Nat : i \in 1 .. g[d] <=> i \in 1 .. h[d] \/ i = h[d] + 1
  BY <1>1
<1>7. Bars(g, DepthBuckets) = Bars(h, DepthBuckets) \cup {x}
  <2>1. ASSUME NEW e \in Bars(g, DepthBuckets)
        PROVE  e \in Bars(h, DepthBuckets) \cup {x}
    <3>1. PICK a \in 0 .. DepthBuckets, i \in Nat : i \in 1 .. g[a] /\ e = <<a, i>>
      BY <1>4
    <3>2. QED
      BY <1>1, <1>3, <1>6, <3>1
  <2>2. ASSUME NEW e \in Bars(h, DepthBuckets)
        PROVE  e \in Bars(g, DepthBuckets)
    <3>1. PICK a \in 0 .. DepthBuckets, i \in Nat : i \in 1 .. h[a] /\ e = <<a, i>>
      BY <1>3
    <3>2. i \in 1 .. g[a]
      BY <1>1, <1>6, <3>1
    <3>3. QED
      BY <1>4, <3>1, <3>2
  <2>3. x \in Bars(g, DepthBuckets)
    <3>1. h[d] + 1 \in Nat /\ h[d] + 1 \in 1 .. g[d]
      BY <1>1
    <3>2. QED
      BY <1>4, <3>1
  <2>4. QED
    BY <2>1, <2>2, <2>3
<1> HIDE DEF x
<1>8. IsFiniteSet(Bars(h, DepthBuckets)) /\ Cardinality(Bars(h, DepthBuckets)) \in Nat
      /\ UpTo(h, DepthBuckets) = Cardinality(Bars(h, DepthBuckets))
      /\ UpTo(g, DepthBuckets) = Cardinality(Bars(g, DepthBuckets))
  BY <1>1, <1>2, BarsAre, FS_CardinalityType
<1>9. Cardinality(Bars(g, DepthBuckets)) = Cardinality(Bars(h, DepthBuckets)) + 1
  BY <1>5, <1>7, <1>8, FS_AddElement
<1>10. QED
  BY <1>1, <1>8, <1>9 DEF g

\* A set of numbers up to n has a least element.
LEMMA LeastUpTo ==
  ASSUME NEW n \in Nat, NEW T, T \subseteq 0 .. n, T # {}
  PROVE  Min(T) \in T /\ \A y \in T : Min(T) <= y
<1> DEFINE U == {0 .. x : x \in T}
           R == StrictSubsetOrdering(0 .. n)
<1>1. IsFiniteSet(0 .. n)
  BY FS_Interval
<1>2. IsWellFoundedOn(R, FiniteSubsetsOf(0 .. n))
  BY <1>1, FS_StrictSubsetOrderingWellFounded
<1>3. U # {}
  OBVIOUS
<1>4. U \subseteq FiniteSubsetsOf(0 .. n)
  <2>1. ASSUME NEW x \in T PROVE 0 .. x \in SUBSET (0 .. n) /\ IsFiniteSet(0 .. x)
    <3>1. 0 .. x \in SUBSET (0 .. n)
      OBVIOUS
    <3>2. QED
      BY <1>1, <3>1, FS_Subset
  <2>2. QED
    BY <2>1 DEF FiniteSubsetsOf
<1>5. PICK u \in U : \A v \in U : ~(<<v, u>> \in R)
  <2> HIDE DEF U, R
  <2>1. QED
    BY <1>2, <1>3, <1>4, WFMin
<1>6. PICK x \in T : u = 0 .. x
  OBVIOUS
<1>7. ASSUME NEW y \in T, y < x PROVE FALSE
  <2>1. 0 .. y \in U
    OBVIOUS
  <2>2. (0 .. y) \subseteq (0 .. x) /\ x \in (0 .. x) /\ x \notin (0 .. y)
    BY <1>7
  <2>3. (0 .. y) \in SUBSET (0 .. n) /\ (0 .. x) \in SUBSET (0 .. n)
    OBVIOUS
  <2>4. <<0 .. y, 0 .. x>> \in R
    BY <2>2, <2>3 DEF StrictSubsetOrdering
  <2>5. QED
    BY <1>5, <1>6, <2>1, <2>4
<1>8. \A y \in T : x <= y
  <2>1. \A y \in T : y \in Nat /\ ~(y < x)
    BY <1>7
  <2>2. QED
    BY <2>1
<1>9. QED
  BY <1>8 DEF Min

\* rxHistPct reports the nearest rank, of any histogram.
LEMMA NearestRank ==
  ASSUME NEW h \in [0 .. DepthBuckets -> Nat], NEW pct \in 1 .. 100,
         UpTo(h, DepthBuckets) > 0
  PROVE  LET total == UpTo(h, DepthBuckets)
             v == HistPct(h, total, pct)
         IN  /\ 100 * UpTo(h, v) >= pct * total
             /\ v > 0 => 100 * UpTo(h, v - 1) < pct * total
<1> DEFINE total == UpTo(h, DepthBuckets)
           rank == Rank(total, pct)
           T == {v \in DOMAIN h : UpTo(h, v) >= rank} \cup {DepthBuckets}
           v == Min(T)
<1>1. DepthBuckets \in Nat /\ DOMAIN h = 0 .. DepthBuckets
  BY RxAssumption
<1>2. \A u \in Int : u <= DepthBuckets => UpTo(h, u) \in Nat
  BY BarsAre
<1>3. v \in T /\ \A u \in T : v <= u
  <2>1. T \subseteq 0 .. DepthBuckets /\ T # {}
    BY <1>1
  <2> HIDE DEF T
  <2>2. QED
    BY <1>1, <2>1, LeastUpTo
<1>4. v \in 0 .. DepthBuckets
  BY <1>1, <1>3
<1>5. HistPct(h, total, pct) = v
  BY DEF HistPct
<1>6. total \in Nat /\ total > 0
  BY <1>1, <1>2
<1> HIDE DEF total
<1>7. /\ pct * total \in Nat /\ pct * total > 0 /\ pct * total <= 100 * total
  BY <1>6
<1>8. /\ rank \in Nat /\ 100 * rank >= pct * total
      /\ rank = 1 \/ 100 * rank <= pct * total + 99
  <2> DEFINE x == pct * total
             q == (x + 99) \div 100
  <2>1. x \in Nat /\ x > 0
    BY <1>7
  <2> HIDE DEF x
  <2>2. q \in Nat /\ 100 * q <= x + 99 /\ 100 * q >= x
    BY <2>1
  <2>3. rank = IF 1 < q THEN q ELSE 1
    <3>1. rank = Max({1, q})
      BY DEF Rank, x
    <3> HIDE DEF q, rank
    <3>2. QED
      BY <2>2, <3>1, MinMaxOfTwo
  <2> HIDE DEF q, rank
  <2>4. rank \in Nat /\ 100 * rank >= x /\ (rank = 1 \/ 100 * rank <= x + 99)
    BY <2>1, <2>2, <2>3
  <2>5. QED
    BY <2>4 DEF x
<1>9. 100 * UpTo(h, v) >= pct * total
  <2>1. CASE v = DepthBuckets
    BY <1>6, <1>7, <2>1 DEF total
  <2>2. CASE v # DepthBuckets
    <3>1. UpTo(h, v) >= rank /\ UpTo(h, v) \in Nat
      BY <1>1, <1>2, <1>3, <1>4, <2>2
    <3> HIDE DEF rank, v
    <3>2. QED
      BY <1>7, <1>8, <3>1
  <2>3. QED
    BY <2>1, <2>2
<1>10. ASSUME v > 0
       PROVE  100 * UpTo(h, v - 1) < pct * total
  <2>1. v - 1 \in 0 .. DepthBuckets /\ v - 1 \notin T /\ v - 1 \in Int
    <3> HIDE DEF T, v
    <3>1. v - 1 \in 0 .. DepthBuckets /\ v - 1 \in Int /\ ~(v <= v - 1)
      BY <1>1, <1>4, <1>10
    <3>2. QED
      BY <1>3, <3>1
  <2>2. UpTo(h, v - 1) \in Nat
    BY <1>1, <1>2, <2>1
  <2>3. ~(UpTo(h, v - 1) >= rank)
    BY <1>1, <2>1
  <2> HIDE DEF rank, v
  <2>4. QED
    BY <1>7, <1>8, <2>2, <2>3
<1>11. QED
  BY <1>5, <1>9, <1>10 DEF total

-----------------------------------------------------------------------------
(* The interval                                                            *)

RxCounters == {"total", "inOrder", "displaced", "dup", "stale", "refused"}
Ints(s) == /\ s.total \in Int /\ s.inOrder \in Int /\ s.displaced \in Int /\ s.dup \in Int
           /\ s.stale \in Int /\ s.total = s.inOrder + s.displaced + s.dup + s.stale
Marks ==
  /\ DOMAIN peers \subseteq Keypairs /\ IsFiniteSet(DOMAIN peers)
  /\ Cardinality(DOMAIN peers) <= RxMaxPeers
  /\ DOMAIN told = DOMAIN peers
  /\ \A k \in DOMAIN peers : Tells(peers[k], told[k])
Counted ==
  /\ DOMAIN stats = RxCounters /\ Ints(stats)
  /\ depth \in [0 .. DepthBuckets -> Nat] /\ UpTo(depth, DepthBuckets) = stats.displaced
RxInv == Marks /\ Counted /\ ~wrong

LEMMA NoneCounted == DOMAIN NoStats = RxCounters /\ Ints(NoStats)
                     /\ NoDepths \in [0 .. DepthBuckets -> Nat]
                     /\ UpTo(NoDepths, DepthBuckets) = NoStats.displaced
<1>1. DOMAIN NoStats = RxCounters /\ Ints(NoStats) /\ NoStats.displaced = 0
  BY DEF NoStats, RxCounters, Ints
<1>2. NoDepths \in [0 .. DepthBuckets -> Nat]
  BY DEF NoDepths
<1>3. QED
  BY <1>1, <1>2, NoBars

LEMMA RxInitial == RxInit => RxInv
<1> SUFFICES ASSUME RxInit PROVE RxInv
  OBVIOUS
<1>1. DOMAIN peers = {} /\ DOMAIN told = {} /\ ~wrong
  BY DEF RxInit
<1>2. Marks
  BY <1>1, FS_EmptySet, RxAssumption DEF Marks
<1>3. Counted
  BY NoneCounted DEF RxInit, Counted
<1>4. QED
  BY <1>1, <1>2, <1>3 DEF RxInv

\* What a packet is called is what it is.
LEMMA CallIs ==
  ASSUME NEW k, k \in DOMAIN peers, Tells(peers[k], told[k]), NEW c \in Int
  PROVE  Call(peers[k], c) = Is(k, c)
<1>1. Max(told[k]) = peers[k].max /\ peers[k].max \in Int
  BY NewestIs DEF Tells, Peer
<1>2. peers[k].max - c >= RxWindow \/ peers[k].max - c < RxWindow
  BY <1>1, RxAssumption
<1>3. c > peers[k].max \/ c <= peers[k].max
  BY <1>1
<1>4. ~(peers[k].max - c >= RxWindow /\ peers[k].max - c < RxWindow)
      /\ ~(c > peers[k].max /\ c <= peers[k].max)
      /\ (peers[k].max - c >= RxWindow => c <= peers[k].max)
  BY <1>1, RxAssumption
<1>5. QED
  BY <1>1, <1>2, <1>3, <1>4, CallSays DEF Is

LEMMA RxNew ==
  ASSUME NEW k \in Keypairs, NEW c \in Counters, RxInv, NewKeypair(k, c)
  PROVE  RxInv'
<1>1. k \notin DOMAIN peers /\ depth' = depth /\ wrong' = wrong
  BY DEF NewKeypair
<1>2. CASE HasRoom
  <2>1. peers' = Track(peers, k, [max |-> c, ring |-> {Slot(c)}, idle |-> FALSE])
        /\ told' = Track(told, k, {c})
        /\ stats' = [stats EXCEPT !.total = @ + 1, !.inOrder = @ + 1]
    BY <1>2 DEF NewKeypair
  <2>2. /\ DOMAIN peers' = DOMAIN peers \cup {k} /\ DOMAIN told' = DOMAIN peers'
        /\ peers'[k] = [max |-> c, ring |-> {Slot(c)}, idle |-> FALSE] /\ told'[k] = {c}
        /\ \A j \in DOMAIN peers : peers'[j] = peers[j] /\ told'[j] = told[j]
    BY <1>1, <2>1 DEF Track, RxInv, Marks
  <2>3. Tells(peers'[k], told'[k])
    <3>1. c \in Int /\ Slot(c) \in 0 .. RxWindow - 1 /\ c - c < RxWindow
      BY SlotFacts, RxAssumption DEF Counters
    <3>2. Tells([max |-> c, ring |-> {Slot(c)}, idle |-> FALSE], {c})
      BY <3>1 DEF Tells, Peer
    <3>3. QED
      BY <2>2, <3>2
  <2>4. IsFiniteSet(DOMAIN peers') /\ Cardinality(DOMAIN peers') <= RxMaxPeers
    <3>1. IsFiniteSet(DOMAIN peers \cup {k})
          /\ Cardinality(DOMAIN peers \cup {k}) = Cardinality(DOMAIN peers) + 1
      BY <1>1, FS_AddElement DEF RxInv, Marks
    <3>2. Cardinality(DOMAIN peers) \in Nat /\ Cardinality(DOMAIN peers) < RxMaxPeers
      BY <1>2, FS_CardinalityType DEF RxInv, Marks, HasRoom
    <3>3. QED
      BY <2>2, <3>1, <3>2, RxAssumption
  <2>5. Marks'
    BY <2>2, <2>3, <2>4 DEF Marks, RxInv
  <2>6. Counted'
    <3>1. DOMAIN stats' = RxCounters /\ stats'.displaced = stats.displaced
      BY <2>1 DEF RxInv, Counted, RxCounters
    <3>2. Ints(stats')
      BY <2>1 DEF RxInv, Counted, Ints, RxCounters
    <3>3. QED
      BY <1>1, <3>1, <3>2 DEF RxInv, Counted
  <2>7. QED
    BY <1>1, <2>5, <2>6 DEF RxInv
<1>3. CASE ~HasRoom
  <2>1. stats' = [stats EXCEPT !.refused = @ + 1] /\ peers' = peers /\ told' = told
    BY <1>3 DEF NewKeypair
  <2>2. Counted'
    <3>1. DOMAIN stats' = RxCounters /\ stats'.displaced = stats.displaced
      BY <2>1 DEF RxInv, Counted, RxCounters
    <3>2. Ints(stats')
      BY <2>1 DEF RxInv, Counted, Ints, RxCounters
    <3>3. QED
      BY <1>1, <3>1, <3>2 DEF RxInv, Counted
  <2>3. QED
    BY <1>1, <2>1, <2>2 DEF RxInv, Marks
<1>4. QED
  BY <1>2, <1>3

LEMMA RxObserve ==
  ASSUME NEW k \in Keypairs, NEW c \in Counters, RxInv, Observe(k, c)
  PROVE  RxInv'
<1> DEFINE p == peers[k]
           call == Call(p, c)
           d == Min({p.max - c, DepthBuckets})
<1>1. c \in Int /\ k \in DOMAIN peers /\ Tells(p, told[k])
  BY DEF Counters, Observe, RxInv, Marks
<1>2. /\ peers' = [peers EXCEPT ![k] = [max |-> Max({p.max, c}), ring |-> Ring(p, c),
                                        idle |-> FALSE]]
      /\ stats' = [stats EXCEPT !.total = @ + 1, ![call] = @ + 1]
      /\ depth' = IF call = "displaced" THEN [depth EXCEPT ![d] = @ + 1] ELSE depth
      /\ wrong' = (wrong \/ call # Is(k, c))
      /\ told' = [told EXCEPT ![k] = @ \cup {c}]
  BY DEF Observe
<1>3. ~wrong'
  BY <1>1, <1>2, CallIs DEF RxInv
<1>4. Marks'
  <2>1. Tells([max |-> Max({p.max, c}), ring |-> Ring(p, c), idle |-> FALSE], told[k] \cup {c})
    BY <1>1, RingTells
  <2>2. DOMAIN peers' = DOMAIN peers /\ DOMAIN told' = DOMAIN told
    BY <1>2
  <2>3. peers'[k] = [max |-> Max({p.max, c}), ring |-> Ring(p, c), idle |-> FALSE]
        /\ told'[k] = told[k] \cup {c}
    BY <1>1, <1>2 DEF RxInv, Marks
  <2>4. \A j \in DOMAIN peers : j # k => peers'[j] = peers[j] /\ told'[j] = told[j]
    BY <1>2 DEF RxInv, Marks
  <2>5. QED
    BY <2>1, <2>2, <2>3, <2>4 DEF RxInv, Marks
<1>5. Counted'
  <2>1. call \in {"inOrder", "stale", "dup", "displaced"}
    BY <1>1, CallSays
  <2> HIDE DEF call
  <2>2. DOMAIN stats' = RxCounters
    BY <1>2 DEF RxInv, Counted
  <2>3. Ints(stats)
        /\ stats' = [stats EXCEPT !.total = @ + 1, ![call] = @ + 1] /\ DOMAIN stats = RxCounters
    BY <1>2 DEF RxInv, Counted
  <2>4. Ints(stats')
    <3>1. CASE call = "inOrder"
      BY <2>3, <3>1 DEF Ints, RxCounters
    <3>2. CASE call = "stale"
      BY <2>3, <3>2 DEF Ints, RxCounters
    <3>3. CASE call = "dup"
      BY <2>3, <3>3 DEF Ints, RxCounters
    <3>4. CASE call = "displaced"
      BY <2>3, <3>4 DEF Ints, RxCounters
    <3>5. QED
      BY <2>1, <3>1, <3>2, <3>3, <3>4
  <2>5. depth' \in [0 .. DepthBuckets -> Nat] /\ UpTo(depth', DepthBuckets) = stats'.displaced
    <3>1. CASE call = "displaced"
      <4>1. p.max \in Int /\ DepthBuckets \in Nat
        BY <1>1, RxAssumption DEF Tells, Peer
      <4>2. ~(c > p.max)
        BY <1>1, <3>1, CallSays DEF call
      <4>3. d \in 0 .. DepthBuckets
        <5>1. p.max - c \in Nat
          BY <1>1, <4>1, <4>2
        <5>2. ASSUME NEW x \in Nat PROVE Min({x, DepthBuckets}) \in 0 .. DepthBuckets
          <6>1. Min({x, DepthBuckets}) = IF x < DepthBuckets THEN x ELSE DepthBuckets
            BY <4>1, MinMaxOfTwo
          <6>2. QED
            BY <4>1, <6>1
        <5>3. QED
          BY <5>1, <5>2
      <4> HIDE DEF d
      <4>4. depth' = [depth EXCEPT ![d] = @ + 1]
        BY <1>2, <3>1
      <4>5. stats'.displaced = stats.displaced + 1
        BY <2>3, <3>1 DEF Ints, RxCounters
      <4>6. QED
        BY <4>3, <4>4, <4>5, OneBar DEF RxInv, Counted
    <3>2. CASE call # "displaced"
      <4>1. stats'.displaced = stats.displaced
        BY <2>1, <2>3, <3>2 DEF RxCounters
      <4>2. QED
        BY <1>2, <3>2, <4>1 DEF RxInv, Counted
    <3>3. QED
      BY <3>1, <3>2
  <2>6. QED
    BY <2>2, <2>4, <2>5 DEF Counted
<1>6. QED
  BY <1>3, <1>4, <1>5 DEF RxInv

LEMMA RxIdle ==
  ASSUME NEW k \in Keypairs, RxInv, KeypairIdle(k)
  PROVE  RxInv'
<1>1. k \in DOMAIN peers /\ peers' = [peers EXCEPT ![k].idle = TRUE]
      /\ stats' = stats /\ depth' = depth /\ told' = told /\ wrong' = wrong
  BY DEF KeypairIdle
<1>2. /\ DOMAIN peers' = DOMAIN peers
      /\ \A j \in DOMAIN peers : j # k => peers'[j] = peers[j]
      /\ peers'[k] = [peers[k] EXCEPT !.idle = TRUE]
  BY <1>1
<1>3. Tells(peers[k], told[k]) => Tells([peers[k] EXCEPT !.idle = TRUE], told[k])
  BY DEF Tells, Peer
<1>4. Marks'
  BY <1>1, <1>2, <1>3 DEF RxInv, Marks
<1>5. QED
  BY <1>1, <1>4 DEF RxInv, Counted

LEMMA RxReset ==
  ASSUME RxInv, DumpAndReset
  PROVE  RxInv'
<1> DEFINE D == {j \in DOMAIN peers : ~peers[j].idle}
<1>1. stats' = NoStats /\ depth' = NoDepths /\ wrong' = wrong
      /\ peers' = [k \in D |-> peers[k]] /\ told' = [k \in D |-> told[k]]
  BY DEF DumpAndReset
<1>2. D \subseteq DOMAIN peers
  OBVIOUS
<1>3. IsFiniteSet(D) /\ Cardinality(D) <= Cardinality(DOMAIN peers)
  BY <1>2, FS_Subset DEF RxInv, Marks
<1>4. Cardinality(D) \in Nat /\ Cardinality(DOMAIN peers) \in Nat
  BY <1>3, FS_CardinalityType DEF RxInv, Marks
<1>5. DOMAIN peers' = D /\ DOMAIN told' = D
      /\ \A j \in D : peers'[j] = peers[j] /\ told'[j] = told[j]
  BY <1>1
<1> HIDE DEF D
<1>6. Cardinality(D) <= RxMaxPeers
  BY <1>3, <1>4, RxAssumption DEF RxInv, Marks
<1>7. Marks'
  BY <1>2, <1>3, <1>5, <1>6 DEF RxInv, Marks
<1>8. Counted'
  BY <1>1, NoneCounted DEF Counted
<1>9. QED
  BY <1>1, <1>7, <1>8 DEF RxInv

LEMMA RxKept == RxInv /\ [RxNext]_rxVars => RxInv'
<1> SUFFICES ASSUME RxInv, [RxNext]_rxVars PROVE RxInv'
  OBVIOUS
<1>1. ASSUME NEW k \in Keypairs, NEW c \in Counters, NewKeypair(k, c) PROVE RxInv'
  BY <1>1, RxNew
<1>2. ASSUME NEW k \in Keypairs, NEW c \in Counters, Observe(k, c) PROVE RxInv'
  BY <1>2, RxObserve
<1>3. ASSUME NEW k \in Keypairs, KeypairIdle(k) PROVE RxInv'
  BY <1>3, RxIdle
<1>4. CASE DumpAndReset
  BY <1>4, RxReset
<1>5. CASE UNCHANGED rxVars
  BY <1>5 DEF rxVars, RxInv, Marks, Counted
<1>6. QED
  BY <1>1, <1>2, <1>3, <1>4, <1>5 DEF RxNext

LEMMA RxHeld == RxInv => RxTypeOK /\ CalledWhatItIs /\ PercentilesExact
<1> SUFFICES ASSUME RxInv PROVE RxTypeOK /\ CalledWhatItIs /\ PercentilesExact
  OBVIOUS
<1>1. RxTypeOK
  BY DEF RxInv, Marks, Counted, Ints, RxTypeOK
<1>2. PercentilesExact
  <2>1. stats.displaced = UpTo(depth, DepthBuckets) /\ depth \in [0 .. DepthBuckets -> Nat]
    BY DEF RxInv, Counted
  <2>3. SUFFICES ASSUME NEW pct \in {50, 90, 99}, stats.displaced > 0
                 PROVE  LET v == HistPct(depth, stats.displaced, pct)
                        IN  /\ 100 * UpTo(depth, v) >= pct * stats.displaced
                            /\ v > 0 => 100 * UpTo(depth, v - 1) < pct * stats.displaced
    BY DEF PercentilesExact
  <2>4. pct \in 1 .. 100
    OBVIOUS
  <2> DEFINE total == UpTo(depth, DepthBuckets)
             v == HistPct(depth, total, pct)
  <2>5. total > 0 /\ depth \in [0 .. DepthBuckets -> Nat] /\ stats.displaced = total
    BY <2>1, <2>3
  <2>6. 100 * UpTo(depth, v) >= pct * total /\ (v > 0 => 100 * UpTo(depth, v - 1) < pct * total)
    BY <2>4, <2>5, NearestRank
  <2>7. QED
    BY <2>5, <2>6
<1>3. QED
  BY <1>1, <1>2 DEF RxInv, CalledWhatItIs

-----------------------------------------------------------------------------
(* Types and bounds of the remaining parts                                 *)

Sizes ==
  connUp \subseteq Conns /\ Len(sendCh) <= QueueLen /\ Len(recvCh) <= QueueLen

LEMMA SizesKept ==
  ASSUME PacketInv, PacketAssumption, Sizes, [PacketNext]_packetVars
  PROVE  Sizes'
<1>1. sendCh \in Seq(Item) /\ recvCh \in Seq(Item) /\ QueueLen \in Nat
  BY DEF PacketInv, PkTypes, PacketAssumption
<1>2. ASSUME NEW q \in Seq(Item), Len(q) <= QueueLen
      PROVE  /\ q # << >> => Len(Tail(q)) <= QueueLen
             /\ \A e : Len(q) < QueueLen => Len(Append(q, e)) <= QueueLen
  BY <1>1, <1>2
<1>3. connUp' \subseteq Conns
  <2>1. CASE UNCHANGED packetVars
    BY <2>1 DEF packetVars, Sizes
  <2>2. ASSUME NEW c \in Conns, NextSession(c) \/ ReadFails(c) \/ CancelConn(c)
                                \/ \E ok \in BOOLEAN : Write(c, ok)
        PROVE  connUp' \subseteq Conns
    BY <2>2 DEF NextSession, ReadFails, CancelConn, Write, Sizes
  <2>3. CASE PacketNext
    BY <2>2, <2>3 DEF PacketNext, Sizes, Copy, Enqueue, Block, SendCancelled, Dequeue, WriterEnds,
       ReadPacket, EnqueueRecv, BlockRecv, RecvCancelled, ReceivePacket, StopTunnel, life
  <2>4. QED
    BY <2>1, <2>3
<1>4. \/ sendCh' = sendCh
      \/ sendCh # << >> /\ sendCh' = Tail(sendCh)
      \/ Len(sendCh) < QueueLen /\ \E e : sendCh' = Append(sendCh, e)
  <2>1. CASE UNCHANGED packetVars
    BY <2>1 DEF packetVars
  <2>2. CASE PacketNext
    BY <2>2 DEF PacketNext, Copy, Enqueue, Block, SendCancelled, Dequeue, WriterEnds, Write,
       ReadPacket, ReadFails, EnqueueRecv, BlockRecv, RecvCancelled, ReceivePacket, StopTunnel,
       CancelConn, NextSession, queues
  <2>3. QED
    BY <2>1, <2>2
<1>5. \/ recvCh' = recvCh
      \/ recvCh # << >> /\ recvCh' = Tail(recvCh)
      \/ Len(recvCh) < QueueLen /\ \E e : recvCh' = Append(recvCh, e)
  <2>1. CASE UNCHANGED packetVars
    BY <2>1 DEF packetVars
  <2>2. CASE PacketNext
    BY <2>2 DEF PacketNext, Copy, Enqueue, Block, SendCancelled, Dequeue, WriterEnds, Write,
       ReadPacket, ReadFails, EnqueueRecv, BlockRecv, RecvCancelled, ReceivePacket, StopTunnel,
       CancelConn, NextSession, queues
  <2>3. QED
    BY <2>1, <2>2
<1>6. QED
  BY <1>1, <1>2, <1>3, <1>4, <1>5 DEF Sizes

WrapFits ==
  /\ closing \in 0 .. 7 /\ stage \in {"handshake", "open", "failed"}
  /\ Len(dtlsCh) <= DtlsCap /\ Len(rtpCh) <= RtpCap

LEMMA WrapFitsKept ==
  ASSUME WrapInv, WrapAssumption, WrapFits, [WrapNext]_wrapVars
  PROVE  WrapFits'
<1>1. dtlsCh \in Seq(WrapBufs) /\ rtpCh \in Seq(WrapBufs) /\ DtlsCap \in Nat /\ RtpCap \in Nat
  BY DEF WrapInv, WrapTypes, WrapAssumption
<1>2. ASSUME NEW q \in Seq(WrapBufs), NEW cap \in Nat, Len(q) <= cap
      PROVE  /\ q # << >> => Len(Tail(q)) <= cap
             /\ \A e : Len(q) < cap => Len(Append(q, e)) <= cap
  BY <1>2
<1>3. /\ closing' \in 0 .. 7 /\ stage' \in {"handshake", "open", "failed"}
  <2>1. CASE UNCHANGED wrapVars
    BY <2>1 DEF wrapVars, WrapFits
  <2>2. CASE CloseStep
    <3>1. Len(CloseSteps) = 6
      BY DEF CloseSteps
    <3>2. QED
      BY <2>2, <3>1 DEF CloseStep, WrapFits
  <2>3. CASE WrapNext /\ ~CloseStep
    BY <2>3 DEF WrapNext, WrapFits, DemuxReads, DemuxPuts, DemuxEnds, WakeRelay, DtlsReads,
       SrtpHandshakeWorks, SrtpHandshakeFails, DtlsEnds, RelayDies, ReadRtp, Delivered, ReadEnds,
       WriteRtp, WriteOver, WriterCancelled, CloseBegins
  <2>4. QED
    BY <2>1, <2>2, <2>3
<1>4. \/ dtlsCh' = dtlsCh
      \/ dtlsCh # << >> /\ dtlsCh' = Tail(dtlsCh)
      \/ Len(dtlsCh) < DtlsCap /\ \E e : dtlsCh' = Append(dtlsCh, e)
  <2>1. CASE UNCHANGED wrapVars
    BY <2>1 DEF wrapVars
  <2>2. CASE WrapNext
    BY <2>2 DEF WrapNext, fabric, DemuxReads, DemuxPuts, DemuxEnds, WakeRelay, DtlsReads,
       SrtpHandshakeWorks, SrtpHandshakeFails, DtlsEnds, RelayDies, ReadRtp, Delivered, ReadEnds,
       WriteRtp, WriteOver, WriterCancelled, CloseBegins, CloseStep
  <2>3. QED
    BY <2>1, <2>2
<1>5. \/ rtpCh' = rtpCh
      \/ rtpCh # << >> /\ rtpCh' = Tail(rtpCh)
      \/ Len(rtpCh) < RtpCap /\ \E e : rtpCh' = Append(rtpCh, e)
  <2>1. CASE UNCHANGED wrapVars
    BY <2>1 DEF wrapVars
  <2>2. CASE WrapNext
    BY <2>2 DEF WrapNext, fabric, DemuxReads, DemuxPuts, DemuxEnds, WakeRelay, DtlsReads,
       SrtpHandshakeWorks, SrtpHandshakeFails, DtlsEnds, RelayDies, ReadRtp, Delivered, ReadEnds,
       WriteRtp, WriteOver, WriterCancelled, CloseBegins, CloseStep
  <2>3. QED
    BY <2>1, <2>2
<1>6. QED
  BY <1>1, <1>2, <1>3, <1>4, <1>5 DEF WrapFits

DlBounded == dlExp \in {NoDl} \cup 0 .. DlHorizon

LEMMA DlBoundedKept == DlBounded /\ [DlNext]_deadlineVars => DlBounded'
BY DEF DlBounded, DlNext, deadlineVars, DlTick, ReadWaits, ReadWoken, ReadGetsPacket, SetDl,
   TimerRuns, Fire

Seated ==
  /\ seats = (IF sess.at = "none" THEN 0 ELSE 1)
  /\ sampled \in 0 .. MaxSessions /\ localIP \in 0 .. MaxSessions

LEMMA SeatedKept ==
  ASSUME TransportAssumption, RefusalInv, Seated, [TransportNext]_transportVars
  PROVE  Seated'
<1>1. sess \in [n : 0 .. MaxSessions, at : Places] /\ MaxSessions \in Nat \ {0}
      /\ 0 \in 0 .. MaxSessions /\ \A n \in Sessions : n \in 0 .. MaxSessions
  BY DEF RefusalInv, SessTypes, TransportAssumption, Sessions
<1>2. CASE UNCHANGED transportVars
  BY <1>2 DEF transportVars, Seated
<1>3. ASSUME NEW n \in Sessions, RelaySteps(n) \/ ForwarderSticks(n) \/ ForwarderFails(n)
      PROVE  Seated'
  BY <1>1, <1>3 DEF Seated, RelaySteps, RelayDials, RelayAllocates, ForwarderSticks, ForwarderFails,
     CancelBounds, ForwarderEnds, RelayReturns, RelayReports, RelayCancels
<1>4. CASE StartSession \/ CancelSession \/ Established \/ HandshakeDone
  BY <1>1, <1>4 DEF Seated, StartSession, CancelSession, Established, HandshakeDone, Places
<1>5. CASE SessionSteps
  BY <1>1, <1>5 DEF Seated, SessionSteps, HandshakeFails, SetupFails, FirstMessageFails, PumpsEnd,
     SessionReturns, Places
<1>6. QED
  BY <1>2, <1>3, <1>4, <1>5 DEF TransportNext

Caller == [at : {"idle", "waits", "discovers"}, config : Nat]
Listed ==
  /\ config <= MaxConfigs + 1 /\ fatal \in Nat /\ fatal <= config
  /\ callers \in [Slots -> Caller] /\ \A s \in Slots : callers[s].config <= config
  /\ discoverIdx \in 0 .. NumLinks /\ cookieCache \subseteq Links /\ minted \subseteq Links
  /\ \A i \in 1 .. Len(relayList) : relayList[i].link \in Links
\* Who is inside holds the lock, nobody else.
Locked == \A s \in Slots : Holds(s) <=> lock = s

LEMMA LockedKept ==
  ASSUME CookieAssumption, Listed, Locked, [CookieNext]_cookieVars
  PROVE  Locked'
<1> USE DEF Holds
<1>1. Slots \subseteq Nat /\ NoSlot \notin Slots /\ callers \in [Slots -> Caller]
  BY DEF CookieAssumption, NoSlot, Listed
<1>2. CASE UNCHANGED <<callers, lock>>
  BY <1>2 DEF Locked
<1>3. ASSUME NEW s \in Slots, CookieCredForSlot(s) PROVE Locked'
  BY <1>1, <1>3 DEF CookieCredForSlot, Locked, Caller
<1>4. ASSUME NEW s \in Slots, TakeLock(s) PROVE Locked'
  BY <1>1, <1>4 DEF TakeLock, Locked, Caller
<1>5. ASSUME NEW s \in Slots, Holds(s), Returns(s) PROVE Locked'
  BY <1>1, <1>5 DEF Returns, Locked, Idle
<1>6. ASSUME NEW s \in Slots, SlotServed(s) \/ SlotUnserved(s) \/ \E r \in BOOLEAN : LinkFails(s, r)
      PROVE  Locked'
  BY <1>5, <1>6 DEF SlotServed, SlotUnserved, LinkFails
<1>7. QED
  BY <1>2, <1>3, <1>4, <1>6 DEF CookieNext, cookieVars, SetVKCookieAuth, ClearCaches, DiscoverLink,
     CookieCredStale

\* What a link adds is of the link.
LEMMA AddedListed ==
  ASSUME CookieAssumption, CookieInv, Listed, NEW link \in Links, NEW added \in NewRelays(link),
         serves \in ServesAll, relayList' = relayList \o RefsOf(link, added)
  PROVE  \A i \in 1 .. Len(relayList') : relayList'[i].link \in Links
<1> DEFINE refs == RefsOf(link, added)
<1>1. link \in Nat /\ serves[link] \subseteq Relays
  BY DEF Links, ServesAll, CookieAssumption
<1>2. IsFiniteSet(serves[link] \ Found)
  BY <1>1, FS_Subset DEF CookieAssumption
<1>3. PICK n \in Nat : added \in [1 .. n -> serves[link] \ Found]
  BY <1>2, FS_CardinalityType DEF NewRelays, SetToSeqs
<1>4. refs = [i \in 1 .. n |-> [relay |-> added[i], link |-> link]]
  BY <1>3 DEF RefsOf
<1>5. refs \in Seq(Refs) /\ Len(refs) = n /\ \A i \in 1 .. n : refs[i].link = link
  <2>1. refs \in [1 .. n -> Refs]
    BY <1>1, <1>3, <1>4 DEF Refs
  <2>2. \A i \in 1 .. n : refs[i].link = link
    BY <1>4
  <2> HIDE DEF refs
  <2>3. QED
    BY <2>1, <2>2
<1> HIDE DEF refs
<1>6. relayList \in Seq(Refs) /\ relayList' = relayList \o refs
  BY DEF CookieInv, CookieTypes, refs
<1>7. /\ Len(relayList') = Len(relayList) + n /\ Len(relayList) \in Nat
      /\ \A i \in 1 .. Len(relayList) + n :
           relayList'[i] = IF i <= Len(relayList) THEN relayList[i] ELSE refs[i - Len(relayList)]
  <2>1. /\ Len(relayList \o refs) = Len(relayList) + Len(refs)
        /\ \A i \in 1 .. Len(relayList) + Len(refs) :
             (relayList \o refs)[i] =
               IF i <= Len(relayList) THEN relayList[i] ELSE refs[i - Len(relayList)]
    BY <1>5, <1>6, Joined
  <2>2. QED
    BY <1>5, <1>6, <2>1
<1>8. ASSUME NEW i \in 1 .. Len(relayList')
      PROVE  relayList'[i].link \in Links
  <2>1. CASE i <= Len(relayList)
    BY <1>7, <2>1 DEF Listed
  <2>2. CASE ~(i <= Len(relayList))
    <3>1. i - Len(relayList) \in 1 .. n /\ relayList'[i] = refs[i - Len(relayList)]
      BY <1>7, <2>2
    <3>2. QED
      BY <1>5, <3>1
  <2>3. QED
    BY <2>1, <2>2
<1>9. QED
  BY <1>8

LEMMA ListedKept ==
  ASSUME CookieAssumption, CookieInv, serves \in ServesAll, Listed, Locked, [CookieNext]_cookieVars
  PROVE  Listed'
<1> USE DEF listVars
<1>1. /\ config \in Nat \ {0} /\ NumLinks \in Nat /\ MaxConfigs \in Nat
      /\ callers \in [Slots -> Caller] /\ relayList \in Seq(Refs)
  BY DEF CookieInv, CookieTypes, CookieAssumption, Listed
<1>2. CASE SetVKCookieAuth
  <2>1. \A s \in Slots : callers[s].config \in Nat /\ callers[s].config <= config
    BY DEF Listed, Caller
  <2>2. QED
    BY <1>1, <1>2, <2>1 DEF SetVKCookieAuth, Listed
<1>3. CASE ClearCaches
  <2>1. relayList' = << >> /\ Len(relayList') = 0
    BY <1>3 DEF ClearCaches
  <2>2. QED
    BY <1>1, <1>3, <2>1 DEF ClearCaches, Listed
<1>4. ASSUME NEW s \in Slots, CookieCredForSlot(s) PROVE Listed'
  <2>1. callers' = [callers EXCEPT ![s] = [at |-> "waits", config |-> config]]
        /\ UNCHANGED <<config, fatal, discoverIdx, cookieCache, minted, relayList>>
    BY <1>4 DEF CookieCredForSlot
  <2>2. callers' \in [Slots -> Caller] /\ \A t \in Slots : callers'[t].config <= config
    BY <1>1, <2>1 DEF Listed, Caller
  <2>3. QED
    BY <2>1, <2>2 DEF Listed
<1>5. ASSUME NEW s \in Slots, TakeLock(s) PROVE Listed'
  <2>1. callers' = [callers EXCEPT ![s].at = "discovers"]
        /\ UNCHANGED <<config, fatal, discoverIdx, cookieCache, minted, relayList>>
    BY <1>5 DEF TakeLock
  <2>2. callers' \in [Slots -> Caller] /\ \A t \in Slots : callers'[t].config <= config
    BY <1>1, <2>1 DEF Listed, Caller
  <2>3. QED
    BY <2>1, <2>2 DEF Listed
<1>6. ASSUME NEW s \in Slots, Returns(s)
      PROVE  callers' \in [Slots -> Caller] /\ \A t \in Slots : callers'[t].config <= config
  BY <1>1, <1>6 DEF Returns, Idle, Listed, Caller
<1>7. ASSUME NEW s \in Slots, SlotServed(s) PROVE Listed'
  <2>1. s + 1 \in 1 .. Len(relayList)
    <3>1. s \in Nat /\ Len(relayList) \in Nat /\ s < Len(relayList)
      BY <1>1, <1>7 DEF SlotServed, CookieAssumption
    <3>2. QED
      BY <3>1
  <2>2. relayList[s + 1].link \in Links
    BY <2>1 DEF Listed
  <2>3. QED
    BY <1>1, <1>6, <1>7, <2>2 DEF SlotServed, RefOf, Listed
<1>8. ASSUME NEW s \in Slots, SlotUnserved(s) PROVE Listed'
  BY <1>6, <1>8 DEF SlotUnserved, Listed
<1>9. ASSUME NEW s \in Slots, NEW rejected \in BOOLEAN, LinkFails(s, rejected) PROVE Listed'
  <2>1. discoverIdx' \in 0 .. NumLinks
    BY <1>1, <1>9 DEF LinkFails, LookedAt, NeedsLink, Listed
  <2>2. fatal' \in Nat /\ fatal' <= config
    BY <1>1, <1>9 DEF LinkFails, Listed, Caller
  <2>3. QED
    BY <1>6, <1>9, <2>1, <2>2 DEF LinkFails, Listed
<1>10. ASSUME NEW s \in Slots, DiscoverLink(s) PROVE Listed'
  <2> DEFINE link == discoverIdx + 1
  <2>1. link \in Links /\ link \in 0 .. NumLinks
    BY <1>1, <1>10 DEF DiscoverLink, NeedsLink, Links, Listed
  <2>2. discoverIdx' = link /\ cookieCache' = cookieCache \cup {link} /\ minted' = minted \cup {link}
        /\ UNCHANGED <<config, callers, fatal>>
    BY <1>10 DEF DiscoverLink
  <2>3. PICK added \in NewRelays(link) : relayList' = relayList \o RefsOf(link, added)
    BY <1>10 DEF DiscoverLink
  <2> HIDE DEF link
  <2>4. \A i \in 1 .. Len(relayList') : relayList'[i].link \in Links
    BY <2>1, <2>3, AddedListed
  <2>5. QED
    BY <2>1, <2>2, <2>4 DEF Listed
<1>11. ASSUME NEW link \in Links, CookieCredStale(link) PROVE Listed'
  BY <1>11 DEF CookieCredStale, Listed
<1>12. CASE UNCHANGED cookieVars
  BY <1>12 DEF cookieVars, Listed
<1>13. QED
  BY <1>2, <1>3, <1>4, <1>5, <1>7, <1>8, <1>9, <1>10, <1>11, <1>12 DEF CookieNext

-----------------------------------------------------------------------------
(* The other six parts                                                     *)

FitsInv == /\ OwnedInv /\ TimersInv /\ RefusalInv
           /\ Sizes /\ WrapFits /\ DlBounded /\ Seated /\ Listed /\ Locked

LEMMA FitsInitial == PartsInit => FitsInv
<1> SUFFICES ASSUME PartsInit PROVE FitsInv
  OBVIOUS
<1>1. OwnedInv
  BY OwnedInitial
<1>2. TimersInv /\ RefusalInv
  BY DeadlineInit, CascadeInitial, CascadeAssumption, RefusalInit, TransportAssumption
     DEF PartsInit, TimersInv
<1>3. Sizes
  <2>1. Len(sendCh) = 0 /\ Len(recvCh) = 0 /\ connUp = Conns /\ QueueLen \in Nat
    BY PacketAssumption DEF PartsInit, PacketInit, PacketAssumption
  <2>2. QED
    BY <2>1 DEF Sizes
<1>4. WrapFits
  <2>1. Len(dtlsCh) = 0 /\ Len(rtpCh) = 0 /\ closing = 0 /\ stage = "handshake"
    BY DEF PartsInit, WrapInit
  <2>2. QED
    BY <2>1, WrapAssumption DEF WrapFits, WrapAssumption
<1>5. DlBounded
  BY DEF PartsInit, DlInit, DlBounded
<1>6. Seated
  BY TransportAssumption DEF PartsInit, TransportInit, Seated, TransportAssumption
<1>7. Listed
  <2>1. Len(relayList) = 0
    BY DEF PartsInit, CookieInit
  <2>2. QED
    BY <2>1, CookieAssumption DEF PartsInit, CookieInit, Listed, Caller, Idle, CookieAssumption
<1>8. Locked
  BY CookieAssumption DEF PartsInit, CookieInit, Locked, Holds, Idle, NoSlot, CookieAssumption
<1>9. QED
  BY <1>1, <1>2, <1>3, <1>4, <1>5, <1>6, <1>7, <1>8 DEF FitsInv

LEMMA FitsKept == FitsInv /\ [PartsNext]_partsVars => FitsInv'
<1> SUFFICES ASSUME FitsInv, [PartsNext]_partsVars PROVE FitsInv'
  OBVIOUS
<1> PacketAssumption /\ WrapAssumption /\ CookieAssumption /\ TransportAssumption
  BY PacketAssumption, WrapAssumption, CookieAssumption, TransportAssumption
<1>1. OwnedInv' /\ TimersInv'
  BY OwnedKept, TimersNext DEF FitsInv
<1>2. RefusalInv'
  BY PartsSteps, RefusalNext DEF FitsInv
<1>3. Sizes' /\ WrapFits' /\ DlBounded'
  BY PartsSteps, SizesKept, WrapFitsKept, DlBoundedKept DEF FitsInv, OwnedInv
<1>4. Seated' /\ Locked' /\ Listed'
  BY PartsSteps, SeatedKept, LockedKept, ListedKept DEF FitsInv, OwnedInv
<1>5. QED
  BY <1>1, <1>2, <1>3, <1>4 DEF FitsInv

LEMMA FitsHeld ==
  FitsInv => CookieTypeOK /\ CascadeTypeOK /\ PacketTypeOK /\ TransportTypeOK /\ WrapTypeOK /\ DlTypeOK
<1> SUFFICES ASSUME FitsInv
             PROVE  /\ CookieTypeOK /\ CascadeTypeOK /\ PacketTypeOK /\ TransportTypeOK
                    /\ WrapTypeOK /\ DlTypeOK
  OBVIOUS
<1> USE DEF FitsInv
<1>1. CookieTypeOK
  <2>1. Found \subseteq Relays
    <3>1. relayList \in Seq(Refs)
      BY DEF OwnedInv, CookieInv, CookieTypes
    <3>2. \A i \in DOMAIN relayList : relayList[i] \in Refs
      BY <3>1
    <3>3. QED
      BY <3>2 DEF Refs, Found
  <2>2. config \in 1 .. MaxConfigs + 1 /\ resetting \in BOOLEAN /\ fatal \in 0 .. config
    BY CookieAssumption DEF OwnedInv, CookieInv, CookieTypes, Listed, CookieAssumption
  <2>3. QED
    BY <2>1, <2>2 DEF CookieTypeOK, Listed, Locked
<1>2. CascadeTypeOK
  BY DEF TimersInv, CascadeInv
<1>3. PacketTypeOK
  BY DEF OwnedInv, PacketInv, PkTypes, Sizes, PacketTypeOK, ReaderStates, Resting, Ended
<1>4. TransportTypeOK
  BY DEF RefusalInv, SessTypes, Places, Seated, TransportTypeOK
<1>5. WrapTypeOK
  <2>1. Len(CloseSteps) = 6
    BY DEF CloseSteps
  <2>2. QED
    BY <2>1 DEF OwnedInv, WrapInv, WrapTypes, WrapFits, WrapTypeOK
<1>6. DlTypeOK
  BY DEF TimersInv, DlInv, DlTypes, DlBounded, DlTypeOK
<1>7. QED
  BY <1>1, <1>2, <1>3, <1>4, <1>5, <1>6
-----------------------------------------------------------------------------
(* The two theorems                                                        *)

CountsInv == PaceInv /\ RxInv

LEMMA CountsInitial == PartsInit => CountsInv
BY PaceInitial, RxInitial DEF PartsInit, CountsInv

LEMMA CountsKept == CountsInv /\ [PartsNext]_partsVars => CountsInv'
BY PartsSteps, PaceKept, RxKept DEF CountsInv

\* uplinkpace.go, "the long-run rate stays exact"; rxreorder.go, mark and
\* rxHistPct: whatever the sizes, the late refunds and the switches of the pacer,
\* no writer gets ahead of its rate or sleeps on after a switch; whatever the
\* counters, a packet is called what it is and the percentiles are the nearest
\* ranks.
THEOREM InstrumentsTrue == PartsSpec => []CountsTrue
<1>1. CountsInv => CountsTrue
  BY PaceHeld, RxHeld DEF CountsInv, CountsTrue
<1>2. QED
  BY <1>1, CountsInitial, CountsKept, PTL DEF PartsSpec, partsVars

\* All eight: queues and tables stay within their sizes, the sleepers the pacer
\* counts are those there are, a lock is held by who is inside, a seat while a
\* session runs.
THEOREM UnitsTyped == PartsSpec => []UnitsTypeOK
<1>1. CountsInv /\ FitsInv => UnitsTypeOK
  BY PaceHeld, RxHeld, FitsHeld DEF CountsInv, UnitsTypeOK
<1>2. QED
  BY <1>1, CountsInitial, CountsKept, FitsInitial, FitsKept, PTL DEF PartsSpec, partsVars
=============================================================================
