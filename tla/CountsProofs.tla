----------------------------- MODULE CountsProofs -----------------------------
(***************************************************************************)
(* Theorems about the data path of csqtt for any number of workers, flows  *)
(* and packets and any size of the tables: types, the counts kept by hand, *)
(* and that the two ends together are the channel of FlowChannel.  Types   *)
(* of the pool beside it come from CredPoolProofs.                         *)
(***************************************************************************)
EXTENDS MCCounts, CredPoolProofs, FiniteSetTheorems, WellFoundedInduction

-----------------------------------------------------------------------------
(* Numbers modulo the sequence space, and least and greatest elements *)

\* Division with remainder.
LEMMA ModDef ==
  ASSUME NEW S \in Nat \ {0}, NEW a \in Int
  PROVE  (a % S) \in 0 .. S - 1 /\ a = (S * (a \div S)) + (a % S) /\ a \div S \in Int
  OBVIOUS

\* The remainder is the only number of the space that differs by a multiple.
LEMMA ModIs ==
  ASSUME NEW S \in Nat \ {0}, NEW q \in Int, NEW m \in 0 .. S - 1
  PROVE  ((S * q) + m) % S = m
  OBVIOUS

\* Laps of the space do not show.
LEMMA Dist ==
  ASSUME NEW S \in Nat \ {0}, NEW a \in Int, NEW q \in Int
  PROVE  (a + (S * q)) % S = a % S
<1>1. (a % S) \in 0 .. S - 1 /\ a = (S * (a \div S)) + (a % S) /\ a \div S \in Int
  BY ModDef
<1>2. a + (S * q) = (S * ((a \div S) + q)) + (a % S)
  BY <1>1
<1>3. (a \div S) + q \in Int
  BY <1>1
<1>4. ((S * ((a \div S) + q)) + (a % S)) % S = a % S
  BY <1>1, <1>3, ModIs
<1>5. QED
  BY <1>2, <1>4

\* Counting on from a remainder.
LEMMA ModSum ==
  ASSUME NEW S \in Nat \ {0}, NEW a \in Int, NEW b \in Int
  PROVE  ((a % S) + b) % S = (a + b) % S
<1>1. (a % S) \in 0 .. S - 1 /\ a = (S * (a \div S)) + (a % S) /\ a \div S \in Int
  BY ModDef
<1>2. a + b = ((a % S) + b) + (S * (a \div S))
  BY <1>1
<1>3. (a % S) + b \in Int
  BY <1>1
<1>4. (((a % S) + b) + (S * (a \div S))) % S = ((a % S) + b) % S
  BY <1>1, <1>3, Dist
<1>5. QED
  BY <1>2, <1>4

\* A multiple of the space smaller than the space is 0.
LEMMA Small == \A S \in Nat \ {0}, q \in Int : S * q < S /\ -S < S * q => q = 0
  OBVIOUS

\* Numbers with the same remainder and less than the space apart are the same.
LEMMA ModSame ==
  ASSUME NEW S \in Nat \ {0}, NEW a \in Int, NEW b \in Int,
         a % S = b % S, a - b < S, b - a < S
  PROVE  a = b
<1>1. (a % S) \in 0 .. S - 1 /\ a = (S * (a \div S)) + (a % S) /\ a \div S \in Int
  BY ModDef
<1>2. (b % S) \in 0 .. S - 1 /\ b = (S * (b \div S)) + (b % S) /\ b \div S \in Int
  BY ModDef
<1>3. (a \div S) - (b \div S) \in Int
  BY <1>1, <1>2
<1>4. a - b = S * ((a \div S) - (b \div S))
  BY <1>1, <1>2, <1>3
<1>5. (a \div S) - (b \div S) = 0
  BY <1>3, <1>4, Small
<1>6. QED
  BY <1>4, <1>5

\* A bounded set of numbers has a greatest element.
LEMMA Greatest ==
  ASSUME NEW n \in Nat, NEW T, T \subseteq 0 .. n, T # {}
  PROVE  \E x \in T : \A y \in T : x >= y
<1> DEFINE U == {x .. n : x \in T}
           R == StrictSubsetOrdering(0 .. n)
<1>1. IsFiniteSet(0 .. n)
  BY FS_Interval
<1>2. IsWellFoundedOn(R, FiniteSubsetsOf(0 .. n))
  BY <1>1, FS_StrictSubsetOrderingWellFounded
<1>3. U # {}
  OBVIOUS
<1>4. U \subseteq FiniteSubsetsOf(0 .. n)
  <2>1. ASSUME NEW x \in T PROVE x .. n \in SUBSET (0 .. n) /\ IsFiniteSet(x .. n)
    <3>1. x .. n \in SUBSET (0 .. n)
      OBVIOUS
    <3>2. QED
      BY <1>1, <3>1, FS_Subset
  <2>2. QED
    BY <2>1 DEF FiniteSubsetsOf
<1>5. PICK u \in U : \A v \in U : ~(<<v, u>> \in R)
  <2> HIDE DEF U, R
  <2>1. QED
    BY <1>2, <1>3, <1>4, WFMin
<1>6. PICK x \in T : u = x .. n
  OBVIOUS
<1>7. ASSUME NEW y \in T, y > x PROVE FALSE
  <2>1. y .. n \in U
    OBVIOUS
  <2>2. (y .. n) \subseteq (x .. n) /\ x \in (x .. n) /\ x \notin (y .. n)
    BY <1>7
  <2>3. (y .. n) \in SUBSET (0 .. n) /\ (x .. n) \in SUBSET (0 .. n)
    OBVIOUS
  <2>4. <<y .. n, x .. n>> \in R
    BY <2>2, <2>3 DEF StrictSubsetOrdering
  <2>5. QED
    BY <1>5, <1>6, <2>1, <2>4
<1>8. \A y \in T : x >= y
  <2>1. \A y \in T : y \in Nat /\ ~(y > x)
    BY <1>7
  <2>2. QED
    BY <2>1
<1>9. QED
  BY <1>8

\* A set of numbers has a least element.
LEMMA Least ==
  ASSUME NEW T, T \subseteq Nat, T # {}
  PROVE  \E x \in T : \A y \in T : x <= y
<1>1. PICK t \in T : TRUE
  OBVIOUS
<1> DEFINE B == {i \in 0 .. t : t - i \in T}
<1>2. t \in Nat /\ B \subseteq 0 .. t /\ 0 \in B
  <2>1. t - 0 = t
    OBVIOUS
  <2>2. QED
    BY <2>1
<1>3. PICK m \in B : \A i \in B : m >= i
  <2> HIDE DEF B
  <2> QED BY <1>2, Greatest
<1>4. t - m \in T
  OBVIOUS
<1>5. ASSUME NEW y \in T PROVE t - m <= y
  <2>1. y \in Nat /\ m \in 0 .. t
    OBVIOUS
  <2>2. CASE y <= t
    <3>1. t - y \in 0 .. t /\ t - (t - y) = y
      BY <1>2, <2>1, <2>2
    <3>2. t - y \in B
      BY <3>1
    <3>3. m >= t - y
      BY <1>3, <3>2
    <3>4. QED
      BY <1>2, <2>1, <3>3
  <2>3. CASE y > t
    BY <1>2, <2>1, <2>3
  <2>4. QED
    BY <1>2, <2>1, <2>2, <2>3
<1>6. QED
  BY <1>4, <1>5

\* A function into the numbers is least somewhere.
LEMMA LeastOf ==
  ASSUME NEW S, S # {}, NEW f \in [S -> Nat]
  PROVE  \E x \in S : \A y \in S : f[x] <= f[y]
<1> DEFINE T == {f[x] : x \in S}
<1>1. T \subseteq Nat /\ T # {}
  OBVIOUS
<1>2. PICK m \in T : \A i \in T : m <= i
  <2> HIDE DEF T
  <2> QED BY <1>1, Least
<1>3. PICK x \in S : m = f[x]
  OBVIOUS
<1>4. \A y \in S : f[x] <= f[y]
  BY <1>2, <1>3
<1>5. QED
  BY <1>4

-----------------------------------------------------------------------------
(* One push.  T is the set of packets the flow may hold or release. *)

\* What a push works on: packets of T, held under different numbers, and a
\* total that counts them beside the c packets of the other flows.
PushStates(T) ==
  [expected : 0 .. SeqSpace - 1, gap : Gaps, pending : SUBSET T, total : Int, out : Seq(T)]
Sound(T, c, r) ==
  /\ T \subseteq Packets /\ c \in Nat
  /\ r \in PushStates(T)
  /\ IsFiniteSet(r.pending)
  /\ \A p, q \in r.pending : p.seq = q.seq => p = q
  /\ r.total = c + Cardinality(r.pending)

\* No more packets are held than there are numbers.
LEMMA HeldFit ==
  ASSUME NEW T, NEW c, NEW r, Sound(T, c, r)
  PROVE  Cardinality(r.pending) \in 0 .. SeqSpace
<1> DEFINE f == [p \in r.pending |-> p.seq]
<1>1. r.pending \subseteq Packets
  BY DEF Sound, PushStates
<1>2. f \in Injection(r.pending, 0 .. SeqSpace - 1)
  BY <1>1 DEF Sound, Injection, IsInjective, Packets
<1>3. IsFiniteSet(0 .. SeqSpace - 1) /\ Cardinality(0 .. SeqSpace - 1) = SeqSpace
  BY FS_Interval, StreamAssumption
<1>4. Cardinality(r.pending) <= SeqSpace
  <2> HIDE DEF f
  <2> QED BY <1>2, <1>3, FS_Injection
<1>5. QED
  BY <1>4, FS_CardinalityType DEF Sound

\* drainContiguous releases the packets that carry the next `run` numbers, one
\* for each.
Drains(r, d, run, t) ==
  /\ run \in 0 .. Cardinality(r.pending)
  /\ t \in [1 .. run -> r.pending]
  /\ \A j \in 1 .. run : t[j].seq = (r.expected + (j - 1)) % SeqSpace
  /\ Cardinality({t[j] : j \in 1 .. run}) = run
  /\ d = [r EXCEPT !.expected = (@ + run) % SeqSpace,
                   !.pending = @ \ {t[j] : j \in 1 .. run},
                   !.total = @ - run,
                   !.out = @ \o t]

LEMMA DrainShape ==
  ASSUME NEW T, NEW c, NEW r, Sound(T, c, r)
  PROVE  \E run, t : Drains(r, DrainContiguous(r), run, t)
<1> DEFINE at(i) == {p \in r.pending : p.seq = (r.expected + i) % SeqSpace}
           runs == {i \in 0 .. Cardinality(r.pending) : \A j \in 0 .. i - 1 : at(j) # {}}
           run == Max(runs)
           freed == UNION {at(j) : j \in 0 .. run - 1}
           t == [j \in 1 .. run |-> CHOOSE p \in at(j - 1) : TRUE]
<1>1. DrainContiguous(r) = [r EXCEPT !.expected = (@ + run) % SeqSpace,
                                     !.pending = @ \ freed, !.total = @ - run,
                                     !.out = @ \o t]
  BY DEF DrainContiguous
<1>2. Cardinality(r.pending) \in 0 .. SeqSpace
  BY HeldFit
<1>3. run \in runs
  <2>1. 0 \in runs
    BY <1>2, StreamAssumption
  <2>2. runs \subseteq 0 .. Cardinality(r.pending) /\ Cardinality(r.pending) \in Nat
    BY <1>2, StreamAssumption
  <2> HIDE DEF runs
  <2>3. \E x \in runs : \A y \in runs : x >= y
    BY <2>1, <2>2, Greatest
  <2>4. QED
    BY <2>3 DEF Max
<1>4. run \in 0 .. Cardinality(r.pending) /\ run \in Nat /\ run <= SeqSpace
  BY <1>2, <1>3, StreamAssumption
<1>5. \A j \in 0 .. run - 1 : at(j) # {}
  BY <1>3
<1> HIDE DEF run
<1>6. \A j \in 1 .. run : t[j] \in at(j - 1)
  <2>1. ASSUME NEW j \in 1 .. run PROVE t[j] \in at(j - 1)
    <3>1. j - 1 \in 0 .. run - 1
      BY <1>4
    <3>2. at(j - 1) # {}
      BY <1>5, <3>1
    <3>3. QED
      BY <3>2
  <2>2. QED
    BY <2>1
<1>7. \A j \in 1 .. run : t[j] \in r.pending /\ t[j].seq = (r.expected + (j - 1)) % SeqSpace
  BY <1>6
<1>8. t \in [1 .. run -> r.pending]
  BY <1>7
<1>9. freed = {t[j] : j \in 1 .. run}
  <2>1. ASSUME NEW j \in 0 .. run - 1, NEW p \in at(j) PROVE p = t[j + 1] /\ j + 1 \in 1 .. run
    <3>1. j + 1 \in 1 .. run /\ (j + 1) - 1 = j
      BY <1>4
    <3>2. t[j + 1] \in at(j)
      BY <1>6, <3>1
    <3>3. QED
      BY <3>1, <3>2 DEF Sound
  <2>2. ASSUME NEW j \in 1 .. run PROVE j - 1 \in 0 .. run - 1 /\ t[j] \in at(j - 1)
    BY <1>4, <1>6
  <2>3. freed \subseteq {t[j] : j \in 1 .. run}
    <3> SUFFICES ASSUME NEW j \in 0 .. run - 1, NEW p \in at(j)
                 PROVE  p \in {t[i] : i \in 1 .. run}
      OBVIOUS
    <3>1. p = t[j + 1] /\ j + 1 \in 1 .. run
      BY <2>1
    <3> HIDE DEF t
    <3> QED BY <3>1
  <2>4. {t[j] : j \in 1 .. run} \subseteq freed
    <3> HIDE DEF t, at
    <3> QED BY <2>2
  <2>5. QED
    BY <2>3, <2>4
<1> HIDE DEF t, freed, at
<1>10. Cardinality({t[j] : j \in 1 .. run}) = run
  <2>1. ASSUME NEW i \in 1 .. run, NEW j \in 1 .. run, t[i] = t[j] PROVE i = j
    <3>1. (r.expected + (i - 1)) % SeqSpace = (r.expected + (j - 1)) % SeqSpace
      BY <1>7, <2>1
    <3>2. r.expected + (i - 1) \in Int /\ r.expected + (j - 1) \in Int
      BY <1>4 DEF Sound, PushStates
    <3>3. (r.expected + (i - 1)) - (r.expected + (j - 1)) < SeqSpace
       /\ (r.expected + (j - 1)) - (r.expected + (i - 1)) < SeqSpace
      BY <1>4, StreamAssumption DEF Sound, PushStates
    <3>4. r.expected + (i - 1) = r.expected + (j - 1)
      BY <3>1, <3>2, <3>3, ModSame, StreamAssumption
    <3>5. QED
      BY <3>4 DEF Sound, PushStates
  <2>2. t \in Bijection(1 .. run, {t[j] : j \in 1 .. run})
    BY <1>8, <2>1 DEF Bijection, Injection, Surjection, IsInjective
  <2>3. IsFiniteSet(1 .. run) /\ Cardinality(1 .. run) = run
    <3>1. 1 \in Int /\ run \in Int
      BY <1>4
    <3>2. /\ IsFiniteSet(1 .. run)
          /\ Cardinality(1 .. run) = IF 1 > run THEN 0 ELSE run - 1 + 1
      BY <3>1, FS_Interval
    <3>3. QED
      BY <1>4, <3>2
  <2>4. ExistsBijection(1 .. run, {t[j] : j \in 1 .. run})
    BY <2>2 DEF ExistsBijection
  <2>5. QED
    BY <2>3, <2>4, FS_Bijection
<1>11. QED
  BY <1>1, <1>4, <1>7, <1>8, <1>9, <1>10 DEF Drains

LEMMA DrainSound ==
  ASSUME NEW T, NEW c, NEW r, Sound(T, c, r)
  PROVE  /\ Sound(T, c, DrainContiguous(r))
         /\ DrainContiguous(r).pending \subseteq r.pending
         /\ DrainContiguous(r).total <= r.total
<1>1. PICK run, t : Drains(r, DrainContiguous(r), run, t)
  BY DrainShape
<1> DEFINE d == DrainContiguous(r)
           freed == {t[j] : j \in 1 .. run}
<1>2. /\ d = [r EXCEPT !.expected = (@ + run) % SeqSpace, !.pending = @ \ freed,
                       !.total = @ - run, !.out = @ \o t]
      /\ run \in 0 .. Cardinality(r.pending) /\ t \in [1 .. run -> r.pending]
      /\ Cardinality(freed) = run
  BY <1>1 DEF Drains
<1>3. Cardinality(r.pending) \in Nat
  BY HeldFit, StreamAssumption
<1>4. freed \subseteq r.pending
  BY <1>2
<1> HIDE DEF d, freed
<1>5. /\ r \in PushStates(T) /\ IsFiniteSet(r.pending) /\ r.total = c + Cardinality(r.pending)
      /\ T \subseteq Packets /\ c \in Nat
  BY DEF Sound
<1>6. /\ d.expected = (r.expected + run) % SeqSpace /\ d.gap = r.gap
      /\ d.pending = r.pending \ freed /\ d.total = r.total - run /\ d.out = r.out \o t
  BY <1>2, <1>5 DEF PushStates
<1>7. (r.expected + run) % SeqSpace \in 0 .. SeqSpace - 1
  <2>1. r.expected + run \in Int
    BY <1>2, <1>3, <1>5 DEF PushStates
  <2>2. QED
    BY <2>1, ModDef, StreamAssumption
<1>8. r.out \o t \in Seq(T)
  <2>1. t \in Seq(T)
    <3>1. t \in [1 .. run -> T] /\ run \in Nat
      BY <1>2, <1>3, <1>5 DEF PushStates
    <3>2. QED
      BY <3>1
  <2>2. QED
    BY <2>1, <1>5 DEF PushStates
<1>9. r.total - run \in Int
  BY <1>2, <1>3, <1>5 DEF PushStates
<1>10. d \in PushStates(T)
  BY <1>2, <1>5, <1>7, <1>8, <1>9 DEF PushStates
<1>11. IsFiniteSet(d.pending) /\ Cardinality(d.pending) = Cardinality(r.pending) - run
  <2>1. IsFiniteSet(freed)
    BY <1>4, <1>5, FS_Subset
  <2>2. r.pending \cap freed = freed
    BY <1>4
  <2>3. /\ IsFiniteSet(r.pending \ freed)
        /\ Cardinality(r.pending \ freed)
             = Cardinality(r.pending) - Cardinality(r.pending \cap freed)
    BY <1>5, FS_Difference
  <2>4. QED
    BY <1>2, <1>6, <2>2, <2>3
<1>12. d.total = c + Cardinality(d.pending)
  BY <1>2, <1>3, <1>5, <1>6, <1>11 DEF PushStates
<1>13. \A p, q \in d.pending : p.seq = q.seq => p = q
  BY <1>6 DEF Sound
<1>14. d.pending \subseteq r.pending /\ d.total <= r.total
  BY <1>2, <1>3, <1>5, <1>6 DEF PushStates
<1>15. QED
  BY <1>5, <1>10, <1>11, <1>12, <1>13, <1>14 DEF Sound, d

\* releaseLowest jumps to the closest packet ahead, where there is one.
LEMMA ReleaseShape ==
  ASSUME NEW T, NEW c, NEW r, Sound(T, c, r)
  PROVE  \/ Forward(r) = {} /\ ReleaseLowest(r) = [r EXCEPT !.gap = "none"]
         \/ \E best \in Forward(r) :
              /\ \A q \in Forward(r) : Distance(r, best) <= Distance(r, q)
              /\ \E g \in Gaps :
                   ReleaseLowest(r) = [DrainContiguous(JumpTo(r, best)) EXCEPT !.gap = g]
<1> DEFINE best == Closest(r)
           rest == DrainContiguous(JumpTo(r, best))
           g == IF rest.pending = {} THEN "none" ELSE "open"
<1>1. ReleaseLowest(r) = IF Forward(r) = {} THEN [r EXCEPT !.gap = "none"]
                         ELSE [rest EXCEPT !.gap = g]
  BY DEF ReleaseLowest
<1>2. CASE Forward(r) = {}
  BY <1>1, <1>2
<1>3. CASE Forward(r) # {}
  <2> DEFINE f == [p \in Forward(r) |-> Distance(r, p)]
  <2>1. ASSUME NEW p \in Forward(r) PROVE Distance(r, p) \in Nat
    <3>1. p.seq - r.expected \in Int
      BY DEF Forward, Sound, PushStates, Packets
    <3>2. (p.seq - r.expected) % SeqSpace \in 0 .. SeqSpace - 1
      BY <3>1, ModDef, StreamAssumption
    <3>3. QED
      BY <3>2, StreamAssumption DEF Distance
  <2>2. f \in [Forward(r) -> Nat]
    BY <2>1
  <2>3. \E x \in Forward(r) : \A y \in Forward(r) : f[x] <= f[y]
    <3> HIDE DEF f
    <3> QED BY <1>3, <2>2, LeastOf
  <2>4. \E x \in Forward(r) : \A y \in Forward(r) : Distance(r, x) <= Distance(r, y)
    BY <2>3
  <2>5. best \in Forward(r) /\ \A q \in Forward(r) : Distance(r, best) <= Distance(r, q)
    BY <2>4 DEF Closest
  <2>6. g \in Gaps
    BY DEF Gaps
  <2> HIDE DEF best, g
  <2>7. ReleaseLowest(r) = [DrainContiguous(JumpTo(r, best)) EXCEPT !.gap = g]
    BY <1>1, <1>3
  <2>8. QED
    BY <2>5, <2>6, <2>7
<1>4. QED
  BY <1>2, <1>3

LEMMA JumpSound ==
  ASSUME NEW T, NEW c, NEW r, NEW best \in r.pending,
         Sound(T, c, r)
  PROVE  Sound(T, c, JumpTo(r, best))
<1> DEFINE m == JumpTo(r, best)
<1>1. /\ r \in PushStates(T) /\ IsFiniteSet(r.pending) /\ r.total = c + Cardinality(r.pending)
      /\ T \subseteq Packets /\ c \in Nat
  BY DEF Sound
<1>2. /\ m.expected = (best.seq + 1) % SeqSpace /\ m.gap = r.gap
      /\ m.pending = r.pending \ {best} /\ m.total = r.total - 1 /\ m.out = Append(r.out, best)
      /\ m = [r EXCEPT !.pending = r.pending \ {best}, !.total = r.total - 1,
                       !.expected = (best.seq + 1) % SeqSpace, !.out = Append(r.out, best)]
  BY <1>1 DEF PushStates, JumpTo
<1>3. best \in T /\ best.seq \in 0 .. SeqSpace - 1
  BY <1>1 DEF PushStates, Packets
<1>4. (best.seq + 1) % SeqSpace \in 0 .. SeqSpace - 1
  <2>1. best.seq + 1 \in Int
    BY <1>3
  <2>2. QED
    BY <2>1, ModDef, StreamAssumption
<1>5. Append(r.out, best) \in Seq(T)
  BY <1>1, <1>3 DEF PushStates
<1> HIDE DEF m
<1>6. m \in PushStates(T)
  <2>1. /\ m.expected \in 0 .. SeqSpace - 1 /\ m.gap \in Gaps /\ m.pending \in SUBSET T
        /\ m.total \in Int /\ m.out \in Seq(T)
    BY <1>1, <1>2, <1>4, <1>5 DEF PushStates
  <2>2. QED
    BY <1>1, <1>2, <2>1 DEF PushStates
<1>7. IsFiniteSet(m.pending) /\ Cardinality(m.pending) = Cardinality(r.pending) - 1
  BY <1>1, <1>2, FS_RemoveElement
<1>8. Cardinality(r.pending) \in Nat
  BY <1>1, FS_CardinalityType
<1>9. m.total = c + Cardinality(m.pending)
  BY <1>1, <1>2, <1>7, <1>8
<1>10. \A p, q \in m.pending : p.seq = q.seq => p = q
  BY <1>2 DEF Sound
<1>11. QED
  BY <1>1, <1>6, <1>7, <1>9, <1>10 DEF Sound, m

LEMMA JumpFields ==
  ASSUME NEW T, NEW r, NEW best, r \in PushStates(T)
  PROVE  JumpTo(r, best).total = r.total - 1 /\ JumpTo(r, best).pending \subseteq r.pending
  BY DEF JumpTo, PushStates

\* The gap is only a mark.
LEMMA GapSound ==
  ASSUME NEW T, NEW c, NEW r, NEW g \in Gaps, Sound(T, c, r)
  PROVE  /\ Sound(T, c, [r EXCEPT !.gap = g])
         /\ [r EXCEPT !.gap = g].expected = r.expected
         /\ [r EXCEPT !.gap = g].pending = r.pending
         /\ [r EXCEPT !.gap = g].total = r.total
         /\ [r EXCEPT !.gap = g].out = r.out
  BY DEF Sound, PushStates

\* Giving up on a gap never adds to what is held, and frees a place wherever a
\* packet is ahead of its turn.
LEMMA ReleaseSound ==
  ASSUME NEW T, NEW c, NEW r, Sound(T, c, r)
  PROVE  /\ Sound(T, c, ReleaseLowest(r))
         /\ ReleaseLowest(r).pending \subseteq r.pending
         /\ ReleaseLowest(r).total <= r.total
         /\ Forward(r) # {} => ReleaseLowest(r).total < r.total
         /\ Forward(r) = {} => ReleaseLowest(r) = [r EXCEPT !.gap = "none"]
<1>1. r.total \in Int
  BY DEF Sound, PushStates
<1>2. CASE Forward(r) = {} /\ ReleaseLowest(r) = [r EXCEPT !.gap = "none"]
  <2>1. "none" \in Gaps
    BY DEF Gaps
  <2>2. QED
    BY <1>1, <1>2, <2>1, GapSound
<1>3. ASSUME NEW best \in Forward(r), NEW g \in Gaps,
             ReleaseLowest(r) = [DrainContiguous(JumpTo(r, best)) EXCEPT !.gap = g]
      PROVE  /\ Sound(T, c, ReleaseLowest(r))
             /\ ReleaseLowest(r).pending \subseteq r.pending
             /\ ReleaseLowest(r).total <= r.total
             /\ Forward(r) # {} => ReleaseLowest(r).total < r.total
             /\ Forward(r) # {}
  <2>1. best \in r.pending
    BY DEF Forward
  <2> DEFINE m == JumpTo(r, best)
             d == DrainContiguous(m)
  <2>2. Sound(T, c, m) /\ m.total = r.total - 1 /\ m.pending \subseteq r.pending
    <3>1. /\ Sound(T, c, JumpTo(r, best))
          /\ JumpTo(r, best).total = r.total - 1
          /\ JumpTo(r, best).pending \subseteq r.pending
      <4>1. Sound(T, c, JumpTo(r, best))
        BY <2>1, JumpSound
      <4>2. r \in PushStates(T)
        BY DEF Sound
      <4>3. QED
        BY <4>1, <4>2, JumpFields
    <3>2. QED
      BY <3>1
  <2> HIDE DEF m
  <2>3. Sound(T, c, d) /\ d.pending \subseteq m.pending /\ d.total <= m.total
    BY <2>2, DrainSound
  <2>4. ReleaseLowest(r) = [d EXCEPT !.gap = g]
    BY <1>3 DEF m
  <2> HIDE DEF d
  <2>5. /\ Sound(T, c, ReleaseLowest(r)) /\ ReleaseLowest(r).pending = d.pending
        /\ ReleaseLowest(r).total = d.total
    BY <2>3, <2>4, GapSound
  <2>6. d.total \in Int /\ m.total \in Int
    BY <2>2, <2>3 DEF Sound, PushStates
  <2>7. ReleaseLowest(r).total < r.total
    BY <1>1, <2>2, <2>3, <2>5, <2>6
  <2>8. QED
    BY <1>1, <2>2, <2>3, <2>5, <2>6, <2>7
<1>4. \/ Forward(r) = {} /\ ReleaseLowest(r) = [r EXCEPT !.gap = "none"]
      \/ \E best \in Forward(r) : \E g \in Gaps :
           ReleaseLowest(r) = [DrainContiguous(JumpTo(r, best)) EXCEPT !.gap = g]
  BY ReleaseShape
<1>5. CASE \E best \in Forward(r) : \E g \in Gaps :
             ReleaseLowest(r) = [DrainContiguous(JumpTo(r, best)) EXCEPT !.gap = g]
  BY <1>3, <1>5
<1>6. QED
  BY <1>2, <1>4, <1>5

LEMMA ExpiredSound ==
  ASSUME NEW T, NEW c, NEW r, Sound(T, c, r)
  PROVE  /\ Sound(T, c, ReleaseExpired(r))
         /\ ReleaseExpired(r).pending \subseteq r.pending
         /\ ReleaseExpired(r).total <= r.total
<1>1. r.total \in Int
  BY DEF Sound, PushStates
<1>2. QED
  BY <1>1, ReleaseSound DEF ReleaseExpired

\* What a packet in its turn leaves the push with, before it goes on.
Turn(r, p) == [r EXCEPT !.out = Append(@, p), !.gap = "none",
                        !.expected = (@ + 1) % SeqSpace]

LEMMA TurnSound ==
  ASSUME NEW T, NEW c, NEW r, NEW p \in T, Sound(T, c, r)
  PROVE  Sound(T, c, Turn(r, p)) /\ Turn(r, p).total = r.total
<1> DEFINE m == Turn(r, p)
<1>1. r \in PushStates(T)
  BY DEF Sound
<1>2. /\ m.expected = (r.expected + 1) % SeqSpace /\ m.gap = "none"
      /\ m.pending = r.pending /\ m.total = r.total /\ m.out = Append(r.out, p)
      /\ m = [r EXCEPT !.out = Append(r.out, p), !.gap = "none",
                       !.expected = (r.expected + 1) % SeqSpace]
  BY <1>1 DEF PushStates, Turn
<1>3. (r.expected + 1) % SeqSpace \in 0 .. SeqSpace - 1
  <2>1. r.expected + 1 \in Int
    BY <1>1 DEF PushStates
  <2>2. QED
    BY <2>1, ModDef, StreamAssumption
<1>4. Append(r.out, p) \in Seq(T)
  BY <1>1 DEF PushStates
<1> HIDE DEF m
<1>5. m \in PushStates(T)
  <2>1. /\ m.expected \in 0 .. SeqSpace - 1 /\ m.gap \in Gaps /\ m.pending \in SUBSET T
        /\ m.total \in Int /\ m.out \in Seq(T)
    BY <1>1, <1>2, <1>3, <1>4 DEF PushStates, Gaps
  <2>2. QED
    BY <1>1, <1>2, <2>1 DEF PushStates
<1>6. Sound(T, c, m)
  BY <1>2, <1>5 DEF Sound
<1>7. QED
  BY <1>2, <1>6 DEF m

\* The stages of PushAt for a packet ahead of its turn: room in the flow, room
\* in the reassembler, the packet held, the total brought back.
FlowMade(r) == IF Cardinality(r.pending) >= MaxPendingPerFlow THEN ReleaseLowest(r) ELSE r
RoomMade(r) == IF FlowMade(r).total >= MaxPendingTotal THEN ReleaseLowest(FlowMade(r))
               ELSE FlowMade(r)
Holding(r, p) == [r EXCEPT !.pending = @ \cup {p}, !.total = @ + 1]
Fitted(h) == IF h.total > MaxPendingTotal THEN ReleaseLowest(h) ELSE h

LEMMA KeptIs ==
  ASSUME NEW r, NEW p
  PROVE  Kept(r, p) =
           IF FlowMade(r).total >= MaxPendingTotal /\ FlowMade(r).pending = {}
           THEN [FlowMade(r) EXCEPT !.out = Append(@, p),
                                    !.expected = (p.seq + 1) % SeqSpace, !.gap = "none"]
           ELSE [Fitted(Holding(RoomMade(r), p)) EXCEPT
                   !.gap = IF @ = "none" THEN "open" ELSE @]
  BY DEF Kept, FlowMade, RoomMade, Holding, Fitted

\* A release where nothing is ahead leaves the turn where it was.
LEMMA ReleaseIdle ==
  ASSUME NEW T, NEW c, NEW r, Sound(T, c, r), ReleaseLowest(r).total >= r.total
  PROVE  ReleaseLowest(r).expected = r.expected /\ ReleaseLowest(r).out = r.out
<1>1. r.total \in Int /\ ReleaseLowest(r).total \in Int
  BY ReleaseSound DEF Sound, PushStates
<1>2. Forward(r) = {}
  <2>1. Forward(r) # {} => ReleaseLowest(r).total < r.total
    BY ReleaseSound
  <2>2. QED
    BY <1>1, <2>1
<1>3. ReleaseLowest(r) = [r EXCEPT !.gap = "none"]
  BY <1>2, ReleaseSound
<1>4. QED
  BY <1>3, GapSound DEF Gaps

\* The stages before the packet is held; where the total stays at its limit
\* nothing was ahead, and the turn did not move.
LEMMA StagesSound ==
  ASSUME NEW T, NEW c, NEW r, Sound(T, c, r), r.total <= MaxPendingTotal
  PROVE  /\ Sound(T, c, FlowMade(r)) /\ FlowMade(r).pending \subseteq r.pending
         /\ FlowMade(r).total <= MaxPendingTotal
         /\ FlowMade(r).total >= MaxPendingTotal => FlowMade(r).expected = r.expected
         /\ Sound(T, c, RoomMade(r)) /\ RoomMade(r).pending \subseteq r.pending
         /\ RoomMade(r).total <= MaxPendingTotal
         /\ RoomMade(r).total >= MaxPendingTotal => RoomMade(r).expected = r.expected
<1> DEFINE f == FlowMade(r)
           m == RoomMade(r)
<1>1. r.total \in Int /\ MaxPendingTotal \in Int
  BY StreamAssumption DEF Sound, PushStates
<1>2. Sound(T, c, f) /\ f.pending \subseteq r.pending /\ f.total <= r.total
  <2>1. CASE Cardinality(r.pending) >= MaxPendingPerFlow
    BY <2>1, ReleaseSound DEF FlowMade
  <2>2. CASE ~(Cardinality(r.pending) >= MaxPendingPerFlow)
    BY <1>1, <2>2 DEF FlowMade
  <2>3. QED
    BY <2>1, <2>2
<1>3. f.total \in Int
  BY <1>2 DEF Sound, PushStates
<1>4. f.total <= MaxPendingTotal
  BY <1>1, <1>2, <1>3
<1>5. f.total >= MaxPendingTotal => f.expected = r.expected
  <2>1. CASE Cardinality(r.pending) >= MaxPendingPerFlow
    <3>1. f = ReleaseLowest(r)
      BY <2>1 DEF FlowMade
    <3>2. f.total >= MaxPendingTotal => f.total >= r.total
      BY <1>1, <1>3
    <3>3. QED
      BY <3>1, <3>2, ReleaseIdle
  <2>2. CASE ~(Cardinality(r.pending) >= MaxPendingPerFlow)
    BY <2>2 DEF FlowMade
  <2>3. QED
    BY <2>1, <2>2
<1> HIDE DEF f
<1>6. m = IF f.total >= MaxPendingTotal THEN ReleaseLowest(f) ELSE f
  BY DEF RoomMade, f
<1> HIDE DEF m
<1>7. Sound(T, c, m) /\ m.pending \subseteq f.pending /\ m.total <= f.total
  <2>1. CASE f.total >= MaxPendingTotal
    BY <1>2, <1>6, <2>1, ReleaseSound
  <2>2. CASE ~(f.total >= MaxPendingTotal)
    BY <1>2, <1>3, <1>6, <2>2
  <2>3. QED
    BY <2>1, <2>2
<1>8. m.total \in Int
  BY <1>7 DEF Sound, PushStates
<1>9. m.total >= MaxPendingTotal => m.expected = r.expected
  <2> SUFFICES ASSUME m.total >= MaxPendingTotal PROVE m.expected = r.expected
    OBVIOUS
  <2>1. f.total >= MaxPendingTotal /\ m.total >= f.total
    BY <1>1, <1>3, <1>4, <1>7, <1>8
  <2>2. m = ReleaseLowest(f)
    BY <1>6, <2>1
  <2>3. m.expected = f.expected
    BY <1>2, <2>1, <2>2, ReleaseIdle
  <2>4. QED
    BY <1>5, <2>1, <2>3
<1>10. m.total <= MaxPendingTotal
  BY <1>1, <1>3, <1>4, <1>7, <1>8
<1>11. QED
  BY <1>2, <1>4, <1>5, <1>7, <1>9, <1>10 DEF f, m

\* A packet is held under a number nothing else is held under.
LEMMA HoldingSound ==
  ASSUME NEW T, NEW c, NEW r, NEW p \in T, Sound(T, c, r),
         \A q \in r.pending : q.seq # p.seq
  PROVE  Sound(T, c, Holding(r, p))
<1> DEFINE h == Holding(r, p)
<1>1. /\ r \in PushStates(T) /\ IsFiniteSet(r.pending) /\ r.total = c + Cardinality(r.pending)
      /\ T \subseteq Packets /\ c \in Nat
  BY DEF Sound
<1>2. /\ h.expected = r.expected /\ h.gap = r.gap /\ h.out = r.out
      /\ h.pending = r.pending \cup {p} /\ h.total = r.total + 1
      /\ h = [r EXCEPT !.pending = r.pending \cup {p}, !.total = r.total + 1]
  BY <1>1 DEF PushStates, Holding
<1> HIDE DEF h
<1>3. h \in PushStates(T)
  <2>1. h.pending \in SUBSET T /\ h.total \in Int
    BY <1>1, <1>2 DEF PushStates
  <2>2. QED
    BY <1>1, <1>2, <2>1 DEF PushStates
<1>4. p \notin r.pending
  OBVIOUS
<1>5. IsFiniteSet(h.pending) /\ Cardinality(h.pending) = Cardinality(r.pending) + 1
  <2>1. IsFiniteSet(r.pending \cup {p})
        /\ Cardinality(r.pending \cup {p}) = Cardinality(r.pending) + 1
    BY <1>1, <1>4, FS_AddElement
  <2>2. QED
    BY <1>2, <2>1
<1>6. Cardinality(r.pending) \in Nat
  BY <1>1, FS_CardinalityType
<1>7. h.total = c + Cardinality(h.pending)
  BY <1>1, <1>2, <1>5, <1>6
<1>8. \A a, b \in h.pending : a.seq = b.seq => a = b
  BY <1>2 DEF Sound
<1>9. Sound(T, c, h)
  BY <1>1, <1>3, <1>5, <1>7, <1>8 DEF Sound
<1>10. QED
  BY <1>9 DEF h

LEMMA HoldingFields ==
  ASSUME NEW T, NEW r, NEW p, r \in PushStates(T)
  PROVE  /\ Holding(r, p).total = r.total + 1
         /\ Holding(r, p).expected = r.expected /\ Holding(r, p).out = r.out
         /\ p \in Holding(r, p).pending
  BY DEF Holding, PushStates

\* A packet that comes out at once leaves what is held alone.
LEMMA StraightSound ==
  ASSUME NEW T, NEW c, NEW r, NEW p \in T, Sound(T, c, r)
  PROVE  Sound(T, c, [r EXCEPT !.out = Append(@, p), !.expected = (p.seq + 1) % SeqSpace,
                               !.gap = "none"])
<1> DEFINE m == [r EXCEPT !.out = Append(@, p), !.expected = (p.seq + 1) % SeqSpace,
                          !.gap = "none"]
<1>1. r \in PushStates(T) /\ T \subseteq Packets
  BY DEF Sound
<1>2. /\ m.expected = (p.seq + 1) % SeqSpace /\ m.gap = "none"
      /\ m.pending = r.pending /\ m.total = r.total /\ m.out = Append(r.out, p)
      /\ m = [r EXCEPT !.out = Append(r.out, p), !.expected = (p.seq + 1) % SeqSpace,
                       !.gap = "none"]
  BY <1>1 DEF PushStates
<1>3. (p.seq + 1) % SeqSpace \in 0 .. SeqSpace - 1
  <2>1. p.seq + 1 \in Int
    BY <1>1 DEF Packets
  <2>2. QED
    BY <2>1, ModDef, StreamAssumption
<1>4. Append(r.out, p) \in Seq(T)
  BY <1>1 DEF PushStates
<1> HIDE DEF m
<1>5. /\ m.expected \in 0 .. SeqSpace - 1 /\ m.gap \in Gaps /\ m.pending \in SUBSET T
      /\ m.total \in Int /\ m.out \in Seq(T)
  BY <1>1, <1>2, <1>3, <1>4 DEF PushStates, Gaps
<1>6. m \in PushStates(T)
  BY <1>1, <1>2, <1>5 DEF PushStates
<1>7. Sound(T, c, m)
  BY <1>2, <1>6 DEF Sound
<1>8. QED
  BY <1>7 DEF m

\* What a packet ahead of its turn does keeps the totals true and within the
\* limit: the last release finds the packet itself ahead of its turn.
LEMMA KeptSound ==
  ASSUME NEW T, NEW c, NEW r, NEW p \in T, Sound(T, c, r), r.total <= MaxPendingTotal,
         Ahead(p.seq, r.expected), \A q \in r.pending : q.seq # p.seq
  PROVE  Sound(T, c, Kept(r, p)) /\ Kept(r, p).total <= MaxPendingTotal
<1> DEFINE f == FlowMade(r)
           m == RoomMade(r)
           h == Holding(m, p)
           k == Fitted(h)
           s == [f EXCEPT !.out = Append(@, p), !.expected = (p.seq + 1) % SeqSpace,
                          !.gap = "none"]
<1>1. /\ Sound(T, c, f) /\ f.total <= MaxPendingTotal
      /\ Sound(T, c, m) /\ m.pending \subseteq r.pending /\ m.total <= MaxPendingTotal
      /\ m.total >= MaxPendingTotal => m.expected = r.expected
  BY StagesSound
<1>2. Kept(r, p) = IF f.total >= MaxPendingTotal /\ f.pending = {} THEN s
                   ELSE [k EXCEPT !.gap = IF @ = "none" THEN "open" ELSE @]
  BY KeptIs
<1> HIDE DEF f, m
<1>3. Sound(T, c, s)
  BY <1>1, StraightSound
<1>4. s.total = f.total
  BY <1>1 DEF Sound, PushStates
<1> HIDE DEF s
<1>5. Sound(T, c, k) /\ k.total <= MaxPendingTotal
  <2>1. /\ Sound(T, c, h) /\ h.total = m.total + 1
        /\ h.expected = m.expected /\ p \in h.pending
    <3>1. \A q \in m.pending : q.seq # p.seq
      BY <1>1
    <3>2. Sound(T, c, h)
      BY <1>1, <3>1, HoldingSound
    <3>3. m \in PushStates(T)
      BY <1>1 DEF Sound
    <3>4. QED
      BY <3>2, <3>3, HoldingFields
  <2> HIDE DEF h
  <2>2. m.total \in Int /\ h.total \in Int /\ MaxPendingTotal \in Int
    BY <1>1, <2>1, StreamAssumption DEF Sound, PushStates
  <2>3. CASE h.total > MaxPendingTotal
    <3>1. m.total >= MaxPendingTotal
      BY <2>1, <2>2, <2>3
    <3>2. h.expected = r.expected
      BY <1>1, <2>1, <3>1
    <3>3. p \in Forward(h)
      BY <2>1, <3>2 DEF Forward
    <3>4. k = ReleaseLowest(h)
      BY <2>3 DEF Fitted
    <3>5. Sound(T, c, k)
      BY <2>1, <3>4, ReleaseSound
    <3>6. k.total < h.total
      <4>1. Forward(h) # {} => ReleaseLowest(h).total < h.total
        BY <2>1, ReleaseSound
      <4>2. QED
        BY <3>3, <3>4, <4>1
    <3>7. k.total \in Int
      BY <3>5 DEF Sound, PushStates
    <3> HIDE DEF k
    <3>8. QED
      BY <1>1, <2>1, <2>2, <3>5, <3>6, <3>7
  <2>4. CASE ~(h.total > MaxPendingTotal)
    <3>1. k = h
      BY <2>4 DEF Fitted
    <3> HIDE DEF k
    <3>2. QED
      BY <2>1, <2>2, <2>4, <3>1
  <2>5. QED
    BY <2>3, <2>4
<1> HIDE DEF k
<1>6. CASE f.total >= MaxPendingTotal /\ f.pending = {}
  BY <1>1, <1>2, <1>3, <1>4, <1>6
<1>7. CASE ~(f.total >= MaxPendingTotal /\ f.pending = {})
  <2> DEFINE g == IF k.gap = "none" THEN "open" ELSE k.gap
  <2>1. Kept(r, p) = [k EXCEPT !.gap = g]
    BY <1>2, <1>7
  <2>2. g \in Gaps
    BY <1>5 DEF Sound, PushStates, Gaps
  <2> HIDE DEF g
  <2>3. QED
    BY <1>5, <2>1, <2>2, GapSound
<1>8. QED
  BY <1>6, <1>7

LEMMA PushedIs ==
  ASSUME NEW r0, NEW p, NEW r, r = ReleaseExpired(r0)
  PROVE  \/ p.seq = r.expected /\ Pushed(r0, p) = DrainContiguous(Turn(r, p))
         \/ Pushed(r0, p) = r
         \/ /\ Ahead(p.seq, r.expected) /\ \A q \in r.pending : q.seq # p.seq
            /\ Pushed(r0, p) = Kept(r, p)
<1>1. Pushed(r0, p) =
        IF p.seq = r.expected THEN InOrder(r, p)
        ELSE IF ~Ahead(p.seq, r.expected) \/ (\E q \in r.pending : q.seq = p.seq) THEN r
        ELSE Kept(r, p)
  BY DEF Pushed
<1>2. InOrder(r, p) = DrainContiguous(Turn(r, p))
  BY DEF InOrder, Turn
<1>3. QED
  BY <1>1, <1>2

\* A whole push keeps the totals true and within the limit.
LEMMA PushedSound ==
  ASSUME NEW T, NEW c, NEW r0, NEW p \in T, Sound(T, c, r0), r0.total <= MaxPendingTotal
  PROVE  Sound(T, c, Pushed(r0, p)) /\ Pushed(r0, p).total <= MaxPendingTotal
<1> DEFINE r == ReleaseExpired(r0)
<1>1. Sound(T, c, r) /\ r.total <= MaxPendingTotal
  <2>1. Sound(T, c, r) /\ r.total <= r0.total
    BY ExpiredSound
  <2>2. r.total \in Int /\ r0.total \in Int /\ MaxPendingTotal \in Int
    BY <2>1, StreamAssumption DEF Sound, PushStates
  <2>3. QED
    BY <2>1, <2>2
<1>2. \/ p.seq = r.expected /\ Pushed(r0, p) = DrainContiguous(Turn(r, p))
      \/ Pushed(r0, p) = r
      \/ /\ Ahead(p.seq, r.expected) /\ \A q \in r.pending : q.seq # p.seq
         /\ Pushed(r0, p) = Kept(r, p)
  BY PushedIs
<1> HIDE DEF r
<1>3. CASE p.seq = r.expected /\ Pushed(r0, p) = DrainContiguous(Turn(r, p))
  <2> DEFINE t == Turn(r, p)
  <2>1. Sound(T, c, t) /\ t.total = r.total
    BY <1>1, TurnSound
  <2> HIDE DEF t
  <2>2. Sound(T, c, DrainContiguous(t)) /\ DrainContiguous(t).total <= t.total
    BY <2>1, DrainSound
  <2>3. t.total \in Int /\ DrainContiguous(t).total \in Int /\ MaxPendingTotal \in Int
    BY <2>1, <2>2, StreamAssumption DEF Sound, PushStates
  <2>4. Pushed(r0, p) = DrainContiguous(t)
    BY <1>3 DEF t
  <2>5. QED
    BY <1>1, <2>1, <2>2, <2>3, <2>4
<1>4. CASE Pushed(r0, p) = r
  BY <1>1, <1>4
<1>5. CASE /\ Ahead(p.seq, r.expected) /\ \A q \in r.pending : q.seq # p.seq
           /\ Pushed(r0, p) = Kept(r, p)
  BY <1>1, <1>5, KeptSound
<1>6. QED
  BY <1>2, <1>3, <1>4, <1>5

-----------------------------------------------------------------------------
(* The invariant.  base[k] is how far flow k had come at the start. *)

\* The packets of key k numbered since the start.
Numbers(k, lo, hi) ==
  {p \in Packets : p.key = k /\ p.seq = p.n % SeqSpace /\ lo <= p.n /\ p.n < hi}

\* Sequencer: what it keeps for a tracked flow is the number the flow has
\* reached under the present sender id, and no id ahead of it is in use.
SenderExact ==
  /\ sender \in Senders
  /\ DOMAIN seqs \subseteq Flows /\ Cardinality(DOMAIN seqs) <= SenderTable
  /\ \A f \in DOMAIN seqs : seqs[f] = taken[<<sender, f>>] % SeqSpace
  /\ \A f \in Flows \ DOMAIN seqs : taken[<<sender, f>>] = 0
  /\ \A s \in Senders, f \in Flows : s > sender => taken[<<s, f>>] = 0
  /\ cursor \in [worker : Carriers, remaining : 0 .. Chunk]
  /\ up \subseteq Carriers

\* Since the start no flow has gone further than all packets sent.
Window(base) ==
  /\ sent \in 0 .. MaxPackets
  /\ base \in [Keys -> 0 .. StartAt] /\ taken \in [Keys -> Nat]
  /\ \A k \in Keys : base[k] <= taken[k] /\ taken[k] <= base[k] + sent

\* What is under way, kept or released was numbered since the start.
WireNumbered(base) ==
  /\ wire \in [Carriers -> SUBSET Packets]
  /\ \A w \in Carriers : \A p \in wire[w] : p \in Numbers(p.key, base[p.key], taken[p.key])
OutNumbered(base) ==
  /\ handoff \in [Carriers -> Seq(Packets)]
  /\ \A w \in Carriers : \A i \in DOMAIN handoff[w] : handoff[w][i].n < taken[handoff[w][i].key]
  /\ tun \in [Keys -> -1 .. MaxIndex - 1]
  /\ out \in [Keys -> Seq(Nat)]
  /\ \A k \in Keys : \A i \in DOMAIN out[k] : base[k] - 1 <= out[k][i] /\ out[k][i] < taken[k]

\* Everything the reassembler holds.
Held == UNION {flows[k].pending : k \in DOMAIN flows}
FlowsExact(base) ==
  /\ DOMAIN flows \subseteq Keys /\ Cardinality(DOMAIN flows) <= ReceiverTable
  /\ \A k \in DOMAIN flows :
       /\ flows[k] \in FlowStates
       /\ flows[k].pending \subseteq Numbers(k, base[k], taken[k])
       /\ \A p, q \in flows[k].pending : p.seq = q.seq => p = q
  /\ IsFiniteSet(Held)
  /\ pendingTotal = Cardinality(Held) /\ pendingTotal <= MaxPendingTotal

StreamInv(base) ==
  SenderExact /\ Window(base) /\ WireNumbered(base) /\ OutNumbered(base) /\ FlowsExact(base)

LEMMA NumbersType ==
  \A k, lo, hi : /\ Numbers(k, lo, hi) \subseteq Packets
                 /\ \A p \in Numbers(k, lo, hi) :
                      /\ p.key = k /\ p.key \in Keys /\ p.n \in Nat
                      /\ p.seq \in 0 .. SeqSpace - 1 /\ p.seq = p.n % SeqSpace
                      /\ lo <= p.n /\ p.n < hi
  BY DEF Numbers, Packets

\* As the flow goes on, what was one of its packets stays one.
LEMMA NumbersGrow ==
  ASSUME NEW k, NEW lo \in Int, NEW hi \in Int, NEW top \in Int, hi <= top
  PROVE  Numbers(k, lo, hi) \subseteq Numbers(k, lo, top)
  BY DEF Numbers, Packets

\* The counts of CsqttStream follow.
LEMMA InvTypes == \A base : StreamInv(base) => StreamTypeOK /\ CountsAgree
<1> SUFFICES ASSUME NEW base, StreamInv(base) PROVE StreamTypeOK /\ CountsAgree
  OBVIOUS
<1> USE DEF StreamInv
<1>1. Window(base) /\ SenderExact /\ WireNumbered(base) /\ OutNumbered(base) /\ FlowsExact(base)
  OBVIOUS
<1>2. \A k \in Keys : taken[k] \in Nat /\ taken[k] <= MaxIndex
  BY StreamAssumption DEF Window, MaxIndex
<1>3. /\ DOMAIN seqs \subseteq Flows /\ Cardinality(DOMAIN seqs) <= SenderTable
      /\ sender \in Senders /\ cursor \in [worker : Carriers, remaining : 0 .. Chunk]
      /\ up \subseteq Carriers
  BY <1>1 DEF SenderExact
<1>4. \A f \in DOMAIN seqs : seqs[f] \in 0 .. SeqSpace - 1
  <2> SUFFICES ASSUME NEW f \in DOMAIN seqs PROVE seqs[f] \in 0 .. SeqSpace - 1
    OBVIOUS
  <2>1. <<sender, f>> \in Keys
    BY <1>3 DEF Keys
  <2>2. taken[<<sender, f>>] \in Int
    BY <1>2, <2>1
  <2>3. taken[<<sender, f>>] % SeqSpace \in 0 .. SeqSpace - 1
    BY <2>2, ModDef, StreamAssumption
  <2>4. QED
    BY <1>1, <2>3 DEF SenderExact
<1>5. taken \in [Keys -> Nat] /\ sent \in 0 .. MaxPackets
  BY <1>1 DEF Window
<1>6. \A w \in Carriers : wire[w] \subseteq Packets /\ ToSet(handoff[w]) \subseteq Packets
  BY <1>1 DEF WireNumbered, OutNumbered, ToSet
<1>7. /\ DOMAIN flows \subseteq Keys /\ \A k \in DOMAIN flows : flows[k] \in FlowStates
      /\ Cardinality(DOMAIN flows) <= ReceiverTable
  BY <1>1 DEF FlowsExact
<1>8. pendingTotal \in 0 .. MaxPendingTotal
  <2>1. Cardinality(Held) \in Nat
    BY <1>1, FS_CardinalityType DEF FlowsExact
  <2>2. QED
    BY <1>1, <2>1, StreamAssumption DEF FlowsExact
<1>9. \A k \in Keys : ToSet(out[k]) \subseteq 0 .. MaxIndex - 1
  <2> SUFFICES ASSUME NEW k \in Keys, NEW i \in DOMAIN out[k]
               PROVE  out[k][i] \in 0 .. MaxIndex - 1
    BY DEF ToSet
  <2>1. out[k][i] \in Nat /\ out[k][i] < taken[k]
    BY <1>1 DEF OutNumbered
  <2>2. QED
    BY <1>2, <2>1, StreamAssumption DEF MaxIndex
<1>10. tun \in [Keys -> -1 .. MaxIndex - 1]
  BY <1>1 DEF OutNumbered
<1>11. PendingAccounted
  BY <1>1 DEF FlowsExact, Held, PendingAccounted
<1>12. NumberedOnce
  BY <1>1 DEF NumberedOnce, WireNumbered, Range, Numbers
<1>13. QED
  BY <1>3, <1>4, <1>5, <1>6, <1>7, <1>8, <1>9, <1>10, <1>11, <1>12
  DEF StreamTypeOK, CountsAgree

LEMMA FreshFlow == NewFlow \in FlowStates /\ NewFlow.pending = {} /\ NewFlow.gap = "none"
  BY StreamAssumption DEF NewFlow, FlowStates, Gaps

LEMMA OneEntry ==
  \A d, e : DOMAIN [x \in {d} |-> e] = {d} /\ [x \in {d} |-> e][d] = e
  OBVIOUS

\* A table with an entry set.
LEMMA PutEntry ==
  \A table, k, entry :
    /\ DOMAIN Put(table, k, entry) = DOMAIN table \cup {k}
    /\ Put(table, k, entry)[k] = entry
    /\ \A x \in DOMAIN table : x # k => Put(table, k, entry)[x] = table[x]
  BY DEF Put

LEMMA NoEntry == DOMAIN << >> = {}
  OBVIOUS

LEMMA CarriersAny == 0 \in Carriers
  BY StreamAssumption DEF Carriers

\* The start: the base of a flow is where the flow stands.
LEMMA StreamStart == StreamInit => StreamInv(taken)
<1> SUFFICES ASSUME StreamInit PROVE StreamInv(taken)
  OBVIOUS
<1>1. PICK f \in Flows :
        /\ seqs = IF StartAt = 0 THEN << >> ELSE [g \in {f} |-> StartAt % SeqSpace]
        /\ taken = [k \in Keys |-> IF k = <<1, f>> THEN StartAt ELSE 0]
        /\ flows = IF StartAt = 0 THEN << >>
                   ELSE [k \in {<<1, f>>} |-> [NewFlow EXCEPT !.expected = StartAt % SeqSpace]]
  BY DEF StreamInit
<1>2. /\ sender = 1 /\ sent = 0 /\ cursor = [worker |-> 0, remaining |-> 0]
      /\ out = [k \in Keys |-> IF taken[k] = 0 THEN << >> ELSE <<taken[k] - 1>>]
      /\ up = Carriers /\ wire = [w \in Carriers |-> {}] /\ pendingTotal = 0
      /\ handoff = [w \in Carriers |-> << >>] /\ tun = [k \in Keys |-> taken[k] - 1]
  BY DEF StreamInit
<1>3. 1 \in Senders /\ <<1, f>> \in Keys
  BY StreamAssumption DEF Senders, Keys
<1>4. \A k \in Keys : taken[k] \in 0 .. StartAt
  BY <1>1, StreamAssumption
<1>5. StartAt % SeqSpace \in 0 .. SeqSpace - 1
  BY ModDef, StreamAssumption
<1>6. SenderExact
  <2>1. sender \in Senders
    BY <1>2, <1>3
  <2>2. CASE StartAt = 0
    <3>1. DOMAIN seqs = {}
      BY <1>1, <2>2
    <3>2. Cardinality(DOMAIN seqs) <= SenderTable
      BY <3>1, FS_EmptySet, StreamAssumption
    <3>3. \A s \in Senders, g \in Flows : taken[<<s, g>>] = 0
      BY <1>1, <2>2 DEF Keys
    <3>4. cursor \in [worker : Carriers, remaining : 0 .. Chunk] /\ up \subseteq Carriers
      BY <1>2, CarriersAny, StreamAssumption
    <3>5. QED
      BY <2>1, <3>1, <3>2, <3>3, <3>4 DEF SenderExact
  <2>3. CASE StartAt # 0
    <3>1. DOMAIN seqs = {f} /\ seqs[f] = StartAt % SeqSpace
      <4>1. seqs = [g \in {f} |-> StartAt % SeqSpace]
        BY <1>1, <2>3
      <4>2. QED
        BY <4>1, OneEntry
    <3>2. Cardinality(DOMAIN seqs) <= SenderTable
      <4>1. Cardinality({f}) = 1
        BY FS_Singleton
      <4>2. QED
        BY <3>1, <4>1, StreamAssumption
    <3>3. \A s \in Senders, g \in Flows :
            taken[<<s, g>>] = IF s = 1 /\ g = f THEN StartAt ELSE 0
      BY <1>1 DEF Keys
    <3>4. cursor \in [worker : Carriers, remaining : 0 .. Chunk] /\ up \subseteq Carriers
      BY <1>2, CarriersAny, StreamAssumption
    <3>5. QED
      BY <1>2, <1>3, <2>1, <3>1, <3>2, <3>3, <3>4 DEF SenderExact
  <2>4. QED
    BY <2>2, <2>3
<1>7. Window(taken)
  <2>1. taken \in [Keys -> 0 .. StartAt] /\ taken \in [Keys -> Nat]
    BY <1>1, <1>4, StreamAssumption
  <2>2. QED
    BY <1>2, <2>1, StreamAssumption DEF Window
<1>8. WireNumbered(taken)
  BY <1>2 DEF WireNumbered
<1>9. OutNumbered(taken)
  <2>1. handoff \in [Carriers -> Seq(Packets)]
        /\ \A w \in Carriers : DOMAIN handoff[w] = {}
    BY <1>2
  <2>2. tun \in [Keys -> -1 .. MaxIndex - 1]
    BY <1>2, <1>4, StreamAssumption DEF MaxIndex
  <2>3. ASSUME NEW k \in Keys
        PROVE  /\ out[k] \in Seq(Nat)
               /\ \A i \in DOMAIN out[k] : taken[k] - 1 <= out[k][i] /\ out[k][i] < taken[k]
    <3>1. CASE taken[k] = 0
      BY <1>2, <3>1
    <3>2. CASE taken[k] # 0
      <4>1. taken[k] - 1 \in Nat /\ out[k] = <<taken[k] - 1>>
        BY <1>2, <1>4, <3>2, StreamAssumption
      <4>2. QED
        BY <1>4, <4>1, StreamAssumption
    <3>3. QED
      BY <3>1, <3>2
  <2>4. out \in [Keys -> Seq(Nat)]
    BY <1>2, <2>3
  <2>5. QED
    BY <2>1, <2>2, <2>3, <2>4 DEF OutNumbered
<1>10. FlowsExact(taken)
  <2> DEFINE first == [NewFlow EXCEPT !.expected = StartAt % SeqSpace]
  <2>a. first \in FlowStates /\ first.pending = {}
    BY <1>5, FreshFlow DEF FlowStates
  <2>b. \/ DOMAIN flows = {}
        \/ DOMAIN flows = {<<1, f>>} /\ flows[<<1, f>>] = first
    <3>1. CASE StartAt = 0
      BY <1>1, <3>1, NoEntry
    <3>2. CASE StartAt # 0
      <4> HIDE DEF first
      <4>1. flows = [k \in {<<1, f>>} |-> first]
        BY <1>1, <3>2 DEF first
      <4>2. QED
        BY <4>1, OneEntry
    <3>3. QED
      BY <3>1, <3>2
  <2> HIDE DEF first
  <2>1. \A k \in DOMAIN flows : k = <<1, f>> /\ flows[k] \in FlowStates /\ flows[k].pending = {}
    BY <2>a, <2>b
  <2>2. Held = {}
    BY <2>1 DEF Held
  <2>3. IsFiniteSet(Held) /\ Cardinality(Held) = 0
    BY <2>2, FS_EmptySet
  <2>4. DOMAIN flows \subseteq Keys
    BY <1>3, <2>1
  <2>5. Cardinality(DOMAIN flows) <= ReceiverTable
    <3>1. Cardinality({}) = 0 /\ Cardinality({<<1, f>>}) = 1
      BY FS_EmptySet, FS_Singleton
    <3>2. QED
      BY <2>b, <3>1, StreamAssumption
  <2>6. QED
    BY <1>2, <2>1, <2>3, <2>4, <2>5, StreamAssumption DEF FlowsExact
<1>11. QED
  BY <1>6, <1>7, <1>8, <1>9, <1>10 DEF StreamInv

-----------------------------------------------------------------------------
(* The sender's step keeps the invariant. *)

\* What a flow has come to only grows: what held of its packets still does.
LEMMA TakenGrows ==
  ASSUME NEW base, StreamInv(base), taken' \in [Keys -> Nat],
         \A k \in Keys : taken[k] <= taken'[k]
  PROVE  /\ \A k \in Keys : Numbers(k, base[k], taken[k]) \subseteq Numbers(k, base[k], taken'[k])
         /\ \A k \in Keys : base[k] \in Int /\ taken[k] \in Int /\ taken'[k] \in Int
<1>1. \A k \in Keys : base[k] \in Int /\ taken[k] \in Int /\ taken'[k] \in Int
  BY StreamAssumption DEF StreamInv, Window
<1>2. ASSUME NEW k \in Keys
      PROVE  Numbers(k, base[k], taken[k]) \subseteq Numbers(k, base[k], taken'[k])
  BY <1>1, NumbersGrow
<1>3. QED
  BY <1>1, <1>2

\* Pick answers with a live worker and a cursor of its type.
LEMMA PickedType ==
  ASSUME NEW base, StreamInv(base), up # {}
  PROVE  Picked \in [worker : Carriers, remaining : 0 .. Chunk] /\ Picked.worker \in up
<1>1. /\ cursor \in [worker : Carriers, remaining : 0 .. Chunk] /\ up \subseteq Carriers
  BY DEF StreamInv, SenderExact
<1>2. CASE cursor.remaining > 0 /\ cursor.worker \in up
  <2>1. Picked = [cursor EXCEPT !.remaining = cursor.remaining - 1]
    BY <1>2 DEF Picked
  <2>2. cursor.remaining - 1 \in 0 .. Chunk
    BY <1>1, <1>2, StreamAssumption
  <2>3. QED
    BY <1>1, <1>2, <2>1, <2>2
<1>3. CASE ~(cursor.remaining > 0 /\ cursor.worker \in up)
  <2> DEFINE dist(w) == IF w = cursor.worker THEN StreamWorkers
                        ELSE (w - cursor.worker) % StreamWorkers
             far == [w \in up |-> dist(w)]
  <2>1. ASSUME NEW w \in up PROVE dist(w) \in Nat
    <3>1. w - cursor.worker \in Int
      BY <1>1 DEF Carriers
    <3>2. (w - cursor.worker) % StreamWorkers \in 0 .. StreamWorkers - 1
      BY <3>1, ModDef, StreamAssumption
    <3>3. QED
      BY <3>2, StreamAssumption
  <2>2. far \in [up -> Nat]
    BY <2>1
  <2>3. \E w \in up : \A v \in up : far[w] <= far[v]
    <3> HIDE DEF far
    <3> QED BY <2>2, LeastOf
  <2>4. \E w \in up : \A v \in up : dist(w) <= dist(v)
    BY <2>3
  <2>5. NextLive \in up
    BY <2>4 DEF NextLive
  <2>6. Picked = [worker |-> NextLive, remaining |-> Chunk - 1]
    BY <1>3 DEF Picked
  <2>7. Chunk - 1 \in 0 .. Chunk
    BY StreamAssumption
  <2>8. QED
    BY <1>1, <2>5, <2>6, <2>7
<1>4. QED
  BY <1>2, <1>3

\* The packet Sequencer.Next numbers: the next of its flow, carrying its index.
LEMMA NumberedType ==
  ASSUME NEW base, NEW f \in Flows, StreamInv(base), SenderFor(f) \in Senders
  PROVE  /\ Numbered(f) \in Packets
         /\ Numbered(f).key = <<SenderFor(f), f>> /\ Numbered(f).key \in Keys
         /\ Numbered(f).n = taken[Numbered(f).key]
         /\ Numbered(f).seq = Numbered(f).n % SeqSpace
<1> DEFINE key == <<SenderFor(f), f>>
<1>1. key \in Keys
  BY DEF Keys
<1>2. taken[key] \in Nat /\ taken[key] \in Int
  BY <1>1 DEF StreamInv, Window
<1>3. taken[key] % SeqSpace \in 0 .. SeqSpace - 1
  BY <1>2, ModDef, StreamAssumption
<1>4. (IF f \in DOMAIN Tracked(f) THEN Tracked(f)[f] ELSE 0) = taken[key] % SeqSpace
  <2>1. CASE TableFull(f)
    <3>1. DOMAIN Tracked(f) = {} /\ SenderFor(f) = sender + 1
      BY <2>1, NoEntry DEF Tracked, SenderFor
    <3>2. SenderFor(f) > sender
      BY <3>1 DEF StreamInv, SenderExact, Senders
    <3>3. taken[key] = 0
      BY <3>2 DEF StreamInv, SenderExact
    <3>4. 0 % SeqSpace = 0
      BY StreamAssumption
    <3>5. QED
      BY <3>1, <3>3, <3>4
  <2>2. CASE ~TableFull(f)
    <3>1. Tracked(f) = seqs /\ SenderFor(f) = sender
      BY <2>2 DEF Tracked, SenderFor
    <3>2. CASE f \in DOMAIN seqs
      BY <3>1, <3>2 DEF StreamInv, SenderExact
    <3>3. CASE f \notin DOMAIN seqs
      <4>1. taken[key] = 0
        BY <3>1, <3>3 DEF StreamInv, SenderExact
      <4>2. 0 % SeqSpace = 0
        BY StreamAssumption
      <4>3. QED
        BY <3>1, <3>3, <4>1, <4>2
    <3>4. QED
      BY <3>2, <3>3
  <2>3. QED
    BY <2>1, <2>2
<1>5. Numbered(f) = [key |-> key, seq |-> taken[key] % SeqSpace, n |-> taken[key]]
  BY <1>4 DEF Numbered
<1> HIDE DEF key
<1>6. Numbered(f) \in Packets
  BY <1>1, <1>2, <1>3, <1>5 DEF Packets
<1>7. QED
  BY <1>1, <1>5, <1>6 DEF key

LEMMA SendTaken ==
  ASSUME NEW base, NEW f \in Flows, StreamInv(base), WritePacket(f)
  PROVE  /\ Window(base)' /\ taken' \in [Keys -> Nat]
         /\ \A k \in Keys : taken[k] <= taken'[k]
         /\ \A k \in Keys : taken'[k] = IF k = Numbered(f).key THEN taken[k] + 1 ELSE taken[k]
         /\ Numbered(f) \in Numbers(Numbered(f).key, base[Numbered(f).key],
                                    taken'[Numbered(f).key])
<1> DEFINE p == Numbered(f)
<1>1. /\ p \in Packets /\ p.key = <<SenderFor(f), f>> /\ p.key \in Keys
      /\ p.n = taken[p.key] /\ p.seq = p.n % SeqSpace
  BY NumberedType DEF WritePacket
<1>2. /\ sent < MaxPackets /\ sent' = sent + 1 /\ taken' = [taken EXCEPT ![p.key] = @ + 1]
  BY DEF WritePacket
<1> HIDE DEF p
<1>3. /\ sent \in 0 .. MaxPackets /\ base \in [Keys -> 0 .. StartAt] /\ taken \in [Keys -> Nat]
      /\ \A k \in Keys : base[k] <= taken[k] /\ taken[k] <= base[k] + sent
  BY DEF StreamInv, Window
<1>4. taken' \in [Keys -> Nat]
  <2>1. taken[p.key] + 1 \in Nat
    BY <1>1, <1>3
  <2>2. QED
    BY <1>1, <1>2, <1>3, <2>1
<1>5. \A k \in Keys : taken'[k] = IF k = p.key THEN taken[k] + 1 ELSE taken[k]
  BY <1>2, <1>3
<1>6. \A k \in Keys : base[k] \in Int /\ taken[k] \in Int
  BY <1>3, StreamAssumption
<1>7. sent' \in 0 .. MaxPackets /\ sent \in Int
  BY <1>2, <1>3, StreamAssumption
<1>8. \A k \in Keys : base[k] <= taken'[k] /\ taken'[k] <= base[k] + sent'
  <2> SUFFICES ASSUME NEW k \in Keys
               PROVE  base[k] <= taken'[k] /\ taken'[k] <= base[k] + sent'
    OBVIOUS
  <2>1. taken'[k] = taken[k] + 1 \/ taken'[k] = taken[k]
    BY <1>5
  <2>2. base[k] \in Int /\ taken[k] \in Int /\ base[k] <= taken[k] /\ taken[k] <= base[k] + sent
    BY <1>3, <1>6
  <2>3. QED
    BY <1>2, <1>7, <2>1, <2>2
<1>9. Window(base)'
  BY <1>3, <1>4, <1>7, <1>8 DEF Window
<1>10. \A k \in Keys : taken[k] <= taken'[k]
  BY <1>5, <1>6
<1>11. p \in Numbers(p.key, base[p.key], taken'[p.key])
  <2>1. base[p.key] <= p.n /\ p.n < taken'[p.key]
    BY <1>1, <1>3, <1>5, <1>6
  <2>2. QED
    BY <1>1, <2>1 DEF Numbers
<1>12. QED
  BY <1>4, <1>5, <1>9, <1>10, <1>11 DEF p

LEMMA SendSender ==
  ASSUME NEW base, NEW f \in Flows, StreamInv(base), WritePacket(f)
  PROVE  SenderExact'
<1> DEFINE p == Numbered(f)
<1>1. /\ p.key = <<SenderFor(f), f>> /\ p.key \in Keys
      /\ p.n = taken[p.key] /\ p.seq = p.n % SeqSpace
  BY NumberedType DEF WritePacket
<1>2. /\ SenderFor(f) \in Senders /\ cursor' = Picked /\ sender' = SenderFor(f)
      /\ seqs' = Put(Tracked(f), f, (p.seq + 1) % SeqSpace) /\ up # {} /\ up' = up
  BY DEF WritePacket
<1>3. \A k \in Keys : taken'[k] = IF k = p.key THEN taken[k] + 1 ELSE taken[k]
  BY SendTaken
<1> HIDE DEF p
<1>4. /\ sender \in Senders /\ DOMAIN seqs \subseteq Flows
      /\ Cardinality(DOMAIN seqs) <= SenderTable
      /\ \A g \in DOMAIN seqs : seqs[g] = taken[<<sender, g>>] % SeqSpace
      /\ \A g \in Flows \ DOMAIN seqs : taken[<<sender, g>>] = 0
      /\ \A s \in Senders, g \in Flows : s > sender => taken[<<s, g>>] = 0
      /\ up \subseteq Carriers
  BY DEF StreamInv, SenderExact
<1>5. /\ DOMAIN seqs' = DOMAIN Tracked(f) \cup {f}
      /\ seqs'[f] = (p.seq + 1) % SeqSpace
      /\ \A g \in DOMAIN Tracked(f) : g # f => seqs'[g] = Tracked(f)[g]
  <2> DEFINE t == Tracked(f)
             v == (p.seq + 1) % SeqSpace
  <2>1. seqs' = Put(t, f, v)
    BY <1>2
  <2> HIDE DEF t, v
  <2>2. /\ DOMAIN seqs' = DOMAIN t \cup {f} /\ seqs'[f] = v
        /\ \A g \in DOMAIN t : g # f => seqs'[g] = t[g]
    BY <2>1 DEF Put
  <2>3. QED
    BY <2>2 DEF t, v
<1>6. /\ DOMAIN Tracked(f) \subseteq DOMAIN seqs
      /\ \A g \in DOMAIN Tracked(f) : Tracked(f)[g] = seqs[g] /\ SenderFor(f) = sender
      /\ Cardinality(DOMAIN seqs') <= SenderTable
      /\ \/ SenderFor(f) = sender + 1
         \/ SenderFor(f) = sender /\ Tracked(f) = seqs
  <2>1. IsFiniteSet(DOMAIN seqs) /\ Cardinality(DOMAIN seqs) \in Nat
    BY <1>4, FS_Subset, FS_CardinalityType, StreamAssumption
  <2>2. CASE TableFull(f)
    <3>1. DOMAIN Tracked(f) = {} /\ SenderFor(f) = sender + 1
      BY <2>2, NoEntry DEF Tracked, SenderFor
    <3>2. DOMAIN seqs' = {f}
      BY <1>5, <3>1
    <3>3. Cardinality({f}) = 1
      BY FS_Singleton
    <3>4. Cardinality(DOMAIN seqs') <= SenderTable
      BY <3>2, <3>3, StreamAssumption
    <3>5. QED
      BY <3>1, <3>4
  <2>3. CASE ~TableFull(f)
    <3>1. Tracked(f) = seqs /\ SenderFor(f) = sender
      BY <2>3 DEF Tracked, SenderFor
    <3>2. Cardinality(DOMAIN seqs \cup {f}) =
            IF f \in DOMAIN seqs THEN Cardinality(DOMAIN seqs)
            ELSE Cardinality(DOMAIN seqs) + 1
      BY <2>1, FS_AddElement
    <3>3. Cardinality(DOMAIN seqs \cup {f}) <= SenderTable
      BY <1>4, <2>1, <2>3, <3>2, StreamAssumption DEF TableFull
    <3>4. QED
      BY <1>5, <3>1, <3>3
  <2>4. QED
    BY <2>2, <2>3
<1>7. \A s \in Senders, g \in Flows : <<s, g>> \in Keys
  BY DEF Keys
<1>8. ASSUME NEW g \in DOMAIN seqs' PROVE seqs'[g] = taken'[<<sender', g>>] % SeqSpace
  <2>1. CASE g = f
    <3>1. taken'[p.key] = taken[p.key] + 1
      BY <1>1, <1>3
    <3>2. p.n \in Int
      BY <1>1 DEF StreamInv, Window
    <3>3. ((p.n % SeqSpace) + 1) % SeqSpace = (p.n + 1) % SeqSpace
      BY <3>2, ModSum, StreamAssumption
    <3>4. QED
      BY <1>1, <1>2, <1>5, <2>1, <3>1, <3>3
  <2>2. CASE g # f
    <3>1. g \in DOMAIN Tracked(f) /\ g \in DOMAIN seqs /\ seqs'[g] = seqs[g] /\ sender' = sender
      BY <1>2, <1>5, <1>6, <2>2
    <3>2. <<sender, g>> # p.key /\ <<sender, g>> \in Keys
      BY <1>1, <1>4, <1>7, <2>2, <3>1
    <3>3. taken'[<<sender, g>>] = taken[<<sender, g>>]
      BY <1>3, <3>2
    <3>4. QED
      BY <1>4, <3>1, <3>3
  <2>3. QED
    BY <2>1, <2>2
<1>9. ASSUME NEW g \in Flows \ DOMAIN seqs' PROVE taken'[<<sender', g>>] = 0
  <2>1. g # f /\ <<sender', g>> \in Keys /\ <<sender', g>> # p.key
    BY <1>1, <1>2, <1>5, <1>7
  <2>2. taken'[<<sender', g>>] = taken[<<sender', g>>]
    BY <1>3, <2>1
  <2>3. CASE sender' = sender + 1
    <3>1. sender' > sender
      BY <1>4, <2>3 DEF Senders
    <3>2. QED
      BY <1>2, <1>4, <2>2, <3>1
  <2>4. CASE sender' = sender /\ Tracked(f) = seqs
    BY <1>4, <1>5, <2>2, <2>4
  <2>5. QED
    BY <1>2, <1>6, <2>3, <2>4
<1>10. ASSUME NEW s \in Senders, NEW g \in Flows, s > sender' PROVE taken'[<<s, g>>] = 0
  <2>1. <<s, g>> \in Keys /\ <<s, g>> # p.key
    BY <1>1, <1>2, <1>7, <1>10 DEF Senders
  <2>2. s > sender
    BY <1>2, <1>4, <1>6, <1>10 DEF Senders
  <2>3. QED
    BY <1>3, <1>4, <2>1, <2>2
<1>11. cursor' \in [worker : Carriers, remaining : 0 .. Chunk]
  BY <1>2, PickedType
<1>12. QED
  BY <1>2, <1>4, <1>5, <1>6, <1>8, <1>9, <1>10, <1>11 DEF SenderExact

\* Where nothing is delivered, packets kept or under way stay numbered while
\* their flows go on.
LEMMA WireKept ==
  ASSUME NEW base, StreamInv(base), taken' \in [Keys -> Nat],
         \A k \in Keys : taken[k] <= taken'[k],
         wire' \in [Carriers -> SUBSET Packets],
         \A w \in Carriers : \A p \in wire'[w] :
           p \in wire[w] \/ p \in Numbers(p.key, base[p.key], taken'[p.key])
  PROVE  WireNumbered(base)'
<1>1. \A k \in Keys : Numbers(k, base[k], taken[k]) \subseteq Numbers(k, base[k], taken'[k])
  BY TakenGrows
<1>2. ASSUME NEW w \in Carriers, NEW p \in wire'[w]
      PROVE  p \in Numbers(p.key, base[p.key], taken'[p.key])
  <2>1. CASE p \in wire[w]
    <3>1. p \in Numbers(p.key, base[p.key], taken[p.key])
      BY <2>1 DEF StreamInv, WireNumbered
    <3>2. p.key \in Keys
      BY <3>1, NumbersType
    <3>3. QED
      BY <1>1, <3>1, <3>2
  <2>2. QED
    BY <1>2, <2>1
<1>3. QED
  BY <1>2 DEF WireNumbered

LEMMA OutKept ==
  ASSUME NEW base, StreamInv(base), taken' \in [Keys -> Nat],
         \A k \in Keys : taken[k] <= taken'[k], UNCHANGED <<handoff, tun, out>>
  PROVE  OutNumbered(base)'
<1>1. \A k \in Keys : base[k] \in Int /\ taken[k] \in Int /\ taken'[k] \in Int
  BY TakenGrows
<1>2. ASSUME NEW w \in Carriers, NEW i \in DOMAIN handoff[w]
      PROVE  handoff[w][i].n < taken'[handoff[w][i].key]
  <2> DEFINE p == handoff[w][i]
  <2>1. p \in Packets /\ p.n < taken[p.key]
    BY DEF StreamInv, OutNumbered
  <2>2. p.n \in Int /\ p.key \in Keys
    BY <2>1 DEF Packets
  <2> HIDE DEF p
  <2>3. p.n < taken'[p.key]
    BY <1>1, <2>1, <2>2
  <2>4. QED
    BY <2>3 DEF p
<1>3. ASSUME NEW k \in Keys, NEW i \in DOMAIN out[k]
      PROVE  base[k] - 1 <= out[k][i] /\ out[k][i] < taken'[k]
  <2>1. out[k][i] \in Nat /\ base[k] - 1 <= out[k][i] /\ out[k][i] < taken[k]
    BY DEF StreamInv, OutNumbered
  <2>2. QED
    BY <1>1, <2>1
<1>4. /\ handoff' \in [Carriers -> Seq(Packets)] /\ tun' \in [Keys -> -1 .. MaxIndex - 1]
      /\ out' \in [Keys -> Seq(Nat)]
  BY DEF StreamInv, OutNumbered
<1>5. QED
  BY <1>2, <1>3, <1>4 DEF OutNumbered

LEMMA FlowsKept ==
  ASSUME NEW base, StreamInv(base), taken' \in [Keys -> Nat],
         \A k \in Keys : taken[k] <= taken'[k], UNCHANGED <<flows, pendingTotal>>
  PROVE  FlowsExact(base)'
<1>1. \A k \in Keys : Numbers(k, base[k], taken[k]) \subseteq Numbers(k, base[k], taken'[k])
  BY TakenGrows
<1>2. \A k \in DOMAIN flows : flows[k].pending \subseteq Numbers(k, base[k], taken'[k])
  BY <1>1 DEF StreamInv, FlowsExact
<1>3. Held' = Held
  BY DEF Held
<1>4. QED
  BY <1>2, <1>3 DEF StreamInv, FlowsExact

LEMMA SendStep ==
  ASSUME NEW base, NEW f \in Flows, StreamInv(base), WritePacket(f)
  PROVE  StreamInv(base)'
<1> DEFINE p == Numbered(f)
<1>1. /\ Window(base)' /\ taken' \in [Keys -> Nat] /\ \A k \in Keys : taken[k] <= taken'[k]
      /\ p \in Numbers(p.key, base[p.key], taken'[p.key])
  BY SendTaken
<1>2. SenderExact'
  BY SendSender
<1>3. p \in Packets
  BY <1>1, NumbersType
<1>4. /\ UNCHANGED <<handoff, tun, out>> /\ UNCHANGED <<flows, pendingTotal>>
      /\ up # {}
      /\ \/ wire' = [wire EXCEPT ![Picked.worker] = @ \cup {p}]
         \/ \E v \in up \ {Picked.worker} :
              wire' = [wire EXCEPT ![Picked.worker] = @ \cup {p}, ![v] = @ \cup {p}]
  BY DEF WritePacket, receiverVars
<1> HIDE DEF p
<1>5. Picked.worker \in Carriers /\ up \subseteq Carriers /\ wire \in [Carriers -> SUBSET Packets]
  BY <1>4, PickedType DEF StreamInv, SenderExact, WireNumbered
<1>6. /\ wire' \in [Carriers -> SUBSET Packets]
      /\ \A w \in Carriers : \A q \in wire'[w] : q \in wire[w] \/ q = p
  <2>1. CASE wire' = [wire EXCEPT ![Picked.worker] = @ \cup {p}]
    BY <1>3, <1>5, <2>1
  <2>2. ASSUME NEW v \in up \ {Picked.worker},
               wire' = [wire EXCEPT ![Picked.worker] = @ \cup {p}, ![v] = @ \cup {p}]
        PROVE  /\ wire' \in [Carriers -> SUBSET Packets]
               /\ \A w \in Carriers : \A q \in wire'[w] : q \in wire[w] \/ q = p
    BY <1>3, <1>5, <2>2
  <2>3. QED
    BY <1>4, <2>1, <2>2
<1>7. WireNumbered(base)'
  BY <1>1, <1>6, WireKept
<1>8. OutNumbered(base)' /\ FlowsExact(base)'
  BY <1>1, <1>4, OutKept, FlowsKept
<1>9. QED
  BY <1>1, <1>2, <1>7, <1>8 DEF StreamInv

\* The workers, the network, the passing of time and the queue: nothing is
\* numbered and nothing pushed.
LEMMA IdleStep ==
  ASSUME NEW base, NEW w \in Carriers, StreamInv(base),
         WorkerUp(w) \/ WorkerDown(w) \/ Lose(w)
  PROVE  StreamInv(base)'
<1>1. /\ UNCHANGED <<seqs, sender, taken, sent, cursor>> /\ UNCHANGED <<handoff, tun, out>>
      /\ UNCHANGED <<flows, pendingTotal>>
      /\ up' \subseteq up \cup {w}
      /\ \/ wire' = wire
         \/ \E p \in wire[w] : wire' = [wire EXCEPT ![w] = @ \ {p}]
  BY DEF WorkerUp, WorkerDown, Lose, senderVars, receiverVars
<1>2. SenderExact' /\ Window(base)'
  BY <1>1 DEF StreamInv, SenderExact, Window
<1>3. taken' \in [Keys -> Nat] /\ \A k \in Keys : taken[k] <= taken'[k]
  BY <1>1 DEF StreamInv, Window
<1>4. wire \in [Carriers -> SUBSET Packets]
  BY DEF StreamInv, WireNumbered
<1>5. /\ wire' \in [Carriers -> SUBSET Packets]
      /\ \A v \in Carriers : wire'[v] \subseteq wire[v]
  BY <1>1, <1>4
<1>6. WireNumbered(base)'
  BY <1>3, <1>5, WireKept
<1>7. OutNumbered(base)' /\ FlowsExact(base)'
  BY <1>1, <1>3, OutKept, FlowsKept
<1>8. QED
  BY <1>2, <1>6, <1>7 DEF StreamInv

LEMMA EnqueueStep ==
  ASSUME NEW base, NEW w \in Carriers, StreamInv(base), Enqueue(w)
  PROVE  StreamInv(base)'
<1>1. /\ UNCHANGED <<seqs, sender, taken, sent, cursor>> /\ UNCHANGED <<wire, up, out>>
      /\ UNCHANGED <<flows, pendingTotal>>
      /\ handoff[w] # << >> /\ handoff' = [handoff EXCEPT ![w] = Tail(@)]
      /\ \/ tun' = [tun EXCEPT ![Head(handoff[w]).key] = Head(handoff[w]).n]
         \/ tun' = tun
  BY DEF Enqueue, senderVars, receiverVars
<1>2. SenderExact' /\ Window(base)' /\ WireNumbered(base)'
  BY <1>1 DEF StreamInv, SenderExact, Window, WireNumbered
<1>3. taken' \in [Keys -> Nat] /\ \A k \in Keys : taken[k] <= taken'[k]
  BY <1>1 DEF StreamInv, Window
<1>4. FlowsExact(base)'
  BY <1>1, <1>3, FlowsKept
<1>5. /\ handoff \in [Carriers -> Seq(Packets)]
      /\ \A v \in Carriers : \A i \in DOMAIN handoff[v] :
           handoff[v][i].n < taken[handoff[v][i].key]
      /\ tun \in [Keys -> -1 .. MaxIndex - 1]
      /\ out \in [Keys -> Seq(Nat)]
      /\ \A k \in Keys : \A i \in DOMAIN out[k] : base[k] - 1 <= out[k][i] /\ out[k][i] < taken[k]
  BY DEF StreamInv, OutNumbered
<1> DEFINE s == handoff[w]
           p == Head(s)
<1>6. s \in Seq(Packets) /\ s # << >>
  BY <1>1, <1>5
<1>7. /\ Tail(s) \in Seq(Packets) /\ p = s[1] /\ 1 \in DOMAIN s
      /\ \A i \in DOMAIN Tail(s) : i + 1 \in DOMAIN s /\ Tail(s)[i] = s[i + 1]
  <2> HIDE DEF s
  <2> QED BY <1>6
<1>8. handoff' \in [Carriers -> Seq(Packets)]
  BY <1>1, <1>5, <1>7
<1>9. ASSUME NEW v \in Carriers, NEW i \in DOMAIN handoff'[v]
      PROVE  handoff'[v][i].n < taken[handoff'[v][i].key]
  <2>1. CASE v = w
    <3>1. handoff'[v] = Tail(s)
      BY <1>1, <1>5, <2>1
    <3>2. i + 1 \in DOMAIN handoff[w] /\ handoff'[v][i] = handoff[w][i + 1]
      BY <1>7, <1>9, <3>1
    <3>3. QED
      BY <1>5, <3>2
  <2>2. CASE v # w
    BY <1>1, <1>5, <2>2
  <2>3. QED
    BY <2>1, <2>2
<1>10. tun' \in [Keys -> -1 .. MaxIndex - 1]
  <2>1. p \in Packets /\ p.n < taken[p.key]
    BY <1>5, <1>6, <1>7
  <2>2. p.key \in Keys /\ p.n \in Nat
    BY <2>1 DEF Packets
  <2>3. taken[p.key] \in Nat /\ taken[p.key] <= MaxIndex
    <3>1. /\ taken[p.key] \in Nat /\ taken[p.key] <= base[p.key] + sent
          /\ base[p.key] \in 0 .. StartAt /\ sent \in 0 .. MaxPackets
      BY <2>2 DEF StreamInv, Window
    <3>2. QED
      BY <3>1, StreamAssumption DEF MaxIndex
  <2>4. p.n \in -1 .. MaxIndex - 1
    BY <2>1, <2>2, <2>3, StreamAssumption DEF MaxIndex
  <2> HIDE DEF p
  <2>5. tun' = [tun EXCEPT ![p.key] = p.n] \/ tun' = tun
    BY <1>1 DEF p
  <2>6. QED
    BY <1>5, <2>4, <2>5
<1>11. OutNumbered(base)'
  BY <1>1, <1>5, <1>8, <1>9, <1>10 DEF OutNumbered
<1>12. QED
  BY <1>2, <1>4, <1>11 DEF StreamInv

LEMMA GapStep ==
  ASSUME NEW base, NEW k \in Keys, StreamInv(base), GapDue(k)
  PROVE  StreamInv(base)'
<1>1. /\ UNCHANGED <<seqs, sender, taken, sent, cursor>> /\ UNCHANGED <<handoff, tun, out>>
      /\ UNCHANGED <<wire, up, pendingTotal>>
      /\ k \in DOMAIN flows /\ flows' = [flows EXCEPT ![k].gap = "due"]
  BY DEF GapDue, senderVars
<1>2. SenderExact' /\ Window(base)' /\ WireNumbered(base)'
  BY <1>1 DEF StreamInv, SenderExact, Window, WireNumbered
<1>3. taken' \in [Keys -> Nat] /\ \A j \in Keys : taken[j] <= taken'[j]
  BY <1>1 DEF StreamInv, Window
<1>4. OutNumbered(base)'
  BY <1>1, <1>3, OutKept
<1>5. /\ DOMAIN flows \subseteq Keys /\ Cardinality(DOMAIN flows) <= ReceiverTable
      /\ \A j \in DOMAIN flows :
           /\ flows[j] \in FlowStates
           /\ flows[j].pending \subseteq Numbers(j, base[j], taken[j])
           /\ \A p, q \in flows[j].pending : p.seq = q.seq => p = q
      /\ IsFiniteSet(Held)
      /\ pendingTotal = Cardinality(Held) /\ pendingTotal <= MaxPendingTotal
  BY DEF StreamInv, FlowsExact
<1>6. DOMAIN flows' = DOMAIN flows
  BY <1>1
<1>7. ASSUME NEW j \in DOMAIN flows
      PROVE  flows'[j] \in FlowStates /\ flows'[j].pending = flows[j].pending
  <2>1. flows[j] \in FlowStates
    BY <1>5
  <2>2. flows'[j] = flows[j] \/ flows'[j] = [flows[j] EXCEPT !.gap = "due"]
    BY <1>1
  <2>3. QED
    BY <2>1, <2>2 DEF FlowStates, Gaps
<1>8. Held' = Held
  BY <1>6, <1>7 DEF Held
<1>9. FlowsExact(base)'
  BY <1>1, <1>5, <1>6, <1>7, <1>8 DEF FlowsExact
<1>10. QED
  BY <1>2, <1>4, <1>9 DEF StreamInv

-----------------------------------------------------------------------------
(* The receiver's step. *)

\* The state of the flow of key k before a packet of it is pushed, what the
\* push works on, and what it leaves.
FlowOf(k) == IF k \in DOMAIN flows THEN flows[k] ELSE NewFlow
Before(k) == [expected |-> FlowOf(k).expected, gap |-> FlowOf(k).gap,
              pending |-> FlowOf(k).pending, total |-> TotalBefore(k), out |-> << >>]
After(p) == Pushed(Before(p.key), p)
EntryOf(r) == [expected |-> r.expected, gap |-> r.gap, pending |-> r.pending]
TableBefore(k) == IF Dropping(k) THEN << >> ELSE flows
OutBefore(k) == IF Dropping(k) THEN [j \in Keys |-> << >>] ELSE out
IndicesOf(r) == [i \in DOMAIN r.out |-> r.out[i].n]

Pushes(w, p) ==
  /\ p \in wire[w] /\ wire' = [wire EXCEPT ![w] = @ \ {p}]
  /\ flows' = Put(TableBefore(p.key), p.key, EntryOf(After(p)))
  /\ pendingTotal' = After(p).total
  /\ handoff' = [handoff EXCEPT ![w] = After(p).out]
  /\ out' = [OutBefore(p.key) EXCEPT ![p.key] = @ \o IndicesOf(After(p))]
  /\ UNCHANGED <<seqs, sender, taken, sent, cursor, up, tun>>

LEMMA DeliverIs == ASSUME NEW w, Deliver(w) PROVE \E p \in wire[w] : Pushes(w, p)
  BY DEF Deliver, Pushes, FlowOf, Before, After, EntryOf, TableBefore, OutBefore, IndicesOf,
         senderVars

\* What the other flows hold when a packet of key k is pushed.
OthersHeld(k) == UNION {flows[j].pending : j \in DOMAIN TableBefore(k) \ {k}}

LEMMA BeforeSound ==
  ASSUME NEW base, NEW w \in Carriers, NEW p \in wire[w], StreamInv(base)
  PROVE  /\ Sound(Numbers(p.key, base[p.key], taken[p.key]),
                  Cardinality(OthersHeld(p.key)), Before(p.key))
         /\ Before(p.key).total <= MaxPendingTotal
         /\ p \in Numbers(p.key, base[p.key], taken[p.key])
         /\ p.key \in Keys /\ IsFiniteSet(OthersHeld(p.key))
<1> DEFINE k == p.key
           T == Numbers(k, base[k], taken[k])
           r == Before(k)
           c == Cardinality(OthersHeld(k))
<1>1. p \in T
  BY DEF StreamInv, WireNumbered
<1>2. k \in Keys /\ T \subseteq Packets
  BY <1>1, NumbersType
<1>3. /\ DOMAIN flows \subseteq Keys
      /\ \A j \in DOMAIN flows :
           /\ flows[j] \in FlowStates
           /\ flows[j].pending \subseteq Numbers(j, base[j], taken[j])
           /\ \A a, b \in flows[j].pending : a.seq = b.seq => a = b
      /\ IsFiniteSet(Held)
      /\ pendingTotal = Cardinality(Held) /\ pendingTotal <= MaxPendingTotal
  BY DEF StreamInv, FlowsExact
<1> HIDE DEF k, T, c
<1>4. /\ FlowOf(k).expected \in 0 .. SeqSpace - 1 /\ FlowOf(k).gap \in Gaps
      /\ FlowOf(k).pending \subseteq T
      /\ \A a, b \in FlowOf(k).pending : a.seq = b.seq => a = b
  <2>1. CASE k \in DOMAIN flows
    BY <1>3, <2>1 DEF FlowOf, FlowStates, T
  <2>2. CASE k \notin DOMAIN flows
    BY <2>2, FreshFlow DEF FlowOf, FlowStates
  <2>3. QED
    BY <2>1, <2>2
<1>5. /\ r.expected = FlowOf(k).expected /\ r.gap = FlowOf(k).gap
      /\ r.pending = FlowOf(k).pending /\ r.total = TotalBefore(k) /\ r.out = << >>
      /\ r = [expected |-> FlowOf(k).expected, gap |-> FlowOf(k).gap,
              pending |-> FlowOf(k).pending, total |-> TotalBefore(k), out |-> << >>]
  BY DEF Before
<1>6. /\ IsFiniteSet(OthersHeld(k)) /\ IsFiniteSet(FlowOf(k).pending)
      /\ TotalBefore(k) = c + Cardinality(FlowOf(k).pending)
  <2>1. CASE Dropping(k)
    <3>1. DOMAIN TableBefore(k) = {}
      BY <2>1, NoEntry DEF TableBefore
    <3>2. OthersHeld(k) = {}
      BY <3>1 DEF OthersHeld
    <3>3. FlowOf(k).pending = {}
      BY <2>1, FreshFlow DEF Dropping, FlowOf
    <3>4. TotalBefore(k) = 0
      BY <2>1 DEF TotalBefore
    <3>5. IsFiniteSet({}) /\ Cardinality({}) = 0
      BY FS_EmptySet
    <3>6. c = 0 /\ Cardinality(FlowOf(k).pending) = 0
      BY <3>2, <3>3, <3>5 DEF c
    <3>7. QED
      BY <3>2, <3>3, <3>4, <3>5, <3>6
  <2>2. CASE ~Dropping(k)
    <3>1. OthersHeld(k) = UNION {flows[j].pending : j \in DOMAIN flows \ {k}}
          /\ TotalBefore(k) = pendingTotal
      BY <2>2 DEF OthersHeld, TableBefore, TotalBefore
    <3>2. Held = OthersHeld(k) \cup FlowOf(k).pending
      <4>1. CASE k \in DOMAIN flows
        BY <3>1, <4>1 DEF Held, FlowOf
      <4>2. CASE k \notin DOMAIN flows
        BY <3>1, <4>2, FreshFlow DEF Held, FlowOf
      <4>3. QED
        BY <4>1, <4>2
    <3>3. OthersHeld(k) \cap FlowOf(k).pending = {}
      <4>1. ASSUME NEW j \in DOMAIN flows \ {k}, NEW a \in flows[j].pending,
                   a \in FlowOf(k).pending
            PROVE  FALSE
        <5>1. a.key = j
          BY <1>3, NumbersType
        <5>2. a.key = k
          BY <1>4, <4>1, NumbersType DEF T
        <5>3. QED
          BY <5>1, <5>2
      <4>2. QED
        BY <3>1, <4>1
    <3>4. IsFiniteSet(OthersHeld(k)) /\ IsFiniteSet(FlowOf(k).pending)
      BY <1>3, <3>2, FS_Subset
    <3>5. Cardinality(Held) = Cardinality(OthersHeld(k)) + Cardinality(FlowOf(k).pending)
                                - Cardinality(OthersHeld(k) \cap FlowOf(k).pending)
      BY <3>2, <3>4, FS_Union
    <3>6. Cardinality(OthersHeld(k) \cap FlowOf(k).pending) = 0
      BY <3>3, FS_EmptySet
    <3>7. Cardinality(OthersHeld(k)) \in Nat /\ Cardinality(FlowOf(k).pending) \in Nat
      BY <3>4, FS_CardinalityType
    <3>8. QED
      BY <1>3, <3>1, <3>4, <3>5, <3>6, <3>7 DEF c
  <2>3. QED
    BY <2>1, <2>2
<1>7. c \in Nat /\ Cardinality(FlowOf(k).pending) \in Nat
  BY <1>6, FS_CardinalityType DEF c
<1>8. r \in PushStates(T)
  <2>1. << >> \in Seq(T)
    OBVIOUS
  <2>2. TotalBefore(k) \in Int
    BY <1>6, <1>7
  <2>3. QED
    BY <1>4, <1>5, <2>1, <2>2 DEF PushStates
<1> HIDE DEF r
<1>9. Sound(T, c, r)
  BY <1>2, <1>4, <1>5, <1>6, <1>7, <1>8 DEF Sound, T
<1>10. r.total <= MaxPendingTotal
  BY <1>3, <1>5, StreamAssumption DEF TotalBefore
<1>11. QED
  BY <1>1, <1>2, <1>6, <1>9, <1>10 DEF k, T, c, r

\* What the push leaves of the tables.
LEMMA DeliverFlows ==
  ASSUME NEW base, NEW w \in Carriers, NEW p, StreamInv(base), Pushes(w, p)
  PROVE  /\ FlowsExact(base)'
         /\ Sound(Numbers(p.key, base[p.key], taken[p.key]),
                  Cardinality(OthersHeld(p.key)), After(p))
         /\ DOMAIN flows' = DOMAIN TableBefore(p.key) \cup {p.key}
         /\ DOMAIN TableBefore(p.key) \subseteq DOMAIN flows
         /\ flows'[p.key] = EntryOf(After(p))
         /\ \A j \in DOMAIN TableBefore(p.key) : j # p.key => flows'[j] = flows[j]
<1> DEFINE k == p.key
           T == Numbers(k, base[k], taken[k])
           c == Cardinality(OthersHeld(k))
           r == After(p)
           tab == TableBefore(k)
<1>1. /\ p \in wire[w] /\ flows' = Put(tab, k, EntryOf(r)) /\ pendingTotal' = r.total
      /\ taken' = taken
  BY DEF Pushes
<1>2. /\ Sound(T, c, Before(k)) /\ Before(k).total <= MaxPendingTotal /\ p \in T
      /\ k \in Keys /\ IsFiniteSet(OthersHeld(k))
  BY <1>1, BeforeSound
<1>3. Sound(T, c, r) /\ r.total <= MaxPendingTotal
  <2>1. r = Pushed(Before(k), p)
    BY DEF After
  <2> HIDE DEF T, c, r, k
  <2>2. QED
    BY <1>2, <2>1, PushedSound
<1> HIDE DEF T, c, r
<1>4. /\ r \in PushStates(T) /\ IsFiniteSet(r.pending)
      /\ \A a, b \in r.pending : a.seq = b.seq => a = b
      /\ r.total = c + Cardinality(r.pending)
  BY <1>3 DEF Sound
<1>5. /\ EntryOf(r) \in FlowStates /\ EntryOf(r).pending = r.pending
      /\ r.pending \subseteq T
  <2>1. T \subseteq Packets
    BY <1>3 DEF Sound
  <2>2. QED
    BY <1>4, <2>1 DEF EntryOf, FlowStates, PushStates
<1>6. /\ DOMAIN flows \subseteq Keys /\ Cardinality(DOMAIN flows) <= ReceiverTable
      /\ \A j \in DOMAIN flows :
           /\ flows[j] \in FlowStates
           /\ flows[j].pending \subseteq Numbers(j, base[j], taken[j])
           /\ \A a, b \in flows[j].pending : a.seq = b.seq => a = b
  BY DEF StreamInv, FlowsExact
<1>7. /\ DOMAIN tab \subseteq DOMAIN flows /\ \A j \in DOMAIN tab : tab[j] = flows[j]
      /\ \/ tab = << >> /\ Dropping(k)
         \/ tab = flows /\ ~Dropping(k)
  <2>1. CASE Dropping(k)
    <3>1. tab = << >>
      BY <2>1 DEF TableBefore
    <3>2. DOMAIN tab = {}
      BY <3>1, NoEntry
    <3> HIDE DEF tab
    <3>3. QED
      BY <2>1, <3>1, <3>2
  <2>2. CASE ~Dropping(k)
    <3>1. tab = flows
      BY <2>2 DEF TableBefore
    <3> HIDE DEF tab
    <3>2. QED
      BY <2>2, <3>1
  <2>3. QED
    BY <2>1, <2>2
<1> HIDE DEF tab
<1>8. /\ DOMAIN flows' = DOMAIN tab \cup {k} /\ flows'[k] = EntryOf(r)
      /\ \A j \in DOMAIN tab : j # k => flows'[j] = flows[j]
  <2>1. /\ DOMAIN flows' = DOMAIN tab \cup {k} /\ flows'[k] = EntryOf(r)
        /\ \A j \in DOMAIN tab : j # k => flows'[j] = tab[j]
    BY <1>1 DEF Put
  <2>2. QED
    BY <1>7, <2>1
<1>9. Cardinality(DOMAIN flows') <= ReceiverTable
  <2>1. CASE tab = << >> /\ Dropping(k)
    <3>1. DOMAIN flows' = {k}
      BY <1>8, <2>1, NoEntry
    <3>2. Cardinality({k}) = 1
      BY FS_Singleton
    <3>3. QED
      BY <3>1, <3>2, StreamAssumption
  <2>2. CASE tab = flows /\ ~Dropping(k)
    <3>1. IsFiniteSet(DOMAIN flows)
      <4>1. IsFiniteSet(Keys)
        <5>1. IsFiniteSet(Senders)
          BY FS_Interval, StreamAssumption DEF Senders
        <5>2. QED
          BY <5>1, FS_Product, StreamAssumption DEF Keys
      <4>2. QED
        BY <1>6, <4>1, FS_Subset
    <3>2. /\ Cardinality(DOMAIN flows) \in Nat
          /\ Cardinality(DOMAIN flows \cup {k}) =
               IF k \in DOMAIN flows THEN Cardinality(DOMAIN flows)
               ELSE Cardinality(DOMAIN flows) + 1
      BY <3>1, FS_CardinalityType, FS_AddElement
    <3>3. DOMAIN flows' = DOMAIN flows \cup {k}
      BY <1>8, <2>2
    <3>4. k \notin DOMAIN flows => Cardinality(DOMAIN flows) < ReceiverTable
      BY <2>2, <3>2, StreamAssumption DEF Dropping
    <3>5. Cardinality(DOMAIN flows \cup {k}) <= ReceiverTable
      BY <1>6, <3>2, <3>4, StreamAssumption
    <3>6. QED
      BY <3>3, <3>5
  <2>3. QED
    BY <1>7, <2>1, <2>2
<1>10. Held' = OthersHeld(k) \cup r.pending
  <2>1. OthersHeld(k) = UNION {flows[j].pending : j \in DOMAIN tab \ {k}}
    BY DEF OthersHeld, tab
  <2>2. Held' = UNION {flows'[j].pending : j \in DOMAIN flows'}
    BY DEF Held
  <2>3. \A j \in DOMAIN tab \ {k} : flows'[j].pending = flows[j].pending
    BY <1>8
  <2>4. flows'[k].pending = r.pending
    BY <1>5, <1>8
  <2>5. DOMAIN flows' = (DOMAIN tab \ {k}) \cup {k}
    BY <1>8
  <2>6. QED
    BY <2>1, <2>2, <2>3, <2>4, <2>5
<1>11. OthersHeld(k) \cap r.pending = {}
  <2>1. ASSUME NEW j \in DOMAIN tab \ {k}, NEW a \in flows[j].pending, a \in r.pending
        PROVE  FALSE
    <3>1. a \in Numbers(j, base[j], taken[j])
      BY <1>6, <1>7
    <3>2. a.key = j
      BY <3>1, NumbersType
    <3>3. a.key = k
      BY <1>5, <2>1, NumbersType DEF T
    <3>4. QED
      BY <3>2, <3>3
  <2>2. OthersHeld(k) = UNION {flows[j].pending : j \in DOMAIN tab \ {k}}
    BY DEF OthersHeld, tab
  <2>3. QED
    BY <2>1, <2>2
<1>12. IsFiniteSet(Held') /\ Cardinality(Held') = r.total
  <2>1. /\ IsFiniteSet(OthersHeld(k) \cup r.pending)
        /\ Cardinality(OthersHeld(k) \cup r.pending) =
             Cardinality(OthersHeld(k)) + Cardinality(r.pending)
               - Cardinality(OthersHeld(k) \cap r.pending)
    BY <1>2, <1>4, FS_Union
  <2>2. Cardinality(OthersHeld(k) \cap r.pending) = 0
    BY <1>11, FS_EmptySet
  <2>3. Cardinality(OthersHeld(k)) \in Nat /\ Cardinality(r.pending) \in Nat
    BY <1>2, <1>4, FS_CardinalityType
  <2>4. c = Cardinality(OthersHeld(k))
    BY DEF c
  <2>5. QED
    BY <1>4, <1>10, <2>1, <2>2, <2>3, <2>4
<1>13. ASSUME NEW j \in DOMAIN flows'
       PROVE  /\ flows'[j] \in FlowStates
              /\ flows'[j].pending \subseteq Numbers(j, base[j], taken'[j])
              /\ \A a, b \in flows'[j].pending : a.seq = b.seq => a = b
  <2>1. CASE j = k
    BY <1>1, <1>4, <1>5, <1>8, <2>1 DEF T
  <2>2. CASE j # k
    BY <1>1, <1>6, <1>7, <1>8, <2>2
  <2>3. QED
    BY <2>1, <2>2
<1>14. DOMAIN flows' \subseteq Keys
  BY <1>2, <1>6, <1>7, <1>8
<1>15. FlowsExact(base)'
  BY <1>1, <1>3, <1>9, <1>12, <1>13, <1>14 DEF FlowsExact
<1>16. QED
  BY <1>3, <1>7, <1>8, <1>15 DEF T, c, r, tab

\* What the push hands out joins what came out before it.
LEMMA DeliverOut ==
  ASSUME NEW base, NEW w \in Carriers, NEW p, StreamInv(base), Pushes(w, p)
  PROVE  /\ OutNumbered(base)'
         /\ OutBefore(p.key)[p.key] \in Seq(Nat) /\ IndicesOf(After(p)) \in Seq(Nat)
         /\ \A i \in DOMAIN OutBefore(p.key)[p.key] :
              /\ base[p.key] - 1 <= OutBefore(p.key)[p.key][i]
              /\ OutBefore(p.key)[p.key][i] < taken[p.key]
         /\ out'[p.key] = OutBefore(p.key)[p.key] \o IndicesOf(After(p))
         /\ \A j \in Keys : j # p.key => out'[j] = OutBefore(p.key)[j]
<1> DEFINE k == p.key
           T == Numbers(k, base[k], taken[k])
           r == After(p)
<1>1. /\ handoff' = [handoff EXCEPT ![w] = r.out]
      /\ out' = [OutBefore(k) EXCEPT ![k] = @ \o IndicesOf(r)]
      /\ taken' = taken /\ tun' = tun /\ p \in wire[w]
  BY DEF Pushes
<1>2. r.out \in Seq(T)
  BY DeliverFlows DEF Sound, PushStates
<1>3. k \in Keys /\ T \subseteq Packets
  BY <1>1, BeforeSound, NumbersType
<1>4. /\ handoff \in [Carriers -> Seq(Packets)]
      /\ \A v \in Carriers : \A i \in DOMAIN handoff[v] :
           handoff[v][i].n < taken[handoff[v][i].key]
      /\ tun \in [Keys -> -1 .. MaxIndex - 1]
      /\ out \in [Keys -> Seq(Nat)]
      /\ \A j \in Keys : \A i \in DOMAIN out[j] : base[j] - 1 <= out[j][i] /\ out[j][i] < taken[j]
  BY DEF StreamInv, OutNumbered
<1>5. \A q \in T : q.key = k /\ q.n \in Nat /\ base[k] <= q.n /\ q.n < taken[k]
  BY NumbersType
<1>6. base[k] \in Int /\ taken[k] \in Int
  BY <1>3, StreamAssumption DEF StreamInv, Window
<1> HIDE DEF T, r, k
<1>7. /\ handoff' \in [Carriers -> Seq(Packets)]
      /\ \A v \in Carriers : \A i \in DOMAIN handoff'[v] :
           handoff'[v][i].n < taken[handoff'[v][i].key]
  <2>1. r.out \in Seq(Packets) /\ \A i \in DOMAIN r.out : r.out[i] \in T
    BY <1>2, <1>3
  <2>2. handoff' \in [Carriers -> Seq(Packets)]
    BY <1>1, <1>4, <2>1
  <2>3. ASSUME NEW v \in Carriers, NEW i \in DOMAIN handoff'[v]
        PROVE  handoff'[v][i].n < taken[handoff'[v][i].key]
    <3>1. CASE v = w
      <4>1. handoff'[v] = r.out
        BY <1>1, <1>4, <3>1
      <4>2. handoff'[v][i] \in T
        BY <2>1, <2>3, <4>1
      <4>3. QED
        BY <1>5, <4>2
    <3>2. CASE v # w
      BY <1>1, <1>4, <3>2
    <3>3. QED
      BY <3>1, <3>2
  <2>4. QED
    BY <2>2, <2>3
<1>8. /\ IndicesOf(r) \in Seq(Nat)
      /\ \A i \in DOMAIN IndicesOf(r) :
           base[k] - 1 <= IndicesOf(r)[i] /\ IndicesOf(r)[i] < taken[k]
  <2>1. \A i \in DOMAIN r.out : r.out[i] \in T
    BY <1>2
  <2>2. DOMAIN r.out = 1 .. Len(r.out) /\ Len(r.out) \in Nat
    BY <1>2
  <2>3. ASSUME NEW i \in 1 .. Len(r.out)
        PROVE  r.out[i].n \in Nat /\ base[k] - 1 <= r.out[i].n /\ r.out[i].n < taken[k]
    BY <1>5, <1>6, <2>1, <2>2
  <2>4. IndicesOf(r) = [i \in 1 .. Len(r.out) |-> r.out[i].n]
    BY <2>2 DEF IndicesOf
  <2>5. QED
    BY <2>2, <2>3, <2>4
<1>9. /\ OutBefore(k) \in [Keys -> Seq(Nat)]
      /\ \A j \in Keys : \A i \in DOMAIN OutBefore(k)[j] :
           base[j] - 1 <= OutBefore(k)[j][i] /\ OutBefore(k)[j][i] < taken[j]
  <2>1. CASE Dropping(k)
    <3>1. OutBefore(k) = [j \in Keys |-> << >>]
      BY <2>1 DEF OutBefore
    <3>2. << >> \in Seq(Nat)
      OBVIOUS
    <3>3. QED
      BY <3>1, <3>2, NoEntry
  <2>2. CASE ~Dropping(k)
    BY <1>4, <2>2 DEF OutBefore
  <2>3. QED
    BY <2>1, <2>2
<1> DEFINE s == OutBefore(k)[k]
           t == IndicesOf(r)
<1>10. s \in Seq(Nat) /\ t \in Seq(Nat)
  BY <1>3, <1>8, <1>9
<1>11. /\ s \o t \in Seq(Nat)
       /\ \A i \in DOMAIN (s \o t) :
            base[k] - 1 <= (s \o t)[i] /\ (s \o t)[i] < taken[k]
  <2>1. \A i \in DOMAIN s : base[k] - 1 <= s[i] /\ s[i] < taken[k]
    BY <1>3, <1>9
  <2>2. \A i \in DOMAIN t : base[k] - 1 <= t[i] /\ t[i] < taken[k]
    BY <1>8
  <2> HIDE DEF s, t
  <2>3. s \o t \in Seq(Nat)
    BY <1>10
  <2>4. ASSUME NEW i \in DOMAIN (s \o t)
        PROVE  \/ i \in DOMAIN s /\ (s \o t)[i] = s[i]
               \/ i - Len(s) \in DOMAIN t /\ (s \o t)[i] = t[i - Len(s)]
    BY <1>10
  <2>5. QED
    BY <2>1, <2>2, <2>3, <2>4
<1>12. /\ out'[k] = s \o t
       /\ \A j \in Keys : j # k => out'[j] = OutBefore(k)[j]
       /\ out' \in [Keys -> Seq(Nat)]
  <2> HIDE DEF t
  <2>1. out' = [OutBefore(k) EXCEPT ![k] = s \o t]
    BY <1>1 DEF t
  <2>2. QED
    BY <1>3, <1>9, <1>11, <2>1
<1> HIDE DEF s, t
<1>13. ASSUME NEW j \in Keys, NEW i \in DOMAIN out'[j]
       PROVE  base[j] - 1 <= out'[j][i] /\ out'[j][i] < taken'[j]
  BY <1>1, <1>9, <1>11, <1>12, <1>13
<1>14. OutNumbered(base)'
  BY <1>1, <1>4, <1>7, <1>12, <1>13 DEF OutNumbered
<1>15. \A i \in DOMAIN s : base[k] - 1 <= s[i] /\ s[i] < taken[k]
  BY <1>3, <1>9 DEF s
<1>16. QED
  BY <1>10, <1>12, <1>14, <1>15 DEF k, r, s, t

LEMMA DeliverStep ==
  ASSUME NEW base, NEW w \in Carriers, StreamInv(base), Deliver(w)
  PROVE  StreamInv(base)'
<1>1. PICK p \in wire[w] : Pushes(w, p)
  BY DeliverIs
<1>2. /\ UNCHANGED <<seqs, sender, taken, sent, cursor, up>>
      /\ wire' = [wire EXCEPT ![w] = @ \ {p}]
  BY <1>1 DEF Pushes
<1>3. SenderExact' /\ Window(base)'
  BY <1>2 DEF StreamInv, SenderExact, Window
<1>4. taken' \in [Keys -> Nat] /\ \A k \in Keys : taken[k] <= taken'[k]
  BY <1>2 DEF StreamInv, Window
<1>5. wire \in [Carriers -> SUBSET Packets]
  BY DEF StreamInv, WireNumbered
<1>6. wire' \in [Carriers -> SUBSET Packets] /\ \A v \in Carriers : wire'[v] \subseteq wire[v]
  BY <1>2, <1>5
<1>7. WireNumbered(base)'
  BY <1>4, <1>6, WireKept
<1>8. OutNumbered(base)' /\ FlowsExact(base)'
  BY <1>1, DeliverOut, DeliverFlows
<1>9. QED
  BY <1>3, <1>7, <1>8 DEF StreamInv

-----------------------------------------------------------------------------
(* Theorems: types and counts *)

LEMMA StreamStep ==
  ASSUME NEW base, StreamInv(base), [StreamNext]_streamVars PROVE StreamInv(base)'
<1>1. CASE UNCHANGED streamVars
  <2>1. /\ UNCHANGED <<seqs, sender, taken, sent, cursor>> /\ UNCHANGED <<handoff, tun, out>>
        /\ UNCHANGED <<wire, up, flows, pendingTotal>>
    BY <1>1 DEF streamVars, senderVars, receiverVars
  <2>2. taken' \in [Keys -> Nat] /\ \A k \in Keys : taken[k] <= taken'[k]
    BY <2>1 DEF StreamInv, Window
  <2>3. SenderExact' /\ Window(base)' /\ WireNumbered(base)'
    BY <2>1 DEF StreamInv, SenderExact, Window, WireNumbered
  <2>4. OutNumbered(base)' /\ FlowsExact(base)'
    BY <2>1, <2>2, OutKept, FlowsKept
  <2>5. QED
    BY <2>3, <2>4 DEF StreamInv
<1>2. CASE \E f \in Flows : WritePacket(f)
  BY <1>2, SendStep
<1>3. ASSUME NEW w \in Carriers,
             WorkerUp(w) \/ WorkerDown(w) \/ Lose(w) \/ Deliver(w) \/ Enqueue(w)
      PROVE  StreamInv(base)'
  BY <1>3, IdleStep, DeliverStep, EnqueueStep
<1>4. CASE \E k \in Keys : GapDue(k)
  BY <1>4, GapStep
<1>5. QED
  BY <1>1, <1>2, <1>3, <1>4 DEF StreamNext

\* Both parts together; which flow had come how far is fixed at the start.
CountsInv == TypeOK /\ \E base : StreamInv(base)

LEMMA CountsStart == CountsInit => CountsInv
  BY TypeInit, StreamStart DEF CountsInit, CountsInv

LEMMA CountsStep == CountsInv /\ [CountsNext]_<<part, vars, streamVars>> => CountsInv'
<1> SUFFICES ASSUME CountsInv, [CountsNext]_<<part, vars, streamVars>> PROVE CountsInv'
  OBVIOUS
<1>1. [Next]_vars /\ [StreamNext]_streamVars
  BY DEF CountsNext
<1>2. TypeOK'
  BY <1>1, TypeStep DEF CountsInv
<1>3. PICK base : StreamInv(base)
  BY DEF CountsInv
<1>4. StreamInv(base)'
  BY <1>1, <1>3, StreamStep
<1>5. QED
  BY <1>2, <1>4 DEF CountsInv

LEMMA CountsAlways == CountsSpec => []CountsInv
  BY CountsStart, CountsStep, PTL DEF CountsSpec

LEMMA CountsFollow == CountsInv => CountsTypeOK /\ CountsAgree
  BY InvTypes DEF CountsInv, CountsTypeOK

\* Sequencer and Reassembler (pkg/csqtt/frame.go) stay within their tables and
\* limits however packets are lost, overtaken or duplicated: in particular
\* pendingTotal never passes maxPendingTotal, though PushAt checks it only after
\* having added to it.
THEOREM CountsTyped == CountsSpec => []CountsTypeOK
  BY CountsAlways, CountsFollow, PTL

\* The reassembler's pendingTotal is always the number of packets its flows
\* hold, across releases and drops of the table, and the sequencer gives the
\* n-th packet of a flow the number n under one sender id (frame.go:155-173,
\* 226-338).
THEOREM CountsTrueAlways == CountsSpec => []CountsAgree
  BY CountsAlways, CountsFollow, PTL

-----------------------------------------------------------------------------
(* Order: what a push releases is newer than all the flow has released.  X is *)
(* the set of indices released before the push.                              *)

\* e is the number after the newest of Z.
Leads(Z, e) ==
  Z = {} \/ \E x \in Z : (\A y \in Z : y <= x) /\ e = (x + 1) % SeqSpace
Shown(X, r) == X \cup {r.out[i].n : i \in DOMAIN r.out}
Ordered(X, r) ==
  /\ \A i, j \in DOMAIN r.out : i < j => r.out[i].n < r.out[j].n
  /\ \A i \in DOMAIN r.out : \A x \in X : x < r.out[i].n
  /\ Leads(Shown(X, r), r.expected)

\* The packets of T and the indices of X lie within half the sequence space.
Near(T, X) ==
  \E lo, hi \in Int :
    /\ hi - lo < Half /\ lo <= hi
    /\ \A p \in T : p.n \in Int /\ p.seq = p.n % SeqSpace /\ lo <= p.n /\ p.n < hi
    /\ \A x \in X : x \in Int /\ lo - 1 <= x /\ x < hi

LEMMA HalfType == Half \in Int /\ Half + Half <= SeqSpace /\ SeqSpace \in Nat \ {0}
  BY StreamAssumption DEF Half

\* The number after a, taken modulo the space.
LEMMA ModNext ==
  \A a \in Int : ((a % SeqSpace) + 1) % SeqSpace = (a + 1) % SeqSpace
<1> SUFFICES ASSUME NEW a \in Int
             PROVE  ((a % SeqSpace) + 1) % SeqSpace = (a + 1) % SeqSpace
  OBVIOUS
<1>1. SeqSpace \in Nat \ {0} /\ 1 \in Int
  BY HalfType
<1> QED BY <1>1, ModSum

LEMMA ModDiff ==
  ASSUME NEW S \in Nat \ {0}, NEW a \in Int, NEW b \in Int
  PROVE  ((a % S) - (b % S)) % S = (a - b) % S
<1>1. (a % S) \in 0 .. S - 1 /\ a = (S * (a \div S)) + (a % S) /\ a \div S \in Int
  BY ModDef
<1>2. (b % S) \in 0 .. S - 1 /\ b = (S * (b \div S)) + (b % S) /\ b \div S \in Int
  BY ModDef
<1>3. a - b = ((a % S) - (b % S)) + (S * ((a \div S) - (b \div S)))
  BY <1>1, <1>2
<1>4. (a % S) - (b % S) \in Int /\ (a \div S) - (b \div S) \in Int
  BY <1>1, <1>2
<1>5. QED
  BY <1>3, <1>4, Dist

\* A number less than half the space ahead, taken modulo the space, was ahead.
LEMMA ModAhead ==
  \A S \in Nat \ {0}, H \in Int, d \in Int :
    H + H <= S /\ -H < d /\ d < H /\ (d % S) <= H - 1 => d >= 0
<1> SUFFICES ASSUME NEW S \in Nat \ {0}, NEW H \in Int, NEW d \in Int,
                    H + H <= S, -H < d, d < H, (d % S) <= H - 1, d < 0
             PROVE  FALSE
  OBVIOUS
<1>1. d + S \in 0 .. S - 1
  OBVIOUS
<1>2. ((S * (-1)) + (d + S)) % S = d + S
  BY <1>1, ModIs
<1>3. (S * (-1)) + (d + S) = d
  OBVIOUS
<1>4. d % S = d + S
  BY <1>2, <1>3
<1>5. QED
  BY <1>4

\* A packet less than half the space ahead of the turn is newer than all that
\* has come out: the comparison of sequence numbers decides as the indices would.
LEMMA AheadNewer ==
  ASSUME NEW T, NEW X, NEW Z, NEW e, NEW p \in T, Near(T, X),
         Z \subseteq X \cup {q.n : q \in T}, Leads(Z, e),
         (p.seq - e) % SeqSpace \in 0 .. Half - 1
  PROVE  \A z \in Z : z < p.n
<1>1. PICK lo, hi \in Int :
        /\ hi - lo < Half /\ lo <= hi
        /\ \A q \in T : q.n \in Int /\ q.seq = q.n % SeqSpace /\ lo <= q.n /\ q.n < hi
        /\ \A x \in X : x \in Int /\ lo - 1 <= x /\ x < hi
  BY DEF Near
<1>2. \A z \in Z : z \in Int /\ lo - 1 <= z /\ z < hi
  BY <1>1
<1>3. CASE Z = {}
  BY <1>3
<1>4. ASSUME NEW x \in Z, \A y \in Z : y <= x, e = (x + 1) % SeqSpace
      PROVE  \A z \in Z : z < p.n
  <2>1. x \in Int /\ x + 1 \in Int /\ lo - 1 <= x /\ x < hi
    BY <1>2
  <2>2. p.n \in Int /\ p.seq = p.n % SeqSpace /\ lo <= p.n /\ p.n < hi
    BY <1>1
  <2>3. (p.seq - e) % SeqSpace = (p.n - (x + 1)) % SeqSpace
    BY <1>4, <2>1, <2>2, ModDiff, StreamAssumption
  <2>4. p.n - (x + 1) \in Int /\ -Half < p.n - (x + 1) /\ p.n - (x + 1) < Half
    BY <1>1, <2>1, <2>2, HalfType
  <2>5. (p.n - (x + 1)) % SeqSpace <= Half - 1
    BY <2>3, HalfType
  <2>6. p.n - (x + 1) >= 0
    BY <2>4, <2>5, HalfType, ModAhead
  <2>7. x < p.n
    BY <2>1, <2>2, <2>6
  <2>8. QED
    BY <1>2, <1>4, <2>1, <2>2, <2>7
<1>5. QED
  BY <1>3, <1>4 DEF Leads

\* Only what came out and whose turn it is matter.
LEMMA OrderedSame ==
  ASSUME NEW X, NEW r, NEW m, Ordered(X, r), m.out = r.out, m.expected = r.expected
  PROVE  Ordered(X, m)
  BY DEF Ordered, Shown

LEMMA OrderedAppend ==
  ASSUME NEW T, NEW c, NEW X, NEW r, NEW m, NEW p \in T,
         Sound(T, c, r), Near(T, X), Ordered(X, r),
         (p.seq - r.expected) % SeqSpace \in 0 .. Half - 1,
         m.out = Append(r.out, p), m.expected = (p.seq + 1) % SeqSpace
  PROVE  Ordered(X, m)
<1>1. r.out \in Seq(T) /\ m.out \in Seq(T)
  BY DEF Sound, PushStates
<1>2. /\ DOMAIN r.out = 1 .. Len(r.out) /\ Len(r.out) \in Nat
      /\ DOMAIN m.out = 1 .. Len(r.out) + 1
      /\ m.out[Len(r.out) + 1] = p
      /\ \A i \in 1 .. Len(r.out) : m.out[i] = r.out[i]
  BY <1>1
<1>3. \A z \in Shown(X, r) : z < p.n
  <2>1. Shown(X, r) \subseteq X \cup {q.n : q \in T}
    BY <1>1 DEF Shown
  <2>2. Leads(Shown(X, r), r.expected)
    BY DEF Ordered
  <2>3. QED
    BY <2>1, <2>2, AheadNewer
<1>4. /\ \A i, j \in DOMAIN r.out : i < j => r.out[i].n < r.out[j].n
      /\ \A i \in DOMAIN r.out : \A x \in X : x < r.out[i].n
  BY DEF Ordered
<1>5. /\ \A i \in DOMAIN r.out : r.out[i].n < p.n
      /\ \A x \in X : x < p.n
  BY <1>3 DEF Shown
<1>6. \A i, j \in DOMAIN m.out : i < j => m.out[i].n < m.out[j].n
  <2> SUFFICES ASSUME NEW i \in DOMAIN m.out, NEW j \in DOMAIN m.out, i < j
               PROVE  m.out[i].n < m.out[j].n
    OBVIOUS
  <2>1. i \in 1 .. Len(r.out) /\ (j \in 1 .. Len(r.out) \/ j = Len(r.out) + 1)
    BY <1>2
  <2>2. QED
    BY <1>2, <1>4, <1>5, <2>1
<1>7. \A i \in DOMAIN m.out : \A x \in X : x < m.out[i].n
  <2> SUFFICES ASSUME NEW i \in DOMAIN m.out, NEW x \in X PROVE x < m.out[i].n
    OBVIOUS
  <2>1. i \in 1 .. Len(r.out) \/ i = Len(r.out) + 1
    BY <1>2
  <2>2. QED
    BY <1>2, <1>4, <1>5, <2>1
<1>8. Shown(X, m) = Shown(X, r) \cup {p.n}
  <2>1. DOMAIN m.out = DOMAIN r.out \cup {Len(r.out) + 1}
    BY <1>2
  <2>2. {m.out[i].n : i \in DOMAIN m.out} = {r.out[i].n : i \in DOMAIN r.out} \cup {p.n}
    BY <1>2, <2>1
  <2>3. QED
    BY <2>2 DEF Shown
<1>9. p.n \in Int /\ p.seq = p.n % SeqSpace
  BY DEF Near
<1>10. m.expected = (p.n + 1) % SeqSpace
  <2>1. ((p.n % SeqSpace) + 1) % SeqSpace = (p.n + 1) % SeqSpace
    BY <1>9, ModNext
  <2>2. QED
    BY <1>9, <2>1
<1>11. \A y \in Shown(X, m) : y <= p.n
  <2>1. \A z \in Shown(X, r) : z \in Int
    BY <1>1 DEF Shown, Near
  <2>2. QED
    BY <1>3, <1>8, <1>9, <2>1
<1>12. Leads(Shown(X, m), m.expected)
  BY <1>8, <1>10, <1>11 DEF Leads
<1>13. QED
  BY <1>6, <1>7, <1>12 DEF Ordered

\* The packets of a flow within half the space are fewer than half the space.
LEMMA HeldNear ==
  ASSUME NEW T, NEW X, NEW c, NEW r, Sound(T, c, r), Near(T, X)
  PROVE  Cardinality(r.pending) \in Nat /\ Cardinality(r.pending) < Half
<1>1. PICK lo, hi \in Int :
        /\ hi - lo < Half /\ lo <= hi
        /\ \A q \in T : q.n \in Int /\ q.seq = q.n % SeqSpace /\ lo <= q.n /\ q.n < hi
  BY DEF Near
<1>2. /\ r.pending \subseteq T /\ IsFiniteSet(r.pending)
      /\ \A p, q \in r.pending : p.seq = q.seq => p = q
  BY DEF Sound, PushStates
<1> DEFINE f == [p \in r.pending |-> p.n]
<1>3. f \in Injection(r.pending, lo .. hi - 1)
  BY <1>1, <1>2 DEF Injection, IsInjective
<1>4. IsFiniteSet(lo .. hi - 1) /\ Cardinality(lo .. hi - 1) = hi - lo
  <2>1. lo \in Int /\ hi - 1 \in Int
    OBVIOUS
  <2>2. /\ IsFiniteSet(lo .. hi - 1)
        /\ Cardinality(lo .. hi - 1) = IF lo > hi - 1 THEN 0 ELSE (hi - 1) - lo + 1
    BY <2>1, FS_Interval
  <2>3. QED
    BY <1>1, <2>2
<1>5. Cardinality(r.pending) <= hi - lo
  <2> HIDE DEF f
  <2> QED BY <1>3, <1>4, FS_Injection
<1>6. Cardinality(r.pending) \in Nat
  BY <1>2, FS_CardinalityType
<1>7. QED
  BY <1>1, <1>5, <1>6, HalfType

\* drainContiguous releases in order.
LEMMA OrderedDrain ==
  ASSUME NEW T, NEW c, NEW X, NEW r, Sound(T, c, r), Near(T, X), Ordered(X, r)
  PROVE  Ordered(X, DrainContiguous(r))
<1> DEFINE d == DrainContiguous(r)
           e == r.expected
           s == r.out
<1>1. PICK run, t : Drains(r, d, run, t)
  BY DrainShape
<1>2. r \in PushStates(T)
  BY DEF Sound
<1>3. /\ run \in 0 .. Cardinality(r.pending) /\ t \in [1 .. run -> r.pending]
      /\ \A j \in 1 .. run : t[j].seq = (e + (j - 1)) % SeqSpace
      /\ d.out = s \o t /\ d.expected = (e + run) % SeqSpace
  BY <1>1, <1>2 DEF Drains, PushStates
<1> HIDE DEF d, s
<1>4. run \in Nat /\ run < Half
  BY <1>3, HeldNear, HalfType
<1>5. s \in Seq(T) /\ r.pending \subseteq T /\ e \in 0 .. SeqSpace - 1
  BY <1>2 DEF PushStates, s
<1> HIDE DEF e
<1>6. e \in Int
  BY <1>5
<1>7. \A j \in 1 .. run : t[j] \in T /\ t[j].n \in Int /\ t[j].seq = t[j].n % SeqSpace
  BY <1>3, <1>5 DEF Near
<1>8. /\ d.out \in Seq(T) /\ DOMAIN d.out = 1 .. Len(s) + run
      /\ DOMAIN s = 1 .. Len(s) /\ Len(s) \in Nat
      /\ \A i \in 1 .. Len(s) : d.out[i] = s[i]
      /\ \A j \in 1 .. run : d.out[Len(s) + j] = t[j]
  <2>1. t \in Seq(T) /\ Len(t) = run
    <3>1. t \in [1 .. run -> T]
      BY <1>3, <1>5
    <3>2. QED
      BY <1>4, <3>1
  <2>2. d.out = s \o t /\ s \o t \in Seq(T)
    BY <1>3, <1>5, <2>1
  <2>3. Len(s) \in Nat /\ DOMAIN s = 1 .. Len(s)
    BY <1>5
  <2>4. Len(s \o t) = Len(s) + run /\ DOMAIN (s \o t) = 1 .. Len(s) + run
    BY <1>5, <2>1, <2>3
  <2>5. \A i \in 1 .. Len(s) : (s \o t)[i] = s[i]
    BY <1>4, <1>5, <2>1, <2>3
  <2>6. \A j \in 1 .. run : (s \o t)[Len(s) + j] = t[j]
    <3> SUFFICES ASSUME NEW j \in 1 .. run PROVE (s \o t)[Len(s) + j] = t[j]
      OBVIOUS
    <3>1. Len(s) + j \in 1 .. Len(s) + run /\ Len(s) + j > Len(s) /\ (Len(s) + j) - Len(s) = j
      BY <1>4, <2>3
    <3>2. (s \o t)[Len(s) + j] = t[(Len(s) + j) - Len(s)]
      BY <1>4, <1>5, <2>1, <2>3, <3>1
    <3>3. QED
      BY <3>1, <3>2
  <2>7. QED
    BY <2>2, <2>3, <2>4, <2>5, <2>6
<1>9. Shown(X, r) = X \cup {s[i].n : i \in DOMAIN s} /\ Leads(Shown(X, r), e)
  BY DEF Ordered, Shown, e, s
<1>10. Shown(X, r) \subseteq X \cup {q.n : q \in T}
  BY <1>5, <1>9
<1>11. ASSUME NEW j \in 1 .. run PROVE \A z \in Shown(X, r) : z < t[j].n
  <2>1. t[j].seq = (e + (j - 1)) % SeqSpace /\ e + (j - 1) \in Int /\ j - 1 \in Int
    BY <1>3, <1>4, <1>6
  <2>2. e % SeqSpace = e
    BY <1>5, StreamAssumption
  <2>3. (((e + (j - 1)) % SeqSpace) - (e % SeqSpace)) % SeqSpace = ((e + (j - 1)) - e) % SeqSpace
    BY <1>6, <2>1, ModDiff, StreamAssumption
  <2>4. (e + (j - 1)) - e = j - 1 /\ j - 1 \in 0 .. Half - 1 /\ j - 1 \in 0 .. SeqSpace - 1
    BY <1>4, <1>6, HalfType
  <2>5. (j - 1) % SeqSpace = j - 1
    BY <2>4, StreamAssumption
  <2>6. (t[j].seq - e) % SeqSpace \in 0 .. Half - 1
    BY <2>1, <2>2, <2>3, <2>4, <2>5
  <2>7. t[j] \in T
    BY <1>7
  <2>8. QED
    BY <1>9, <1>10, <2>6, <2>7, AheadNewer
<1>12. ASSUME NEW i \in 1 .. run, NEW j \in 1 .. run, i < j PROVE t[i].n < t[j].n
  <2> DEFINE Z == {t[i].n}
             f == (t[i].n + 1) % SeqSpace
  <2>1. /\ t[i] \in T /\ t[j] \in T /\ t[i].n \in Int
        /\ t[i].seq = t[i].n % SeqSpace
        /\ t[i].seq = (e + (i - 1)) % SeqSpace /\ t[j].seq = (e + (j - 1)) % SeqSpace
    BY <1>3, <1>7
  <2>2. Z \subseteq X \cup {q.n : q \in T} /\ Leads(Z, f)
    BY <2>1 DEF Leads
  <2>3. e + (i - 1) \in Int /\ e + (j - 1) \in Int /\ e + i \in Int /\ i \in Int /\ j \in Int
    BY <1>4, <1>6
  <2>4. f = (e + i) % SeqSpace
    <3>1. ((t[i].n % SeqSpace) + 1) % SeqSpace = f
      BY <2>1, ModNext
    <3>2. (((e + (i - 1)) % SeqSpace) + 1) % SeqSpace = ((e + (i - 1)) + 1) % SeqSpace
      BY <2>3, ModNext
    <3>3. (e + (i - 1)) + 1 = e + i
      BY <1>6, <2>3
    <3>4. QED
      BY <2>1, <3>1, <3>2, <3>3
  <2>5. (((e + (j - 1)) % SeqSpace) - ((e + i) % SeqSpace)) % SeqSpace
          = ((e + (j - 1)) - (e + i)) % SeqSpace
    BY <2>3, ModDiff, StreamAssumption
  <2>6. /\ (e + (j - 1)) - (e + i) = (j - 1) - i /\ (j - 1) - i \in 0 .. Half - 1
        /\ (j - 1) - i \in 0 .. SeqSpace - 1
    BY <1>4, <1>6, <1>12, <2>3, HalfType
  <2>7. ((j - 1) - i) % SeqSpace = (j - 1) - i
    BY <2>6, StreamAssumption
  <2>8. (t[j].seq - f) % SeqSpace \in 0 .. Half - 1
    BY <2>1, <2>4, <2>5, <2>6, <2>7
  <2> HIDE DEF f
  <2>9. \A z \in Z : z < t[j].n
    <3> HIDE DEF Z
    <3> QED BY <2>1, <2>2, <2>8, AheadNewer
  <2>10. QED
    BY <2>9
<1>13. /\ \A i, j \in DOMAIN s : i < j => s[i].n < s[j].n
       /\ \A i \in DOMAIN s : \A x \in X : x < s[i].n
  BY DEF Ordered, s
<1>14. /\ \A j \in 1 .. run : \A i \in DOMAIN s : s[i].n < t[j].n
       /\ \A j \in 1 .. run : \A x \in X : x < t[j].n
  BY <1>9, <1>11
<1>15. \A i \in DOMAIN d.out : \/ i \in 1 .. Len(s) /\ d.out[i] = s[i]
                               \/ i - Len(s) \in 1 .. run /\ d.out[i] = t[i - Len(s)]
  <2> SUFFICES ASSUME NEW i \in DOMAIN d.out
               PROVE  \/ i \in 1 .. Len(s) /\ d.out[i] = s[i]
                      \/ i - Len(s) \in 1 .. run /\ d.out[i] = t[i - Len(s)]
    OBVIOUS
  <2>1. i \in 1 .. Len(s) \/ (i - Len(s) \in 1 .. run /\ Len(s) + (i - Len(s)) = i)
    BY <1>4, <1>8
  <2>2. QED
    BY <1>8, <2>1
<1>16. \A i, j \in DOMAIN d.out : i < j => d.out[i].n < d.out[j].n
  <2> SUFFICES ASSUME NEW i \in DOMAIN d.out, NEW j \in DOMAIN d.out, i < j
               PROVE  d.out[i].n < d.out[j].n
    OBVIOUS
  <2>1. i \in Int /\ j \in Int /\ Len(s) \in Int
    BY <1>8
  <2>2. CASE j \in 1 .. Len(s)
    BY <1>8, <1>13, <2>1, <2>2
  <2>3. CASE i \in 1 .. Len(s) /\ j \notin 1 .. Len(s)
    BY <1>8, <1>14, <1>15, <2>3
  <2>4. CASE i \notin 1 .. Len(s) /\ j \notin 1 .. Len(s)
    <3>1. /\ i - Len(s) \in 1 .. run /\ d.out[i] = t[i - Len(s)]
          /\ j - Len(s) \in 1 .. run /\ d.out[j] = t[j - Len(s)]
      BY <1>15, <2>4
    <3>2. i - Len(s) < j - Len(s)
      BY <2>1
    <3>3. QED
      BY <1>12, <3>1, <3>2
  <2>5. i \notin 1 .. Len(s) => j \notin 1 .. Len(s)
    BY <1>8, <2>1
  <2>6. QED
    BY <2>2, <2>3, <2>4, <2>5
<1>17. \A i \in DOMAIN d.out : \A x \in X : x < d.out[i].n
  BY <1>8, <1>13, <1>14, <1>15
<1>18. Shown(X, d) = Shown(X, r) \cup {t[j].n : j \in 1 .. run}
  <2>1. {d.out[i].n : i \in DOMAIN d.out}
          = {s[i].n : i \in DOMAIN s} \cup {t[j].n : j \in 1 .. run}
    <3>1. \A i \in DOMAIN d.out :
            d.out[i].n \in {s[j].n : j \in DOMAIN s} \cup {t[j].n : j \in 1 .. run}
      BY <1>8, <1>15
    <3>2. \A i \in DOMAIN s : i \in DOMAIN d.out /\ s[i].n = d.out[i].n
      BY <1>4, <1>8
    <3>3. \A j \in 1 .. run : Len(s) + j \in DOMAIN d.out /\ t[j].n = d.out[Len(s) + j].n
      BY <1>4, <1>8
    <3>4. QED
      BY <3>1, <3>2, <3>3
  <2>2. QED
    BY <1>9, <2>1 DEF Shown
<1>19. Leads(Shown(X, d), d.expected)
  <2>1. CASE run = 0
    <3>1. Shown(X, d) = Shown(X, r)
      BY <1>18, <2>1
    <3>2. d.expected = e
      BY <1>3, <1>5, <2>1, StreamAssumption
    <3>3. QED
      BY <1>9, <3>1, <3>2
  <2>2. CASE run # 0
    <3>1. run \in 1 .. run /\ t[run].n \in Int
      BY <1>4, <1>7, <2>2
    <3>2. \A z \in Shown(X, r) : z \in Int
      BY <1>10 DEF Near
    <3>3. \A j \in 1 .. run : t[j].n <= t[run].n
      <4> SUFFICES ASSUME NEW j \in 1 .. run PROVE t[j].n <= t[run].n
        OBVIOUS
      <4>1. j = run \/ j < run
        BY <1>4
      <4>2. t[j].n \in Int
        BY <1>7
      <4>3. QED
        BY <1>12, <3>1, <4>1, <4>2
    <3>4. \A y \in Shown(X, d) : y <= t[run].n
      <4>1. \A z \in Shown(X, r) : z < t[run].n
        BY <1>11, <3>1
      <4>2. QED
        BY <1>18, <3>1, <3>2, <3>3, <4>1
    <3>5. t[run].n \in Shown(X, d)
      BY <1>18, <3>1
    <3>6. d.expected = (t[run].n + 1) % SeqSpace
      <4>1. t[run].n % SeqSpace = (e + (run - 1)) % SeqSpace
        BY <1>3, <1>7, <3>1
      <4>2. ((t[run].n % SeqSpace) + 1) % SeqSpace = (t[run].n + 1) % SeqSpace
        BY <3>1, ModNext
      <4>3. e + (run - 1) \in Int /\ (e + (run - 1)) + 1 = e + run
        BY <1>4, <1>6
      <4>4. (((e + (run - 1)) % SeqSpace) + 1) % SeqSpace = ((e + (run - 1)) + 1) % SeqSpace
        BY <4>3, ModNext
      <4>5. QED
        BY <1>3, <4>1, <4>2, <4>3, <4>4
    <3>7. QED
      BY <3>4, <3>5, <3>6 DEF Leads
  <2>3. QED
    BY <2>1, <2>2
<1>20. QED
  BY <1>16, <1>17, <1>19 DEF Ordered, d

\* releaseLowest releases in order: the packet it jumps to is ahead of the turn.
LEMMA OrderedRelease ==
  ASSUME NEW T, NEW c, NEW X, NEW r, Sound(T, c, r), Near(T, X), Ordered(X, r)
  PROVE  Ordered(X, ReleaseLowest(r))
<1>1. CASE Forward(r) = {} /\ ReleaseLowest(r) = [r EXCEPT !.gap = "none"]
  <2>1. "none" \in Gaps
    BY DEF Gaps
  <2>2. [r EXCEPT !.gap = "none"].out = r.out /\ [r EXCEPT !.gap = "none"].expected = r.expected
    BY <2>1, GapSound
  <2>3. QED
    BY <1>1, <2>2, OrderedSame
<1>2. ASSUME NEW best \in Forward(r), NEW g \in Gaps,
             ReleaseLowest(r) = [DrainContiguous(JumpTo(r, best)) EXCEPT !.gap = g]
      PROVE  Ordered(X, ReleaseLowest(r))
  <2> DEFINE m == JumpTo(r, best)
             d == DrainContiguous(m)
  <2>1. best \in r.pending /\ r \in PushStates(T)
    BY DEF Forward, Sound
  <2>2. best \in T
    BY <2>1 DEF PushStates
  <2>3. (best.seq - r.expected) % SeqSpace \in 0 .. Half - 1
    <3>1. (best.seq - r.expected) % SeqSpace \in 1 .. Half - 1
      BY DEF Forward, Ahead
    <3>2. QED
      BY <3>1, HalfType
  <2>4. m.out = Append(r.out, best) /\ m.expected = (best.seq + 1) % SeqSpace
    BY <2>1 DEF PushStates, JumpTo
  <2>5. Sound(T, c, m)
    BY <2>1, JumpSound
  <2>6. ReleaseLowest(r) = [d EXCEPT !.gap = g]
    BY <1>2
  <2> HIDE DEF m
  <2>7. Ordered(X, m)
    BY <2>2, <2>3, <2>4, OrderedAppend
  <2>8. Ordered(X, d) /\ Sound(T, c, d)
    BY <2>5, <2>7, OrderedDrain, DrainSound
  <2> HIDE DEF d
  <2>9. [d EXCEPT !.gap = g].out = d.out /\ [d EXCEPT !.gap = g].expected = d.expected
    BY <2>8, GapSound
  <2>10. QED
    BY <2>6, <2>8, <2>9, OrderedSame
<1>3. \/ Forward(r) = {} /\ ReleaseLowest(r) = [r EXCEPT !.gap = "none"]
      \/ \E best \in Forward(r) : \E g \in Gaps :
           ReleaseLowest(r) = [DrainContiguous(JumpTo(r, best)) EXCEPT !.gap = g]
  BY ReleaseShape
<1>4. CASE \E best \in Forward(r) : \E g \in Gaps :
             ReleaseLowest(r) = [DrainContiguous(JumpTo(r, best)) EXCEPT !.gap = g]
  BY <1>2, <1>4
<1>5. QED
  BY <1>1, <1>3, <1>4

\* So does a packet in its turn.
LEMMA OrderedTurn ==
  ASSUME NEW T, NEW c, NEW X, NEW r, NEW p \in T, Sound(T, c, r), Near(T, X), Ordered(X, r),
         p.seq = r.expected
  PROVE  Ordered(X, DrainContiguous(Turn(r, p)))
<1> DEFINE m == Turn(r, p)
<1>1. r \in PushStates(T)
  BY DEF Sound
<1>2. m.out = Append(r.out, p) /\ m.expected = (p.seq + 1) % SeqSpace
  BY <1>1 DEF PushStates, Turn
<1>3. Sound(T, c, m)
  BY TurnSound
<1>4. (p.seq - r.expected) % SeqSpace \in 0 .. Half - 1
  <2>1. r.expected \in Int /\ p.seq - r.expected = 0
    BY <1>1 DEF PushStates
  <2>2. 0 % SeqSpace = 0
    BY StreamAssumption
  <2>3. Half >= 1
    <3>1. PICK lo, hi \in Int : /\ hi - lo < Half /\ lo <= hi
                                /\ \A q \in T : q.n \in Int /\ lo <= q.n /\ q.n < hi
      BY DEF Near
    <3>2. QED
      BY <3>1, HalfType
  <2>4. QED
    BY <2>1, <2>2, <2>3, HalfType
<1> HIDE DEF m
<1>5. Ordered(X, m)
  BY <1>2, <1>4, OrderedAppend
<1>6. QED
  BY <1>3, <1>5, OrderedDrain DEF m

\* And a packet ahead of its turn: where it comes out at once the turn has not
\* moved, so it is still ahead; else it waits and what is released is in order.
LEMMA OrderedKept ==
  ASSUME NEW T, NEW c, NEW X, NEW r, NEW p \in T, Sound(T, c, r), Near(T, X), Ordered(X, r),
         r.total <= MaxPendingTotal,
         Ahead(p.seq, r.expected), \A q \in r.pending : q.seq # p.seq
  PROVE  Ordered(X, Kept(r, p))
<1> DEFINE f == FlowMade(r)
           m == RoomMade(r)
           h == Holding(m, p)
           k == Fitted(h)
           s == [f EXCEPT !.out = Append(@, p), !.expected = (p.seq + 1) % SeqSpace,
                          !.gap = "none"]
<1>1. /\ Sound(T, c, f) /\ Sound(T, c, m) /\ m.pending \subseteq r.pending
      /\ f.total >= MaxPendingTotal => f.expected = r.expected
  BY StagesSound
<1>2. Kept(r, p) = IF f.total >= MaxPendingTotal /\ f.pending = {} THEN s
                   ELSE [k EXCEPT !.gap = IF @ = "none" THEN "open" ELSE @]
  BY KeptIs
<1>3. Ordered(X, f)
  <2>1. CASE Cardinality(r.pending) >= MaxPendingPerFlow
    BY <2>1, OrderedRelease DEF FlowMade
  <2>2. CASE ~(Cardinality(r.pending) >= MaxPendingPerFlow)
    BY <2>2 DEF FlowMade
  <2>3. QED
    BY <2>1, <2>2
<1>4. m = IF f.total >= MaxPendingTotal THEN ReleaseLowest(f) ELSE f
  BY DEF RoomMade
<1> HIDE DEF f, m
<1>5. Ordered(X, m)
  BY <1>1, <1>3, <1>4, OrderedRelease
<1>6. Sound(T, c, h) /\ Ordered(X, h)
  <2>1. \A q \in m.pending : q.seq # p.seq
    BY <1>1
  <2>2. Sound(T, c, h)
    BY <1>1, <2>1, HoldingSound
  <2>3. m \in PushStates(T)
    BY <1>1 DEF Sound
  <2>4. h.expected = m.expected /\ h.out = m.out
    BY <2>3, HoldingFields
  <2> HIDE DEF h
  <2>5. QED
    BY <1>5, <2>2, <2>4, OrderedSame
<1> HIDE DEF h
<1>7. Sound(T, c, k) /\ Ordered(X, k)
  <2>1. CASE h.total > MaxPendingTotal
    BY <1>6, <2>1, ReleaseSound, OrderedRelease DEF Fitted
  <2>2. CASE ~(h.total > MaxPendingTotal)
    BY <1>6, <2>2 DEF Fitted
  <2>3. QED
    BY <2>1, <2>2
<1> HIDE DEF k
<1>8. CASE f.total >= MaxPendingTotal /\ f.pending = {}
  <2>1. f.expected = r.expected
    BY <1>1, <1>8
  <2>2. (p.seq - f.expected) % SeqSpace \in 0 .. Half - 1
    <3>1. (p.seq - f.expected) % SeqSpace \in 1 .. Half - 1
      BY <2>1 DEF Ahead
    <3>2. QED
      BY <3>1, HalfType
  <2>3. s.out = Append(f.out, p) /\ s.expected = (p.seq + 1) % SeqSpace
    BY <1>1 DEF Sound, PushStates
  <2> HIDE DEF s
  <2>4. Ordered(X, s)
    BY <1>1, <1>3, <2>2, <2>3, OrderedAppend
  <2>5. QED
    BY <1>2, <1>8, <2>4
<1>9. CASE ~(f.total >= MaxPendingTotal /\ f.pending = {})
  <2> DEFINE g == IF k.gap = "none" THEN "open" ELSE k.gap
  <2>1. Kept(r, p) = [k EXCEPT !.gap = g]
    BY <1>2, <1>9
  <2>2. g \in Gaps
    BY <1>7 DEF Sound, PushStates, Gaps
  <2> HIDE DEF g
  <2>3. [k EXCEPT !.gap = g].out = k.out /\ [k EXCEPT !.gap = g].expected = k.expected
    BY <1>7, <2>2, GapSound
  <2>4. QED
    BY <1>7, <2>1, <2>3, OrderedSame
<1>10. QED
  BY <1>8, <1>9

\* A whole push releases in order.
LEMMA OrderedPush ==
  ASSUME NEW T, NEW c, NEW X, NEW r0, NEW p \in T, Sound(T, c, r0), Near(T, X), Ordered(X, r0),
         r0.total <= MaxPendingTotal
  PROVE  Ordered(X, Pushed(r0, p))
<1> DEFINE r == ReleaseExpired(r0)
<1>1. Sound(T, c, r) /\ r.total <= MaxPendingTotal /\ Ordered(X, r)
  <2>1. Sound(T, c, r) /\ r.total <= r0.total
    BY ExpiredSound
  <2>2. r.total \in Int /\ r0.total \in Int /\ MaxPendingTotal \in Int
    BY <2>1, StreamAssumption DEF Sound, PushStates
  <2>3. Ordered(X, r)
    BY OrderedRelease DEF ReleaseExpired
  <2>4. QED
    BY <2>1, <2>2, <2>3
<1>2. \/ p.seq = r.expected /\ Pushed(r0, p) = DrainContiguous(Turn(r, p))
      \/ Pushed(r0, p) = r
      \/ /\ Ahead(p.seq, r.expected) /\ \A q \in r.pending : q.seq # p.seq
         /\ Pushed(r0, p) = Kept(r, p)
  BY PushedIs
<1> HIDE DEF r
<1>3. CASE p.seq = r.expected /\ Pushed(r0, p) = DrainContiguous(Turn(r, p))
  BY <1>1, <1>3, OrderedTurn
<1>4. CASE Pushed(r0, p) = r
  BY <1>1, <1>4
<1>5. CASE /\ Ahead(p.seq, r.expected) /\ \A q \in r.pending : q.seq # p.seq
           /\ Pushed(r0, p) = Kept(r, p)
  BY <1>1, <1>5, OrderedKept
<1>6. QED
  BY <1>2, <1>3, <1>4, <1>5

-----------------------------------------------------------------------------
(* Order of what comes out, as an invariant *)

Shorter == MaxPackets < Half

\* What came out of flow k, as a set.
Came(k) == {out[k][i] : i \in DOMAIN out[k]}

\* What a flow waits for follows the newest of what came out of it; a flow the
\* table does not have has nothing out.
OrderInv ==
  /\ \A k \in Keys : Channel!Increasing(out[k])
  /\ \A k \in DOMAIN flows : Leads(Came(k), flows[k].expected) /\ taken[k] > 0
  /\ \A k \in Keys \ DOMAIN flows : out[k] = << >>

\* All that a flow has seen since the start lies within half the space.
LEMMA WindowNear ==
  ASSUME NEW base, NEW k \in Keys, NEW X, Shorter, StreamInv(base),
         \A x \in X : x \in Int /\ base[k] - 1 <= x /\ x < taken[k]
  PROVE  Near(Numbers(k, base[k], taken[k]), X)
<1>1. base[k] \in Int /\ taken[k] \in Int /\ base[k] <= taken[k] /\ taken[k] - base[k] < Half
  BY StreamAssumption, HalfType DEF StreamInv, Window, Shorter
<1>2. \A q \in Numbers(k, base[k], taken[k]) :
        q.n \in Int /\ q.seq = q.n % SeqSpace /\ base[k] <= q.n /\ q.n < taken[k]
  BY NumbersType
<1>3. QED
  BY <1>1, <1>2 DEF Near

\* Before the push what came out of the flow leads up to what it waits for.
LEMMA BeforeOrdered ==
  ASSUME NEW base, NEW w \in Carriers, NEW p, StreamInv(base), OrderInv, Pushes(w, p)
  PROVE  /\ Ordered({OutBefore(p.key)[p.key][i] : i \in DOMAIN OutBefore(p.key)[p.key]},
                    Before(p.key))
         /\ Channel!Increasing(OutBefore(p.key)[p.key])
<1> DEFINE k == p.key
           s == OutBefore(k)[k]
           X == {s[i] : i \in DOMAIN s}
           r == Before(k)
<1>1. k \in Keys
  BY BeforeSound DEF Pushes
<1>2. r.out = << >> /\ r.expected = FlowOf(k).expected
  BY DEF Before
<1>3. Leads(X, FlowOf(k).expected) /\ Channel!Increasing(s)
  <2>1. CASE k \in DOMAIN flows
    <3>1. s = out[k]
      BY <2>1 DEF OutBefore, Dropping
    <3>2. FlowOf(k) = flows[k]
      BY <2>1 DEF FlowOf
    <3>3. Leads(Came(k), flows[k].expected) /\ Channel!Increasing(out[k])
      BY <1>1, <2>1 DEF OrderInv
    <3>4. QED
      BY <3>1, <3>2, <3>3 DEF Came
  <2>2. CASE k \notin DOMAIN flows
    <3>1. s = << >>
      BY <1>1, <2>2 DEF OutBefore, OrderInv
    <3>2. DOMAIN s = {}
      BY <3>1, NoEntry
    <3>3. X = {}
      BY <3>2
    <3>4. QED
      BY <3>2, <3>3 DEF Leads, Channel!Increasing
  <2>3. QED
    BY <2>1, <2>2
<1> HIDE DEF s, r, k
<1>4. DOMAIN r.out = {}
  BY <1>2, NoEntry
<1>5. Shown(X, r) = X
  BY <1>4 DEF Shown
<1> HIDE DEF X
<1>6. Ordered(X, r)
  BY <1>2, <1>3, <1>4, <1>5 DEF Ordered
<1>7. QED
  BY <1>3, <1>6 DEF X, s, r, k

LEMMA AfterOrdered ==
  ASSUME NEW base, NEW w \in Carriers, NEW p, Shorter, StreamInv(base), OrderInv, Pushes(w, p)
  PROVE  Ordered({OutBefore(p.key)[p.key][i] : i \in DOMAIN OutBefore(p.key)[p.key]}, After(p))
<1> DEFINE k == p.key
           T == Numbers(k, base[k], taken[k])
           c == Cardinality(OthersHeld(k))
           r == Before(k)
           s == OutBefore(k)[k]
           X == {s[i] : i \in DOMAIN s}
<1>1. /\ Sound(T, c, r) /\ r.total <= MaxPendingTotal /\ p \in T /\ k \in Keys
  BY BeforeSound DEF Pushes
<1>2. \A i \in DOMAIN s : s[i] \in Int /\ base[k] - 1 <= s[i] /\ s[i] < taken[k]
  <2>1. s \in Seq(Nat)
    BY DeliverOut
  <2>2. \A i \in DOMAIN s : base[k] - 1 <= s[i] /\ s[i] < taken[k]
    BY DeliverOut
  <2> HIDE DEF s
  <2>3. QED
    BY <2>1, <2>2
<1>3. \A x \in X : x \in Int /\ base[k] - 1 <= x /\ x < taken[k]
  BY <1>2
<1>4. Ordered(X, r)
  BY BeforeOrdered
<1>5. After(p) = Pushed(r, p)
  BY DEF After
<1> HIDE DEF X, r, c, k
<1>6. Near(T, X)
  BY <1>1, <1>3, WindowNear
<1> HIDE DEF T
<1>7. Ordered(X, Pushed(r, p))
  BY <1>1, <1>4, <1>6, OrderedPush
<1>8. QED
  BY <1>5, <1>7 DEF X, s, k

\* Two runs of growing numbers, the second after the first, grow on.
LEMMA Joined ==
  ASSUME NEW s \in Seq(Nat), NEW t \in Seq(Nat),
         \A i, j \in DOMAIN s : i < j => s[i] < s[j],
         \A i, j \in DOMAIN t : i < j => t[i] < t[j],
         \A i \in DOMAIN s, j \in DOMAIN t : s[i] < t[j]
  PROVE  /\ \A i, j \in DOMAIN (s \o t) : i < j => (s \o t)[i] < (s \o t)[j]
         /\ {(s \o t)[i] : i \in DOMAIN (s \o t)} =
              {s[i] : i \in DOMAIN s} \cup {t[i] : i \in DOMAIN t}
<1> DEFINE u == s \o t
<1>1. /\ DOMAIN s = 1 .. Len(s) /\ Len(s) \in Nat /\ DOMAIN t = 1 .. Len(t) /\ Len(t) \in Nat
      /\ DOMAIN u = 1 .. Len(s) + Len(t)
      /\ \A i \in 1 .. Len(s) : u[i] = s[i]
      /\ \A i \in DOMAIN u : i > Len(s) => u[i] = t[i - Len(s)]
  OBVIOUS
<1> HIDE DEF u
<1>2. \A i \in DOMAIN u : \/ i \in DOMAIN s /\ u[i] = s[i]
                          \/ i > Len(s) /\ i - Len(s) \in DOMAIN t /\ u[i] = t[i - Len(s)]
  BY <1>1
<1>3. \A i, j \in DOMAIN u : i < j => u[i] < u[j]
  <2> SUFFICES ASSUME NEW i \in DOMAIN u, NEW j \in DOMAIN u, i < j PROVE u[i] < u[j]
    OBVIOUS
  <2>1. i \in Int /\ j \in Int /\ Len(s) \in Int
    BY <1>1
  <2>2. CASE j \in DOMAIN s
    <3>1. i \in DOMAIN s
      BY <1>1, <2>1, <2>2
    <3>2. u[i] = s[i] /\ u[j] = s[j]
      BY <1>1, <2>2, <3>1
    <3>3. QED
      BY <2>2, <3>1, <3>2
  <2>3. CASE i \in DOMAIN s /\ j \notin DOMAIN s
    <3>1. u[i] = s[i]
      BY <1>1, <2>3
    <3>2. j - Len(s) \in DOMAIN t /\ u[j] = t[j - Len(s)]
      BY <1>2, <2>3
    <3>3. QED
      BY <2>3, <3>1, <3>2
  <2>4. CASE i \notin DOMAIN s /\ j \notin DOMAIN s
    <3>1. /\ i - Len(s) \in DOMAIN t /\ u[i] = t[i - Len(s)]
          /\ j - Len(s) \in DOMAIN t /\ u[j] = t[j - Len(s)]
      BY <1>2, <2>4
    <3>2. i - Len(s) < j - Len(s)
      BY <2>1
    <3>3. QED
      BY <3>1, <3>2
  <2>5. QED
    BY <2>2, <2>3, <2>4
<1>4. {u[i] : i \in DOMAIN u} = {s[i] : i \in DOMAIN s} \cup {t[i] : i \in DOMAIN t}
  <2>1. \A i \in DOMAIN u : u[i] \in {s[j] : j \in DOMAIN s} \cup {t[j] : j \in DOMAIN t}
    BY <1>2
  <2>2. \A i \in DOMAIN s : i \in DOMAIN u /\ s[i] = u[i]
    BY <1>1
  <2>3. \A i \in DOMAIN t : Len(s) + i \in DOMAIN u /\ t[i] = u[Len(s) + i]
    <3> SUFFICES ASSUME NEW i \in DOMAIN t
                 PROVE  Len(s) + i \in DOMAIN u /\ t[i] = u[Len(s) + i]
      OBVIOUS
    <3>1. /\ i \in Int /\ Len(s) + i \in DOMAIN u /\ Len(s) + i > Len(s)
          /\ (Len(s) + i) - Len(s) = i
      BY <1>1
    <3>2. u[Len(s) + i] = t[(Len(s) + i) - Len(s)]
      BY <1>1, <3>1
    <3>3. QED
      BY <3>1, <3>2
  <2>4. QED
    BY <2>1, <2>2, <2>3
<1>5. QED
  BY <1>3, <1>4 DEF u

\* What the push adds to what came out of the flow.
LEMMA DeliverOrder ==
  ASSUME NEW base, NEW w \in Carriers, NEW p, Shorter, StreamInv(base), OrderInv, Pushes(w, p)
  PROVE  /\ Channel!Increasing(out'[p.key])
         /\ Leads({out'[p.key][i] : i \in DOMAIN out'[p.key]}, After(p).expected)
<1> DEFINE k == p.key
           s == OutBefore(k)[k]
           r == After(p)
           t == IndicesOf(r)
           X == {s[i] : i \in DOMAIN s}
<1>1. s \in Seq(Nat) /\ t \in Seq(Nat) /\ out'[k] = s \o t
  BY DeliverOut
<1>2. Ordered(X, r)
  BY AfterOrdered
<1>3. Channel!Increasing(s)
  BY BeforeOrdered
<1>4. DOMAIN t = DOMAIN r.out /\ \A i \in DOMAIN t : t[i] = r.out[i].n
  BY DEF IndicesOf
<1> HIDE DEF s, r, t
<1>5. /\ \A i, j \in DOMAIN t : i < j => t[i] < t[j]
      /\ \A i \in DOMAIN s, j \in DOMAIN t : s[i] < t[j]
      /\ Leads(Shown(X, r), r.expected)
  BY <1>2, <1>4 DEF Ordered
<1>6. \A i, j \in DOMAIN s : i < j => s[i] < s[j]
  BY <1>3 DEF Channel!Increasing
<1>7. /\ \A i, j \in DOMAIN (s \o t) : i < j => (s \o t)[i] < (s \o t)[j]
      /\ {(s \o t)[i] : i \in DOMAIN (s \o t)} = X \cup {t[i] : i \in DOMAIN t}
  BY <1>1, <1>5, <1>6, Joined
<1>8. {t[i] : i \in DOMAIN t} = {r.out[i].n : i \in DOMAIN r.out}
  BY <1>4
<1>9. {(s \o t)[i] : i \in DOMAIN (s \o t)} = Shown(X, r)
  BY <1>7, <1>8 DEF Shown
<1>10. QED
  BY <1>1, <1>5, <1>7, <1>9 DEF Channel!Increasing, k, r

\* After the table is dropped at most the packet itself comes out.
LEMMA OneOut ==
  ASSUME NEW T, NEW c, NEW r0, NEW p \in T, Sound(T, c, r0),
         r0.pending = {}, r0.total = 0, r0.gap = "none", r0.out = << >>
  PROVE  Pushed(r0, p).out = << >> \/ Pushed(r0, p).out = <<p>>
<1>1. r0 = ReleaseExpired(r0)
  BY DEF ReleaseExpired
<1>2. \/ p.seq = r0.expected /\ Pushed(r0, p) = DrainContiguous(Turn(r0, p))
      \/ Pushed(r0, p) = r0
      \/ Ahead(p.seq, r0.expected) /\ Pushed(r0, p) = Kept(r0, p)
  BY <1>1, PushedIs
<1>3. r0 \in PushStates(T)
  BY DEF Sound
<1>4. Cardinality({}) = 0
  BY FS_EmptySet
<1>5. CASE Pushed(r0, p) = DrainContiguous(Turn(r0, p))
  <2> DEFINE m == Turn(r0, p)
             d == DrainContiguous(m)
  <2>1. Sound(T, c, m)
    BY TurnSound
  <2>2. m.pending = {} /\ m.out = <<p>>
    BY <1>3 DEF Turn, PushStates
  <2> HIDE DEF m
  <2>3. PICK run, t : Drains(m, d, run, t)
    BY <2>1, DrainShape
  <2>4. m \in PushStates(T)
    BY <2>1 DEF Sound
  <2>5. d.out = m.out \o t /\ t \in [1 .. run -> m.pending] /\ run \in 0 .. Cardinality(m.pending)
    BY <2>3, <2>4 DEF Drains, PushStates
  <2>6. run = 0 /\ 1 .. run = {}
    BY <1>4, <2>2, <2>5
  <2>7. t = << >>
    BY <2>5, <2>6
  <2>8. d.out = <<p>>
    BY <2>2, <2>5, <2>7
  <2>9. QED
    BY <1>5, <2>8 DEF m
<1>6. CASE Pushed(r0, p) = r0
  BY <1>6
<1>7. CASE Pushed(r0, p) = Kept(r0, p)
  <2>1. FlowMade(r0) = r0
    BY <1>4, StreamAssumption DEF FlowMade
  <2>2. RoomMade(r0) = r0
    BY <2>1, StreamAssumption DEF RoomMade
  <2>3. ~(FlowMade(r0).total >= MaxPendingTotal)
    BY <2>1, StreamAssumption
  <2> DEFINE h == Holding(r0, p)
  <2>4. h.total = 1 /\ h.out = << >>
    BY <1>3, HoldingFields
  <2>5. Sound(T, c, h)
    BY HoldingSound
  <2> HIDE DEF h
  <2>6. Fitted(h) = h
    BY <2>4, StreamAssumption DEF Fitted
  <2> DEFINE g == IF h.gap = "none" THEN "open" ELSE h.gap
  <2>7. Kept(r0, p) = [h EXCEPT !.gap = g]
    BY <2>2, <2>3, <2>6, KeptIs DEF h
  <2>8. Kept(r0, p).out = h.out
    <3>1. g \in Gaps
      BY <2>5 DEF Sound, PushStates, Gaps
    <3> HIDE DEF g
    <3>2. QED
      BY <2>5, <2>7, <3>1, GapSound
  <2>9. QED
    BY <1>7, <2>4, <2>8
<1>8. QED
  BY <1>2, <1>5, <1>6, <1>7

\* A packet under way belongs to a flow that has numbered one.
LEMMA TakenSome ==
  ASSUME NEW base, NEW w \in Carriers, NEW p \in wire[w], StreamInv(base)
  PROVE  p.key \in Keys /\ p.n \in Nat /\ p.n < taken[p.key] /\ taken[p.key] > 0
<1>1. p \in Numbers(p.key, base[p.key], taken[p.key]) /\ p.key \in Keys
  BY BeforeSound
<1>2. p.n \in Nat /\ p.n < taken[p.key]
  BY <1>1, NumbersType
<1>3. taken[p.key] \in Nat
  BY <1>1 DEF StreamInv, Window
<1>4. QED
  BY <1>1, <1>2, <1>3

LEMMA OrderDeliver ==
  ASSUME NEW base, NEW w \in Carriers, NEW p, Shorter, StreamInv(base), OrderInv, Pushes(w, p)
  PROVE  OrderInv'
<1> DEFINE k == p.key
           tab == TableBefore(k)
<1>1. /\ DOMAIN flows' = DOMAIN tab \cup {k} /\ DOMAIN tab \subseteq DOMAIN flows
      /\ flows'[k] = EntryOf(After(p))
      /\ \A j \in DOMAIN tab : j # k => flows'[j] = flows[j]
  BY DeliverFlows
<1>2. \A j \in Keys : j # k => out'[j] = OutBefore(k)[j]
  BY DeliverOut
<1>3. /\ Channel!Increasing(out'[k])
      /\ Leads({out'[k][i] : i \in DOMAIN out'[k]}, After(p).expected)
  BY DeliverOrder
<1>4. k \in Keys /\ taken[k] > 0 /\ taken' = taken
  BY TakenSome DEF Pushes
<1>5. \/ Dropping(k) /\ DOMAIN tab = {} /\ \A j \in Keys : OutBefore(k)[j] = << >>
      \/ ~Dropping(k) /\ DOMAIN tab = DOMAIN flows /\ OutBefore(k) = out
  <2>1. CASE Dropping(k)
    BY <2>1, NoEntry DEF TableBefore, OutBefore
  <2>2. CASE ~Dropping(k)
    BY <2>2 DEF TableBefore, OutBefore
  <2>3. QED
    BY <2>1, <2>2
<1>6. EntryOf(After(p)).expected = After(p).expected
  BY DEF EntryOf
<1> HIDE DEF tab, k
<1>7. ASSUME NEW j \in Keys PROVE Channel!Increasing(out'[j])
  <2>1. CASE j = k
    BY <1>3, <2>1
  <2>2. CASE j # k /\ OutBefore(k)[j] = << >>
    <3>1. out'[j] = << >>
      BY <1>2, <2>2
    <3>2. QED
      BY <3>1, NoEntry DEF Channel!Increasing
  <2>3. CASE j # k /\ OutBefore(k) = out
    BY <1>2, <2>3 DEF OrderInv
  <2>4. QED
    BY <1>5, <2>1, <2>2, <2>3
<1>8. ASSUME NEW j \in DOMAIN flows'
      PROVE  Leads({out'[j][i] : i \in DOMAIN out'[j]}, flows'[j].expected) /\ taken'[j] > 0
  <2>1. CASE j = k
    BY <1>1, <1>3, <1>4, <1>6, <2>1
  <2>2. CASE j # k
    <3>1. j \in DOMAIN tab /\ j \in DOMAIN flows /\ flows'[j] = flows[j]
      BY <1>1, <2>2
    <3>2. j \in Keys
      BY <3>1 DEF StreamInv, FlowsExact
    <3>3. out'[j] = out[j]
      BY <1>2, <1>5, <2>2, <3>1, <3>2
    <3>4. Leads({out[j][i] : i \in DOMAIN out[j]}, flows[j].expected) /\ taken[j] > 0
      BY <3>1 DEF OrderInv, Came
    <3>5. QED
      BY <1>4, <3>1, <3>3, <3>4
  <2>3. QED
    BY <2>1, <2>2
<1>9. ASSUME NEW j \in Keys \ DOMAIN flows' PROVE out'[j] = << >>
  <2>1. j # k /\ j \notin DOMAIN tab
    BY <1>1
  <2>2. out'[j] = OutBefore(k)[j]
    BY <1>2, <2>1
  <2>3. CASE Dropping(k)
    BY <1>5, <2>2, <2>3
  <2>4. CASE ~Dropping(k)
    BY <1>5, <2>1, <2>2, <2>4 DEF OrderInv
  <2>5. QED
    BY <2>3, <2>4
<1>10. QED
  BY <1>7, <1>8, <1>9 DEF OrderInv, Came

\* Nothing but a push touches what came out or what a flow waits for.
LEMMA OrderKept ==
  ASSUME NEW base, StreamInv(base), OrderInv, UNCHANGED out,
         taken' \in [Keys -> Nat], \A k \in Keys : taken[k] <= taken'[k],
         DOMAIN flows' = DOMAIN flows,
         \A k \in DOMAIN flows : flows'[k].expected = flows[k].expected
  PROVE  OrderInv'
<1>1. ASSUME NEW k \in DOMAIN flows' PROVE Leads(Came(k)', flows'[k].expected) /\ taken'[k] > 0
  <2>1. k \in Keys /\ k \in DOMAIN flows
    BY DEF StreamInv, FlowsExact
  <2>2. taken[k] \in Nat /\ taken'[k] \in Nat /\ taken[k] <= taken'[k]
    BY <2>1 DEF StreamInv, Window
  <2>3. Leads(Came(k), flows[k].expected) /\ taken[k] > 0
    BY <2>1 DEF OrderInv
  <2>4. Came(k)' = Came(k)
    BY DEF Came
  <2>5. QED
    BY <2>1, <2>2, <2>3, <2>4
<1>2. QED
  BY <1>1 DEF OrderInv

\* A flow numbers a packet: nothing comes out.
LEMMA OrderSend ==
  ASSUME NEW base, NEW f \in Flows, StreamInv(base), OrderInv, WritePacket(f)
  PROVE  /\ OrderInv'
         /\ Numbered(f).key \in Keys
         /\ taken' = [taken EXCEPT ![Numbered(f).key] = @ + 1] /\ UNCHANGED out
<1>1. UNCHANGED out /\ UNCHANGED flows
  BY DEF WritePacket, receiverVars
<1>2. taken' = [taken EXCEPT ![Numbered(f).key] = @ + 1]
  BY DEF WritePacket
<1>3. taken' \in [Keys -> Nat] /\ \A k \in Keys : taken[k] <= taken'[k]
  BY SendTaken
<1>4. Numbered(f).key \in Keys
  BY NumberedType DEF WritePacket
<1>5. OrderInv'
  BY <1>1, <1>3, OrderKept
<1>6. QED
  BY <1>1, <1>2, <1>4, <1>5

\* The workers, the network, the queue and the passing of time.
LEMMA OrderIdle ==
  ASSUME NEW base, StreamInv(base), OrderInv, UNCHANGED <<taken, out>>,
         UNCHANGED flows \/ \E k \in Keys : GapDue(k)
  PROVE  OrderInv'
<1>1. taken' \in [Keys -> Nat] /\ \A k \in Keys : taken[k] <= taken'[k]
  BY DEF StreamInv, Window
<1>2. CASE UNCHANGED flows
  BY <1>1, <1>2, OrderKept
<1>3. ASSUME NEW k \in Keys, GapDue(k) PROVE OrderInv'
  <2>1. k \in DOMAIN flows /\ flows' = [flows EXCEPT ![k].gap = "due"]
    BY <1>3 DEF GapDue
  <2>2. \A j \in DOMAIN flows : flows[j] \in FlowStates
    BY DEF StreamInv, FlowsExact
  <2>3. DOMAIN flows' = DOMAIN flows /\ \A j \in DOMAIN flows : j # k => flows'[j] = flows[j]
    BY <2>1
  <2>4. flows'[k] = [flows[k] EXCEPT !.gap = "due"]
    BY <2>1
  <2>5. flows'[k].expected = flows[k].expected
    BY <2>1, <2>2, <2>4 DEF FlowStates
  <2>6. \A j \in DOMAIN flows : flows'[j].expected = flows[j].expected
    BY <2>3, <2>5
  <2>7. QED
    BY <1>1, <2>3, <2>6, OrderKept
<1>4. QED
  BY <1>2, <1>3

\* The start: one flow may stand at StartAt, its newest packet handed out.
LEMMA OrderStart == StreamInit => OrderInv /\ Channel!ChannelInit
<1> SUFFICES ASSUME StreamInit PROVE OrderInv /\ Channel!ChannelInit
  OBVIOUS
<1>1. PICK f \in Flows :
        /\ taken = [k \in Keys |-> IF k = <<1, f>> THEN StartAt ELSE 0]
        /\ flows = IF StartAt = 0 THEN << >>
                   ELSE [k \in {<<1, f>>} |-> [NewFlow EXCEPT !.expected = StartAt % SeqSpace]]
  BY DEF StreamInit
<1>2. out = [k \in Keys |-> IF taken[k] = 0 THEN << >> ELSE <<taken[k] - 1>>]
  BY DEF StreamInit
<1>3. taken \in [Keys -> Nat] /\ StartAt \in Nat
  BY <1>1, StreamAssumption
<1>4. Channel!ChannelInit
  BY <1>2, <1>3 DEF Channel!ChannelInit
<1>5. ASSUME NEW k \in Keys PROVE Channel!Increasing(out[k])
  <2>1. out[k] = << >> \/ out[k] = <<taken[k] - 1>>
    BY <1>2
  <2>2. \A i, j \in DOMAIN out[k] : ~(i < j)
    <3>1. CASE out[k] = << >>
      BY <3>1
    <3>2. CASE out[k] = <<taken[k] - 1>>
      <4>1. DOMAIN out[k] = {1}
        BY <3>2
      <4>2. QED
        BY <4>1
    <3>3. QED
      BY <2>1, <3>1, <3>2
  <2>3. QED
    BY <2>2 DEF Channel!Increasing
<1>6. ASSUME NEW k \in DOMAIN flows PROVE Leads(Came(k), flows[k].expected) /\ taken[k] > 0
  <2>1. StartAt # 0 /\ k = <<1, f>>
    <3>1. StartAt = 0 => DOMAIN flows = {}
      BY <1>1, NoEntry
    <3>2. StartAt # 0 => DOMAIN flows = {<<1, f>>}
      BY <1>1
    <3>3. QED
      BY <3>1, <3>2
  <2>2. k \in Keys
    BY <2>1, StreamAssumption DEF Keys, Senders
  <2>3. taken[k] = StartAt
    BY <1>1, <2>1, <2>2
  <2>4. flows[k] = [NewFlow EXCEPT !.expected = StartAt % SeqSpace]
    BY <1>1, <2>1
  <2>5. flows[k].expected = StartAt % SeqSpace
    BY <2>4 DEF NewFlow
  <2>6. out[k] = <<StartAt - 1>>
    BY <1>2, <2>1, <2>2, <2>3
  <2>7. Came(k) = {StartAt - 1}
    <3>1. DOMAIN out[k] = {1} /\ out[k][1] = StartAt - 1
      BY <2>6
    <3>2. QED
      BY <3>1 DEF Came
  <2>8. (StartAt - 1) + 1 = StartAt
    BY <1>3
  <2>9. Leads({StartAt - 1}, StartAt % SeqSpace)
    BY <1>3, <2>8 DEF Leads
  <2>10. Leads(Came(k), flows[k].expected)
    BY <2>5, <2>7, <2>9
  <2>11. taken[k] > 0
    BY <1>3, <2>1, <2>3
  <2>12. QED
    BY <2>10, <2>11
<1>7. ASSUME NEW k \in Keys \ DOMAIN flows PROVE out[k] = << >>
  <2>1. taken[k] = 0
    <3>1. CASE StartAt = 0
      BY <1>1, <3>1
    <3>2. CASE StartAt # 0
      <4>1. DOMAIN flows = {<<1, f>>}
        BY <1>1, <3>2
      <4>2. QED
        BY <1>1, <4>1
    <3>3. QED
      BY <3>1, <3>2
  <2>2. QED
    BY <1>2, <2>1
<1>8. QED
  BY <1>4, <1>5, <1>6, <1>7 DEF OrderInv

\* More flows than the table keeps have been in use when it is dropped.
LEMMA UsedMany ==
  ASSUME NEW base, NEW w \in Carriers, NEW p \in wire[w], StreamInv(base), OrderInv,
         Dropping(p.key)
  PROVE  Cardinality(Channel!Used) > ReceiverTable
<1> DEFINE k == p.key
<1>1. k \in Keys /\ taken[k] > 0
  BY TakenSome
<1>2. DOMAIN flows \subseteq Channel!Used /\ k \in Channel!Used
  BY <1>1 DEF Channel!Used, OrderInv, StreamInv, FlowsExact
<1>3. k \notin DOMAIN flows /\ Cardinality(DOMAIN flows) >= ReceiverTable
  BY DEF Dropping
<1> HIDE DEF k
<1>4. IsFiniteSet(Channel!Used)
  <2>1. IsFiniteSet(Senders)
    BY FS_Interval, StreamAssumption DEF Senders
  <2>2. IsFiniteSet(Keys)
    BY <2>1, FS_Product, StreamAssumption DEF Keys
  <2>3. Channel!Used \subseteq Keys
    BY DEF Channel!Used
  <2>4. QED
    BY <2>2, <2>3, FS_Subset
<1>5. IsFiniteSet(DOMAIN flows) /\ Cardinality(DOMAIN flows) \in Nat
  BY <1>2, <1>4, FS_Subset, FS_CardinalityType
<1>6. Cardinality(DOMAIN flows \cup {k}) = Cardinality(DOMAIN flows) + 1
  BY <1>3, <1>5, FS_AddElement
<1>7. DOMAIN flows \cup {k} \subseteq Channel!Used
  BY <1>2
<1>8. Cardinality(DOMAIN flows \cup {k}) <= Cardinality(Channel!Used)
  BY <1>4, <1>7, FS_Subset
<1>9. Cardinality(Channel!Used) \in Nat
  BY <1>4, FS_CardinalityType
<1>10. QED
  BY <1>3, <1>5, <1>6, <1>8, <1>9, StreamAssumption

\* FlowChannel counts with the same operator.
LEMMA SameCount == \A S : Channel!Cardinality(S) = Cardinality(S)
  BY DEF Channel!Cardinality, Cardinality

\* A push is a step of the channel: packets come out, or the table is dropped
\* and at most the packet that found it full comes out.
LEMMA PushHandsOut ==
  ASSUME NEW base, NEW w \in Carriers, NEW p, Shorter, StreamInv(base), OrderInv, Pushes(w, p)
  PROVE  Channel!HandOut(p.key) \/ Channel!Forget(p.key)
<1> DEFINE k == p.key
           r == After(p)
           s == OutBefore(k)[k]
           t == IndicesOf(r)
<1>1. p \in wire[w] /\ UNCHANGED taken
  BY DEF Pushes
<1>2. k \in Keys /\ p.n \in Nat /\ p.n < taken[k]
  BY <1>1, TakenSome
<1>3. /\ s \in Seq(Nat) /\ t \in Seq(Nat) /\ out'[k] = s \o t
      /\ \A j \in Keys : j # k => out'[j] = OutBefore(k)[j]
  BY DeliverOut
<1>4. OutNumbered(base)'
  BY DeliverOut
<1>5. CASE ~Dropping(k)
  <2>1. OutBefore(k) = out /\ s = out[k]
    BY <1>5 DEF OutBefore
  <2> HIDE DEF s, t
  <2>2. /\ Len(s \o t) >= Len(s) /\ SubSeq(s \o t, 1, Len(s)) = s
    BY <1>3
  <2>3. Channel!Increasing(out'[k])
    BY DeliverOrder
  <2>4. \A i \in DOMAIN out'[k] : out'[k][i] < taken[k]
    BY <1>1, <1>2, <1>4 DEF OutNumbered
  <2>5. \A j \in Keys \ {k} : out'[j] = out[j]
    BY <1>3, <2>1
  <2>6. Channel!HandOut(k)
    BY <1>1, <1>3, <2>1, <2>2, <2>3, <2>4, <2>5 DEF Channel!HandOut
  <2>7. QED
    BY <2>6
<1>6. CASE Dropping(k)
  <2>1. s = << >> /\ \A j \in Keys : OutBefore(k)[j] = << >>
    BY <1>2, <1>6 DEF OutBefore
  <2>2. Cardinality(Channel!Used) > ReceiverTable
    BY <1>1, <1>6, UsedMany
  <2>3. r.out = << >> \/ r.out = <<p>>
    <3> DEFINE T == Numbers(k, base[k], taken[k])
               c == Cardinality(OthersHeld(k))
               b == Before(k)
    <3>1. Sound(T, c, b) /\ p \in T
      BY <1>1, BeforeSound
    <3>2. FlowOf(k) = NewFlow /\ TotalBefore(k) = 0
      BY <1>6 DEF FlowOf, TotalBefore, Dropping
    <3>3. b.pending = {} /\ b.total = 0 /\ b.gap = "none" /\ b.out = << >>
      BY <3>2, FreshFlow DEF Before
    <3>4. r = Pushed(b, p)
      BY DEF After
    <3> HIDE DEF T, c, b
    <3>5. QED
      BY <3>1, <3>3, <3>4, OneOut
  <2>4. t = << >> \/ t = <<p.n>>
    <3> HIDE DEF r
    <3>1. CASE r.out = << >>
      <4>1. t = [i \in {} |-> r.out[i].n]
        BY <3>1, NoEntry DEF IndicesOf
      <4>2. DOMAIN t = {}
        BY <4>1
      <4> HIDE DEF t
      <4>3. Len(t) = 0
        BY <1>3, <4>2
      <4>4. QED
        BY <1>3, <4>3
    <3>2. CASE r.out = <<p>>
      <4>1. DOMAIN r.out = {1} /\ r.out[1] = p
        BY <3>2
      <4>2. DOMAIN t = {1} /\ t[1] = p.n
        BY <4>1 DEF IndicesOf
      <4> HIDE DEF t
      <4>3. DOMAIN t = 1 .. Len(t) /\ Len(t) \in Nat
        BY <1>3
      <4>4. Len(t) = 1
        BY <4>2, <4>3
      <4>5. QED
        BY <1>3, <4>2, <4>4
    <3>3. QED
      BY <2>3, <3>1, <3>2
  <2> HIDE DEF s, t
  <2>5. out'[k] = << >> \/ out'[k] = <<p.n>>
    BY <1>3, <2>1, <2>4
  <2>6. out'[k] = << >> \/ \E n \in 0 .. taken[k] - 1 : out'[k] = <<n>>
    <3>1. taken[k] \in Nat
      BY <1>2 DEF StreamInv, Window
    <3>2. p.n \in 0 .. taken[k] - 1
      BY <1>2, <3>1
    <3>3. QED
      BY <2>5, <3>2
  <2>7. \A j \in Keys \ {k} : out'[j] = << >>
    BY <1>3, <2>1
  <2>8. Channel!Forget(k)
    BY <1>1, <2>2, <2>6, <2>7, SameCount DEF Channel!Forget
  <2>9. QED
    BY <2>8
<1>7. QED
  BY <1>5, <1>6

\* Every step of the two ends is a step of the channel, or none of it.
LEMMA OrderStep ==
  ASSUME NEW base, Shorter, StreamInv(base), OrderInv, [StreamNext]_streamVars
  PROVE  OrderInv' /\ [Channel!ChannelNext]_(Channel!channelVars)
<1>1. CASE UNCHANGED streamVars
  <2>1. UNCHANGED <<taken, out, flows>>
    BY <1>1 DEF streamVars, senderVars, receiverVars
  <2>2. QED
    BY <2>1, OrderIdle DEF Channel!channelVars
<1>2. ASSUME NEW f \in Flows, WritePacket(f)
      PROVE  OrderInv' /\ [Channel!ChannelNext]_(Channel!channelVars)
  <2>1. Channel!Take(Numbered(f).key) /\ Numbered(f).key \in Keys /\ OrderInv'
    BY <1>2, OrderSend DEF Channel!Take
  <2>2. QED
    BY <2>1 DEF Channel!ChannelNext
<1>3. ASSUME NEW w \in Carriers, Deliver(w)
      PROVE  OrderInv' /\ [Channel!ChannelNext]_(Channel!channelVars)
  <2>1. PICK p \in wire[w] : Pushes(w, p)
    BY <1>3, DeliverIs
  <2>2. OrderInv' /\ p.key \in Keys
    BY <2>1, OrderDeliver, TakenSome
  <2>3. Channel!HandOut(p.key) \/ Channel!Forget(p.key)
    BY <2>1, PushHandsOut
  <2>4. QED
    BY <2>2, <2>3 DEF Channel!ChannelNext
<1>4. ASSUME NEW w \in Carriers, WorkerUp(w) \/ WorkerDown(w) \/ Lose(w) \/ Enqueue(w)
      PROVE  OrderInv' /\ [Channel!ChannelNext]_(Channel!channelVars)
  <2>1. UNCHANGED <<taken, out, flows>>
    BY <1>4 DEF WorkerUp, WorkerDown, Lose, Enqueue, senderVars, receiverVars
  <2>2. QED
    BY <2>1, OrderIdle DEF Channel!channelVars
<1>5. ASSUME NEW k \in Keys, GapDue(k)
      PROVE  OrderInv' /\ [Channel!ChannelNext]_(Channel!channelVars)
  <2>1. UNCHANGED <<taken, out>>
    BY <1>5 DEF GapDue, senderVars
  <2>2. QED
    BY <1>5, <2>1, OrderIdle DEF Channel!channelVars
<1>6. QED
  BY <1>1, <1>2, <1>3, <1>4, <1>5 DEF StreamNext

\* The counts and the order together.
CountsOrder == \E base : StreamInv(base) /\ OrderInv

LEMMA CountsOrderStart == CountsInit => CountsOrder /\ Channel!ChannelInit
  BY StreamStart, OrderStart DEF CountsInit, CountsOrder

LEMMA CountsOrderStep ==
  Shorter /\ CountsOrder /\ [CountsNext]_<<part, vars, streamVars>>
    => CountsOrder' /\ [Channel!ChannelNext]_(Channel!channelVars)
<1> SUFFICES ASSUME Shorter, CountsOrder, [CountsNext]_<<part, vars, streamVars>>
             PROVE  CountsOrder' /\ [Channel!ChannelNext]_(Channel!channelVars)
  OBVIOUS
<1>1. [StreamNext]_streamVars
  BY DEF CountsNext
<1>2. PICK base : StreamInv(base) /\ OrderInv
  BY DEF CountsOrder
<1>3. StreamInv(base)' /\ OrderInv' /\ [Channel!ChannelNext]_(Channel!channelVars)
  BY <1>1, <1>2, StreamStep, OrderStep
<1>4. QED
  BY <1>3 DEF CountsOrder

\* Sequencer, Striper and Reassembler (pkg/csqtt/frame.go) together are the
\* channel of FlowChannel: what comes out of a flow is newer and newer, each
\* packet at most once, whatever is lost, overtaken or duplicated, and a flow is
\* forgotten only when more flows than the reassembler keeps have been in use.
\* The hypothesis is what isForward needs: no packet is half the sequence space
\* (2^31 packets) behind or ahead of another of its flow.
THEOREM FlowsInOrder ==
  ASSUME Shorter PROVE CountsSpec => OrderedFlows
<1>1. CountsInit => CountsOrder /\ Channel!ChannelInit
  BY CountsOrderStart
<1>2. CountsOrder /\ [CountsNext]_<<part, vars, streamVars>>
        => CountsOrder' /\ [Channel!ChannelNext]_(Channel!channelVars)
  BY CountsOrderStep
<1>3. QED
  BY <1>1, <1>2, PTL DEF CountsSpec, OrderedFlows, Channel!ChannelSpec
=============================================================================
