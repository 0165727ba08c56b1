------------------------------ MODULE RxReorder ------------------------------
(***************************************************************************)
(* The downlink reorder instrument (pkg/proxy/rxreorder.go): per WireGuard *)
(* keypair a ring of marks over the last counters, from which each packet  *)
(* is called in order, displaced, duplicate or too old to tell; a cap on   *)
(* the keypairs tracked; a report that clears the interval.                *)
(* The histogram of lateness has the shape of that of depth and is left    *)
(* out.                                                                    *)
(***************************************************************************)
EXTENDS Integers, SequencesExt

CONSTANTS
  Keypairs,        \* receiver indices
  RxWindow,        \* rxReorderDupWindow
  DepthBuckets,    \* rxReorderDepthBuckets
  RxMaxPeers,      \* rxReorderMaxPeers
  MaxCounter,      \* bound: counters
  MaxSeen          \* bound: packets between two reports

ASSUME RxAssumption ==
  /\ RxWindow \in Nat \ {0} /\ DepthBuckets \in Nat /\ RxMaxPeers \in Nat \ {0}
  /\ MaxCounter \in Nat /\ MaxSeen \in Nat

VARIABLES
  peers,   \* tracked keypairs: highest counter, marks in the ring, idle or not
  stats,   \* the interval's counters
  depth,   \* the interval's histogram
  told,    \* counters marked so far, per tracked keypair (history)
  wrong    \* a packet was called something else than it was (history)

rxVars == <<peers, stats, depth, told, wrong>>

Counters == 0 .. MaxCounter
NoStats == [total |-> 0, inOrder |-> 0, displaced |-> 0, dup |-> 0, stale |-> 0, refused |-> 0]
NoDepths == [d \in 0 .. DepthBuckets |-> 0]

RxInit ==
  /\ peers = << >> /\ told = << >>
  /\ stats = NoStats /\ depth = NoDepths
  /\ wrong = FALSE

Slot(c) == c % RxWindow

\* mark: the ring after counter c; an advance first clears what the window
\* slides over.
BugSlidOver(p, c) == {Slot(c)}  \* the skipped counters keep their marks
SlidOver(p, c) ==
  IF c - p.max >= RxWindow THEN 0 .. RxWindow - 1
  ELSE {Slot(x) : x \in p.max + 1 .. c}
Call(p, c) ==
  CASE c > p.max -> "inOrder"
    [] c <= p.max /\ p.max - c >= RxWindow -> "stale"
    [] c <= p.max /\ p.max - c < RxWindow /\ Slot(c) \in p.ring -> "dup"
    [] OTHER -> "displaced"
Ring(p, c) ==
  CASE Call(p, c) = "inOrder" -> (p.ring \ SlidOver(p, c)) \cup {Slot(c)}
    [] Call(p, c) = "displaced" -> p.ring \cup {Slot(c)}
    [] OTHER -> p.ring

\* What the packet is, by everything the keypair has brought.
Is(k, c) ==
  LET newest == Max(told[k])
  IN  CASE c > newest -> "inOrder"
        [] c <= newest /\ newest - c >= RxWindow -> "stale"
        [] c \in told[k] /\ newest - c < RxWindow -> "dup"
        [] OTHER -> "displaced"

\* observe, a keypair not tracked: refused when the table is full.
BugHasRoom == Cardinality(DOMAIN peers) <= RxMaxPeers
HasRoom == Cardinality(DOMAIN peers) < RxMaxPeers
Track(table, k, entry) == [j \in DOMAIN table \cup {k} |-> IF j = k THEN entry ELSE table[j]]
NewKeypair(k, c) ==
  /\ k \notin DOMAIN peers
  /\ IF HasRoom
     THEN /\ peers' = Track(peers, k, [max |-> c, ring |-> {Slot(c)}, idle |-> FALSE])
          /\ told' = Track(told, k, {c})
          /\ stats' = [stats EXCEPT !.total = @ + 1, !.inOrder = @ + 1]
     ELSE stats' = [stats EXCEPT !.refused = @ + 1] /\ UNCHANGED <<peers, told>>
  /\ UNCHANGED <<depth, wrong>>

\* observe, a tracked one.
Observe(k, c) ==
  /\ k \in DOMAIN peers
  /\ LET p == peers[k]
         call == Call(p, c)
         d == Min({p.max - c, DepthBuckets})
     IN  /\ peers' = [peers EXCEPT ![k] = [max |-> Max({p.max, c}), ring |-> Ring(p, c),
                                           idle |-> FALSE]]
         /\ stats' = [stats EXCEPT !.total = @ + 1, ![call] = @ + 1]
         /\ depth' = IF call = "displaced" THEN [depth EXCEPT ![d] = @ + 1] ELSE depth
         /\ wrong' = (wrong \/ call # Is(k, c))
  /\ told' = [told EXCEPT ![k] = @ \cup {c}]

\* rxReorderPeerIdle passes without a packet of the keypair.
KeypairIdle(k) ==
  /\ k \in DOMAIN peers
  /\ peers' = [peers EXCEPT ![k].idle = TRUE]
  /\ UNCHANGED <<stats, depth, told, wrong>>

\* rxHistPct, the fraction in percent: the rank is rounded up.
BugRank(total, pct) == Max({1, (pct * total) \div 100})
Rank(total, pct) == Max({1, (pct * total + 99) \div 100})
UpTo(h, v) == Cardinality(UNION {{d} \X (1 .. h[d]) : d \in 0 .. v})  \* packets at most v behind
HistPct(h, total, pct) ==
  IF total = 0 THEN -1
  ELSE Min({v \in DOMAIN h : UpTo(h, v) >= Rank(total, pct)} \cup {DepthBuckets})

\* dumpAndReset: the interval starts over; of the keypairs the idle ones go.
DumpAndReset ==
  /\ stats' = NoStats /\ depth' = NoDepths
  /\ peers' = [k \in {j \in DOMAIN peers : ~peers[j].idle} |-> peers[k]]
  /\ told' = [k \in {j \in DOMAIN peers : ~peers[j].idle} |-> told[k]]
  /\ UNCHANGED wrong

RxNext ==
  \/ \E k \in Keypairs, c \in Counters :
       stats.total + stats.refused < MaxSeen /\ (NewKeypair(k, c) \/ Observe(k, c))
  \/ \E k \in Keypairs : KeypairIdle(k)
  \/ DumpAndReset

RxSpec == RxInit /\ [][RxNext]_rxVars

-----------------------------------------------------------------------------
\* Types; the cap on unauthenticated keypairs holds and no packet is counted
\* twice or not at all.
RxTypeOK ==
  /\ DOMAIN peers \subseteq Keypairs /\ DOMAIN told = DOMAIN peers
  /\ Cardinality(DOMAIN peers) <= RxMaxPeers
  /\ stats.total = stats.inOrder + stats.displaced + stats.dup + stats.stale
  /\ UpTo(depth, DepthBuckets) = stats.displaced

\* rxreorder.go, mark: "a counter from a previous lap cannot masquerade as a
\* duplicate", and no duplicate within the window as a late packet: whatever
\* jumps the counters made before, a packet is called what it is.
CalledWhatItIs == ~wrong

\* rxreorder.go, rxHistPct: the nearest rank, "rounded up": at least the given
\* share of the displaced packets lies at or below the value reported, and less
\* than it below.
PercentilesExact ==
  \A pct \in {50, 90, 99} :
    LET v == HistPct(depth, stats.displaced, pct)
    IN  stats.displaced > 0 =>
          /\ 100 * UpTo(depth, v) >= pct * stats.displaced
          /\ v > 0 => 100 * UpTo(depth, v - 1) < pct * stats.displaced
=============================================================================
