---------------------------- MODULE CookieRelays ----------------------------
(***************************************************************************)
(* Credentials of a logged-in session (pkg/proxy/creds_vkcookie.go): slot  *)
(* s of the pool takes the s-th distinct relay found over the call links,  *)
(* each link minted once for discovery and again when its credential nears *)
(* its end; and SetVKCookieAuth, which replaces cookie and links under the *)
(* callers' feet.                                                          *)
(***************************************************************************)
EXTENDS Integers, SequencesExt

CONSTANTS
  Slots,       \* of the pool, a set of naturals
  NumLinks,    \* call links configured
  Relays,      \* TURN addresses VK has
  MaxConfigs   \* bound: SetVKCookieAuth calls

ASSUME CookieAssumption ==
  /\ Slots \subseteq Nat /\ NumLinks \in Nat \ {0} /\ IsFiniteSet(Relays) /\ Relays # {}
  /\ MaxConfigs \in Nat

VARIABLES
  config,     \* SetVKCookieAuth calls so far
  resetting,  \* one has stored its cookie and not yet cleared the caches
  serves,     \* link -> relays VK gives for it
  relayList,  \* cookieRelayList, cookieRelaySeen with it
  discoverIdx,\* cookieDiscoverIdx
  cookieCache,\* links with a fresh credential
  minted,     \* links ever minted since the last reset (history)
  callers,    \* per slot: its place, the configuration it read
  lock,       \* cookieMu: the slot that holds it, or NoSlot
  relayOf,    \* per slot: the relay of its credential and the list it is from
  fatal       \* the configuration whose cookie was rejected, 0 for none

cookieVars == <<config, resetting, serves, relayList, discoverIdx, cookieCache, minted, callers,
                lock, relayOf, fatal>>
listVars == <<relayList, discoverIdx, cookieCache, minted>>

Links == 1 .. NumLinks
NoSlot == -1
NoRelay == [relay |-> "none", list |-> 0]
\* The list a caller sees: one per ClearCaches.
ListNumber == IF resetting THEN config - 1 ELSE config
Idle == [at |-> "idle", config |-> 0]

\* What VK may give: every link some relays, listed in any order.
ServesAll == [Links -> SUBSET Relays \ {{}}]

CookieInit ==
  /\ config = 1 /\ resetting = FALSE
  /\ serves \in ServesAll
  /\ relayList = << >> /\ discoverIdx = 0 /\ cookieCache = {} /\ minted = {}
  /\ callers = [s \in Slots |-> Idle] /\ lock = NoSlot
  /\ relayOf = [s \in Slots |-> NoRelay]
  /\ fatal = 0

-----------------------------------------------------------------------------
\* SetVKCookieAuth: the stores, then the caches under the lock.
SetVKCookieAuth ==
  /\ ~resetting /\ config <= MaxConfigs
  /\ config' = config + 1 /\ resetting' = TRUE /\ fatal' = 0
  /\ UNCHANGED <<serves, listVars, callers, lock, relayOf>>
ClearCaches ==
  /\ resetting /\ lock = NoSlot
  /\ resetting' = FALSE
  /\ relayList' = << >> /\ discoverIdx' = 0 /\ cookieCache' = {} /\ minted' = {}
  /\ UNCHANGED <<config, serves, callers, lock, relayOf, fatal>>

\* cookieCredForSlot: cookie and links are read before the lock is taken.
CookieCredForSlot(s) ==
  /\ callers[s].at = "idle"
  /\ callers' = [callers EXCEPT ![s] = [at |-> "waits", config |-> config]]
  /\ UNCHANGED <<config, resetting, serves, listVars, lock, relayOf, fatal>>
TakeLock(s) ==
  /\ callers[s].at = "waits" /\ lock = NoSlot
  /\ lock' = s /\ callers' = [callers EXCEPT ![s].at = "discovers"]
  /\ UNCHANGED <<config, resetting, serves, listVars, relayOf, fatal>>

Returns(s) == lock' = NoSlot /\ callers' = [callers EXCEPT ![s] = Idle]
Holds(s) == callers[s].at = "discovers"
NeedsLink(s) == Len(relayList) <= s /\ discoverIdx < NumLinks
Found == {relayList[i].relay : i \in DOMAIN relayList}

\* A link is minted; those of its relays that are new go to the list.
BugNewRelays(link) == SetToSeqs(serves[link])  \* overlapping calls are not deduplicated
NewRelays(link) == SetToSeqs(serves[link] \ Found)
RefsOf(link, added) == [i \in DOMAIN added |-> [relay |-> added[i], link |-> link]]
DiscoverLink(s) ==
  /\ Holds(s) /\ NeedsLink(s)
  /\ LET link == discoverIdx + 1
     IN  /\ discoverIdx' = link
         /\ \E added \in NewRelays(link) : relayList' = relayList \o RefsOf(link, added)
         /\ cookieCache' = cookieCache \cup {link} /\ minted' = minted \cup {link}
  /\ UNCHANGED <<config, resetting, serves, callers, lock, relayOf, fatal>>

\* A mint fails, of a link to discover, which then counts as looked at, or of
\* the slot's own; if VK rejects the cookie, that is latched.
LookedAt(s) == IF NeedsLink(s) THEN discoverIdx + 1 ELSE discoverIdx
Refreshes(s) == s < Len(relayList) /\ relayList[s + 1].link \notin cookieCache
LinkFails(s, rejected) ==
  /\ Holds(s) /\ (NeedsLink(s) \/ Refreshes(s))
  /\ discoverIdx' = LookedAt(s)
  /\ fatal' = IF rejected THEN callers[s].config ELSE fatal
  /\ Returns(s)
  /\ UNCHANGED <<config, resetting, serves, relayList, cookieCache, minted, relayOf>>

\* The slot's relay, with a credential of the link that listed it; or none is
\* left for it.
BugRefOf(s) == relayList[Len(relayList)]  \* the one found last
RefOf(s) == relayList[s + 1]
SlotServed(s) ==
  /\ Holds(s) /\ s < Len(relayList)
  /\ LET ref == RefOf(s)
     IN  /\ cookieCache' = cookieCache \cup {ref.link} /\ minted' = minted \cup {ref.link}
         /\ relayOf' = [relayOf EXCEPT ![s] = [relay |-> ref.relay, list |-> ListNumber]]
  /\ fatal' = 0
  /\ Returns(s)
  /\ UNCHANGED <<config, resetting, serves, relayList, discoverIdx>>
SlotUnserved(s) ==
  /\ Holds(s) /\ Len(relayList) <= s /\ discoverIdx >= NumLinks
  /\ Returns(s)
  /\ UNCHANGED <<config, resetting, serves, listVars, relayOf, fatal>>

\* A cached credential nears its end.
CookieCredStale(link) ==
  /\ link \in cookieCache /\ lock = NoSlot
  /\ cookieCache' = cookieCache \ {link}
  /\ UNCHANGED <<config, resetting, serves, relayList, discoverIdx, minted, callers, lock,
                 relayOf, fatal>>

CookieNext ==
  \/ SetVKCookieAuth \/ ClearCaches
  \/ \E s \in Slots :
       \/ CookieCredForSlot(s) \/ TakeLock(s) \/ DiscoverLink(s) \/ SlotServed(s)
       \/ SlotUnserved(s)
       \/ \E rejected \in BOOLEAN : LinkFails(s, rejected)
  \/ \E link \in Links : CookieCredStale(link)

CookieSpec == CookieInit /\ [][CookieNext]_cookieVars

-----------------------------------------------------------------------------
\* Types; the lock is held by who is inside.
CookieTypeOK ==
  /\ config \in 1 .. MaxConfigs + 1 /\ resetting \in BOOLEAN /\ fatal \in 0 .. config
  /\ discoverIdx \in 0 .. NumLinks /\ cookieCache \subseteq Links /\ minted \subseteq Links
  /\ Found \subseteq Relays
  /\ \A s \in Slots : Holds(s) <=> lock = s

\* creds_vkcookie.go, cookieCredForSlot: "no two slots share a (okcdn_userid,
\* relay) bucket", however the calls' relays overlap, whichever mints failed, in
\* whatever order the slots asked and whether the cookie was replaced meanwhile.
SlotsApart ==
  \A s, t \in Slots :
    s # t /\ relayOf[s].list = relayOf[t].list /\ relayOf[s] # NoRelay
    => relayOf[s].relay # relayOf[t].relay

-----------------------------------------------------------------------------
(* What the comments promise and the code does not keep *)

\* creds_vkcookie.go:68: cookieDiscoverIdx is the number of "call links already
\* minted for relay discovery".  It fails: a link whose mint failed is passed
\* over all the same and never asked again.
PassedLinksMinted == \A link \in Links : link <= discoverIdx => link \in minted
=============================================================================
