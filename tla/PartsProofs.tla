----------------------------- MODULE PartsProofs -----------------------------
(***************************************************************************)
(* What the node, the market, the wallet screen, the table of peers, the   *)
(* connected tools and the pictures promise, for any relays, addresses,    *)
(* keys and records, any catalogues, prices and caps, any wallets, screens *)
(* and scans, any workers and menus, any tools, and any models and files.  *)
(***************************************************************************)
EXTENDS Node, Market, Wallet, PeerBook, ConnectedTools, ImageBackend,
        FiniteSetTheorems, SequenceTheorems, TLAPS

(***************************************************************************)
(* Least and greatest numbers                                              *)
(***************************************************************************)

LEMMA LeastNatural ==
    ASSUME NEW S \in SUBSET Nat, S # {}
    PROVE  Min(S) \in S /\ \A y \in S : Min(S) <= y
<1> DEFINE R == OpToRel(<, Nat)
<1>1. PICK x \in S : \A y \in S : ~(<<y, x>> \in R)
  <2> HIDE DEF R
  <2>1. IsWellFoundedOn(R, Nat)
    BY NatLessThanWellFounded DEF R
  <2> QED  BY <2>1, WFMin
<1>2. \A y \in S : ~(y < x)
  BY <1>1 DEF OpToRel
<1>3. \A y \in S : x <= y
  BY <1>2
<1> QED  BY <1>3 DEF Min

\* Finitely many numbers have a bound: a set without one that is least in size
\* would still have none without one of its members.
LEMMA FiniteIsBounded ==
    ASSUME NEW S \in SUBSET Nat, IsFiniteSet(S)
    PROVE  \E b \in Nat : \A y \in S : y <= b
<1> DEFINE Bounded(T) == \E b \in Nat : \A y \in T : y <= b
           sizes == {n \in Nat : \E T \in SUBSET Nat :
                        IsFiniteSet(T) /\ Cardinality(T) = n /\ ~Bounded(T)}
<1>1. ASSUME sizes # {} PROVE FALSE
  <2>1. Min(sizes) \in sizes /\ \A n \in sizes : Min(sizes) <= n
    <3> HIDE DEF sizes
    <3>1. sizes \in SUBSET Nat
      BY DEF sizes
    <3> QED  BY <1>1, <3>1, LeastNatural
  <2>2. PICK T \in SUBSET Nat : IsFiniteSet(T) /\ Cardinality(T) = Min(sizes) /\ ~Bounded(T)
    BY <2>1
  <2>3. PICK x \in T : TRUE
    BY <2>2
  <2>4. IsFiniteSet(T \ {x}) /\ Cardinality(T \ {x}) = Cardinality(T) - 1
    BY <2>2, <2>3, FS_RemoveElement
  <2>5. Cardinality(T \ {x}) \in Nat /\ Cardinality(T) \in Nat
    BY <2>2, <2>4, FS_CardinalityType
  <2>6. Cardinality(T \ {x}) \notin sizes
    <3> DEFINE n == Cardinality(T \ {x})
    <3>1. n \in Nat /\ n < Min(sizes)
      BY <2>2, <2>4, <2>5
    <3>2. n \in sizes => Min(sizes) <= n
      BY <2>1
    <3>3. Min(sizes) \in Nat
      BY <2>2, <2>5
    <3> HIDE DEF n
    <3> QED  BY <3>1, <3>2, <3>3 DEF n
  <2>7. Bounded(T \ {x})
    BY <2>4, <2>5, <2>6
  <2>8. PICK b \in Nat : \A y \in T \ {x} : y <= b
    BY <2>7
  <2>9. \A y \in T : y <= (IF x <= b THEN b ELSE x)
    BY <2>3, <2>8
  <2> QED  BY <2>2, <2>3, <2>8, <2>9
<1>2. Cardinality(S) \in Nat
  BY FS_CardinalityType
<1> QED  BY <1>1, <1>2

LEMMA GreatestNatural ==
    ASSUME NEW S \in SUBSET Nat, IsFiniteSet(S), S # {}
    PROVE  Max(S) \in S /\ \A y \in S : y <= Max(S)
<1> DEFINE bounds == {b \in Nat : \A y \in S : y <= b}
<1>1. bounds \in SUBSET Nat /\ bounds # {}
  BY FiniteIsBounded
<1> HIDE DEF bounds
<1>2. Min(bounds) \in bounds /\ \A b \in bounds : Min(bounds) <= b
  BY <1>1, LeastNatural
<1> DEFINE m == Min(bounds)
<1>3. m \in Nat /\ \A y \in S : y <= m
  BY <1>2 DEF bounds
<1>4. m \in S
  <2>1. CASE m = 0
    <3>1. PICK y \in S : y \in Nat
      OBVIOUS
    <3>2. y <= m
      BY <1>3
    <3>3. y = m
      BY <2>1, <3>1, <3>2
    <3> QED  BY <3>3
  <2>2. CASE m # 0 /\ m \notin S
    <3>1. m - 1 \in bounds
      BY <1>3, <2>2 DEF bounds
    <3> QED  BY <1>2, <1>3, <3>1
  <2> QED  BY <2>1, <2>2
<1> HIDE DEF m
<1> QED  BY <1>3, <1>4 DEF Max

LEMMA GreaterOfTwo ==
    ASSUME NEW a \in Int, NEW b \in Int
    PROVE  Max({a, b}) \in {a, b} /\ Max({a, b}) >= a /\ Max({a, b}) >= b
  BY DEF Max

LEMMA LesserOfTwo ==
    ASSUME NEW a \in Int, NEW b \in Int
    PROVE  Min({a, b}) \in {a, b} /\ Min({a, b}) <= a /\ Min({a, b}) <= b
  BY DEF Min

LEMMA NaturalPair ==
    ASSUME NEW a \in Nat, NEW b \in Nat
    PROVE  Max({a, b}) \in Nat /\ Min({a, b}) \in Nat
<1>1. a \in Int /\ b \in Int
  OBVIOUS
<1>2. Max({a, b}) \in {a, b} /\ Min({a, b}) \in {a, b}
  BY <1>1, GreaterOfTwo, LesserOfTwo
<1> QED  BY <1>2

LEMMA AtLeastOne ==
    ASSUME NEW a \in Nat
    PROVE  Max({1, a}) \in Nat /\ Max({1, a}) >= 1
<1>1. a \in Int /\ 1 \in Int
  OBVIOUS
<1>2. Max({1, a}) \in {1, a} /\ Max({1, a}) >= 1
  BY <1>1, GreaterOfTwo
<1> QED  BY <1>2


(***************************************************************************)
(* The node                                                                *)
(***************************************************************************)

SlotCounts == [asked : Nat, held : Nat, lost : Nat, refused : Nat]

SwarmTypes ==
    /\ links \in [Peers -> Nat] /\ slots \in [Relays -> SlotCounts]
    /\ bootstrapped \in BOOLEAN
RecordTypes == records \in [Keys -> 0..Ttl] /\ lapse \in [Keys -> 0..Ttl]

\* A relay that counts as asked has a slot, or lost it with nothing to ask again.
MarksFollowSlots == \A r \in reserved \cap Relays : Slotted(r) \/ r \in stuck

\* What was told for want of a better address is what is withdrawn for one.
GuessesAreTold ==
    advertised_private = IF has_public_external THEN {} ELSE listeners \ Blank

\* kad republishes what was provided, and that has not lapsed.
KeptIsProvided == kept = provided /\ \A k \in provided \cap Keys : lapse[k] = 0

SwarmInv == SlotsFollowLinks /\ MarksFollowSlots
AddressInv == AdvertisesDialable /\ GuessesAreTold
DhtInv == AgesOut /\ KeptIsProvided
NodeInv ==
    /\ SwarmTypes /\ SwarmInv
    /\ has_public_external \in BOOLEAN /\ AddressInv
    /\ RecordTypes /\ DhtInv
    /\ LocalIsSeen

-----------------------------------------------------------------------------
(* Counting slots *)

\* A slot that changes its state is still a slot (Granted, Refuses, Drops).
LEMMA TurnedSlots ==
    ASSUME slots \in [Relays -> SlotCounts], NEW r \in Relays,
           NEW from \in DOMAIN NoSlot, NEW to \in DOMAIN NoSlot, from # to,
           slots[r][from] > 0, slots' = Turned(r, from, to)
    PROVE  /\ slots' \in [Relays -> SlotCounts]
           /\ \A q \in Relays : Slotted(q) => Slotted(q)'
<1>1. DOMAIN NoSlot = {"asked", "held", "lost", "refused"}
  BY DEF NoSlot
<1>2. slots' \in [Relays -> SlotCounts]
  BY <1>1 DEF Turned, SlotCounts
<1>3. ASSUME NEW q \in Relays, Slotted(q) PROVE Slotted(q)'
  <2>1. CASE q = r
    <3>1. slots'[r][to] = slots[r][to] + 1
      BY <1>1 DEF Turned, SlotCounts
    <3>2. slots'[r][to] > 0
      BY <1>1, <3>1 DEF SlotCounts
    <3> QED  BY <2>1, <3>2 DEF Slotted
  <2>2. CASE q # r
    BY <1>3, <2>2 DEF Turned, Slotted
  <2> QED  BY <2>1, <2>2
<1> QED  BY <1>2, <1>3

-----------------------------------------------------------------------------
(* The swarm's part: each step keeps SwarmInv *)

\* A connection asks a relay that is not marked (ConnectionEstablished).
LEMMA EstablishedKeepsSlots ==
    ASSUME SwarmTypes, SwarmInv, NEW p \in Peers, Established(p)
    PROVE  SwarmInv' /\ links' \in [Peers -> Nat] /\ slots' \in [Relays -> SlotCounts]
                     /\ bootstrapped' \in BOOLEAN
<1>1. links' \in [Peers -> Nat] /\ \A q \in Peers : q # p => links'[q] = links[q]
  BY DEF Established, SwarmTypes
<1>2. CASE p \in Relays \ reserved
  <2>1. /\ slots' = [slots EXCEPT ![p].asked = @ + 1] /\ reserved' = reserved \cup {p}
        /\ stuck' = stuck \ {p} /\ bootstrapped' = TRUE
    BY <1>2 DEF Established
  <2>2. slots' \in [Relays -> SlotCounts] /\ slots'[p].asked > 0
    BY <1>2, <2>1 DEF SwarmTypes, SlotCounts
  <2>3. Slotted(p)'
    BY <2>2 DEF Slotted, NoSlot
  <2>4. \A r \in Relays : r # p => (Slotted(r)' <=> Slotted(r))
    BY <2>1 DEF Slotted
  <2>5. MarksFollowSlots'
    BY <2>1, <2>3, <2>4 DEF SwarmInv, MarksFollowSlots
  <2>6. \A r \in Relays : links'[r] > 0 => Slotted(r)' \/ r \in stuck'
    BY <1>1, <2>1, <2>3, <2>4 DEF SwarmInv, SlotsFollowLinks, Peers
  <2> QED  BY <1>1, <2>1, <2>2, <2>5, <2>6, Zenon DEF SwarmInv, SlotsFollowLinks
<1>3. CASE p \notin Relays \ reserved
  <2>1. UNCHANGED <<reserved, slots, stuck>> /\ bootstrapped' = TRUE
    BY <1>3 DEF Established
  <2>2. \A r \in Relays : Slotted(r)' <=> Slotted(r)
    BY <2>1 DEF Slotted
  <2>3. MarksFollowSlots'
    BY <2>1, <2>2 DEF SwarmInv, MarksFollowSlots
  <2>4. \A r \in Relays : links'[r] > 0 => Slotted(r)' \/ r \in stuck'
    BY <1>1, <1>3, <2>1, <2>2 DEF SwarmInv, SlotsFollowLinks, MarksFollowSlots, Peers
  <2>5. slots' \in [Relays -> SlotCounts]
    BY <2>1 DEF SwarmTypes
  <2> QED  BY <1>1, <2>1, <2>3, <2>4, <2>5, Zenon DEF SwarmInv, SlotsFollowLinks
<1> QED  BY <1>2, <1>3

\* A closed connection turns its slots into closed ones (external).
LEMMA DisconnectsKeepsSlots ==
    ASSUME SwarmTypes, SwarmInv, NEW p \in Peers, Disconnects(p)
    PROVE  SwarmInv' /\ links' \in [Peers -> Nat] /\ slots' \in [Relays -> SlotCounts]
<1>1. /\ links' = [links EXCEPT ![p] = @ - 1] /\ links[p] > 0
      /\ UNCHANGED <<bootstrapped, reserved, stuck>>
      /\ slots' = IF p \in Relays /\ links[p] = 1 THEN [slots EXCEPT ![p] = Ended(@)] ELSE slots
  BY DEF Disconnects
<1>2. links' \in [Peers -> Nat] /\ \A q \in Peers : links'[q] > 0 => links[q] > 0
  BY <1>1 DEF SwarmTypes
<1>3. slots' \in [Relays -> SlotCounts]
  BY <1>1 DEF SwarmTypes, SlotCounts, Ended
<1>4. ASSUME NEW r \in Relays, Slotted(r) PROVE Slotted(r)'
  <2>1. CASE r = p /\ links[p] = 1
    <3>1. slots'[r] = Ended(slots[r]) /\ slots[r] \in SlotCounts
      BY <1>1, <2>1 DEF SwarmTypes
    <3>2. \/ slots[r].lost + slots[r].held > 0
          \/ slots[r].refused + slots[r].asked > 0
      BY <1>4, <3>1 DEF Slotted, NoSlot, SlotCounts
    <3>3. slots'[r].lost > 0 \/ slots'[r].refused > 0
      BY <3>1, <3>2 DEF Ended
    <3> QED  BY <3>3 DEF Slotted, NoSlot
  <2>2. CASE ~(r = p /\ links[p] = 1)
    <3>1. slots'[r] = slots[r]
      BY <1>1, <2>2 DEF SwarmTypes
    <3> QED  BY <1>4, <3>1 DEF Slotted
  <2> QED  BY <2>1, <2>2
<1>5. ~Alone' => ~Alone
  BY <1>2 DEF Alone, SwarmTypes
<1> QED  BY <1>1, <1>2, <1>3, <1>4, <1>5 DEF SwarmInv, SlotsFollowLinks, MarksFollowSlots, Peers

\* The end of a listener that had an address unmarks its relay (ListenerClosed).
LEMMA SlotClosedKeepsSlots ==
    ASSUME SwarmTypes, SwarmInv, NEW r \in Relays, SlotClosed(r)
    PROVE  SwarmInv' /\ slots' \in [Relays -> SlotCounts]
<1>1. PICK how \in {"lost", "refused"} :
          /\ CloseTold(r, how)
          /\ reserved' = IF how = "lost" THEN reserved \ {r} ELSE reserved
  BY DEF SlotClosed
<1>2. /\ slots' = [slots EXCEPT ![r][how] = @ - 1] /\ slots[r][how] > 0
      /\ stuck' = IF how = "refused" \/ links[r] > 0 THEN stuck \cup {r} ELSE stuck
      /\ UNCHANGED <<links, bootstrapped>>
  BY <1>1 DEF CloseTold
<1>3. slots' \in [Relays -> SlotCounts]
  BY <1>2 DEF SwarmTypes, SlotCounts
<1>4. \A q \in Relays : q # r => (Slotted(q)' <=> Slotted(q))
  BY <1>2 DEF Slotted
<1>5. \/ r \in stuck'
      \/ r \notin reserved' /\ ~(links[r] > 0)
  BY <1>1, <1>2
<1>6. stuck \subseteq stuck' /\ reserved' \subseteq reserved
  BY <1>1, <1>2
<1>7. Alone' <=> Alone
  BY <1>2 DEF Alone
<1> QED  BY <1>2, <1>3, <1>4, <1>5, <1>6, <1>7 DEF SwarmInv, SlotsFollowLinks, MarksFollowSlots

\* With nobody connected every mark may go (reconnect_if_alone).
LEMMA WatchdogKeepsSlots ==
    ASSUME SwarmTypes, SwarmInv, Watchdog
    PROVE  SwarmInv'
<1>1. Alone /\ reserved' = {} /\ UNCHANGED <<links, slots, stuck>>
  BY DEF Watchdog
<1>2. Alone' /\ \A r \in Relays : links'[r] = 0
  BY <1>1 DEF Alone, Peers
<1> QED  BY <1>1, <1>2 DEF SwarmInv, SlotsFollowLinks, MarksFollowSlots

\* A step that leaves the swarm alone.
LEMMA SwarmStands ==
    ASSUME SwarmInv, UNCHANGED <<links, bootstrapped, reserved, slots, stuck>>
    PROVE  SwarmInv'
BY DEF SwarmInv, SlotsFollowLinks, MarksFollowSlots, Slotted, Alone

\* A slot that changes its state keeps the swarm's part.
LEMMA TurnedKeepsSlots ==
    ASSUME SwarmTypes, SwarmInv, NEW r \in Relays,
           NEW from \in DOMAIN NoSlot, NEW to \in DOMAIN NoSlot, from # to,
           slots[r][from] > 0, slots' = Turned(r, from, to),
           UNCHANGED <<links, bootstrapped, reserved, stuck>>
    PROVE  SwarmInv' /\ slots' \in [Relays -> SlotCounts]
<1>1. slots' \in [Relays -> SlotCounts] /\ \A q \in Relays : Slotted(q) => Slotted(q)'
  BY TurnedSlots DEF SwarmTypes
<1> QED  BY <1>1 DEF SwarmInv, SlotsFollowLinks, MarksFollowSlots, Alone

-----------------------------------------------------------------------------
(* The other parts *)

\* NewListenAddr keeps what is told in step with what is bound.
LEMMA ListeningKeepsAddresses ==
    ASSUME has_public_external \in BOOLEAN, AddressInv, NEW a, Listening(a)
    PROVE  AddressInv' /\ has_public_external' \in BOOLEAN
<1>1. CASE a \in Blank
  BY <1>1 DEF Listening, AddressInv, AdvertisesDialable, GuessesAreTold
<1>2. CASE a \in Afar \ Blank
  BY <1>2, ZenonT(30) DEF Listening, Withdrawn, AddressInv, AdvertisesDialable, GuessesAreTold
<1>3. CASE a \notin Afar \cup Blank /\ ~has_public_external
  BY <1>3 DEF Listening, AddressInv, AdvertisesDialable, GuessesAreTold
<1>4. CASE a \notin Afar \cup Blank /\ has_public_external
  BY <1>4 DEF Listening, AddressInv, AdvertisesDialable, GuessesAreTold
<1> QED  BY <1>1, <1>2, <1>3, <1>4

LEMMA AddressesStand ==
    ASSUME AddressInv, UNCHANGED addressVars
    PROVE  AddressInv'
BY DEF AddressInv, AdvertisesDialable, GuessesAreTold, addressVars

\* A record that is stored has its whole life before it (Provide, Republish).
LEMMA StoredKeepsRecords ==
    ASSUME Ttl \in Nat, RecordTypes, AgesOut, NEW keys,
           \A k \in keys \cap Keys : lapse'[k] = 0,
           \A k \in Keys : lapse'[k] \in {0, lapse[k]},
           Stored(keys)
    PROVE  AgesOut' /\ records' \in [Keys -> 0..Ttl]
<1>1. CASE records' = [k \in Keys |-> IF k \in keys THEN Ttl ELSE records[k]]
  <2>1. records' \in [Keys -> 0..Ttl]
    BY <1>1 DEF RecordTypes
  <2>2. ASSUME NEW k \in Keys, records'[k] > 0 PROVE records'[k] + lapse'[k] <= Ttl
    <3>1. CASE k \in keys
      BY <1>1, <3>1
    <3>2. CASE k \notin keys
      BY <1>1, <2>2, <3>2 DEF RecordTypes, AgesOut
    <3> QED  BY <3>1, <3>2
  <2> QED  BY <2>1, <2>2 DEF AgesOut
<1>2. CASE UNCHANGED records
  BY <1>2 DEF RecordTypes, AgesOut
<1> QED  BY <1>1, <1>2 DEF Stored

\* provide replaces the set kad republishes (Command::Provide).
LEMMA ProvideKeepsRecords ==
    ASSUME Ttl \in Nat, RecordTypes, DhtInv, NEW next, Provide(next)
    PROVE  DhtInv' /\ RecordTypes'
<1>1. /\ kept' = (kept \ (provided \ next)) \cup next /\ provided' = next
      /\ lapse' = [k \in Keys |-> IF k \in next THEN 0 ELSE lapse[k]] /\ Stored(next)
  BY DEF Provide
<1>2. kept' = next
  BY <1>1 DEF DhtInv, KeptIsProvided
<1>3. lapse' \in [Keys -> 0..Ttl] /\ \A k \in next \cap Keys : lapse'[k] = 0
  BY <1>1 DEF RecordTypes
<1>4. AgesOut' /\ records' \in [Keys -> 0..Ttl]
  <2>1. \A k \in Keys : lapse'[k] \in {0, lapse[k]}
    BY <1>1
  <2> QED  BY <1>1, <1>3, <2>1, StoredKeepsRecords DEF DhtInv
<1> QED  BY <1>1, <1>2, <1>3, <1>4 DEF DhtInv, KeptIsProvided, RecordTypes

LEMMA RepublishKeepsRecords ==
    ASSUME Ttl \in Nat, RecordTypes, DhtInv, Republish
    PROVE  DhtInv' /\ RecordTypes'
<1>1. Stored(kept) /\ UNCHANGED <<provided, kept, lapse>>
  BY DEF Republish
<1>2. \A k \in kept \cap Keys : lapse'[k] = 0
  BY <1>1 DEF DhtInv, KeptIsProvided
<1>3. AgesOut' /\ records' \in [Keys -> 0..Ttl]
  <2>1. \A k \in Keys : lapse'[k] \in {0, lapse[k]}
    BY <1>1
  <2> QED  BY <1>1, <1>2, <2>1, StoredKeepsRecords DEF DhtInv
<1> QED  BY <1>1, <1>3 DEF DhtInv, KeptIsProvided, RecordTypes

\* A period takes from every record what it adds to its lapse.
LEMMA PeriodKeepsRecords ==
    ASSUME Ttl \in Nat, RecordTypes, DhtInv, Period
    PROVE  DhtInv' /\ RecordTypes'
<1>1. /\ records' = [k \in Keys |-> IF records[k] = 0 THEN 0 ELSE records[k] - 1]
      /\ lapse' = [k \in Keys |-> IF k \in provided \/ lapse[k] = Ttl
                                  THEN lapse[k] ELSE lapse[k] + 1]
      /\ UNCHANGED <<provided, kept>>
  BY DEF Period
<1>2. RecordTypes'
  BY <1>1 DEF RecordTypes
<1>3. KeptIsProvided'
  BY <1>1 DEF DhtInv, KeptIsProvided
<1>4. ASSUME NEW k \in Keys, records'[k] > 0 PROVE records'[k] + lapse'[k] <= Ttl
  BY <1>1, <1>4 DEF RecordTypes, DhtInv, AgesOut
<1> QED  BY <1>2, <1>3, <1>4 DEF DhtInv, AgesOut

LEMMA RecordsStand ==
    ASSUME DhtInv, RecordTypes, UNCHANGED dhtVars
    PROVE  DhtInv' /\ RecordTypes'
BY DEF DhtInv, AgesOut, KeptIsProvided, RecordTypes, dhtVars

\* A local peer has a sighting left or is none (mdns Discovered, Expired).
LEMMA MdnsKeepsLocal ==
    ASSUME LocalIsSeen, NEW pair \in Neighbours, Discovered(pair) \/ Expired(pair)
    PROVE  LocalIsSeen'
<1>1. CASE Discovered(pair)
  BY <1>1 DEF Discovered, LocalIsSeen
<1>2. CASE Expired(pair)
  <2>1. SUFFICES ASSUME NEW q \in local_peers' PROVE \E other \in sightings' : q = other[1]
    BY DEF LocalIsSeen
  <2>2. q \in local_peers /\ q # pair[1]
    BY <1>2, <2>1 DEF Expired
  <2>3. PICK other \in sightings : q = other[1]
    BY <2>2 DEF LocalIsSeen
  <2> QED  BY <1>2, <2>2, <2>3 DEF Expired
<1> QED  BY <1>1, <1>2

LEMMA LocalStands ==
    ASSUME LocalIsSeen, UNCHANGED lanVars
    PROVE  LocalIsSeen'
BY DEF LocalIsSeen, lanVars

-----------------------------------------------------------------------------
(* The whole *)

\* A node as it starts is empty but for what it declares (Node::start).
LEMMA Starts ==
    ASSUME Ttl \in Nat, NodeInit
    PROVE  NodeInv
<1>1. SwarmTypes /\ SwarmInv
  <2>1. NoSlot \in SlotCounts
    BY DEF NoSlot, SlotCounts
  <2>2. SwarmTypes
    BY <2>1 DEF NodeInit, SwarmTypes
  <2>3. Alone /\ \A r \in Relays : links[r] = 0
    BY DEF NodeInit, Alone, Peers
  <2>4. SlotsFollowLinks
    BY <2>3 DEF SlotsFollowLinks
  <2>5. MarksFollowSlots
    BY DEF NodeInit, MarksFollowSlots
  <2> QED  BY <2>2, <2>4, <2>5 DEF SwarmInv
<1>2. has_public_external \in BOOLEAN /\ AddressInv
  BY DEF NodeInit, AddressInv, AdvertisesDialable, GuessesAreTold
<1>3. RecordTypes /\ DhtInv
  BY DEF NodeInit, RecordTypes, DhtInv, AgesOut, KeptIsProvided
<1>4. LocalIsSeen
  BY DEF NodeInit, LocalIsSeen
<1> QED  BY <1>1, <1>2, <1>3, <1>4 DEF NodeInv

\* A process that dies forgets all but its records.
LEMMA RestartKeeps ==
    ASSUME Ttl \in Nat, NodeInv, Restart
    PROVE  NodeInv'
<1>1. SwarmTypes' /\ SwarmInv'
  <2>1. NoSlot \in SlotCounts
    BY DEF NoSlot, SlotCounts
  <2>2. SwarmTypes'
    BY <2>1 DEF Restart, SwarmTypes
  <2>3. Alone' /\ \A r \in Relays : links'[r] = 0
    BY DEF Restart, Alone, Peers
  <2>4. SlotsFollowLinks'
    BY <2>3 DEF SlotsFollowLinks
  <2>5. MarksFollowSlots'
    BY DEF Restart, MarksFollowSlots
  <2> QED  BY <2>2, <2>4, <2>5 DEF SwarmInv
<1>2. has_public_external' \in BOOLEAN /\ AddressInv'
  BY DEF Restart, AddressInv, AdvertisesDialable, GuessesAreTold
<1>3. RecordTypes' /\ DhtInv'
  BY DEF NodeInv, Restart, RecordTypes, DhtInv, AgesOut, KeptIsProvided
<1>4. LocalIsSeen'
  BY DEF Restart, LocalIsSeen
<1> QED  BY <1>1, <1>2, <1>3, <1>4 DEF NodeInv

\* A step of the swarm alone keeps the rest.
LEMMA SwarmStep ==
    ASSUME NodeInv, UNCHANGED <<addressVars, dhtVars, lanVars>>, SwarmTypes', SwarmInv'
    PROVE  NodeInv'
<1>1. AddressInv' /\ DhtInv' /\ RecordTypes' /\ LocalIsSeen'
  BY AddressesStand, RecordsStand, LocalStands DEF NodeInv
<1>2. has_public_external' \in BOOLEAN
  BY DEF NodeInv, addressVars
<1> QED  BY <1>1, <1>2 DEF NodeInv

\* A step that leaves the swarm and the addresses alone.
LEMMA OtherStep ==
    ASSUME NodeInv, UNCHANGED <<swarmVars, addressVars>>,
           DhtInv', RecordTypes', LocalIsSeen'
    PROVE  NodeInv'
<1>1. SwarmInv' /\ SwarmTypes'
  BY SwarmStands DEF NodeInv, swarmVars, SwarmTypes
<1>2. AddressInv' /\ has_public_external' \in BOOLEAN
  BY AddressesStand DEF NodeInv, addressVars
<1> QED  BY <1>1, <1>2 DEF NodeInv

LEMMA RelaySteps ==
    ASSUME NodeInv, NEW r \in Relays,
           Dialled(r) \/ DialFails(r) \/ Granted(r) \/ Refuses(r) \/ Drops(r) \/ SlotClosed(r)
    PROVE  NodeInv'
<1>0. r \in Peers /\ {"asked", "held", "lost", "refused"} = DOMAIN NoSlot
  BY DEF Peers, NoSlot
<1>1. CASE Dialled(r)
  <2>1. SwarmTypes' /\ SwarmInv'
    BY <1>0, <1>1, EstablishedKeepsSlots DEF Dialled, NodeInv, SwarmTypes
  <2> QED  BY <1>1, <2>1, SwarmStep DEF Dialled, Established
<1>2. CASE DialFails(r)
  <2>1. SwarmTypes' /\ SwarmInv'
    BY <1>2, SwarmStands DEF DialFails, NodeInv, SwarmTypes
  <2> QED  BY <1>2, <2>1, SwarmStep DEF DialFails
<1>3. CASE Granted(r)
  <2>1. /\ slots[r]["asked"] > 0 /\ slots' = Turned(r, "asked", "held") /\ Listening(r)
        /\ UNCHANGED <<links, bootstrapped, reserved, stuck>> /\ UNCHANGED <<dhtVars, lanVars>>
    BY <1>3 DEF Granted
  <2>2. SwarmInv' /\ SwarmTypes'
    BY <1>0, <2>1, TurnedKeepsSlots DEF NodeInv, SwarmTypes
  <2>3. AddressInv' /\ has_public_external' \in BOOLEAN
    BY <2>1, ListeningKeepsAddresses DEF NodeInv
  <2>4. DhtInv' /\ RecordTypes' /\ LocalIsSeen'
    BY <2>1, RecordsStand, LocalStands DEF NodeInv
  <2> QED  BY <2>2, <2>3, <2>4 DEF NodeInv
<1>4. CASE Refuses(r)
  <2>1. /\ slots[r]["asked"] > 0 /\ slots' = Turned(r, "asked", "refused")
        /\ UNCHANGED <<links, bootstrapped, reserved, stuck>>
        /\ UNCHANGED <<addressVars, dhtVars, lanVars>>
    BY <1>4 DEF Refuses
  <2>2. SwarmInv' /\ SwarmTypes'
    BY <1>0, <2>1, TurnedKeepsSlots DEF NodeInv, SwarmTypes
  <2> QED  BY <2>1, <2>2, SwarmStep
<1>5. CASE Drops(r)
  <2>1. /\ slots[r]["held"] > 0 /\ slots' = Turned(r, "held", "lost")
        /\ UNCHANGED <<links, bootstrapped, reserved, stuck>>
        /\ UNCHANGED <<addressVars, dhtVars, lanVars>>
    BY <1>5 DEF Drops
  <2>2. SwarmInv' /\ SwarmTypes'
    BY <1>0, <2>1, TurnedKeepsSlots DEF NodeInv, SwarmTypes
  <2> QED  BY <2>1, <2>2, SwarmStep
<1>6. CASE SlotClosed(r)
  <2>1. UNCHANGED <<links, bootstrapped>> /\ UNCHANGED <<addressVars, dhtVars, lanVars>>
    BY <1>6 DEF SlotClosed, CloseTold
  <2>2. SwarmInv' /\ slots' \in [Relays -> SlotCounts]
    BY <1>6, SlotClosedKeepsSlots DEF NodeInv
  <2>3. SwarmTypes'
    BY <2>1, <2>2 DEF NodeInv, SwarmTypes
  <2> QED  BY <2>1, <2>2, <2>3, SwarmStep
<1> QED  BY <1>1, <1>2, <1>3, <1>4, <1>5, <1>6

LEMMA NodeStep ==
    ASSUME Ttl \in Nat, NodeInv, [NodeNext]_nodeVars
    PROVE  NodeInv'
<1>1. ASSUME NEW r \in Relays,
             Dialled(r) \/ DialFails(r) \/ Granted(r) \/ Refuses(r) \/ Drops(r) \/ SlotClosed(r)
      PROVE NodeInv'
  BY <1>1, RelaySteps
<1>2. ASSUME NEW p \in Peers, Incoming(p) PROVE NodeInv'
  <2>1. SwarmTypes' /\ SwarmInv'
    BY <1>2, EstablishedKeepsSlots DEF Incoming, NodeInv, SwarmTypes
  <2> QED  BY <1>2, <2>1, SwarmStep DEF Incoming, Established
<1>3. ASSUME NEW p \in Peers, Disconnects(p) PROVE NodeInv'
  <2>1. UNCHANGED bootstrapped /\ UNCHANGED <<addressVars, dhtVars, lanVars>>
    BY <1>3 DEF Disconnects
  <2>2. SwarmTypes' /\ SwarmInv'
    BY <1>3, <2>1, DisconnectsKeepsSlots DEF NodeInv, SwarmTypes
  <2> QED  BY <2>1, <2>2, SwarmStep
<1>4. ASSUME NEW a \in Interfaces, Binds(a) PROVE NodeInv'
  <2>1. Listening(a) /\ UNCHANGED <<swarmVars, dhtVars, lanVars>>
    BY <1>4 DEF Binds
  <2>2. AddressInv' /\ has_public_external' \in BOOLEAN
    BY <2>1, ListeningKeepsAddresses DEF NodeInv
  <2>3. SwarmInv' /\ SwarmTypes'
    BY <2>1, SwarmStands DEF NodeInv, swarmVars, SwarmTypes
  <2>4. DhtInv' /\ RecordTypes' /\ LocalIsSeen'
    BY <2>1, RecordsStand, LocalStands DEF NodeInv
  <2> QED  BY <2>2, <2>3, <2>4 DEF NodeInv
<1>5. ASSUME NEW next, Provide(next) PROVE NodeInv'
  <2>1. UNCHANGED <<swarmVars, addressVars>> /\ UNCHANGED lanVars
    BY <1>5 DEF Provide
  <2>2. DhtInv' /\ RecordTypes' /\ LocalIsSeen'
    BY <1>5, <2>1, ProvideKeepsRecords, LocalStands DEF NodeInv
  <2> QED  BY <2>1, <2>2, OtherStep
<1>6. CASE Republish
  <2>1. UNCHANGED <<swarmVars, addressVars>> /\ UNCHANGED lanVars
    BY <1>6 DEF Republish
  <2>2. DhtInv' /\ RecordTypes' /\ LocalIsSeen'
    BY <1>6, <2>1, RepublishKeepsRecords, LocalStands DEF NodeInv
  <2> QED  BY <2>1, <2>2, OtherStep
<1>7. CASE Period
  <2>1. UNCHANGED <<swarmVars, addressVars>> /\ UNCHANGED lanVars
    BY <1>7 DEF Period
  <2>2. DhtInv' /\ RecordTypes' /\ LocalIsSeen'
    BY <1>7, <2>1, PeriodKeepsRecords, LocalStands DEF NodeInv
  <2> QED  BY <2>1, <2>2, OtherStep
<1>8. ASSUME NEW pair \in Neighbours, Discovered(pair) \/ Expired(pair) PROVE NodeInv'
  <2>1. UNCHANGED <<swarmVars, addressVars>> /\ UNCHANGED dhtVars
    BY <1>8 DEF Discovered, Expired
  <2>2. DhtInv' /\ RecordTypes' /\ LocalIsSeen'
    BY <1>8, <2>1, RecordsStand, MdnsKeepsLocal DEF NodeInv
  <2> QED  BY <2>1, <2>2, OtherStep
<1>9. CASE Watchdog
  <2>1. /\ UNCHANGED <<links, slots>> /\ bootstrapped' = FALSE
        /\ UNCHANGED <<addressVars, dhtVars, lanVars>>
    BY <1>9 DEF Watchdog
  <2>2. SwarmTypes' /\ SwarmInv'
    BY <1>9, <2>1, WatchdogKeepsSlots DEF NodeInv, SwarmTypes
  <2> QED  BY <2>1, <2>2, SwarmStep
<1>10. CASE Restart
  BY <1>10, RestartKeeps
<1>11. CASE UNCHANGED nodeVars
  <2>1. UNCHANGED <<swarmVars, addressVars>> /\ UNCHANGED <<dhtVars, lanVars>>
    BY <1>11 DEF nodeVars, swarmVars, addressVars, dhtVars, lanVars
  <2>2. DhtInv' /\ RecordTypes' /\ LocalIsSeen'
    BY <2>1, RecordsStand, LocalStands DEF NodeInv
  <2> QED  BY <2>1, <2>2, OtherStep
<1> QED
  BY <1>1, <1>2, <1>3, <1>4, <1>5, <1>6, <1>7, <1>8, <1>9, <1>10, <1>11
  DEF NodeNext, Announce, Leave

\* The inductive invariant of a node (node.rs, EventLoop).
THEOREM NodeInvariance ==
    ASSUME Ttl \in Nat PROVE NodeSpec => []NodeInv
<1>1. NodeInit => NodeInv
  BY Starts
<1>2. NodeInv /\ [NodeNext]_nodeVars => NodeInv'
  BY NodeStep
<1> QED  BY <1>1, <1>2, PTL DEF NodeSpec

\* Slots follow connections, told addresses follow bound ones, records age out
\* and local peers are seen, whatever the network does (node.rs, EventLoop).
THEOREM NodeIsFound ==
    ASSUME Ttl \in Nat PROVE NodeSpec => []FoundWhereItIs
<1>1. NodeInv => FoundWhereItIs
  BY DEF NodeInv, SwarmInv, AddressInv, DhtInv, FoundWhereItIs
<1> QED  BY <1>1, NodeInvariance, PTL

(***************************************************************************)
(* What a listing is made into                                             *)
(***************************************************************************)

Models == [id : STRING, kind : {"llm", "video"}, listing : Listings, price : Prices, clip : Nat]
Offers == [resolution : STRING, audio : BOOLEAN, from : BOOLEAN, tenths : Nat, least : Nat]

LEMMA CentsNatural ==
    ASSUME NEW tenths \in Nat
    PROVE  Cents(tenths) \in Nat
<1> DEFINE marked == tenths * Markup
<1>1. marked \in Nat
  BY MarketAssumption
<1> HIDE DEF marked
<1>2. (marked + 1000 - 1) \div 1000 \in Nat
  BY <1>1
<1> QED  BY <1>2 DEF Cents, CeilTo, marked

LEMMA ToPriceTyped ==
    ASSUME NEW rates \in UpstreamRates
    PROVE  ToPrice(rates) \in Prices
<1> DEFINE input == IF rates.prompt > 0 THEN rates.prompt ELSE rates.completion
           output == IF rates.completion > 0 THEN rates.completion ELSE rates.prompt
<1>1. input \in Nat /\ output \in Nat /\ rates.read \in Nat /\ rates.write \in Nat
  BY DEF UpstreamRates
<1> HIDE DEF input, output
<1>2. Cents(input) \in Nat /\ Cents(output) \in Nat /\ Cents(rates.read) \in Nat
      /\ Cents(rates.write) \in Nat
  BY <1>1, CentsNatural
<1>3. Max({Cents(input), Cents(rates.write)}) \in Nat
  BY <1>2, NaturalPair
<1>4. ToPrice(rates) \in {NoPrice, [input |-> Cents(input), output |-> Cents(output),
          cache |-> Cents(rates.read), write |-> Max({Cents(input), Cents(rates.write)})]}
  BY DEF ToPrice, input, output
<1> QED  BY <1>2, <1>3, <1>4 DEF Prices, NoPrice

\* Some of a listing's SKUs, and what they ask: finitely many numbers.
LEMMA SkusFinite ==
    ASSUME NEW l \in Listings, NEW S \in SUBSET l.skus
    PROVE  /\ {Headroom(s) : s \in S} \in SUBSET Nat /\ IsFiniteSet({Headroom(s) : s \in S})
           /\ {s.least : s \in S} \in SUBSET Nat /\ IsFiniteSet({s.least : s \in S})
<1>1. IsFiniteSet(S) /\ S \subseteq Skus
  BY FS_Subset DEF Listings
<1>2. \A s \in S : Headroom(s) \in Nat /\ s.least \in Nat
  BY <1>1 DEF Headroom, CeilTo, Skus
<1>3. IsFiniteSet({Headroom(s) : s \in S})
  <2> DEFINE f == [s \in S |-> Headroom(s)]
  <2>1. f \in Surjection(S, {Headroom(s) : s \in S})
    BY DEF Surjection
  <2> QED  BY <1>1, <2>1, FS_Surjection
<1>4. IsFiniteSet({s.least : s \in S})
  <2> DEFINE f == [s \in S |-> s.least]
  <2>1. f \in Surjection(S, {s.least : s \in S})
    BY DEF Surjection
  <2> QED  BY <1>1, <2>1, FS_Surjection
<1> QED  BY <1>2, <1>3, <1>4

LEMMA ShapeRateTyped ==
    ASSUME NEW l \in Listings, NEW shape
    PROVE  ShapeRate(l.skus, shape) \in Nat /\ Floor(l.skus, shape) \in Nat
<1> DEFINE spoken == Spoken(l.skus, shape)
           said == {x \in Fitting(l.skus, shape) : x.dialect = Dialects[Min(spoken)]}
           asked == {Headroom(s) : s \in said}
           flat == {x \in Fitting(l.skus, shape) : x.dialect = "cents"}
           least == {s.least : s \in flat}
<1>1. said \in SUBSET l.skus /\ flat \in SUBSET l.skus
  BY DEF Fitting
<1>2. spoken # {} => said # {}
  <2>1. spoken \in SUBSET Nat
    BY DEF Spoken, Dialects
  <2>2. spoken # {} => Min(spoken) \in spoken
    <3> HIDE DEF spoken
    <3> QED  BY <2>1, LeastNatural
  <2> QED  BY <2>2 DEF Spoken
<1>3. spoken # {} => Max(asked) \in Nat
  <2>1. asked \in SUBSET Nat /\ IsFiniteSet(asked)
    <3> HIDE DEF said
    <3> QED  BY <1>1, SkusFinite
  <2>2. spoken # {} => asked # {}
    BY <1>2
  <2> HIDE DEF asked, spoken
  <2> QED  BY <2>1, <2>2, GreatestNatural
<1>4. Max({0} \cup least) \in Nat
  <2>1. least \in SUBSET Nat /\ IsFiniteSet(least)
    <3> HIDE DEF flat
    <3> QED  BY <1>1, SkusFinite
  <2> HIDE DEF least
  <2>2. IsFiniteSet({0} \cup least)
    BY <2>1, FS_Singleton, FS_Union
  <2>3. {0} \cup least \in SUBSET Nat /\ {0} \cup least # {}
    BY <2>1
  <2> QED  BY <2>2, <2>3, GreatestNatural
<1>5. ShapeRate(l.skus, shape) = IF spoken = {} THEN 0 ELSE Max(asked)
  BY DEF ShapeRate
<1>6. Floor(l.skus, shape) = Max({0} \cup least)
  BY DEF Floor
<1> QED  BY <1>3, <1>4, <1>5, <1>6

\* A listing's offers are finitely many rates.
LEMMA OffersTyped ==
    ASSUME NEW l \in Listings
    PROVE  OfferOf(l) \in SUBSET Offers /\ IsFiniteSet(OfferOf(l))
<1> DEFINE Of(x, a, f) ==
      [resolution |-> x, audio |-> a, from |-> f,
       tenths |-> ShapeRate(l.skus, [resolution |-> x, audio |-> a, from |-> f]),
       least |-> Floor(l.skus, [resolution |-> x, audio |-> a, from |-> f])]
<1>1. OfferOf(l) = {Of(x, a, f) : x \in l.resolutions, a \in Sounds(l), f \in Beginnings(l)}
  BY DEF OfferOf
<1>2. /\ IsFiniteSet(l.resolutions) /\ l.resolutions \subseteq STRING
      /\ Sounds(l) \subseteq BOOLEAN /\ Beginnings(l) \subseteq BOOLEAN
  BY DEF Listings, Sounds, Beginnings
<1>3. \A x \in l.resolutions, a \in Sounds(l), f \in Beginnings(l) : Of(x, a, f) \in Offers
  BY <1>2, ShapeRateTyped DEF Offers
<1>4. IsFiniteSet(Sounds(l)) /\ IsFiniteSet(Beginnings(l))
  <2>1. IsFiniteSet(BOOLEAN)
    <3>1. BOOLEAN = {TRUE} \cup {FALSE}
      OBVIOUS
    <3>2. IsFiniteSet({TRUE}) /\ IsFiniteSet({FALSE})
      BY FS_Singleton, Zenon
    <3>3. IsFiniteSet({TRUE} \cup {FALSE})
      BY <3>2, FS_Union, Zenon
    <3> QED  BY <3>1, <3>3, Zenon
  <2> QED  BY <1>2, <2>1, FS_Subset
<1> DEFINE P == l.resolutions \X (Sounds(l) \X Beginnings(l))
           pick == [t \in P |-> Of(t[1], t[2][1], t[2][2])]
<1>5. IsFiniteSet(P)
  BY <1>2, <1>4, FS_Product
<1>6. pick \in Surjection(P, OfferOf(l))
  <2>1. \A x \in l.resolutions, a \in Sounds(l), f \in Beginnings(l) :
          <<x, <<a, f>>>> \in P /\ pick[<<x, <<a, f>>>>] = Of(x, a, f)
    OBVIOUS
  <2>2. \A t \in P : pick[t] \in OfferOf(l)
    BY <1>1
  <2>3. pick \in [P -> OfferOf(l)]
    BY <2>2
  <2>4. ASSUME NEW o \in OfferOf(l) PROVE \E t \in P : pick[t] = o
    <3> HIDE DEF Of, pick, P
    <3>1. PICK x \in l.resolutions, a \in Sounds(l), f \in Beginnings(l) : o = Of(x, a, f)
      BY <1>1
    <3>2. <<x, <<a, f>>>> \in P /\ pick[<<x, <<a, f>>>>] = o
      BY <2>1, <3>1
    <3> QED  BY <3>2
  <2> HIDE DEF pick, P
  <2> QED  BY <2>3, <2>4 DEF Surjection
<1>7. IsFiniteSet(OfferOf(l))
  <2> HIDE DEF pick, P
  <2> QED  BY <1>5, <1>6, FS_Surjection
<1> HIDE DEF Of
<1>8. OfferOf(l) \subseteq Offers
  BY <1>1, <1>3
<1> QED  BY <1>7, <1>8

\* Among finitely many rates one is the dearest.
LEMMA DearestOne ==
    ASSUME NEW rates \in SUBSET Offers, IsFiniteSet(rates), rates # {}
    PROVE  Dearest(rates) \in rates
<1> DEFINE asked == {r.tenths : r \in rates}
           f == [r \in rates |-> r.tenths]
<1>1. f \in Surjection(rates, asked)
  BY DEF Surjection
<1>2. IsFiniteSet(asked) /\ asked \in SUBSET Nat /\ asked # {}
  <2>1. IsFiniteSet(asked)
    <3> HIDE DEF f, asked
    <3> QED  BY <1>1, FS_Surjection
  <2> QED  BY <2>1 DEF Offers
<1>3. Max(asked) \in asked /\ \A y \in asked : y <= Max(asked)
  <2> HIDE DEF asked
  <2> QED  BY <1>2, GreatestNatural
<1>4. \E r \in rates : \A x \in rates : x.tenths <= r.tenths
  BY <1>3
<1> QED  BY <1>4 DEF Dearest

LEMMA QuoteTyped ==
    ASSUME NEW l \in Listings, NEW shape, shape.seconds \in Nat
    PROVE  Quote(l, shape) \in Nat
<1>1. CASE RatesOf(l, shape) = {}
  BY <1>1 DEF Quote
<1>2. CASE RatesOf(l, shape) # {}
  <2> DEFINE exact == {r \in RatesOf(l, shape) : r.from = shape.from}
             rates == IF exact # {} THEN exact ELSE RatesOf(l, shape)
  <2>1. rates \subseteq OfferOf(l) /\ rates # {}
    BY <1>2 DEF RatesOf
  <2>2. rates \in SUBSET Offers /\ IsFiniteSet(rates)
    BY <2>1, OffersTyped, FS_Subset
  <2>3. RateFor(l, shape) \in Offers
    <3>1. RateFor(l, shape) = Dearest(rates)
      BY DEF RateFor
    <3> HIDE DEF rates
    <3> QED  BY <2>1, <2>2, <3>1, DearestOne
  <2> DEFINE a == RateFor(l, shape).tenths * shape.seconds
             b == RateFor(l, shape).least
  <2>4. a \in Nat /\ b \in Nat
    BY <2>3 DEF Offers
  <2>5. Quote(l, shape) = Max({Cents(a), Cents(b)})
    BY <1>2 DEF Quote
  <2> HIDE DEF a, b
  <2>6. Cents(a) \in Nat /\ Cents(b) \in Nat
    BY <2>4, CentsNatural
  <2> QED  BY <2>5, <2>6, NaturalPair
<1> QED  BY <1>1, <1>2

LEMMA PerClipTyped ==
    ASSUME NEW l \in Listings
    PROVE  PerClip(l) \in Nat
<1> DEFINE Default(f) == [seconds |-> 5, resolution |-> DefaultResolution(l),
                          audio |-> l.audio = "always", from |-> f]
<1>1. Quote(l, Default(TRUE)) \in Nat /\ Quote(l, Default(FALSE)) \in Nat
  BY QuoteTyped
<1>2. {Quote(l, Default(f)) : f \in BOOLEAN} = {Quote(l, Default(TRUE)), Quote(l, Default(FALSE))}
  OBVIOUS
<1>3. PerClip(l) = Max({Quote(l, Default(f)) : f \in BOOLEAN})
  BY DEF PerClip
<1> HIDE DEF Default
<1> QED  BY <1>1, <1>2, <1>3, NaturalPair

LEMMA DescribedTyped ==
    ASSUME NEW l \in Listings
    PROVE  Described(l) \in Models
<1>1. /\ l.id \in STRING /\ l.kind \in {"llm", "video"}
      /\ l.rates \in UpstreamRates
  BY DEF Listings
<1>2. ToPrice(l.rates) \in Prices /\ NoPrice \in Prices /\ PerClip(l) \in Nat
  BY <1>1, ToPriceTyped, PerClipTyped DEF NoPrice, Prices
<1> QED  BY <1>1, <1>2 DEF Described, Models

\* Reading a list from its start to its end is a function of how far one is.
LEMMA ReadingExists ==
    ASSUME NEW c \in Seq(Listings), NEW n \in Nat, n <= Len(c)
    PROVE  \E f : f = [k \in 0..n |->
                         IF k = 0 THEN <<>>
                         ELSE IF Sold(Described(c[k])) THEN Append(f[k - 1], Described(c[k]))
                         ELSE f[k - 1]]
<1> DEFINE Next1(f, k) == IF k = 0 THEN <<>>
                          ELSE IF Sold(Described(c[k])) THEN Append(f[k - 1], Described(c[k]))
                          ELSE f[k - 1]
           Reads(m) == \E f : f = [k \in 0..m |-> Next1(f, k)]
           unread == {m \in Nat : m <= Len(c) /\ ~Reads(m)}
<1>0. Len(c) \in Nat
  OBVIOUS
<1>1. ASSUME unread # {} PROVE FALSE
  <2>1. Min(unread) \in unread /\ \A m \in unread : Min(unread) <= m
    <3>1. unread \in SUBSET Nat
      OBVIOUS
    <3> HIDE DEF unread
    <3> QED  BY <1>1, <3>1, LeastNatural
  <2> DEFINE m == Min(unread)
  <2>2. m \in Nat /\ m <= Len(c) /\ ~Reads(m) /\ \A k \in unread : m <= k
    BY <2>1
  <2> HIDE DEF m
  <2>3. CASE m = 0
    <3> DEFINE f == [k \in 0..0 |-> <<>>]
    <3>1. f = [k \in 0..0 |-> Next1(f, k)]
      OBVIOUS
    <3> QED  BY <2>2, <2>3, <3>1
  <2>4. CASE m # 0
    <3>1. m - 1 \notin unread
      <4> HIDE DEF unread
      <4> QED  BY <2>2, <2>4
    <3>2. Reads(m - 1)
      <4>1. m - 1 \in Nat /\ m - 1 <= Len(c)
        BY <1>0, <2>2, <2>4
      <4> HIDE DEF Reads
      <4> QED  BY <3>1, <4>1
    <3>3. PICK g : g = [k \in 0..(m - 1) |-> Next1(g, k)]
      BY <3>2
    <3> DEFINE f == [k \in 0..m |-> IF k = m THEN Next1(g, m) ELSE g[k]]
    <3>4. ASSUME NEW k \in 0..m PROVE f[k] = Next1(f, k)
      <4>1. CASE k = 0
        BY <2>2, <2>4, <3>3, <4>1
      <4>2. CASE k # 0
        <5>1. f[k - 1] = g[k - 1]
          BY <2>2, <4>2
        <5>2. CASE k = m
          BY <4>2, <5>1, <5>2
        <5>3. CASE k # m
          <6>1. k \in 0..(m - 1) /\ f[k] = g[k]
            BY <2>2, <5>3
          <6>2. g[k] = Next1(g, k)
            BY <3>3, <6>1
          <6> QED  BY <4>2, <5>1, <6>1, <6>2
        <5> QED  BY <5>2, <5>3
      <4> QED  BY <4>1, <4>2
    <3>5. f = [k \in 0..m |-> Next1(f, k)]
      BY <3>4
    <3> QED  BY <2>2, <3>5
  <2> QED  BY <2>2, <2>3, <2>4
<1> QED  BY <1>1

\* What a node makes of a catalogue is a list of models.
LEMMA DiscoverTyped ==
    ASSUME NEW c \in Seq(Listings)
    PROVE  Discover(c) \in Seq(Models)
<1> DEFINE read == CHOOSE f : f = [k \in 0..Len(c) |->
                         IF k = 0 THEN <<>>
                         ELSE IF Sold(Described(c[k])) THEN Append(f[k - 1], Described(c[k]))
                         ELSE f[k - 1]]
<1>0. Len(c) \in Nat
  OBVIOUS
<1>1. read = [k \in 0..Len(c) |->
                IF k = 0 THEN <<>>
                ELSE IF Sold(Described(c[k])) THEN Append(read[k - 1], Described(c[k]))
                ELSE read[k - 1]]
  <2>1. \E f : f = [k \in 0..Len(c) |->
                         IF k = 0 THEN <<>>
                         ELSE IF Sold(Described(c[k])) THEN Append(f[k - 1], Described(c[k]))
                         ELSE f[k - 1]]
    BY <1>0, ReadingExists
  <2> QED  BY <2>1
<1>2. Discover(c) = read[Len(c)]
  BY DEF Discover
<1> HIDE DEF read
<1> DEFINE bad == {k \in 0..Len(c) : read[k] \notin Seq(Models)}
<1>3. ASSUME bad # {} PROVE FALSE
  <2>1. Min(bad) \in bad /\ \A m \in bad : Min(bad) <= m
    <3>1. bad \in SUBSET Nat
      OBVIOUS
    <3> HIDE DEF bad
    <3> QED  BY <1>3, <3>1, LeastNatural
  <2> DEFINE m == Min(bad)
  <2>2. m \in 0..Len(c) /\ read[m] \notin Seq(Models)
    BY <2>1
  <2> HIDE DEF m
  <2>3. m # 0
    BY <1>1, <2>2
  <2>4. m - 1 \in 0..Len(c) /\ m - 1 \notin bad
    BY <2>1, <2>2, <2>3 DEF m
  <2>5. read[m - 1] \in Seq(Models)
    BY <2>4
  <2>6. Described(c[m]) \in Models
    BY <1>0, <2>2, <2>3, DescribedTyped, ElementOfSeq
  <2>7. read[m] \in {Append(read[m - 1], Described(c[m])), read[m - 1]}
    BY <1>1, <2>2, <2>3
  <2> HIDE DEF Models
  <2>8. Append(read[m - 1], Described(c[m])) \in Seq(Models)
    BY <2>5, <2>6, AppendProperties
  <2> QED  BY <2>2, <2>5, <2>7, <2>8
<1> QED  BY <1>0, <1>2, <1>3

(***************************************************************************)
(* What is counted and charged                                             *)
(***************************************************************************)

Usages == [prompt : Nat, completion : Nat, cached : Nat]

LEMMA ChargeNatural ==
    ASSUME NEW price \in Prices, NEW prompt \in Nat, NEW completion \in Nat, NEW cached \in Nat
    PROVE  Charge(price, prompt, completion, cached) \in Nat
<1> DEFINE read == Min({cached, prompt})
           a == (prompt - read) * price.write
           b == read * price.cache
           d == completion * price.output
<1>1. read \in Nat /\ prompt - read \in Nat
  <2>1. cached \in Int /\ prompt \in Int
    OBVIOUS
  <2>2. read \in {cached, prompt} /\ read <= prompt
    BY <2>1, LesserOfTwo
  <2> HIDE DEF read
  <2> QED  BY <2>2
<1>2. price.write \in Nat /\ price.cache \in Nat /\ price.output \in Nat
  BY DEF Prices
<1>3. a \in Nat /\ b \in Nat /\ d \in Nat
  <2> HIDE DEF read
  <2> QED  BY <1>1, <1>2
<1>4. Charge(price, prompt, completion, cached) = (a + b + d + 50) \div 100
  BY DEF Charge
<1> HIDE DEF a, b, d
<1> QED  BY <1>3, <1>4

LEMMA CountedNatural ==
    ASSUME NEW chat \in Chats
    PROVE  Counted(chat) \in Nat
<1>1. chat \in [messages : Nat, words : Nat, calls : Nat, images : Nat, tools : Nat]
  BY MarketAssumption
<1> QED  BY <1>1 DEF Counted

\* What a server reports, and what the two counts settle on, are counts.
LEMMA ReportsTyped ==
    ASSUME NEW ours \in Usages
    PROVE  Reports(ours) \in SUBSET Usages
<1>1. \A p \in Nat, q \in Nat, r \in Nat : Reported(p, q, r) \in Usages
  BY NaturalPair DEF Reported, Usages
<1>2. /\ ours.prompt \in Nat /\ ours.completion \in Nat /\ ours.prompt \div 2 \in Nat
      /\ ours.prompt + 9 \in Nat /\ ours.completion + 9 \in Nat
  BY DEF Usages
<1> QED  BY <1>1, <1>2 DEF Reports, Unsaid

LEMMA ReconciledTyped ==
    ASSUME NEW ours \in Usages, NEW theirs \in Usages
    PROVE  Reconciled(ours, theirs) \in Usages
<1> DEFINE prompt == Max({ours.prompt, theirs.prompt})
<1>1. prompt \in Nat /\ Max({ours.completion, theirs.completion}) \in Nat
  BY NaturalPair DEF Usages
<1>2. Min({theirs.cached, prompt}) \in Nat
  <2> HIDE DEF prompt
  <2> QED  BY <1>1, NaturalPair DEF Usages
<1> QED  BY <1>1, <1>2 DEF Reconciled, Usages

LEMMA FloorInteger ==
    ASSUME NEW tenths \in Nat, NEW premium \in Nat
    PROVE  FloorMicros(tenths, premium) \in Int
<1> DEFINE marked == tenths * Markup
           paid == ((marked + 100 - 1) \div 100) * premium
<1>1. marked \in Nat
  BY MarketAssumption
<1>2. (marked + 100 - 1) \div 100 \in Nat
  <2> HIDE DEF marked
  <2> QED  BY <1>1
<1>3. paid \in Nat
  <2> HIDE DEF marked
  <2> QED  BY <1>2
<1>4. FloorMicros(tenths, premium) = (paid + 100000 - 1) \div 100000
  BY DEF FloorMicros, CeilTo
<1> HIDE DEF paid
<1> QED  BY <1>3, <1>4

LEMMA FirstTyped ==
    ASSUME NEW models \in Seq(Models), NEW found \in SUBSET DOMAIN models, found # {}
    PROVE  First(models, found) \in Models
<1>1. found \in SUBSET Nat
  OBVIOUS
<1>2. Min(found) \in found
  BY <1>1, LeastNatural
<1> QED  BY <1>2, ElementOfSeq DEF First

LEMMA ClipCentsTyped ==
    ASSUME NEW m \in Models, NEW shape \in Shapes
    PROVE  ClipCents(m, shape) \in Nat
<1>1. shape.seconds \in Nat /\ m.listing \in Listings /\ m.clip \in Nat
  BY MarketAssumption DEF Models
<1>2. Quote(m.listing, shape) \in Nat
  BY <1>1, QuoteTyped
<1> QED  BY <1>1, <1>2 DEF ClipCents

\* A bill within the bond and within what the rates or the floor ask.
LEMMA BillBounded ==
    ASSUME NEW by_rate \in Int, NEW floor \in Int, work.delta \in Int
    PROVE  /\ Bill(by_rate, floor) \in Int
           /\ work.delta >= 1 => Bill(by_rate, floor) <= work.delta
           /\ \A most \in Int : 1 <= most /\ by_rate <= most /\ floor <= most
                                  => Bill(by_rate, floor) <= most
<1> DEFINE asked == Max({by_rate, floor})
           held == Min({work.delta, asked})
<1>1. asked \in {by_rate, floor}
  BY GreaterOfTwo
<1>2. held \in {work.delta, asked} /\ held <= work.delta /\ held <= asked
  <2> HIDE DEF asked
  <2> QED  BY <1>1, LesserOfTwo
<1>3. Bill(by_rate, floor) = Max({1, held})
  BY DEF Bill
<1> HIDE DEF asked, held
<1>4. held \in Int
  BY <1>1, <1>2
<1>5. Max({1, held}) \in {1, held}
  BY <1>4, GreaterOfTwo
<1> QED  BY <1>1, <1>2, <1>3, <1>4, <1>5

(***************************************************************************)
(* One job at a time                                                       *)
(***************************************************************************)

\* The names a job can be for; none before it is sent.
AskedFor == STRING \cup {NoWork.id}
Works ==
    [at : {"idle", "sent", "admitted", "billed", "accepted", "disputed", "refused", "failed", "free"},
     id : AskedFor, kind : {"llm", "video"}, prompt : Nat, max : Nat, shape : Shapes \cup {<<>>},
     price : Prices, clip : Nat, ceiling : Nat, delta : Int, cost : Int, bill : Int, fair : Nat,
     same : BOOLEAN]

MarketTypes ==
    /\ catalogue \in Catalogues
    /\ registry \in Seq(Models) /\ upstream \in Seq(Models) /\ peer \in Seq(Models)

\* A clip has a shape, and whatever costs something is locked for.
LockedFor ==
    work.at \in {"sent", "admitted"} =>
        /\ work.kind = "video" => work.shape \in Shapes
        /\ work.ceiling = 0 => work.kind = "llm" /\ IsFree(work.price)

\* The reasons BillsAreAccepted names for a bill to be refused.
Excused ==
    \/ work.bill = 0 \/ ~work.same \/ work.delta # work.ceiling \/ work.fair = 0
    \/ work.kind = "llm" /\ work.cost > (work.fair * 3) \div 2

\* A bill is within what the app checks it against from the moment it is drawn up.
BilledWithin ==
    work.at = "billed" =>
        Excused \/ (work.bill <= (work.fair * 3) \div 2 /\ work.bill <= work.ceiling)

BillInv == work \in Works /\ LockedFor /\ BilledWithin /\ BillsAreAccepted

LEMMA NoWorkTyped == NoWork \in Works /\ NoWork.at = "idle"
<1>1. PICK none \in AskedFor : none = NoWork.id
  BY Zenon DEF AskedFor
<1>2. NoWork = [at |-> "idle", id |-> none, kind |-> "llm", prompt |-> 0, max |-> 0,
                shape |-> <<>>, price |-> NoPrice, clip |-> 0, ceiling |-> 0, delta |-> 0,
                cost |-> 0, bill |-> 0, fair |-> 0, same |-> TRUE]
  BY <1>1 DEF NoWork
<1>3. NoPrice \in Prices
  BY DEF NoPrice, Prices
<1> HIDE DEF NoPrice
<1>4. <<>> \in Shapes \cup {<<>>}
  OBVIOUS
<1> QED  BY <1>2, <1>3, <1>4 DEF Works

LEMMA MarketStarts == MarketInit => MarketTypes /\ BillInv
<1> SUFFICES ASSUME MarketInit PROVE MarketTypes /\ BillInv
  OBVIOUS
<1>1. catalogue \in Catalogues /\ catalogue \in Seq(Listings)
  BY MarketAssumption DEF MarketInit
<1>2. registry \in Seq(Models)
  <2>1. <<>> \in Seq(Models) /\ Discover(catalogue) \in Seq(Models)
    BY <1>1, DiscoverTyped
  <2> QED  BY <2>1 DEF MarketInit
<1>3. MarketTypes
  BY <1>1, <1>2 DEF MarketInit, MarketTypes
<1>4. work \in Works
  BY NoWorkTyped DEF MarketInit
<1>5. work.at = "idle"
  BY NoWorkTyped DEF MarketInit
<1> QED  BY <1>3, <1>4, <1>5 DEF BillInv, LockedFor, BilledWithin, BillsAreAccepted

\* The lists change by what the catalogue says and by copying one another.
LEMMA MarketTyped == MarketTypes /\ [MarketNext]_marketVars => MarketTypes'
<1> SUFFICES ASSUME MarketTypes, [MarketNext]_marketVars PROVE MarketTypes'
  OBVIOUS
<1>1. Discover(catalogue) \in Seq(Models)
  BY MarketAssumption, DiscoverTyped DEF MarketTypes
<1>2. CASE Refresh
  BY <1>1, <1>2 DEF Refresh, MarketTypes
<1>3. CASE Edit \/ Probe
  BY <1>3 DEF Edit, Probe, MarketTypes
<1>4. UNCHANGED <<catalogue, registry, upstream, peer>> => MarketTypes'
  BY DEF MarketTypes
<1>5. CASE Lock
  BY <1>4, <1>5 DEF Lock
<1>6. CASE Admit
  BY <1>4, <1>6 DEF Admit
<1>7. CASE RunChat
  BY <1>4, <1>7 DEF RunChat
<1>8. CASE RunClip
  BY <1>4, <1>8 DEF RunClip
<1>9. CASE Check \/ Again \/ UNCHANGED marketVars
  BY <1>4, <1>9 DEF Check, Again, marketVars
<1> QED  BY <1>2, <1>3, <1>5, <1>6, <1>7, <1>8, <1>9 DEF MarketNext

\* A lock that can cost anything is at least a micro.
LEMMA LocksBill ==
    ASSUME MarketTypes, BillInv, Lock
    PROVE  BillInv'
<1>1. PICK m \in ToSet(peer), cap \in Caps, gap \in Gaps, ch \in Channels :
        LET listed == First(peer, Lookup(peer, m.id, FALSE)) IN
         \/ /\ m.kind = "llm"
            /\ \E chat \in Chats, max \in MaxTokens :
                 LET prompt == Counted(chat)
                     lock == Min({ChatLock(listed.price, prompt, max), cap})
                     bonded == ~IsFree(listed.price) IN
                 /\ bonded => PotCovers(ch, lock)
                 /\ work' = [NoWork EXCEPT !.at = "sent", !.id = m.id, !.prompt = prompt, !.max = max,
                               !.price = listed.price,
                               !.ceiling = IF bonded THEN lock ELSE 0,
                               !.delta = IF bonded THEN lock + gap ELSE 0]
         \/ /\ m.kind = "video"
            /\ \E shape \in Shapes :
                 LET price == ClipLock(ClipCents(listed, shape))
                     lock == Min({price, cap}) IN
                 /\ ch.fresh \/ price <= cap
                 /\ PotCovers(ch, lock)
                 /\ work' = [NoWork EXCEPT !.at = "sent", !.id = m.id, !.kind = "video", !.shape = shape,
                            !.clip = ClipCents(listed, shape), !.ceiling = lock, !.delta = lock + gap]
  BY DEF Lock
<1> DEFINE listed == First(peer, Lookup(peer, m.id, FALSE))
<1>2. m \in Models /\ m.id \in AskedFor
  <2>1. PICK k \in DOMAIN peer : m = peer[k]
    BY DEF ToSet
  <2>2. m \in Models
    BY <2>1, ElementOfSeq DEF MarketTypes
  <2>3. m.id \in STRING
    BY <2>2 DEF Models
  <2> QED  BY <2>2, <2>3, Zenon DEF AskedFor
<1>3. listed \in Models
  <2>1. Lookup(peer, m.id, FALSE) # {} /\ Lookup(peer, m.id, FALSE) \subseteq DOMAIN peer
    BY DEF Lookup, Names, ToSet
  <2> QED  BY <2>1, FirstTyped DEF MarketTypes
<1> HIDE DEF listed
<1>4. cap \in Nat /\ cap >= 1 /\ gap \in Int
  BY MarketAssumption
<1>5. ASSUME NEW chat \in Chats, NEW max \in MaxTokens,
             work' = [NoWork EXCEPT !.at = "sent", !.id = m.id, !.prompt = Counted(chat), !.max = max,
                        !.price = listed.price,
                        !.ceiling = IF ~IsFree(listed.price)
                                    THEN Min({ChatLock(listed.price, Counted(chat), max), cap}) ELSE 0,
                        !.delta = IF ~IsFree(listed.price)
                                  THEN Min({ChatLock(listed.price, Counted(chat), max), cap}) + gap
                                  ELSE 0]
      PROVE  BillInv'
  <2> DEFINE prompt == Counted(chat)
             lock == Min({ChatLock(listed.price, prompt, max), cap})
             ceiling == IF ~IsFree(listed.price) THEN lock ELSE 0
             delta == IF ~IsFree(listed.price) THEN lock + gap ELSE 0
  <2>1. prompt \in Nat /\ max \in Nat /\ listed.price \in Prices
    BY <1>3, CountedNatural, MarketAssumption DEF Models
  <2>2. lock \in Nat /\ lock >= 1
    <3> HIDE DEF prompt
    <3>1. Charge(listed.price, prompt, max, 0) \in Nat
      BY <2>1, ChargeNatural
    <3>2. ChatLock(listed.price, prompt, max) \in Nat /\ ChatLock(listed.price, prompt, max) >= 1
      BY <3>1, AtLeastOne DEF ChatLock
    <3>3. lock \in {ChatLock(listed.price, prompt, max), cap}
      <4>1. cap \in Int /\ ChatLock(listed.price, prompt, max) \in Int
        BY <1>4, <3>2
      <4> QED  BY <4>1, LesserOfTwo
    <3> QED  BY <1>4, <3>2, <3>3
  <2>3. work' = [at |-> "sent", id |-> m.id, kind |-> "llm", prompt |-> prompt, max |-> max,
                 shape |-> <<>>, price |-> listed.price, clip |-> 0, ceiling |-> ceiling,
                 delta |-> delta, cost |-> 0, bill |-> 0, fair |-> 0, same |-> TRUE]
    BY <1>5 DEF NoWork
  <2> HIDE DEF prompt, lock
  <2>4. ceiling \in Nat /\ delta \in Int /\ (ceiling = 0 => IsFree(listed.price))
    BY <1>4, <2>2
  <2> HIDE DEF ceiling, delta
  <2>5. work' \in Works
    BY <1>2, <2>1, <2>3, <2>4 DEF Works
  <2> QED
    BY <2>3, <2>4, <2>5 DEF BillInv, LockedFor, BilledWithin, BillsAreAccepted
<1>6. ASSUME NEW shape \in Shapes,
             work' = [NoWork EXCEPT !.at = "sent", !.id = m.id, !.kind = "video", !.shape = shape,
                        !.clip = ClipCents(listed, shape),
                        !.ceiling = Min({ClipLock(ClipCents(listed, shape)), cap}),
                        !.delta = Min({ClipLock(ClipCents(listed, shape)), cap}) + gap]
      PROVE  BillInv'
  <2> DEFINE clip == ClipCents(listed, shape)
             lock == Min({ClipLock(clip), cap})
             delta == lock + gap
  <2>1. clip \in Nat
    BY <1>3, ClipCentsTyped
  <2>2. lock \in Nat /\ lock >= 1
    <3> HIDE DEF clip
    <3>1. clip * 10000 \in Nat
      BY <2>1
    <3>2. ClipLock(clip) \in Nat /\ ClipLock(clip) >= 1
      BY <3>1, AtLeastOne DEF ClipLock
    <3>3. lock \in {ClipLock(clip), cap}
      <4>1. cap \in Int /\ ClipLock(clip) \in Int
        BY <1>4, <3>2
      <4> QED  BY <4>1, LesserOfTwo
    <3> QED  BY <1>4, <3>2, <3>3
  <2>3. work' = [at |-> "sent", id |-> m.id, kind |-> "video", prompt |-> 0, max |-> 0,
                 shape |-> shape, price |-> NoPrice, clip |-> clip, ceiling |-> lock,
                 delta |-> delta, cost |-> 0, bill |-> 0, fair |-> 0, same |-> TRUE]
    BY <1>6 DEF NoWork
  <2>4. NoPrice \in Prices
    BY DEF NoPrice, Prices
  <2> HIDE DEF clip, lock
  <2>5. delta \in Int
    BY <1>4, <2>2
  <2> HIDE DEF delta
  <2>6. work' \in Works
    BY <1>2, <2>1, <2>2, <2>3, <2>4, <2>5 DEF Works
  <2> QED
    BY <2>2, <2>3, <2>6 DEF BillInv, LockedFor, BilledWithin, BillsAreAccepted
<1> QED
  BY <1>1, <1>5, <1>6 DEF listed

LEMMA ListedTyped ==
    ASSUME MarketTypes, NEW id
    PROVE  ListedPrice(id) \subseteq Models
<1>1. Lookup(registry, id, TRUE) \subseteq DOMAIN registry
  BY DEF Lookup
<1>2. registry \in Seq(Models)
  BY DEF MarketTypes
<1>3. Lookup(registry, id, TRUE) # {}
        => First(registry, Lookup(registry, id, TRUE)) \in Models
  BY <1>1, <1>2, FirstTyped
<1>4. Len(registry) = 1 => registry[1] \in Models
  BY <1>2, ElementOfSeq
<1> QED  BY <1>3, <1>4 DEF ListedPrice

\* Admitting a job shortens its answer at most.
LEMMA AdmitBills ==
    ASSUME MarketTypes, BillInv, Admit
    PROVE  BillInv'
<1> DEFINE model == CHOOSE m \in ListedPrice(work.id) : TRUE
           fresh == (work.prompt * model.price.write + 99) \div 100
           output == model.price.output
           most == ((work.delta - fresh) * 100) \div output
           shorter == IF output = 0 THEN work.max ELSE Min({work.max, Max({1, most})})
<1>1. work \in Works /\ work.at = "sent"
  BY DEF BillInv, Admit
<1>2. \/ work' = [work EXCEPT !.at = "refused"]
      \/ work' = [work EXCEPT !.at = "admitted"]
      \/ /\ ListedPrice(work.id) # {} /\ ~(fresh >= work.delta)
         /\ work' = [work EXCEPT !.at = "admitted", !.max = shorter]
  BY DEF Admit
<1>3. ASSUME ListedPrice(work.id) # {}, ~(fresh >= work.delta)
      PROVE  shorter \in Nat
  <2>1. model \in Models
    <3>1. ListedPrice(work.id) \subseteq Models
      BY ListedTyped
    <3> QED  BY <1>3, <3>1
  <2>2. model.price.write \in Nat /\ output \in Nat /\ work.prompt \in Nat /\ work.max \in Nat
        /\ work.delta \in Int
    BY <1>1, <2>1 DEF Models, Prices, Works
  <2>3. fresh \in Nat
    <3> DEFINE asked == work.prompt * model.price.write
    <3>1. asked \in Nat
      BY <2>2
    <3> HIDE DEF asked
    <3> QED  BY <3>1 DEF asked
  <2> HIDE DEF fresh, output
  <2>4. (work.delta - fresh) * 100 \in Nat
    BY <1>3, <2>2, <2>3
  <2>5. output # 0 => most \in Nat
    <3> DEFINE n == (work.delta - fresh) * 100
    <3> HIDE DEF n
    <3>1. n \in Nat
      BY <2>4 DEF n
    <3>2. output # 0 => n \div output \in Nat
      BY <2>2, <3>1
    <3> QED  BY <3>2 DEF n
  <2> HIDE DEF most
  <2>6. output # 0 => Min({work.max, Max({1, most})}) \in Nat
    BY <2>2, <2>5, AtLeastOne, NaturalPair
  <2> QED  BY <2>2, <2>6
<1> HIDE DEF shorter
<1>4. work' \in Works /\ work'.at \in {"refused", "admitted"}
      /\ work'.kind = work.kind /\ work'.shape = work.shape /\ work'.ceiling = work.ceiling
      /\ work'.price = work.price
  BY <1>1, <1>2, <1>3 DEF Works
<1> QED
  BY <1>1, <1>4 DEF BillInv, LockedFor, BilledWithin, BillsAreAccepted

\* Half as much again is never less than the whole.
LEMMA HalfAgain ==
    ASSUME NEW n \in Nat
    PROVE  (n * 3) \div 2 \in Nat /\ n <= (n * 3) \div 2
  OBVIOUS

\* A chat is billed by what both ends counted, under the price both hold.
LEMMA RunChatBills ==
    ASSUME MarketTypes, BillInv, RunChat
    PROVE  BillInv'
<1>1. work \in Works /\ work.at = "admitted" /\ work.kind = "llm"
  BY DEF BillInv, RunChat
<1>2. PICK written \in {1, work.max}, over \in Overs, premium \in Premiums :
        \E theirs \in Reports(Measured(work.prompt, written + over)) :
         LET ours == Measured(work.prompt, written + over)
             l == Exact(upstream, work.id)
             rates == First(upstream, l).listing.rates
             price == PriceRun(work.id)
             usage == Reconciled(ours, Reconciled(ours, theirs))
             tenths == theirs.prompt * rates.prompt + theirs.completion * rates.completion
             by_rate == Charge(price, usage.prompt, usage.completion, usage.cached) IN
         /\ theirs = Unsaid => premium = 0
         /\ work' = IF l = {} THEN [work EXCEPT !.at = "failed"]
                    ELSE [work EXCEPT !.at = "billed",
                           !.cost = FloorMicros(tenths, premium),
                           !.bill = IF IsFree(price) THEN 0
                                    ELSE Bill(by_rate, FloorMicros(tenths, premium)),
                           !.fair = Charge(work.price, usage.prompt, usage.completion, usage.cached),
                           !.same = price = work.price]
  BY Zenon DEF RunChat
<1> DEFINE ours == Measured(work.prompt, written + over)
           l == Exact(upstream, work.id)
           rates == First(upstream, l).listing.rates
           price == PriceRun(work.id)
<1>3. PICK theirs \in Reports(ours) :
        LET usage == Reconciled(ours, Reconciled(ours, theirs))
            tenths == theirs.prompt * rates.prompt + theirs.completion * rates.completion
            by_rate == Charge(price, usage.prompt, usage.completion, usage.cached) IN
         work' = IF l = {} THEN [work EXCEPT !.at = "failed"]
                 ELSE [work EXCEPT !.at = "billed",
                        !.cost = FloorMicros(tenths, premium),
                        !.bill = IF IsFree(price) THEN 0
                                 ELSE Bill(by_rate, FloorMicros(tenths, premium)),
                        !.fair = Charge(work.price, usage.prompt, usage.completion, usage.cached),
                        !.same = price = work.price]
  BY <1>2
<1>4. ours \in Usages
  <2>1. work.prompt \in Nat /\ written \in Nat /\ over \in Nat
    BY <1>1, MarketAssumption DEF Works
  <2> QED  BY <2>1 DEF Measured, Usages
<1> HIDE DEF ours
<1>5. theirs \in Usages
  BY <1>4, ReportsTyped
<1> DEFINE usage == Reconciled(ours, Reconciled(ours, theirs))
           tenths == theirs.prompt * rates.prompt + theirs.completion * rates.completion
           cost == FloorMicros(tenths, premium)
           by_rate == Charge(price, usage.prompt, usage.completion, usage.cached)
           bill == IF IsFree(price) THEN 0 ELSE Bill(by_rate, cost)
           fair == Charge(work.price, usage.prompt, usage.completion, usage.cached)
           same == price = work.price
<1>6. \/ work' = [work EXCEPT !.at = "failed"]
      \/ /\ l # {}
         /\ work' = [work EXCEPT !.at = "billed", !.cost = cost, !.bill = bill, !.fair = fair,
                                !.same = same]
  BY <1>3
<1>7. usage \in Usages
  BY <1>4, <1>5, ReconciledTyped
<1>8. price \in Prices
  <2>1. Exact(registry, work.id) \subseteq DOMAIN registry /\ NoPrice \in Prices
    BY DEF Exact, NoPrice, Prices
  <2>2. Exact(registry, work.id) # {} => First(registry, Exact(registry, work.id)) \in Models
    BY <2>1, FirstTyped DEF MarketTypes
  <2> QED  BY <2>1, <2>2 DEF PriceRun, Models
<1>9. l # {} => rates \in UpstreamRates
  <2>1. l \subseteq DOMAIN upstream
    BY DEF Exact
  <2>2. l # {} => First(upstream, l) \in Models
    BY <2>1, FirstTyped DEF MarketTypes
  <2> HIDE DEF l
  <2> QED  BY <2>2 DEF Models, Listings
<1> HIDE DEF l, rates, price, usage
<1>10. l # {} => tenths \in Nat
  <2>1. theirs.prompt \in Nat /\ theirs.completion \in Nat
    BY <1>5 DEF Usages
  <2>2. l # {} => rates.prompt \in Nat /\ rates.completion \in Nat
    BY <1>9 DEF UpstreamRates
  <2> QED  BY <2>1, <2>2
<1> HIDE DEF tenths
<1>11. l # {} => cost \in Int
  <2>1. premium \in Nat
    BY MarketAssumption
  <2> QED  BY <1>10, <2>1, FloorInteger
<1>12. by_rate \in Nat /\ fair \in Nat /\ (price = work.price => by_rate = fair)
  <2>1. usage.prompt \in Nat /\ usage.completion \in Nat /\ usage.cached \in Nat
    BY <1>7 DEF Usages
  <2>2. work.price \in Prices
    BY <1>1 DEF Works
  <2> QED  BY <1>8, <2>1, <2>2, ChargeNatural
<1> HIDE DEF cost, by_rate, fair
<1>13. l # {} => bill \in Int
  <2>1. work.delta \in Int
    BY <1>1 DEF Works
  <2>2. by_rate \in Int
    BY <1>12
  <2>3. l # {} => Bill(by_rate, cost) \in Int
    BY <1>11, <2>1, <2>2, BillBounded
  <2> QED  BY <2>3
<1>14. same \in BOOLEAN
  BY ZenonT(30)
<1>15. ASSUME l # {}, bill # 0, same, work.delta = work.ceiling, fair # 0,
              cost <= (fair * 3) \div 2
       PROVE  bill <= (fair * 3) \div 2 /\ bill <= work.ceiling
  <2>1. ~IsFree(price) /\ bill = Bill(by_rate, cost)
    BY <1>15
  <2>2. work.ceiling \in Nat /\ work.ceiling # 0 /\ work.delta >= 1 /\ work.delta \in Int
    <3>1. work.ceiling \in Nat /\ work.ceiling # 0
      BY <1>1, <1>15, <2>1 DEF BillInv, LockedFor, Works
    <3> QED  BY <1>15, <3>1
  <2> DEFINE most == (fair * 3) \div 2
  <2>3. most \in Int /\ fair <= most /\ 1 <= most
    BY <1>12, <1>15, HalfAgain
  <2>4. by_rate <= most /\ cost <= most
    BY <1>12, <1>15, <2>3
  <2> HIDE DEF most
  <2>5. by_rate \in Int /\ cost \in Int
    BY <1>11, <1>12, <1>15
  <2>6. Bill(by_rate, cost) <= most /\ Bill(by_rate, cost) <= work.delta
    BY <2>2, <2>3, <2>4, <2>5, BillBounded
  <2> QED  BY <1>15, <2>1, <2>6 DEF most
<1> HIDE DEF bill, same
<1>16. CASE work' = [work EXCEPT !.at = "failed"]
  <2>1. work' \in Works /\ work'.at = "failed"
    BY <1>1, <1>16 DEF Works
  <2> QED  BY <2>1 DEF BillInv, LockedFor, BilledWithin, BillsAreAccepted
<1>17. CASE /\ l # {}
            /\ work' = [work EXCEPT !.at = "billed", !.cost = cost, !.bill = bill, !.fair = fair,
                                   !.same = same]
  <2>1. /\ work' \in Works /\ work'.at = "billed" /\ work'.kind = "llm"
        /\ work'.cost = cost /\ work'.bill = bill /\ work'.fair = fair /\ work'.same = same
        /\ work'.delta = work.delta /\ work'.ceiling = work.ceiling
    BY <1>1, <1>11, <1>12, <1>13, <1>14, <1>17 DEF Works
  <2>2. BilledWithin'
    <3>1. CASE cost <= (fair * 3) \div 2
      BY <1>15, <1>17, <2>1, <3>1 DEF BilledWithin, Excused
    <3>2. CASE ~(cost <= (fair * 3) \div 2)
      <4>1. cost > (fair * 3) \div 2
        BY <1>11, <1>12, <1>17, <3>2, HalfAgain
      <4> QED  BY <2>1, <4>1 DEF BilledWithin, Excused
    <3> QED  BY <3>1, <3>2
  <2> QED  BY <2>1, <2>2 DEF BillInv, LockedFor, BillsAreAccepted
<1> QED  BY <1>6, <1>16, <1>17

\* A clip is billed at most what the node would quote for it now.
LEMMA ClipBills ==
    ASSUME work \in Works, LockedFor, work.at = "admitted", work.kind = "video",
           NEW listing \in Listings, NEW m \in Models,
           NEW sku \in Fitting(listing.skus, work.shape), work' = ClipRuns(listing, m, sku)
    PROVE  BillInv'
<1>1. work.shape \in Shapes
  BY DEF LockedFor
<1> DEFINE flat == ClipCents(m, work.shape) * 10000
           fair == work.clip * 10000
           same == SameClip(listing, m)
           asked == SkuRate(sku) * work.shape.seconds
           least == sku.least * 100
           cost == (Max({asked, least}) * Markup) \div 10
           by_rate == Min({cost, flat})
           bill == Bill(by_rate, 0)
<1>3. work' = [work EXCEPT !.at = "billed", !.cost = cost, !.fair = fair, !.bill = bill,
                 !.same = same]
  BY DEF ClipRuns
<1>4. asked \in Nat /\ least \in Nat
  <2>1. sku \in Skus
    BY DEF Fitting, Listings
  <2>2. SkuRate(sku) \in Nat /\ sku.least \in Nat /\ work.shape.seconds \in Nat
    BY <1>1, <2>1, MarketAssumption DEF Skus, SkuRate
  <2> QED  BY <2>2
<1> HIDE DEF asked, least
<1>5. cost \in Nat
  <2> DEFINE paid == Max({asked, least}) * Markup
  <2>1. Max({asked, least}) \in Nat /\ Markup \in Nat
    BY <1>4, NaturalPair, MarketAssumption
  <2>2. paid \in Nat
    BY <2>1
  <2> HIDE DEF paid
  <2>3. paid \div 10 \in Nat
    BY <2>2
  <2> QED  BY <2>3 DEF paid
<1>6. flat \in Nat /\ fair \in Nat
  <2>1. ClipCents(m, work.shape) \in Nat
    BY <1>1, ClipCentsTyped
  <2>2. work.clip \in Nat
    BY DEF Works
  <2> QED  BY <2>1, <2>2
<1>7. same \in BOOLEAN
  BY DEF SameClip
<1>7a. same => flat = fair
  BY DEF SameClip
<1> HIDE DEF cost, flat, fair, same
<1>8. by_rate \in Int /\ by_rate <= flat
  <2>1. cost \in Int /\ flat \in Int
    BY <1>5, <1>6
  <2> QED  BY <2>1, LesserOfTwo
<1> HIDE DEF by_rate
<1>9. work.delta \in Int /\ work.ceiling \in Nat
  BY DEF Works
<1>10. bill \in Int
  BY <1>8, <1>9, BillBounded
<1>11. ASSUME same, work.delta = work.ceiling, fair # 0
       PROVE  bill <= (fair * 3) \div 2 /\ bill <= work.ceiling
  <2>1. work.ceiling # 0 /\ work.delta >= 1
    <3>1. work.ceiling # 0
      BY DEF LockedFor
    <3> QED  BY <1>9, <1>11, <3>1
  <2> DEFINE most == (fair * 3) \div 2
  <2>2. most \in Int /\ fair <= most /\ 1 <= most
    BY <1>6, <1>11, HalfAgain
  <2>3. by_rate <= most /\ 0 <= most
    BY <1>6, <1>7a, <1>8, <1>11, <2>2
  <2> HIDE DEF most
  <2>4. Bill(by_rate, 0) <= most /\ Bill(by_rate, 0) <= work.delta
    <3>1. 0 \in Int
      OBVIOUS
    <3> QED  BY <1>8, <1>9, <2>1, <2>2, <2>3, <3>1, BillBounded
  <2> QED  BY <1>11, <2>4 DEF most
<1> HIDE DEF bill
<1>12. /\ work' \in Works /\ work'.at = "billed"
       /\ work'.bill = bill /\ work'.fair = fair /\ work'.same = same
       /\ work'.delta = work.delta /\ work'.ceiling = work.ceiling
  <2>1. cost \in Int /\ fair \in Nat /\ bill \in Int /\ same \in BOOLEAN
    BY <1>5, <1>6, <1>7, <1>10
  <2>2. work' \in Works
    BY <1>3, <2>1 DEF Works
  <2> QED  BY <1>3, <2>2 DEF Works
<1>13. BilledWithin'
  BY <1>11, <1>12 DEF BilledWithin, Excused
<1> QED  BY <1>12, <1>13 DEF BillInv, LockedFor, BillsAreAccepted

LEMMA RunClipBills ==
    ASSUME MarketTypes, BillInv, RunClip
    PROVE  BillInv'
<1>1. work \in Works /\ LockedFor /\ work.at = "admitted" /\ work.kind = "video"
  BY DEF BillInv, RunClip
<1> DEFINE l == {k \in Exact(upstream, work.id) : upstream[k].kind = "video"}
           listing == First(upstream, l).listing
           m == CHOOSE x \in ListedPrice(work.id) : TRUE
<1>2. \/ work' = [work EXCEPT !.at = "failed"]
      \/ /\ l # {} /\ ListedPrice(work.id) # {}
         /\ \E sku \in Fitting(listing.skus, work.shape) : work' = ClipRuns(listing, m, sku)
  BY DEF RunClip
<1>3. CASE work' = [work EXCEPT !.at = "failed"]
  <2>1. work' \in Works /\ work'.at = "failed"
    BY <1>1, <1>3 DEF Works
  <2> QED  BY <2>1 DEF BillInv, LockedFor, BilledWithin, BillsAreAccepted
<1>4. CASE /\ l # {} /\ ListedPrice(work.id) # {}
           /\ \E sku \in Fitting(listing.skus, work.shape) : work' = ClipRuns(listing, m, sku)
  <2>1. m \in Models
    BY <1>4, ListedTyped
  <2>2. listing \in Listings
    <3>1. l \subseteq DOMAIN upstream
      BY DEF Exact
    <3>2. First(upstream, l) \in Models
      BY <1>4, <3>1, FirstTyped DEF MarketTypes
    <3> QED  BY <3>2 DEF Models
  <2> HIDE DEF m, listing
  <2> QED  BY <1>1, <1>4, <2>1, <2>2, ClipBills
<1> QED  BY <1>2, <1>3, <1>4

\* What is within both limits is not disputed.
LEMMA CheckBills ==
    ASSUME MarketTypes, BillInv, Check
    PROVE  BillInv'
<1> DEFINE verdict == IF work.bill = 0 THEN "free"
                      ELSE IF work.bill <= (work.fair * 3) \div 2 /\ work.bill <= work.ceiling
                      THEN "accepted" ELSE "disputed"
<1>1. work \in Works /\ work.at = "billed" /\ work' = [work EXCEPT !.at = verdict]
  BY DEF BillInv, Check
<1>2. verdict = "disputed" =>
        work.bill # 0 /\ ~(work.bill <= (work.fair * 3) \div 2 /\ work.bill <= work.ceiling)
  OBVIOUS
<1>3. verdict \in {"free", "accepted", "disputed"}
  OBVIOUS
<1> HIDE DEF verdict
<1>4. /\ work' \in Works /\ work'.at = verdict /\ work'.kind = work.kind
      /\ work'.bill = work.bill /\ work'.fair = work.fair /\ work'.same = work.same
      /\ work'.cost = work.cost /\ work'.delta = work.delta /\ work'.ceiling = work.ceiling
  BY <1>1, <1>3 DEF Works
<1>5. BillsAreAccepted'
  BY <1>1, <1>2, <1>4 DEF BillInv, BilledWithin, Excused, BillsAreAccepted
<1> QED  BY <1>3, <1>4, <1>5 DEF BillInv, LockedFor, BilledWithin

LEMMA RestBills ==
    ASSUME BillInv, work' = work \/ work' = NoWork
    PROVE  BillInv'
<1>1. CASE work' = work
  BY <1>1 DEF BillInv, LockedFor, BilledWithin, Excused, BillsAreAccepted
<1>2. CASE work' = NoWork
  <2>1. work' \in Works /\ work'.at = "idle"
    BY <1>2, NoWorkTyped
  <2> QED  BY <2>1 DEF BillInv, LockedFor, BilledWithin, BillsAreAccepted
<1> QED  BY <1>1, <1>2

(* A bill that comes of prices both ends hold, of a bond both ends agree on and *)
(* of costs within half above the list is never refused by the app, however the *)
(* tokens were counted, whatever was cached and wherever a cap cut it           *)
(* (bill_micros, capture_chunk and reconcile against pay_invoice).              *)
THEOREM HonestBillsAreAccepted == MarketSpec => []BillsAreAccepted
<1>1. MarketInit => MarketTypes /\ BillInv
  BY MarketStarts
<1>2. MarketTypes /\ BillInv /\ [MarketNext]_marketVars => MarketTypes' /\ BillInv'
  <2> SUFFICES ASSUME MarketTypes, BillInv, [MarketNext]_marketVars
               PROVE  MarketTypes' /\ BillInv'
    OBVIOUS
  <2>1. MarketTypes'
    BY MarketTyped
  <2>2. CASE Edit \/ Refresh \/ Probe \/ UNCHANGED marketVars
    <3>1. work' = work
      BY <2>2 DEF Edit, Refresh, Probe, marketVars
    <3> QED  BY <2>1, <3>1, RestBills
  <2>3. CASE Again
    BY <2>1, <2>3, RestBills DEF Again
  <2> QED
    BY <2>1, <2>2, <2>3, LocksBill, AdmitBills, RunChatBills, RunClipBills, CheckBills
       DEF MarketNext
<1>3. BillInv => BillsAreAccepted
  BY DEF BillInv
<1> QED  BY <1>1, <1>2, <1>3, PTL DEF MarketSpec


(***************************************************************************)
(* The wallet screen                                                       *)
(***************************************************************************)

\* Figures of one wallet, as a screen or the memo holds them.
Figures == [client : Found, balance : Found, reserved : Found]
Deposits == [client : Wallets, block : Nat]
Memos == [client : Found, balance : Found, reserved : Found, fresh : BOOLEAN]
Calls == [client : Found, last : {<<>>} \cup {<<m>> : m \in Memos},
          balance : {<<>>} \cup {<<b>> : b \in Found}]

Own(figures) ==
    /\ figures.balance \in {Nobody, figures.client}
    /\ figures.reserved \in {Nobody, figures.client}

\* Every figure anywhere on its way to a screen is that of the wallet beside it:
\* remembered, carried by a call from what was remembered, or read.
MemoOwn == memo # <<>> => Own(memo[1])
CallsOwn ==
    \A s \in Screens : calls[s] # <<>> =>
        /\ calls[s][1].last # <<>> => Own(calls[s][1].last[1])
        /\ calls[s][1].balance # <<>> => calls[s][1].balance[1] \in {Nobody, calls[s][1].client}
ShowTypes ==
    /\ picked \in Found /\ memo \in {<<>>} \cup {<<m>> : m \in Memos}
    /\ deposits \in Seq(Deposits)
    /\ calls \in [Screens -> {<<>>} \cup {<<c>> : c \in Calls}]
    /\ shown \in [Screens -> Figures]
    /\ block \in Nat
ShowInv == ShowTypes /\ MemoOwn /\ CallsOwn /\ ShownIsTheWallets

\* The wallet a call is about is one of the wallets, or nobody.
LEMMA ResolvedFound ==
    ASSUME ShowTypes
    PROVE  Resolved(memo) \subseteq Found /\ LastDepositClient \in Found
<1>1. LastDepositClient \in Found
  <2>1. ASSUME deposits # <<>> PROVE deposits[Len(deposits)].client \in Wallets
    <3>1. deposits \in Seq(Deposits)
      BY DEF ShowTypes
    <3>2. Len(deposits) \in 1..Len(deposits)
      BY <2>1, <3>1, EmptySeq
    <3>3. deposits[Len(deposits)] \in Deposits
      BY <3>1, <3>2, ElementOfSeq
    <3> QED  BY <3>3 DEF Deposits
  <2> QED  BY <2>1 DEF LastDepositClient, Found, Nobody
<1>2. memo # <<>> => memo[1].client \in Found
  BY DEF ShowTypes, Memos
<1> QED  BY <1>1, <1>2 DEF Resolved, ShowTypes

LEMMA ShowStarts == WalletInit => ShowInv
  BY DEF WalletInit, ShowInv, ShowTypes, MemoOwn, CallsOwn, ShownIsTheWallets, Figures,
         NoStatus, Nobody, Found

\* Switching wallets forgets the memo and touches no call.
LEMMA SwitchShows ==
    ASSUME ShowInv, NEW w \in Wallets, PickWallet(w) \/ NoteDeposit(w)
    PROVE  ShowInv'
<1>1. CASE PickWallet(w)
  BY <1>1 DEF PickWallet, ShowInv, ShowTypes, MemoOwn, CallsOwn, ShownIsTheWallets, Found,
              scanVars, Nobody
<1>2. CASE NoteDeposit(w)
  <2> DEFINE d == [client |-> w, block |-> block]
  <2>1. d \in Deposits /\ deposits' = Append(deposits, d) /\ deposits \in Seq(Deposits)
    BY <1>2 DEF NoteDeposit, ShowInv, ShowTypes, Deposits
  <2> HIDE DEF d
  <2>2. deposits' \in Seq(Deposits)
    BY <2>1, AppendProperties
  <2> QED
    BY <1>2, <2>2 DEF NoteDeposit, ShowInv, ShowTypes, MemoOwn, CallsOwn, ShownIsTheWallets,
                showVars, scanVars
<1> QED  BY <1>1, <1>2

LEMMA MemoShows ==
    ASSUME ShowInv, NEW s \in Screens, StatusMemo(s)
    PROVE  ShowInv'
<1> DEFINE st == [client |-> memo[1].client, balance |-> memo[1].balance,
                  reserved |-> memo[1].reserved]
<1>1. st \in Figures /\ Own(st)
  BY DEF StatusMemo, ShowInv, ShowTypes, MemoOwn, Memos, Figures, Own
<1>2. shown' = [shown EXCEPT ![s] = st]
  BY DEF StatusMemo
<1> HIDE DEF st
<1>3. shown' \in [Screens -> Figures] /\ ShownIsTheWallets'
  BY <1>1, <1>2 DEF ShowInv, ShowTypes, ShownIsTheWallets, Own
<1> QED
  BY <1>3 DEF StatusMemo, ShowInv, ShowTypes, MemoOwn, CallsOwn, scanVars

LEMMA BeginShows ==
    ASSUME ShowInv, NEW s \in Screens, StatusBegin(s)
    PROVE  ShowInv'
<1>1. PICK c \in Resolved(memo) :
        calls' = [calls EXCEPT ![s] = <<[client |-> c, last |-> memo, balance |-> <<>>]>>]
  BY DEF StatusBegin
<1> DEFINE call == [client |-> c, last |-> memo, balance |-> <<>>]
<1>2. call \in Calls
  BY ResolvedFound DEF ShowInv, ShowTypes, Calls
<1>3. calls' \in [Screens -> {<<>>} \cup {<<x>> : x \in Calls}]
  BY <1>1, <1>2 DEF ShowInv, ShowTypes
<1>4. CallsOwn'
  BY <1>1 DEF ShowInv, ShowTypes, MemoOwn, CallsOwn
<1> QED
  BY <1>3, <1>4 DEF StatusBegin, ShowInv, ShowTypes, MemoOwn, ShownIsTheWallets, scanVars

\* A balance is read for the call's own wallet, missing, or carried from a figure
\* that was the same wallet's.
LEMMA BalanceShows ==
    ASSUME ShowInv, NEW s \in Screens, StatusBalance(s)
    PROVE  ShowInv'
<1>1. PICK b \in Readings(calls[s][1]) :
        calls' = [calls EXCEPT ![s] = <<[calls[s][1] EXCEPT !.balance = <<b>>]>>]
  BY DEF StatusBalance
<1> DEFINE call == calls[s][1]
<1>2. call \in Calls /\ (call.last # <<>> => Own(call.last[1]) /\ call.last[1] \in Memos)
  BY DEF StatusBalance, ShowInv, ShowTypes, CallsOwn, Calls
<1>3. b \in Found /\ b \in {Nobody, call.client}
  BY <1>2 DEF Readings, Carried, Own, Calls, Memos, Found, Nobody
<1> DEFINE next == [call EXCEPT !.balance = <<b>>]
<1>4. /\ next \in Calls /\ next.balance = <<b>> /\ next.client = call.client
      /\ next.last = call.last
  BY <1>2, <1>3 DEF Calls
<1>5. calls' = [calls EXCEPT ![s] = <<next>>]
  BY <1>1
<1> HIDE DEF next
<1>6. calls' \in [Screens -> {<<>>} \cup {<<x>> : x \in Calls}]
  BY <1>4, <1>5 DEF ShowInv, ShowTypes
<1>7. CallsOwn'
  BY <1>2, <1>3, <1>4, <1>5 DEF ShowInv, ShowTypes, CallsOwn
<1> QED
  BY <1>6, <1>7 DEF StatusBalance, ShowInv, ShowTypes, MemoOwn, ShownIsTheWallets, scanVars

LEMMA EndShows ==
    ASSUME ShowInv, NEW s \in Screens, StatusEnd(s)
    PROVE  ShowInv'
<1> DEFINE call == calls[s][1]
<1>1. /\ call \in Calls /\ call.balance # <<>> /\ call.balance[1] \in Found
      /\ call.balance[1] \in {Nobody, call.client}
      /\ call.last # <<>> => Own(call.last[1]) /\ call.last[1] \in Memos
  BY DEF StatusEnd, ShowInv, ShowTypes, CallsOwn, Calls
<1>2. PICK r \in LockReadings(call), reachable \in BOOLEAN :
        LET st == [client |-> call.client, balance |-> call.balance[1], reserved |-> r]
        IN  /\ shown' = [shown EXCEPT ![s] = st]
            /\ memo' = IF reachable /\ ~SelectionMoved(st.client)
                       THEN <<[client |-> st.client, balance |-> st.balance,
                               reserved |-> r, fresh |-> TRUE]>>
                       ELSE memo
  BY DEF StatusEnd
<1>3. r \in Found /\ r \in {Nobody, call.client}
  BY <1>1 DEF LockReadings, Carried, Own, Calls, Memos, Found, Nobody
<1> DEFINE st == [client |-> call.client, balance |-> call.balance[1], reserved |-> r]
           noted == [client |-> call.client, balance |-> call.balance[1], reserved |-> r,
                    fresh |-> TRUE]
<1>4. st \in Figures /\ Own(st) /\ noted \in Memos /\ Own(noted)
  BY <1>1, <1>3 DEF Figures, Memos, Own, Calls
<1>5. shown' = [shown EXCEPT ![s] = st] /\ memo' \in {memo, <<noted>>}
  BY <1>2
<1> HIDE DEF st, noted
<1>6. shown' \in [Screens -> Figures] /\ ShownIsTheWallets'
  BY <1>4, <1>5 DEF ShowInv, ShowTypes, ShownIsTheWallets, Own
<1>7. memo' \in {<<>>} \cup {<<m>> : m \in Memos} /\ MemoOwn'
  BY <1>4, <1>5 DEF ShowInv, ShowTypes, MemoOwn
<1>8. calls' = [calls EXCEPT ![s] = <<>>]
  BY DEF StatusEnd
<1>9. calls' \in [Screens -> {<<>>} \cup {<<x>> : x \in Calls}] /\ CallsOwn'
  BY <1>8 DEF ShowInv, ShowTypes, CallsOwn
<1> QED
  BY <1>6, <1>7, <1>9 DEF StatusEnd, ShowInv, ShowTypes, scanVars

LEMMA AgeShows ==
    ASSUME ShowInv, MemoAges
    PROVE  ShowInv'
<1> DEFINE aged == [memo[1] EXCEPT !.fresh = FALSE]
<1>1. memo[1] \in Memos /\ Own(memo[1]) /\ memo' = <<aged>>
  BY DEF MemoAges, ShowInv, ShowTypes, MemoOwn
<1>2. aged \in Memos /\ Own(aged)
  BY <1>1 DEF Memos, Own
<1> HIDE DEF aged
<1>3. memo' \in {<<>>} \cup {<<m>> : m \in Memos} /\ MemoOwn'
  BY <1>1, <1>2 DEF MemoOwn
<1> QED
  BY <1>3 DEF MemoAges, ShowInv, ShowTypes, CallsOwn, ShownIsTheWallets, scanVars

\* What no screen is part of: the chain and the scans.
ScreensRest == UNCHANGED <<picked, deposits, switches, showVars>> /\ block' \in Nat
LEMMA ScansShow ==
    ASSUME ShowInv, ScreensRest
    PROVE  ShowInv'
  BY DEF ScreensRest, ShowInv, ShowTypes, MemoOwn, CallsOwn, ShownIsTheWallets, showVars

LEMMA ShowStep == ShowInv /\ [WalletNext]_walletVars => ShowInv'
<1> SUFFICES ASSUME ShowInv, [WalletNext]_walletVars PROVE ShowInv'
  OBVIOUS
<1>1. CASE ShowNext
  BY <1>1, SwitchShows, MemoShows, BeginShows, BalanceShows, EndShows, AgeShows DEF ShowNext
<1>2. block \in Nat
  BY DEF ShowInv, ShowTypes
<1>3. CASE Mine
  BY <1>2, <1>3, ScansShow DEF Mine, ScreensRest
<1>4. ASSUME NEW s \in Scanners, ScanStarts(s) \/ ScanSlice(s) \/ ScanBreaks(s) \/ ScanEnds(s)
      PROVE  ShowInv'
  <2>1. ScreensRest
    BY <1>2, <1>4 DEF ScanStarts, ScanSlice, ScanBreaks, ScanEnds, ScreensRest
  <2> QED  BY <2>1, ScansShow
<1>5. CASE UNCHANGED walletVars
  BY <1>2, <1>5, ScansShow DEF walletVars, scanVars, ScreensRest
<1> QED
  BY <1>1, <1>3, <1>4, <1>5, SwitchShows DEF WalletNext, ScanNext

\* However reads fail and the deposit page switches under them, no screen shows
\* one wallet's figure beside another's name (pot.rs status).
THEOREM FiguresKeepTheirWallet == WalletSpec => []ShownIsTheWallets
<1>1. WalletInit => ShowInv
  BY ShowStarts
<1>2. ShowInv /\ [WalletNext]_walletVars => ShowInv'
  BY ShowStep
<1>3. ShowInv => ShownIsTheWallets
  BY DEF ShowInv
<1> QED  BY <1>1, <1>2, <1>3, PTL DEF WalletSpec

(***************************************************************************)
(* The settle scan                                                         *)
(***************************************************************************)

Mineds == [client : Wallets, payout : Payouts, total : Nat, block : Nat]
Scans == [from : Nat, head : Nat, client : Wallets, found : Nat]

ScanTypes ==
    /\ block \in Nat /\ mined \in Seq(Mineds)
    /\ cursor \in {<<>>} \cup {<<n>> : n \in Nat}
    /\ scans \in [Scanners -> {<<>>} \cup {<<x>> : x \in Scans}]
    /\ scanned \in [wallets : SUBSET Wallets, origin : Nat]

\* Nobody has looked beyond the head, where the next event will be.
BelowHead ==
    /\ \A i \in DOMAIN mined : mined[i].block <= block
    /\ cursor # <<>> => cursor[1] <= block + 1
    /\ \A s \in Scanners : scans[s] # <<>> =>
          scans[s][1].head <= block /\ scans[s][1].from <= block + 1

\* Every scan is for a wallet that was noted, so none came before the first.
ScansNoted ==
    /\ \A s \in Scanners : scans[s] # <<>> => scans[s][1].client \in scanned.wallets
    /\ scanned.wallets = {} => cursor = <<>>

\* What lies before `to` is in the ledger, as long as one wallet was scanned for.
StoredBelow(events, noted, table, to) ==
    \A i \in DOMAIN events :
        (/\ events[i].block \in noted.origin..(to - 1)
         /\ noted.wallets = {events[i].client}) => i \in table

\* The cursor, and every scan under way, has everything behind it.
ScanInv ==
    /\ ScanTypes /\ BelowHead /\ ScansNoted
    /\ cursor # <<>> => StoredBelow(mined, scanned, ledger, cursor[1])
    /\ \A s \in Scanners : scans[s] # <<>> => StoredBelow(mined, scanned, ledger, scans[s][1].from)

\* A scan begins at a block.
LEMMA ScanFromBlock ==
    ASSUME ShowTypes, ScanTypes
    PROVE  ScanFrom \in Nat
<1> DEFINE known == {deposits[i].block : i \in DOMAIN deposits} \ {0}
<1>1. known \in SUBSET Nat
  <2>1. \A i \in DOMAIN deposits : deposits[i] \in Deposits
    BY ElementOfSeq DEF ShowTypes
  <2> QED  BY <2>1 DEF Deposits
<1>2. known # {} => Min(known) \in Nat
  <2> HIDE DEF known
  <2> QED  BY <1>1, LeastNatural
<1>3. ScanFrom = IF cursor # <<>> THEN cursor[1] ELSE IF known = {} THEN 1 ELSE Min(known)
  BY DEF ScanFrom
<1> HIDE DEF known
<1> QED  BY <1>2, <1>3 DEF ScanTypes

\* A slice ends within what the scan asked for.
LEMMA SliceEnds ==
    ASSUME NEW scan \in Scans, scan.from <= scan.head
    PROVE  SliceEnd(scan) \in scan.from..scan.head
<1> DEFINE last == scan.from + Span - 1
<1>1. last \in Int /\ last >= scan.from /\ scan.head \in Int /\ scan.from \in Int
  BY WalletAssumption DEF Scans
<1>2. SliceEnd(scan) = Min({last, scan.head})
  BY DEF SliceEnd
<1> HIDE DEF last
<1>3. /\ Min({last, scan.head}) \in {last, scan.head}
      /\ Min({last, scan.head}) <= last /\ Min({last, scan.head}) <= scan.head
  BY <1>1, LesserOfTwo
<1> QED  BY <1>1, <1>2, <1>3

\* How many events a slice has is a number.
LEMMA HitsCounted ==
    ASSUME ScanTypes, NEW scan \in Scans, NEW to
    PROVE  Cardinality(Matching(scan, to)) \in Nat
<1>1. IsFiniteSet(DOMAIN mined)
  <2>1. DOMAIN mined = 1..Len(mined) /\ Len(mined) \in Nat
    BY DEF ScanTypes
  <2> QED  BY <2>1, FS_Interval
<1>2. IsFiniteSet(Matching(scan, to))
  BY <1>1, FS_Subset DEF Matching
<1> QED  BY <1>2, FS_CardinalityType

LEMMA EventsTyped ==
    ASSUME ScanTypes
    PROVE  \A i \in DOMAIN mined : mined[i] \in Mineds
  BY ElementOfSeq DEF ScanTypes

LEMMA ScanInits == WalletInit => ScanInv
  BY DEF WalletInit, ScanInv, ScanTypes, BelowHead, ScansNoted, StoredBelow

\* A new event is above all that was looked at.
LEMMA MineKeeps ==
    ASSUME ScanInv, Mine
    PROVE  ScanInv'
<1>1. /\ block \in Nat /\ block' = block + 1 /\ mined \in Seq(Mineds)
      /\ UNCHANGED <<cursor, scans, ledger, scanned>>
  BY DEF Mine, ScanInv, ScanTypes
<1> DEFINE Grown == /\ mined' \in Seq(Mineds) /\ DOMAIN mined \subseteq DOMAIN mined'
                    /\ \A i \in DOMAIN mined : mined'[i] = mined[i]
                    /\ \A i \in DOMAIN mined' \ DOMAIN mined : mined'[i].block = block + 1
<1>2. Grown
  <2>1. CASE mined' = mined
    BY <1>1, <2>1
  <2>2. ASSUME NEW w \in Wallets, NEW p \in Payouts,
               mined' = Append(mined, [client |-> w, payout |-> p,
                                       total |-> Len(mined) + 1, block |-> block'])
        PROVE  Grown
    <3> DEFINE e == [client |-> w, payout |-> p, total |-> Len(mined) + 1, block |-> block']
    <3>1. e \in Mineds /\ e.block = block + 1
      BY <1>1 DEF Mineds
    <3>2. mined' = Append(mined, e)
      BY <2>2
    <3> HIDE DEF e
    <3>3. /\ mined' \in Seq(Mineds) /\ Len(mined') = Len(mined) + 1
          /\ \A i \in 1..Len(mined) : mined'[i] = mined[i]
          /\ mined'[Len(mined) + 1] = e
      BY <1>1, <3>1, <3>2, AppendProperties
    <3> QED  BY <1>1, <3>1, <3>3
  <2> QED  BY <2>1, <2>2 DEF Mine
<1>3. ScanTypes'
  BY <1>1, <1>2 DEF ScanInv, ScanTypes
<1>4. BelowHead'
  <2>1. \A i \in DOMAIN mined : mined[i].block \in Nat /\ mined[i].block <= block
    BY EventsTyped DEF ScanInv, BelowHead, Mineds
  <2>2. \A i \in DOMAIN mined' : mined'[i].block <= block'
    BY <1>1, <1>2, <2>1
  <2> QED
    BY <1>1, <2>2 DEF ScanInv, ScanTypes, BelowHead, Scans
<1>5. ASSUME NEW to \in Nat, to <= block + 1, StoredBelow(mined, scanned, ledger, to)
      PROVE  StoredBelow(mined', scanned', ledger', to)
  BY <1>1, <1>2, <1>5 DEF StoredBelow, ScanInv, ScanTypes
<1>6. cursor' # <<>> => StoredBelow(mined', scanned', ledger', cursor'[1])
  BY <1>1, <1>5 DEF ScanInv, ScanTypes, BelowHead
<1>7. \A t \in Scanners : scans'[t] # <<>> =>
          StoredBelow(mined', scanned', ledger', scans'[t][1].from)
  BY <1>1, <1>5 DEF ScanInv, ScanTypes, BelowHead, Scans
<1> QED
  BY <1>1, <1>3, <1>4, <1>6, <1>7 DEF ScanInv, ScansNoted

\* A scan starts at the cursor, or, with no cursor yet, where the history begins.
LEMMA ScanStartKeeps ==
    ASSUME ShowTypes, ScanInv, NEW s \in Scanners, ScanStarts(s)
    PROVE  ScanInv'
<1> DEFINE scan == [from |-> ScanFrom, head |-> block, client |-> Client[1], found |-> 0]
<1>1. ScanFrom \in Nat /\ ScanFrom <= block
  BY ScanFromBlock DEF ScanInv, ScanStarts
<1>2. Client[1] \in Wallets
  <2>1. LastDepositClient \in Found
    BY ResolvedFound
  <2> QED  BY <2>1 DEF Client, ScanStarts, ShowTypes, Found, Nobody
<1>3. scan \in Scans /\ scan.from = ScanFrom /\ scan.head = block /\ scan.client = Client[1]
  BY <1>1, <1>2 DEF Scans, ScanInv, ScanTypes
<1>4. /\ scans' = [scans EXCEPT ![s] = <<scan>>]
      /\ UNCHANGED <<block, mined, cursor, ledger>>
  BY DEF ScanStarts
<1> HIDE DEF scan
<1> DEFINE origin == IF cursor = <<>> THEN Max({ScanFrom, scanned.origin}) ELSE scanned.origin
<1>5. scanned' = [wallets |-> scanned.wallets \cup {Client[1]}, origin |-> origin]
  BY DEF ScanStarts
<1>6. /\ origin \in Nat /\ origin >= scanned.origin
      /\ cursor = <<>> => origin >= ScanFrom
      /\ scanned.wallets \in SUBSET Wallets /\ scanned.origin \in Nat
  <2>1. ScanFrom \in Int /\ scanned.origin \in Nat /\ scanned.wallets \in SUBSET Wallets
    BY <1>1 DEF ScanInv, ScanTypes
  <2>2. /\ Max({ScanFrom, scanned.origin}) \in {ScanFrom, scanned.origin}
        /\ Max({ScanFrom, scanned.origin}) >= ScanFrom
        /\ Max({ScanFrom, scanned.origin}) >= scanned.origin
    BY <2>1, GreaterOfTwo
  <2> QED  BY <1>1, <2>1, <2>2
<1> HIDE DEF origin
<1>7. /\ scanned'.wallets = scanned.wallets \cup {Client[1]} /\ scanned'.origin = origin
      /\ scanned' \in [wallets : SUBSET Wallets, origin : Nat]
  BY <1>2, <1>5, <1>6
<1>8. ScanTypes'
  BY <1>3, <1>4, <1>7 DEF ScanInv, ScanTypes
<1>9. BelowHead'
  BY <1>1, <1>3, <1>4 DEF ScanInv, ScanTypes, BelowHead
<1>10. ScansNoted'
  BY <1>3, <1>4, <1>7 DEF ScanInv, ScanTypes, ScansNoted
<1>11. ASSUME NEW to \in Nat, StoredBelow(mined, scanned, ledger, to), scanned.wallets # {}
       PROVE  StoredBelow(mined', scanned', ledger', to)
  <2>1. \A i \in DOMAIN mined : mined[i].block \in Nat /\ mined[i].client \in Wallets
    BY EventsTyped DEF ScanInv, Mineds
  <2>2. ASSUME NEW i \in DOMAIN mined, scanned'.wallets = {mined[i].client}
        PROVE  scanned.wallets = {mined[i].client}
    BY <1>7, <1>11, <2>2
  <2> QED  BY <1>4, <1>6, <1>7, <1>11, <2>1, <2>2 DEF StoredBelow
<1>12. cursor' # <<>> => StoredBelow(mined', scanned', ledger', cursor'[1])
  BY <1>4, <1>11 DEF ScanInv, ScanTypes, ScansNoted
<1>13. StoredBelow(mined', scanned', ledger', ScanFrom)
  <2>1. CASE cursor = <<>>
    BY <1>1, <1>4, <1>6, <1>7, <2>1 DEF StoredBelow, ScanInv, ScanTypes, Mineds
  <2>2. CASE cursor # <<>>
    <3>1. ScanFrom = cursor[1]
      BY <2>2 DEF ScanFrom
    <3> QED  BY <1>4, <1>12, <2>2, <3>1
  <2> QED  BY <2>1, <2>2
<1>14. ASSUME NEW t \in Scanners, scans'[t] # <<>> PROVE StoredBelow(mined', scanned', ledger', scans'[t][1].from)
  <2>1. CASE t = s
    BY <1>3, <1>4, <1>13, <2>1 DEF ScanInv, ScanTypes
  <2>2. CASE t # s
    <3>1. scans'[t] = scans[t] /\ scans[t][1].from \in Nat /\ StoredBelow(mined, scanned, ledger, scans[t][1].from)
      BY <1>4, <1>14, <2>2 DEF ScanInv, ScanTypes, Scans
    <3>2. scanned.wallets # {}
      BY <1>14, <3>1 DEF ScanInv, ScansNoted
    <3> QED  BY <1>11, <3>1, <3>2
  <2> QED  BY <2>1, <2>2
<1> QED
  BY <1>8, <1>9, <1>10, <1>12, <1>14 DEF ScanInv

\* A slice stores what it finds before the cursor passes it.
LEMMA ScanSliceKeeps ==
    ASSUME ScanInv, NEW s \in Scanners, ScanSlice(s)
    PROVE  ScanInv'
<1> DEFINE scan == scans[s][1]
           to == SliceEnd(scan)
           hits == Matching(scan, to)
           next == [scan EXCEPT !.from = to + 1, !.found = @ + Cardinality(hits)]
<1>1. scan \in Scans /\ scan.from <= scan.head /\ scan.head <= block /\ scans[s] # <<>>
  BY DEF ScanSlice, ScanInv, ScanTypes, BelowHead
<1>2. to \in scan.from..scan.head /\ Cardinality(hits) \in Nat
  BY <1>1, SliceEnds, HitsCounted DEF ScanInv
<1>3. /\ ledger' = ledger \cup hits /\ cursor' = <<to + 1>>
      /\ scans' = [scans EXCEPT ![s] = <<next>>] /\ UNCHANGED <<block, mined, scanned>>
  BY DEF ScanSlice, WithEvents, NextFrom
<1>4. /\ next \in Scans /\ next.from = to + 1 /\ next.head = scan.head
      /\ next.client = scan.client
  <2> DEFINE from == to + 1
             found == scan.found + Cardinality(hits)
  <2> HIDE DEF scan, to, hits
  <2>1. from \in Nat /\ found \in Nat
    BY <1>1, <1>2 DEF Scans
  <2>2. next = [scan EXCEPT !.from = from, !.found = found]
    OBVIOUS
  <2> HIDE DEF from, found, next
  <2>3. /\ next \in Scans /\ next.from = from /\ next.head = scan.head
        /\ next.client = scan.client
    BY <1>1, <2>1, <2>2 DEF Scans
  <2> QED  BY <2>3 DEF from
<1>5. \A i \in DOMAIN mined :
        mined[i].client = scan.client /\ mined[i].block \in scan.from..to => i \in hits
  BY DEF Matching
<1>6. scan.client \in scanned.wallets /\ StoredBelow(mined, scanned, ledger, scan.from)
  BY <1>1 DEF ScanInv, ScansNoted
<1> HIDE DEF scan, to, hits, next
<1>7. StoredBelow(mined', scanned', ledger', to + 1)
  <2> SUFFICES ASSUME NEW i \in DOMAIN mined, mined[i].block \in scanned.origin..to,
                      scanned.wallets = {mined[i].client}, to + 1 - 1 = to
               PROVE  i \in ledger'
    BY <1>1, <1>2, <1>3 DEF StoredBelow, Scans
  <2>1. mined[i].client = scan.client /\ mined[i].block \in Nat
    BY <1>6 DEF ScanInv, ScanTypes, Mineds
  <2>2. CASE mined[i].block >= scan.from
    BY <1>1, <1>2, <1>3, <1>5, <2>1, <2>2 DEF Scans, ScanInv, ScanTypes
  <2>3. CASE mined[i].block < scan.from
    BY <1>1, <1>3, <1>6, <2>1, <2>3, SMTT(30) DEF StoredBelow, Scans, ScanInv, ScanTypes
  <2> QED  BY <1>1, <2>1, <2>2, <2>3 DEF Scans
<1>8. ScanTypes' /\ ScansNoted'
  BY <1>1, <1>2, <1>3, <1>4, <1>6 DEF ScanInv, ScanTypes, ScansNoted, Scans
<1>9. BelowHead'
  BY <1>1, <1>2, <1>3, <1>4 DEF ScanInv, ScanTypes, BelowHead, Scans
<1>10. ASSUME NEW t \in Scanners, scans'[t] # <<>> PROVE StoredBelow(mined', scanned', ledger', scans'[t][1].from)
  <2>1. CASE t = s
    BY <1>3, <1>4, <1>7, <2>1 DEF ScanInv, ScanTypes
  <2>2. CASE t # s
    BY <1>3, <1>10, <2>2 DEF ScanInv, ScanTypes, StoredBelow
  <2> QED  BY <2>1, <2>2
<1> QED
  BY <1>3, <1>7, <1>8, <1>9, <1>10 DEF ScanInv

\* A scan that breaks off or ends leaves the cursor, and the ledger only grows.
LEMMA ScanStopKeeps ==
    ASSUME ScanInv, NEW s \in Scanners, ScanBreaks(s) \/ ScanEnds(s)
    PROVE  ScanInv'
<1>1. /\ scans' = [scans EXCEPT ![s] = <<>>] /\ ledger \subseteq ledger'
      /\ UNCHANGED <<block, mined, cursor, scanned>>
  BY DEF ScanBreaks, ScanEnds, WithEvents
<1> QED
  BY <1>1 DEF ScanInv, ScanTypes, BelowHead, ScansNoted, StoredBelow

LEMMA ScanStep == ShowTypes /\ ScanInv /\ [WalletNext]_walletVars => ScanInv'
<1> SUFFICES ASSUME ShowTypes, ScanInv, [WalletNext]_walletVars PROVE ScanInv'
  OBVIOUS
<1>1. UNCHANGED scanVars => ScanInv'
  BY DEF scanVars, ScanInv, ScanTypes, BelowHead, ScansNoted, StoredBelow
<1>2. (\E w \in Wallets : PickWallet(w) \/ NoteDeposit(w)) \/ ShowNext => UNCHANGED scanVars
  BY DEF ShowNext, PickWallet, NoteDeposit, StatusMemo, StatusBegin, StatusBalance, StatusEnd,
         MemoAges
<1>3. UNCHANGED walletVars => UNCHANGED scanVars
  BY DEF walletVars
<1> QED
  BY <1>1, <1>2, <1>3, MineKeeps, ScanStartKeeps, ScanSliceKeeps, ScanStopKeeps
  DEF WalletNext, ScanNext

\* While one wallet is scanned for, no settle of it below the cursor is missing,
\* for any slices, failures and scans at once (pot.rs sync_settlements).
THEOREM ScansMissNothing == WalletSpec => []ScanMissesNothing
<1>1. WalletInit => ShowInv /\ ScanInv
  BY ShowStarts, ScanInits
<1>2. ShowInv /\ ScanInv /\ [WalletNext]_walletVars => ShowInv' /\ ScanInv'
  BY ShowStep, ScanStep DEF ShowInv
<1>3. ScanInv => ScanMissesNothing
  BY DEF ScanInv, StoredBelow, ScanMissesNothing
<1> QED  BY <1>1, <1>2, <1>3, PTL DEF WalletSpec

(***************************************************************************)
(* The table of peers                                                      *)
(***************************************************************************)

MenuOffers == [model : Seq(Nat), kind : {"llm", "image"}, price : Nat]
Options == [id : Nat \ {0}, model : Seq(Nat), price : Nat]
ListedMenus == Menus \cup {<<>>}
BookRows == [id : Nat, source : {"none", "manual", "discovered"},
             status : {"none", "unknown", "online", "offline"}, menu : ListedMenus,
             seen : {<<>>} \cup {<<n>> : n \in Nat}]
JobStages == {"none", "seen", "plan", "fetch", "try", "trying", "over"}
BookJobs ==
    [at : JobStages, tool : BOOLEAN, kind : {"llm", "image"}, model : Seq(Nat), id : Nat,
     menu : ListedMenus, same : SUBSET Options, free : SUBSET Options, offer : Nat, first : Nat,
     paid : Nat, since : SUBSET Nat, blur : SUBSET {"moved", "loose"}]

TaskRecords ==
    [at : {"idle", "look", "probe", "ask", "record", "insert", "write"}, sweep : BOOLEAN,
     todo : SUBSET Endpoints, endpoint : Endpoints \cup {<<>>}, id : Nat,
     got : {"none", "bare", "announce"}, menu : ListedMenus]

\* A task that asks a worker knows where it is.
Placed(task) == task.at \notin {"idle", "look"} => task.endpoint \in Endpoints

BookTypes ==
    /\ net \in [Workers -> [up : BOOLEAN, menu : Menus]]
    /\ rows \in Nat /\ clock \in Nat
    /\ book \in [Endpoints -> BookRows]
    /\ tasks \in [Tasks -> TaskRecords] /\ \A t \in Tasks : Placed(tasks[t])
    /\ job \in BookJobs

\* An id is given once.
IdsAreRows ==
    /\ \A e \in Endpoints : book[e].id <= rows
    /\ \A e, f \in Endpoints : book[e].id = book[f].id /\ book[e].id # 0 => e = f

\* The menu of a row still offers what was read of it.
Holds(menu, kind, model, price) ==
    \E i \in DOMAIN menu : menu[i].kind = kind /\ menu[i].model = model /\ menu[i].price = price

Begun ==
    /\ job.at = "none" => job = NoJob
    /\ job.at \in {"seen", "plan"} => ~job.tool /\ job.since = {}
    /\ job.tool => job.kind = "llm"
    /\ job.at \in {"seen", "plan", "fetch", "try"} => job.id # 0
    /\ job.at = "trying" => job.first # 0

\* Until the first try, a row no probe rewrote holds the offer.
OfferStands ==
    job.at \in {"seen", "plan", "fetch"} =>
        /\ job.id <= rows
        /\ job.id \notin job.since /\ "moved" \notin job.blur =>
              \A e \in ById(job.id) : Holds(book[e].menu, job.kind, job.model, job.offer)

\* The menu of the try to come holds an entry for the model that is within the offer.
Within(menu, j) ==
    \E i \in DOMAIN menu :
        /\ Serves(menu[i].model, j.model)
        /\ j.tool => menu[i].model = j.model
        /\ menu[i].price <= j.offer
TryWithin ==
    job.at \in {"plan", "try"} /\ job.id \notin job.since /\ job.blur = {} => Within(job.menu, job)

\* A planned retry fits the model, is within the offer unless the first price was
\* in doubt, and is still what its row says unless that was rewritten.
RetryFits(o) ==
    /\ o.id <= rows
    /\ job.kind = "llm" \/ Serves(o.model, job.model)
    /\ job.blur = {} => o.price <= job.offer
    /\ o.id \notin job.since =>
          \A e \in ById(o.id) : Holds(book[e].menu, job.kind, o.model, o.price)
PlanFits ==
    job.at \in {"fetch", "try", "trying"} => \A o \in job.same \cup job.free : RetryFits(o)

BookInv ==
    /\ BookTypes /\ IdsAreRows /\ Begun /\ OfferStands /\ TryWithin /\ PlanFits
    /\ NoDearerThanOffered

-----------------------------------------------------------------------------
(* Menus.                                                                   *)

LEMMA ListedOffers ==
    ASSUME NEW menu \in ListedMenus
    PROVE  menu \in Seq(MenuOffers) /\ DOMAIN menu \in SUBSET Nat
<1>1. menu \in Menus => menu \in Seq(MenuOffers)
  BY PeerBookAssumption DEF MenuOffers
<1>2. <<>> \in Seq(MenuOffers)
  OBVIOUS
<1>3. menu \in Seq(MenuOffers)
  BY <1>1, <1>2 DEF ListedMenus
<1> QED  BY <1>3

LEMMA ServesItself ==
    ASSUME NEW s \in Seq(Nat)
    PROVE  Serves(s, s)
BY DEF Serves, IsPrefix

\* Where one name fits, one entry serves the model.
LEMMA OneServes ==
    ASSUME NEW menu, NEW model, ~Several(menu, model), NEW i \in DOMAIN menu, NEW j \in DOMAIN menu,
           Serves(menu[i].model, model), Serves(menu[j].model, model)
    PROVE  i = j
BY DEF Several

LEMMA OneFits ==
    ASSUME NEW menu \in ListedMenus, NEW i \in DOMAIN menu, NEW fits \in SUBSET (DOMAIN menu),
           i \in fits, \A k \in fits : k = i
    PROVE  PriceAt(menu, fits) = menu[i].price
<1>1. fits \in SUBSET Nat /\ fits # {}
  BY ListedOffers
<1>2. Min(fits) \in fits
  BY <1>1, LeastNatural
<1> QED  BY <1>2 DEF PriceAt

LEMMA OfferIsFound ==
    ASSUME NEW menu \in ListedMenus, NEW kind, NEW model \in Seq(Nat), NEW price,
           Holds(menu, kind, model, price), ~Several(menu, model)
    PROVE  PriceOf(menu, kind, model) = price
<1>1. PICK i \in DOMAIN menu : menu[i].kind = kind /\ menu[i].model = model /\ menu[i].price = price
  BY DEF Holds
<1> DEFINE fits == {k \in DOMAIN menu : menu[k].kind = kind /\ Serves(menu[k].model, model)}
<1>2. i \in fits /\ \A k \in fits : k = i
  BY <1>1, ServesItself, OneServes
<1>3. PriceAt(menu, fits) = menu[i].price
  BY <1>2, OneFits
<1> QED  BY <1>1, <1>3 DEF PriceOf

LEMMA ChargedWithin ==
    ASSUME NEW j \in BookJobs, Within(j.menu, j), ~Several(j.menu, j.model)
    PROVE  Charged(j) <= j.offer
<1>1. j.menu \in ListedMenus /\ j.model \in Seq(Nat)
  BY DEF BookJobs
<1>2. PICK i \in DOMAIN j.menu : /\ Serves(j.menu[i].model, j.model)
                                 /\ j.tool => j.menu[i].model = j.model
                                 /\ j.menu[i].price <= j.offer
  BY DEF Within
<1> DEFINE fits == {k \in DOMAIN j.menu : IF j.tool THEN j.menu[k].model = j.model
                                          ELSE Serves(j.menu[k].model, j.model)}
<1>3. i \in fits
  BY <1>2
<1>4. ASSUME NEW k \in fits PROVE k = i
  <2>1. Serves(j.menu[k].model, j.model)
    BY <1>1, <1>4, ServesItself
  <2> QED  BY <1>1, <1>2, <2>1, OneServes
<1>5. PriceAt(j.menu, fits) = j.menu[i].price
  <2> HIDE DEF fits
  <2>1. fits \in SUBSET (DOMAIN j.menu)
    BY DEF fits
  <2> QED  BY <1>1, <1>3, <1>4, <2>1, OneFits
<1>6. Charged(j) = PriceAt(j.menu, fits)
  BY DEF Charged
<1> QED  BY <1>2, <1>5, <1>6


-----------------------------------------------------------------------------
(* Sweeps and probes.                                                       *)

JobParts == Begun /\ OfferStands /\ TryWithin /\ PlanFits /\ NoDearerThanOffered

\* What a step of the table leaves of it: an id that was given keeps its row and,
\* unless a probe rewrote it, the menu; the request only learns of the rewriting.
Noticed(id) ==
    CASE job.at \in {"fetch", "try", "trying"} -> id \in job'.since
      [] job.at \in {"seen", "plan"} -> id = job.id => "moved" \in job'.blur
      [] OTHER -> TRUE
TableGoesOn ==
    /\ rows' \in Nat /\ rows <= rows'
    /\ \A e \in Endpoints :
          book'[e].id # 0 /\ book'[e].id <= rows =>
              /\ book'[e].id = book[e].id
              /\ book'[e].menu = book[e].menu \/ Noticed(book[e].id)
    /\ \/ job' = job
       \/ /\ job.at \notin {"none", "over"}
          /\ \/ /\ job.at \notin {"seen", "plan"}
                /\ \E id \in Nat : job' = [job EXCEPT !.since = @ \cup {id}]
             \/ job' = [job EXCEPT !.blur = {"moved"}]

LEMMA RequestKeeps ==
    ASSUME BookInv, TableGoesOn
    PROVE  job' \in BookJobs /\ JobParts'
<1>1. job \in BookJobs /\ rows \in Nat
  BY DEF BookInv, BookTypes
<1>2. /\ job' \in BookJobs /\ job.since \subseteq job'.since
      /\ job.at \in {"seen", "plan"} => job'.since = job.since
      /\ job'.blur = job.blur \/ job'.blur = {"moved"}
      /\ job'.at = job.at /\ job'.tool = job.tool /\ job'.kind = job.kind /\ job'.model = job.model
      /\ job'.id = job.id /\ job'.menu = job.menu /\ job'.same = job.same /\ job'.free = job.free
      /\ job'.offer = job.offer /\ job'.first = job.first /\ job'.paid = job.paid
      /\ job.at = "none" => job' = job
  <2>1. CASE job' = job
    BY <1>1, <2>1
  <2>2. ASSUME NEW id \in Nat, job.at \notin {"none", "over", "seen", "plan"},
               job' = [job EXCEPT !.since = @ \cup {id}]
        PROVE  <1>2!:
    BY <1>1, <2>2 DEF BookJobs
  <2>3. ASSUME job.at \notin {"none", "over"}, job' = [job EXCEPT !.blur = {"moved"}]
        PROVE  <1>2!:
    BY <1>1, <2>3 DEF BookJobs
  <2> QED  BY <2>1, <2>2, <2>3 DEF TableGoesOn
<1>3. ASSUME NEW id \in Nat, id <= rows, job.at \notin {"none", "over"}, id \notin job'.since,
             job.at \in {"seen", "plan"} => id = job.id /\ "moved" \notin job'.blur,
             NEW e \in ById(id)'
      PROVE  e \in ById(id) /\ book'[e].menu = book[e].menu
  <2>1. book'[e].id = id /\ id # 0 /\ e \in Endpoints
    BY <1>3 DEF ById, Rows
  <2>2. book[e].id = id /\ (book'[e].menu = book[e].menu \/ Noticed(id))
    BY <1>3, <2>1 DEF TableGoesOn
  <2>3. job.at \in {"seen", "plan", "fetch", "try", "trying"}
    BY <1>1, <1>3 DEF BookJobs, JobStages
  <2>4. ~Noticed(id)
    BY <1>3, <2>3 DEF Noticed
  <2> QED  BY <2>1, <2>2, <2>4 DEF ById, Rows
<1>4. /\ job'.blur = {} => job.blur = {}
      /\ "moved" \notin job'.blur => job'.blur = job.blur
  BY <1>2
<1>5. Begun'
  BY <1>2 DEF BookInv, Begun
<1>6. OfferStands'
  <2> SUFFICES ASSUME job.at \in {"seen", "plan", "fetch"}
               PROVE  /\ job.id <= rows'
                      /\ job.id \notin job'.since /\ "moved" \notin job'.blur =>
                            \A e \in ById(job.id)' :
                               Holds(book'[e].menu, job.kind, job.model, job.offer)
    BY <1>2 DEF OfferStands
  <2>1. job.id \in Nat /\ job.id <= rows /\ rows <= rows' /\ rows' \in Nat
    BY <1>1 DEF BookInv, OfferStands, BookJobs, TableGoesOn
  <2>2. ASSUME job.id \notin job'.since, "moved" \notin job'.blur, NEW e \in ById(job.id)'
        PROVE  Holds(book'[e].menu, job.kind, job.model, job.offer)
    <3>1. e \in ById(job.id) /\ book'[e].menu = book[e].menu
      BY <1>2, <1>3, <2>1, <2>2
    <3> QED  BY <1>2, <1>4, <2>2, <3>1 DEF BookInv, OfferStands
  <2> QED  BY <1>1, <2>1, <2>2
<1>7. TryWithin'
  <2> SUFFICES ASSUME job.at \in {"plan", "try"}, job.id \notin job'.since, job'.blur = {}
               PROVE  Within(job.menu, job')
    BY <1>2 DEF TryWithin
  <2>1. Within(job.menu, job)
    BY <1>2, <1>4 DEF BookInv, TryWithin
  <2> QED  BY <1>2, <2>1 DEF Within
<1>8. PlanFits'
  <2> SUFFICES ASSUME job.at \in {"fetch", "try", "trying"}, NEW o \in job.same \cup job.free
               PROVE  RetryFits(o)'
    BY <1>2 DEF PlanFits
  <2>1. RetryFits(o) /\ o.id \in Nat
    BY <1>1 DEF BookInv, PlanFits, BookJobs, Options
  <2>2. o.id <= rows'
    BY <1>1, <2>1 DEF RetryFits, TableGoesOn
  <2>3. ASSUME o.id \notin job'.since, NEW e \in ById(o.id)'
        PROVE  Holds(book'[e].menu, job'.kind, o.model, o.price)
    <3>1. e \in ById(o.id) /\ book'[e].menu = book[e].menu
      BY <1>3, <2>1, <2>3 DEF RetryFits
    <3> QED  BY <1>2, <2>1, <2>3, <3>1 DEF RetryFits
  <2> QED  BY <1>2, <1>4, <2>1, <2>2, <2>3 DEF RetryFits
<1>9. NoDearerThanOffered'
  BY <1>2, <1>4 DEF BookInv, NoDearerThanOffered
<1> QED  BY <1>2, <1>5, <1>6, <1>7, <1>8, <1>9 DEF JobParts


TableParts == BookTypes /\ IdsAreRows

\* A step of one task that takes it somewhere its records allow.
LEMMA TaskSteps ==
    ASSUME BookTypes, NEW t \in Tasks, NEW task \in TaskRecords, Step(t, task), Placed(task)
    PROVE  tasks' \in [Tasks -> TaskRecords] /\ \A u \in Tasks : Placed(tasks'[u])
<1>1. tasks' \in [Tasks -> TaskRecords] /\ tasks'[t] = task /\ \A u \in Tasks \ {t} : tasks'[u] = tasks[u]
  BY DEF Step, BookTypes
<1>2. ASSUME NEW u \in Tasks PROVE Placed(tasks'[u])
  BY <1>1 DEF BookTypes
<1> QED  BY <1>1, <1>2

LEMMA NoTaskTyped == NoTask \in TaskRecords /\ Placed(NoTask)
BY DEF NoTask, TaskRecords, ListedMenus, Placed

\* Steps that leave the table and the request alone.
LEMMA NothingMoves ==
    ASSUME BookInv, UNCHANGED <<book, rows, job>>,
           net' \in [Workers -> [up : BOOLEAN, menu : Menus]], clock' \in Nat,
           tasks' \in [Tasks -> TaskRecords], \A t \in Tasks : Placed(tasks'[t])
    PROVE  TableParts' /\ TableGoesOn
BY DEF BookInv, BookTypes, IdsAreRows, TableParts, TableGoesOn

LEMMA QuietTask ==
    ASSUME BookInv, NEW t \in Tasks, NEW task \in TaskRecords, Step(t, task), Placed(task),
           UNCHANGED <<net, clock, book, rows, job>>
    PROVE  TableParts' /\ TableGoesOn
<1>1. tasks' \in [Tasks -> TaskRecords] /\ \A u \in Tasks : Placed(tasks'[u])
  BY TaskSteps DEF BookInv
<1>2. clock' \in Nat /\ net' \in [Workers -> [up : BOOLEAN, menu : Menus]]
  BY DEF BookInv, BookTypes
<1> QED  BY <1>1, <1>2, NothingMoves

\* The menu of a worker that was asked is one of the menus.
LEMMA AskedMenu ==
    ASSUME BookTypes, NEW e \in Endpoints
    PROVE  net[e[1]].menu \in Menus
<1>1. e[1] \in Workers
  BY PeerBookAssumption DEF Endpoints
<1> QED  BY <1>1 DEF BookTypes

LEMMA QuietSteps ==
    ASSUME BookInv,
           \/ \E w \in Workers : Turn(w)
           \/ Tick
           \/ \E t \in Tasks : \/ \E e \in Endpoints : StartProbe(t, e) \/ Look(t, e)
                               \/ StartSweep(t) \/ Hear(t) \/ Record(t)
    PROVE  TableParts' /\ TableGoesOn
<1>1. BookTypes /\ \A t \in Tasks : tasks[t] \in TaskRecords
  BY DEF BookInv, BookTypes
<1>2. \A e \in Endpoints : book[e].id \in Nat
  BY <1>1 DEF BookTypes, BookRows
<1>3. ASSUME NEW w \in Workers, Turn(w) PROVE TableParts' /\ TableGoesOn
  <2>1. PICK up \in BOOLEAN, menu \in Menus : net' = [net EXCEPT ![w] = [up |-> up, menu |-> menu]]
    BY <1>3 DEF Turn
  <2>2. net' \in [Workers -> [up : BOOLEAN, menu : Menus]]
    BY <1>1, <2>1 DEF BookTypes
  <2>3. UNCHANGED <<book, rows, tasks, clock, job>>
    BY <1>3 DEF Turn
  <2>4. clock' \in Nat /\ tasks' \in [Tasks -> TaskRecords] /\ \A t \in Tasks : Placed(tasks'[t])
    BY <1>1, <2>3 DEF BookTypes
  <2> QED  BY <2>2, <2>3, <2>4, NothingMoves
<1>4. ASSUME Tick PROVE TableParts' /\ TableGoesOn
  <2>1. clock' \in Nat /\ tasks' \in [Tasks -> TaskRecords] /\ \A t \in Tasks : Placed(tasks'[t])
    BY <1>1, <1>4 DEF Tick, BookTypes
  <2>2. net' \in [Workers -> [up : BOOLEAN, menu : Menus]] /\ UNCHANGED <<book, rows, job>>
    BY <1>1, <1>4 DEF Tick, BookTypes
  <2> QED  BY <2>1, <2>2, NothingMoves
<1>5. ASSUME NEW t \in Tasks, NEW e \in Endpoints, StartProbe(t, e) PROVE TableParts' /\ TableGoesOn
  <2> DEFINE task == [tasks[t] EXCEPT !.at = "probe", !.endpoint = e, !.id = book[e].id]
  <2>1. Step(t, task) /\ UNCHANGED <<net, clock, book, rows, job>>
    BY <1>5 DEF StartProbe
  <2>2. task \in TaskRecords /\ Placed(task)
    BY <1>1, <1>2 DEF TaskRecords, Placed
  <2> HIDE DEF task
  <2> QED  BY <2>1, <2>2, QuietTask
<1>6. ASSUME NEW t \in Tasks, NEW e \in Endpoints, Look(t, e) PROVE TableParts' /\ TableGoesOn
  <2> DEFINE task == [tasks[t] EXCEPT !.at = IF e \in Rows THEN "probe" ELSE "ask", !.endpoint = e,
                                      !.id = book[e].id, !.todo = @ \ {e}]
  <2>1. Step(t, task) /\ UNCHANGED <<net, clock, book, rows, job>>
    BY <1>6 DEF Look
  <2>2. task \in TaskRecords /\ Placed(task)
    BY <1>1, <1>2 DEF TaskRecords, Placed
  <2> HIDE DEF task
  <2> QED  BY <2>1, <2>2, QuietTask
<1>7. ASSUME NEW t \in Tasks, StartSweep(t) PROVE TableParts' /\ TableGoesOn
  <2>1. PICK found \in SUBSET Workers :
            Step(t, [tasks[t] EXCEPT !.at = "look", !.sweep = TRUE, !.todo = found \X {"p2p"}])
    BY <1>7 DEF StartSweep
  <2> DEFINE task == [tasks[t] EXCEPT !.at = "look", !.sweep = TRUE, !.todo = found \X {"p2p"}]
  <2>2. UNCHANGED <<net, clock, book, rows, job>>
    BY <1>7 DEF StartSweep
  <2>3. found \X {"p2p"} \subseteq Endpoints
    BY DEF Endpoints
  <2>4. task \in TaskRecords /\ Placed(task)
    BY <1>1, <2>3 DEF TaskRecords, Placed
  <2>5. Step(t, task)
    BY <2>1
  <2> HIDE DEF task
  <2> QED  BY <2>2, <2>4, <2>5, QuietTask
<1>8. ASSUME NEW t \in Tasks, Hear(t) PROVE TableParts' /\ TableGoesOn
  <2>1. tasks[t].at \in {"probe", "ask"} /\ UNCHANGED <<net, clock, book, rows, job>>
    BY <1>8 DEF Hear
  <2>2. tasks[t].endpoint \in Endpoints
    BY <1>1, <2>1 DEF BookTypes, Placed
  <2>3. net[tasks[t].endpoint[1]].menu \in ListedMenus /\ <<>> \in ListedMenus
    BY <1>1, <2>2, AskedMenu DEF ListedMenus
  <2> DEFINE back == [tasks[t] EXCEPT !.at = "look"]
             heard(at, got, menu) == [tasks[t] EXCEPT !.at = at, !.got = got, !.menu = menu]
  <2>4. PICK got \in {"none", "bare", "announce"} :
            LET worker == net[tasks[t].endpoint[1]]
                new == tasks[t].at = "ask" IN
            IF new /\ (got # "announce" \/ worker.menu = <<>>) THEN Step(t, back)
            ELSE Step(t, heard(IF new THEN "record" ELSE "write", got,
                               IF got = "announce" THEN worker.menu ELSE <<>>))
    <3>1. \A x : x \in (IF net[tasks[t].endpoint[1]].up THEN {"announce", "bare", "none"} ELSE {"none"})
                    => x \in {"none", "bare", "announce"}
      OBVIOUS
    <3> QED  BY <1>8, <3>1 DEF Hear
  <2>5. \/ Step(t, back)
        \/ \E at \in {"record", "write"}, menu \in ListedMenus : Step(t, heard(at, got, menu))
    BY <2>3, <2>4
  <2>6. CASE Step(t, back)
    <3>1. back \in TaskRecords /\ Placed(back)
      BY <1>1, <2>2 DEF TaskRecords, Placed
    <3> HIDE DEF back
    <3> QED  BY <2>1, <2>6, <3>1, QuietTask
  <2>7. ASSUME NEW at \in {"record", "write"}, NEW menu \in ListedMenus, Step(t, heard(at, got, menu))
        PROVE  TableParts' /\ TableGoesOn
    <3> DEFINE task == heard(at, got, menu)
    <3>1. task \in TaskRecords /\ Placed(task)
      BY <1>1, <2>2 DEF TaskRecords, Placed
    <3>2. Step(t, task)
      BY <2>7
    <3> HIDE DEF task
    <3> QED  BY <2>1, <3>1, <3>2, QuietTask
  <2> QED  BY <2>5, <2>6, <2>7
<1>9. ASSUME NEW t \in Tasks, Record(t) PROVE TableParts' /\ TableGoesOn
  <2> DEFINE e == tasks[t].endpoint
             here == [tasks[t] EXCEPT !.at = "write", !.id = book[e].id]
             new == [tasks[t] EXCEPT !.at = "insert"]
  <2>1. tasks[t].at = "record" /\ UNCHANGED <<net, clock, book, rows, job>>
    BY <1>9 DEF Record
  <2>2. e \in Endpoints
    BY <1>1, <2>1 DEF BookTypes, Placed
  <2>3. Step(t, here) \/ Step(t, new)
    BY <1>9 DEF Record
  <2>4. here \in TaskRecords /\ Placed(here) /\ new \in TaskRecords /\ Placed(new)
    BY <1>1, <1>2, <2>2 DEF TaskRecords, Placed
  <2> HIDE DEF here, new
  <2> QED  BY <2>1, <2>3, <2>4, QuietTask
<1> QED  BY <1>3, <1>4, <1>5, <1>6, <1>7, <1>8, <1>9


-----------------------------------------------------------------------------
(* The table.                                                               *)

LEMMA NewRowTyped ==
    ASSUME BookTypes, NEW source \in {"none", "manual", "discovered"}
    PROVE  /\ NewRow(source) \in BookRows /\ NewRow(source).id = rows + 1
           /\ NoRow \in BookRows /\ NoRow.id = 0
BY DEF NewRow, NoRow, BookRows, BookTypes, ListedMenus

\* A row that is given the next id, and nothing else.
LEMMA RowAdded ==
    ASSUME BookInv, NEW e \in Endpoints, e \notin Rows, NEW source \in {"manual", "discovered"},
           book' = [book EXCEPT ![e] = NewRow(source)], rows' = rows + 1,
           UNCHANGED <<net, clock, job>>,
           tasks' \in [Tasks -> TaskRecords], \A t \in Tasks : Placed(tasks'[t])
    PROVE  TableParts' /\ TableGoesOn
<1>1. BookTypes /\ IdsAreRows
  BY DEF BookInv
<1>2. NewRow(source) \in BookRows /\ NewRow(source).id = rows + 1 /\ rows \in Nat
  BY <1>1, NewRowTyped DEF BookTypes
<1>3. /\ book' \in [Endpoints -> BookRows] /\ book'[e].id = rows + 1
      /\ \A f \in Endpoints \ {e} : book'[f] = book[f]
  <2>1. book'[e] = NewRow(source)
    BY <1>1 DEF BookTypes
  <2> QED  BY <1>1, <1>2, <2>1 DEF BookTypes
<1>4. \A f \in Endpoints : book[f].id \in Nat /\ book[f].id <= rows
  BY <1>1 DEF BookTypes, BookRows, IdsAreRows
<1>5. BookTypes'
  BY <1>1, <1>2, <1>3 DEF BookTypes
<1>6. IdsAreRows'
  BY <1>1, <1>2, <1>3, <1>4 DEF IdsAreRows
<1>7. TableGoesOn
  BY <1>2, <1>3, <1>4 DEF TableGoesOn
<1> QED  BY <1>5, <1>6, <1>7 DEF TableParts

\* Some rows are forgotten.
LEMMA RowsForgotten ==
    ASSUME BookInv, \A e \in Endpoints : book'[e] \in {book[e], NoRow},
           book' = [e \in Endpoints |-> book'[e]],
           UNCHANGED <<net, clock, rows, job>>,
           tasks' \in [Tasks -> TaskRecords], \A t \in Tasks : Placed(tasks'[t])
    PROVE  TableParts' /\ TableGoesOn
<1>1. BookTypes /\ IdsAreRows /\ NoRow \in BookRows /\ NoRow.id = 0
  BY NewRowTyped DEF BookInv
<1>2. book' \in [Endpoints -> BookRows] /\ rows \in Nat
  <2>1. \A e \in Endpoints : book'[e] \in BookRows
    BY <1>1 DEF BookTypes
  <2> QED  BY <1>1, <2>1 DEF BookTypes
<1>3. BookTypes'
  BY <1>1, <1>2 DEF BookTypes
<1>4. IdsAreRows'
  BY <1>1, <1>2 DEF IdsAreRows
<1>5. TableGoesOn
  BY <1>1, <1>2 DEF TableGoesOn
<1> QED  BY <1>3, <1>4, <1>5 DEF TableParts

LEMMA PeerSteps ==
    ASSUME BookInv, NEW e \in Endpoints, AddPeer(e) \/ RemovePeer(e)
    PROVE  TableParts' /\ TableGoesOn
<1>1. BookTypes /\ tasks' \in [Tasks -> TaskRecords] /\ \A t \in Tasks : Placed(tasks'[t])
  BY DEF BookInv, BookTypes, AddPeer, RemovePeer
<1>2. CASE AddPeer(e)
  BY <1>1, <1>2, RowAdded DEF AddPeer
<1>3. CASE RemovePeer(e)
  <2>1. \A f \in Endpoints : book'[f] \in {book[f], NoRow}
    BY <1>1, <1>3 DEF RemovePeer, BookTypes
  <2>2. book' = [f \in Endpoints |-> book'[f]]
    BY <1>1, <1>3 DEF RemovePeer, BookTypes
  <2>3. UNCHANGED <<net, clock, rows, job>>
    BY <1>3 DEF RemovePeer
  <2> QED  BY <1>1, <2>1, <2>2, <2>3, RowsForgotten
<1> QED  BY <1>2, <1>3

LEMMA InsertStep ==
    ASSUME BookInv, NEW t \in Tasks, Insert(t)
    PROVE  TableParts' /\ TableGoesOn
<1> DEFINE e == tasks[t].endpoint
<1>1. BookTypes /\ tasks[t] \in TaskRecords /\ rows \in Nat
  BY DEF BookInv, BookTypes
<1>2. tasks[t].at = "insert" /\ UNCHANGED <<net, clock, job>> /\ e \in Endpoints
  BY <1>1 DEF Insert, BookTypes, Placed
<1>3. CASE /\ e \notin Rows
           /\ book' = [book EXCEPT ![e] = NewRow("discovered")] /\ rows' = rows + 1
           /\ Step(t, [tasks[t] EXCEPT !.at = "write", !.id = rows + 1])
  <2> DEFINE task == [tasks[t] EXCEPT !.at = "write", !.id = rows + 1]
  <2>1. task \in TaskRecords /\ Placed(task)
    <3>1. \A n \in Nat : LET new == [tasks[t] EXCEPT !.at = "write", !.id = n]
                         IN  new \in TaskRecords /\ Placed(new)
      BY <1>1, <1>2 DEF TaskRecords, Placed
    <3>2. rows + 1 \in Nat
      BY <1>1
    <3> QED  BY <3>1, <3>2
  <2>2. Step(t, task)
    BY <1>3
  <2> HIDE DEF task
  <2>3. tasks' \in [Tasks -> TaskRecords] /\ \A u \in Tasks : Placed(tasks'[u])
    BY <1>1, <2>1, <2>2, TaskSteps
  <2> HIDE DEF e
  <2> QED  BY <1>2, <1>3, <2>3, RowAdded
<1>4. CASE tasks' = [tasks EXCEPT ![t] = NoTask] /\ UNCHANGED <<book, rows>>
  <2>1. tasks' \in [Tasks -> TaskRecords] /\ \A u \in Tasks : Placed(tasks'[u])
    BY <1>1, <1>4, NoTaskTyped, TaskSteps DEF Step
  <2>2. clock' \in Nat /\ net' \in [Workers -> [up : BOOLEAN, menu : Menus]]
    BY <1>1, <1>2 DEF BookTypes
  <2> QED  BY <1>2, <1>4, <2>1, <2>2, NothingMoves
<1> QED  BY <1>3, <1>4 DEF Insert

LEMMA WriteStep ==
    ASSUME BookInv, NEW t \in Tasks, Write(t)
    PROVE  TableParts' /\ TableGoesOn
<1> DEFINE e == tasks[t].endpoint
           task == [tasks[t] EXCEPT !.at = Then(t), !.endpoint = <<>>, !.id = 0, !.got = "none",
                                    !.menu = <<>>]
<1>1. BookTypes /\ IdsAreRows /\ tasks[t] \in TaskRecords /\ rows \in Nat /\ clock \in Nat
  BY DEF BookInv, BookTypes
<1>2. tasks[t].at = "write" /\ UNCHANGED <<net, rows, clock>> /\ e \in Endpoints /\ Step(t, task)
  BY <1>1 DEF Write, BookTypes, Placed
<1>3. task \in TaskRecords /\ Placed(task)
  BY <1>1 DEF TaskRecords, Placed, Then, ListedMenus
<1> HIDE DEF task
<1>4. tasks' \in [Tasks -> TaskRecords] /\ \A u \in Tasks : Placed(tasks'[u])
  BY <1>1, <1>2, <1>3, TaskSteps
<1>5. CASE UNCHANGED <<book, job>>
  <2>1. clock' \in Nat /\ net' \in [Workers -> [up : BOOLEAN, menu : Menus]]
    BY <1>1, <1>2 DEF BookTypes
  <2> QED  BY <1>2, <1>4, <1>5, <2>1, NothingMoves
<1>6. CASE /\ book[e].id = tasks[t].id
           /\ book' = [book EXCEPT ![e] = Updated(@, tasks[t])]
           /\ job' = Heard(tasks[t].id)
  <2> DEFINE row == Updated(book[e], tasks[t])
  <2>1. row \in BookRows /\ row.id = book[e].id
    <3>1. book[e] \in BookRows
      BY <1>1, <1>2 DEF BookTypes
    <3>2. \A b \in BookRows :
             Updated(b, tasks[t]) \in BookRows /\ Updated(b, tasks[t]).id = b.id
      BY <1>1 DEF Updated, BookRows, TaskRecords
    <3> QED  BY <3>1, <3>2
  <2>2. book' = [book EXCEPT ![e] = row]
    BY <1>6
  <2> HIDE DEF row
  <2>3. /\ book' \in [Endpoints -> BookRows] /\ book'[e].id = book[e].id
        /\ \A f \in Endpoints \ {e} : book'[f] = book[f]
    BY <1>1, <1>2, <2>1, <2>2 DEF BookTypes
  <2>4. tasks[t].id \in Nat /\ job \in BookJobs
    BY <1>1 DEF TaskRecords, BookTypes
  <2>5. job' \in BookJobs
    <3>1. /\ [job EXCEPT !.since = @ \cup {tasks[t].id}] \in BookJobs
          /\ [job EXCEPT !.blur = {"moved"}] \in BookJobs
      BY <2>4 DEF BookJobs
    <3> QED  BY <1>6, <2>4, <3>1 DEF Heard
  <2>6. BookTypes'
    BY <1>1, <1>2, <1>4, <2>3, <2>5 DEF BookTypes
  <2>7. IdsAreRows'
    BY <1>1, <1>2, <2>3 DEF IdsAreRows
  <2>8. Noticed(book[e].id)
    BY <1>6, <2>4 DEF BookJobs, Heard, Noticed
  <2>9. TableGoesOn
    <3>1. ASSUME NEW f \in Endpoints
          PROVE  /\ book'[f].id = book[f].id
                 /\ book'[f].menu = book[f].menu \/ Noticed(book[f].id)
      BY <2>3, <2>8
    <3>2. \/ job' = job
          \/ /\ job.at \notin {"none", "over", "seen", "plan"}
             /\ job' = [job EXCEPT !.since = @ \cup {tasks[t].id}]
          \/ job.at \notin {"none", "over"} /\ job' = [job EXCEPT !.blur = {"moved"}]
      BY <1>6 DEF Heard
    <3> QED  BY <1>1, <1>2, <2>4, <3>1, <3>2 DEF TableGoesOn
  <2> QED  BY <2>6, <2>7, <2>9 DEF TableParts
<1> QED  BY <1>5, <1>6 DEF Write

LEMMA PruneStep ==
    ASSUME BookInv, NEW t \in Tasks, Prune(t)
    PROVE  TableParts' /\ TableGoesOn
<1>1. BookTypes
  BY DEF BookInv
<1>2. tasks' \in [Tasks -> TaskRecords] /\ \A u \in Tasks : Placed(tasks'[u])
  BY <1>1, NoTaskTyped, TaskSteps DEF Prune, Step
<1>3. \A e \in Endpoints : book'[e] \in {book[e], NoRow}
  BY DEF Prune
<1>4. book' = [e \in Endpoints |-> book'[e]]
  BY DEF Prune
<1> QED  BY <1>2, <1>3, <1>4, RowsForgotten DEF Prune


-----------------------------------------------------------------------------
(* The request.                                                             *)

\* An option is what every row with its id says.
LEMMA OptionsHold ==
    ASSUME BookInv, NEW kind \in {"llm", "image"}, NEW o \in ProviderOptions(kind)
    PROVE  /\ o \in Options /\ o.id <= rows
           /\ \A e \in ById(o.id) : Holds(book[e].menu, kind, o.model, o.price)
<1>1. PICK e \in Online : \E x \in OffersOf(book[e].menu, kind) :
          o = [id |-> book[e].id, model |-> x.model, price |-> x.price]
  BY DEF ProviderOptions
<1>2. PICK x \in OffersOf(book[e].menu, kind) :
          o = [id |-> book[e].id, model |-> x.model, price |-> x.price]
  BY <1>1
<1>3. e \in Endpoints /\ book[e].id # 0 /\ book[e] \in BookRows /\ book[e].id <= rows
  BY DEF Online, Rows, BookInv, BookTypes, IdsAreRows
<1>4. PICK i \in DOMAIN book[e].menu : x = book[e].menu[i] /\ x.kind = kind
  BY DEF OffersOf, Range
<1>5. x \in MenuOffers
  <2>1. book[e].menu \in Seq(MenuOffers)
    BY <1>3, ListedOffers DEF BookRows
  <2> QED  BY <1>4, <2>1
<1>6. o \in Options
  BY <1>2, <1>3, <1>5 DEF Options, MenuOffers, BookRows
<1>7. \A f \in ById(o.id) : f = e
  BY <1>2, <1>3 DEF ById, Rows, BookInv, IdsAreRows
<1>8. Holds(book[e].menu, kind, o.model, o.price)
  BY <1>2, <1>4 DEF Holds
<1> QED  BY <1>2, <1>3, <1>6, <1>7, <1>8

\* What is planned for a model is within its offer wherever that still stands.
LEMMA PlansFit ==
    ASSUME BookInv, NEW id \in Nat, NEW kind \in {"llm", "image"}, NEW model \in Seq(Nat),
           NEW offer \in Nat,
           NEW o \in SameModel(id, kind, model) \cup OtherFree(id, kind, model)
    PROVE  /\ o \in Options /\ o.id <= rows
           /\ kind = "llm" \/ Serves(o.model, model)
           /\ ~SeveralAt(id, model) /\ (\A e \in ById(id) : Holds(book[e].menu, kind, model, offer))
                 => o.price <= offer
           /\ \A e \in ById(o.id) : Holds(book[e].menu, kind, o.model, o.price)
<1>1. o \in ProviderOptions(kind)
  BY DEF SameModel, OtherFree, Others
<1>2. /\ o \in Options /\ o.id <= rows
      /\ \A e \in ById(o.id) : Holds(book[e].menu, kind, o.model, o.price)
  BY <1>1, OptionsHold
<1>3. kind = "llm" \/ Serves(o.model, model)
  BY DEF SameModel, OtherFree
<1>4. o.price <= FirstPrice(id, kind, model) \/ o.price = 0
  BY DEF SameModel, OtherFree
<1>5. ASSUME ~SeveralAt(id, model), \A e \in ById(id) : Holds(book[e].menu, kind, model, offer)
      PROVE  FirstPrice(id, kind, model) \in {0, offer}
  <2>1. CASE ById(id) = {}
    BY <2>1 DEF FirstPrice, ById
  <2>2. CASE ById(id) # {}
    <3> DEFINE e == CHOOSE f \in ById(id) : TRUE
    <3>1. e \in ById(id)
      BY <2>2
    <3>2. FirstPrice(id, kind, model) = PriceOf(book[e].menu, kind, model)
      BY <2>2 DEF FirstPrice, ById
    <3> HIDE DEF e
    <3>3. book[e].menu \in ListedMenus
      BY <3>1 DEF ById, Rows, BookInv, BookTypes, BookRows
    <3>4. PriceOf(book[e].menu, kind, model) = offer
      BY <1>5, <3>1, <3>3, OfferIsFound DEF SeveralAt
    <3> QED  BY <3>2, <3>4
  <2> QED  BY <2>1, <2>2
<1>6. o.price \in Nat
  BY <1>2 DEF Options
<1> QED  BY <1>2, <1>3, <1>4, <1>5, <1>6

\* Every step of a request leaves the table.
LEMMA TableStands ==
    ASSUME BookInv, UNCHANGED <<net, book, rows, tasks, clock>>, job' \in BookJobs
    PROVE  TableParts' /\ rows' = rows /\ book' = book
BY DEF BookInv, BookTypes, IdsAreRows, TableParts

LEMMA NoJobTyped ==
    /\ NoJob \in BookJobs
    /\ NoJob.at = "none" /\ ~NoJob.tool /\ NoJob.kind = "llm" /\ NoJob.first = 0
    /\ NoJob.same = {} /\ NoJob.free = {} /\ NoJob.since = {} /\ NoJob.blur = {}
<1>1. <<>> \in Seq(Nat)
  OBVIOUS
<1> QED  BY <1>1 DEF NoJob, BookJobs, JobStages, ListedMenus

\* A request that is over, or was never made.
LEMMA RequestOver ==
    ASSUME BookInv, UNCHANGED <<net, book, rows, tasks, clock>>,
           job' = NoJob \/ job' = [NoJob EXCEPT !.at = "over"]
    PROVE  BookInv'
<1>1. job' \in BookJobs /\ job'.at \in {"none", "over"} /\ (job'.at = "none" => job' = NoJob)
      /\ ~job'.tool
  <2>1. [NoJob EXCEPT !.at = "over"] \in BookJobs
    BY NoJobTyped DEF BookJobs, JobStages
  <2>2. [NoJob EXCEPT !.at = "over"].at = "over" /\ ~[NoJob EXCEPT !.at = "over"].tool
    BY NoJobTyped DEF BookJobs
  <2> QED  BY <2>1, <2>2, NoJobTyped
<1>2. Begun' /\ OfferStands' /\ TryWithin' /\ PlanFits' /\ NoDearerThanOffered'
  BY <1>1 DEF Begun, OfferStands, TryWithin, PlanFits, NoDearerThanOffered
<1> QED  BY <1>1, <1>2, TableStands DEF TableParts, BookInv

LEMMA SeeStep ==
    ASSUME BookInv, NEW kind \in {"llm", "image"}, See(kind)
    PROVE  BookInv'
<1>1. PICK o \in ProviderOptions(kind) :
          job' = [job EXCEPT !.at = "seen", !.kind = kind, !.model = o.model, !.id = o.id,
                             !.offer = o.price]
  BY DEF See
<1>2. job = NoJob /\ UNCHANGED <<net, book, rows, tasks, clock>>
  BY DEF See, BookInv, Begun
<1>3. /\ o \in Options /\ o.id <= rows
      /\ \A e \in ById(o.id) : Holds(book[e].menu, kind, o.model, o.price)
  BY OptionsHold
<1>4. job' \in BookJobs
  BY <1>1, <1>2, <1>3, NoJobTyped DEF BookJobs, JobStages, Options
<1>5. /\ job'.at = "seen" /\ job'.kind = kind /\ job'.model = o.model /\ job'.id = o.id
      /\ job'.offer = o.price /\ ~job'.tool /\ job'.since = {}
  BY <1>1, <1>2, NoJobTyped DEF BookJobs
<1>6. TableParts' /\ rows' = rows /\ book' = book
  BY <1>2, <1>4, TableStands
<1>7. Begun' /\ TryWithin' /\ PlanFits' /\ NoDearerThanOffered'
  BY <1>3, <1>5 DEF Options, Begun, TryWithin, PlanFits, NoDearerThanOffered
<1>8. OfferStands'
  BY <1>3, <1>5, <1>6 DEF OfferStands, ById, Rows
<1> QED  BY <1>6, <1>7, <1>8 DEF TableParts, BookInv

\* A menu that holds the offer is within it.
LEMMA HeldIsWithin ==
    ASSUME NEW j \in BookJobs, NEW menu, NEW kind, NEW model \in Seq(Nat), NEW price \in Nat,
           Holds(menu, kind, model, price), price <= j.offer,
           Serves(model, j.model), j.tool => model = j.model
    PROVE  Within(menu, j)
BY DEF Holds, Within

LEMMA SubmitStep ==
    ASSUME BookInv, Submit
    PROVE  BookInv'
<1>1. job.at = "seen" /\ UNCHANGED <<net, book, rows, tasks, clock>> /\ job \in BookJobs
  BY DEF Submit, BookInv, BookTypes
<1>2. CASE job' = NoJob
  BY <1>1, <1>2, RequestOver
<1>3. ASSUME NEW e \in ById(job.id), job' = [job EXCEPT !.at = "plan", !.menu = book[e].menu]
      PROVE  BookInv'
  <2>1. book[e].menu \in ListedMenus
    BY DEF ById, Rows, BookInv, BookTypes, BookRows
  <2>2. job' \in BookJobs
    BY <1>1, <1>3, <2>1 DEF BookJobs, JobStages
  <2>3. /\ job'.at = "plan" /\ job'.menu = book[e].menu /\ job'.tool = job.tool /\ job'.kind = job.kind
        /\ job'.model = job.model /\ job'.id = job.id /\ job'.offer = job.offer
        /\ job'.first = job.first /\ job'.since = job.since /\ job'.blur = job.blur
    BY <1>1, <1>3 DEF BookJobs
  <2>4. TableParts' /\ rows' = rows /\ book' = book
    BY <1>1, <2>2, TableStands
  <2>5. Begun' /\ PlanFits' /\ NoDearerThanOffered'
    BY <1>1, <2>3 DEF BookInv, Begun, PlanFits, NoDearerThanOffered
  <2>6. OfferStands'
    BY <1>1, <2>3, <2>4 DEF BookInv, OfferStands, ById, Rows
  <2>7. TryWithin'
    <3> SUFFICES ASSUME job.id \notin job.since, job.blur = {} PROVE Within(job'.menu, job')
      BY <2>3 DEF TryWithin
    <3>1. Holds(book[e].menu, job.kind, job.model, job.offer)
      BY <1>1, <1>3 DEF BookInv, OfferStands
    <3>2. job.model \in Seq(Nat) /\ job.offer \in Nat /\ Serves(job.model, job.model)
      BY <1>1, ServesItself DEF BookJobs
    <3> QED  BY <2>2, <2>3, <3>1, <3>2, HeldIsWithin
  <2> QED  BY <2>4, <2>5, <2>6, <2>7 DEF TableParts, BookInv
<1> QED  BY <1>2, <1>3 DEF Submit


\* The plan of a request whose offer stands, once the request is told of it.
LEMMA PlanIsMade ==
    ASSUME BookInv, book' = book, rows' = rows, job' \in BookJobs,
           job'.at \in {"fetch", "try"}, job'.blur = {} => ~SeveralAt(job'.id, job'.model),
           job'.same = SameModel(job'.id, job'.kind, job'.model),
           job'.free = OtherFree(job'.id, job'.kind, job'.model),
           job'.blur = {} =>
               \A e \in ById(job'.id) : Holds(book[e].menu, job'.kind, job'.model, job'.offer)
    PROVE  PlanFits'
<1>2. job'.id \in Nat /\ job'.kind \in {"llm", "image"} /\ job'.model \in Seq(Nat) /\ job'.offer \in Nat
  BY DEF BookJobs
<1>3. ASSUME NEW o \in job'.same \cup job'.free
      PROVE  RetryFits(o)'
  <2>1. /\ o.id <= rows
        /\ job'.kind = "llm" \/ Serves(o.model, job'.model)
        /\ job'.blur = {} => o.price <= job'.offer
        /\ \A e \in ById(o.id) : Holds(book[e].menu, job'.kind, o.model, o.price)
    BY <1>2, <1>3, PlansFit
  <2> QED  BY <2>1 DEF RetryFits, ById, Rows
<1> QED  BY <1>3 DEF PlanFits

LEMMA PlanTyped ==
    ASSUME BookInv, NEW id \in Nat, NEW kind \in {"llm", "image"}, NEW model \in Seq(Nat)
    PROVE  SameModel(id, kind, model) \in SUBSET Options /\ OtherFree(id, kind, model) \in SUBSET Options
<1>1. 0 \in Nat
  OBVIOUS
<1>2. \A o \in SameModel(id, kind, model) \cup OtherFree(id, kind, model) : o \in Options
  BY <1>1, PlansFit
<1> QED  BY <1>2

LEMMA PlanStep ==
    ASSUME BookInv, Plan
    PROVE  BookInv'
<1>1. job.at = "plan" /\ job \in BookJobs /\ UNCHANGED <<net, book, rows, tasks, clock>>
  BY DEF Plan, BookInv, BookTypes
<1> DEFINE same == SameModel(job.id, job.kind, job.model)
           free == OtherFree(job.id, job.kind, job.model)
           blur == IF SeveralAt(job.id, job.model) THEN job.blur \cup {"loose"} ELSE job.blur
<1>2. job' = [[job EXCEPT !.same = same, !.free = free, !.blur = blur] EXCEPT !.at = "try"]
  BY DEF Plan, Planned
<1>3. same \in SUBSET Options /\ free \in SUBSET Options /\ blur \in SUBSET {"moved", "loose"}
  BY <1>1, PlanTyped DEF BookJobs
<1>9. blur = {} => job.blur = {} /\ ~SeveralAt(job.id, job.model)
  OBVIOUS
<1> HIDE DEF same, free, blur
<1>4. /\ job' \in BookJobs
      /\ job'.at = "try" /\ job'.same = same /\ job'.free = free
      /\ job'.tool = job.tool /\ job'.kind = job.kind /\ job'.model = job.model /\ job'.id = job.id
      /\ job'.menu = job.menu /\ job'.offer = job.offer /\ job'.first = job.first
      /\ job'.since = job.since /\ job'.blur = blur
  BY <1>1, <1>2, <1>3 DEF BookJobs, JobStages
<1>5. TableParts' /\ rows' = rows /\ book' = book
  BY <1>1, <1>4, TableStands
<1>6. Begun' /\ OfferStands' /\ NoDearerThanOffered'
  BY <1>1, <1>4 DEF BookInv, Begun, OfferStands, NoDearerThanOffered
<1>7. TryWithin'
  BY <1>1, <1>4, <1>9 DEF BookInv, TryWithin, Within
<1>8. PlanFits'
  <2>1. job.blur = {} =>
            \A e \in ById(job.id) : Holds(book[e].menu, job.kind, job.model, job.offer)
    BY <1>1 DEF BookInv, Begun, OfferStands
  <2> QED  BY <1>4, <1>5, <1>9, <2>1, PlanIsMade DEF same, free
<1> QED  BY <1>5, <1>6, <1>7, <1>8 DEF TableParts, BookInv

\* The price the tool's choice was made by is the one its row offers.
LEMMA CheapestIsOffered ==
    ASSUME BookInv, NEW o \in ModelOptions("llm")
    PROVE  Cheapest(o.model) = o.price
<1> DEFINE prices == {p.price : p \in {q \in ProviderOptions("llm") : q.model = o.model}}
<1>1. o \in ProviderOptions("llm") /\ \A p \in ProviderOptions("llm") : p.model = o.model => o.price <= p.price
  BY DEF ModelOptions
<1>2. o.price \in prices /\ \A y \in prices : o.price <= y
  BY <1>1
<1>3. prices \in SUBSET Nat
  <2>1. \A p \in ProviderOptions("llm") : p.price \in Nat
    BY OptionsHold DEF Options
  <2> QED  BY <2>1
<1> HIDE DEF prices
<1>4. Min(prices) \in prices /\ \A y \in prices : Min(prices) <= y
  BY <1>2, <1>3, LeastNatural
<1>5. Min(prices) = o.price
  <2>1. Min(prices) \in Nat /\ o.price \in Nat
    BY <1>2, <1>3, <1>4
  <2>2. Min(prices) <= o.price /\ o.price <= Min(prices)
    BY <1>2, <1>4
  <2> QED  BY <2>1, <2>2
<1> QED  BY <1>5 DEF Cheapest, prices

LEMMA ToolAsksStep ==
    ASSUME BookInv, NEW model, ToolAsks(model)
    PROVE  BookInv'
<1>1. PICK o \in Picks(model) :
          job' = [Planned([NoJob EXCEPT !.id = o.id, !.model = o.model])
                  EXCEPT !.at = "fetch", !.tool = TRUE, !.offer = Cheapest(o.model)]
  BY DEF ToolAsks
<1>2. o \in ModelOptions("llm") /\ o \in ProviderOptions("llm")
  BY DEF Picks, ModelOptions
<1>3. /\ o \in Options /\ o.id <= rows
      /\ \A e \in ById(o.id) : Holds(book[e].menu, "llm", o.model, o.price)
  BY <1>2, OptionsHold
<1>4. Cheapest(o.model) = o.price /\ o.id \in Nat /\ o.model \in Seq(Nat) /\ o.price \in Nat
  BY <1>2, <1>3, CheapestIsOffered DEF Options
<1> DEFINE same == SameModel(o.id, "llm", o.model)
           free == OtherFree(o.id, "llm", o.model)
           asked == [NoJob EXCEPT !.id = o.id, !.model = o.model]
           blur == IF SeveralAt(o.id, o.model) THEN {} \cup {"loose"} ELSE {}
<1>5. asked \in BookJobs /\ asked.id = o.id /\ asked.model = o.model /\ asked.kind = "llm"
      /\ asked.first = 0 /\ asked.since = {} /\ asked.blur = {}
  BY <1>4, NoJobTyped DEF BookJobs
<1>6. job' = [[asked EXCEPT !.same = same, !.free = free, !.blur = blur]
              EXCEPT !.at = "fetch", !.tool = TRUE, !.offer = o.price]
  <2> HIDE DEF asked
  <2>1. Planned(asked) = [asked EXCEPT !.same = same, !.free = free, !.blur = blur]
    BY <1>5 DEF Planned
  <2> QED  BY <1>1, <1>4, <2>1 DEF asked
<1>7. same \in SUBSET Options /\ free \in SUBSET Options /\ blur \in SUBSET {"moved", "loose"}
  BY <1>4, PlanTyped
<1>13. blur = {} => ~SeveralAt(o.id, o.model)
  OBVIOUS
<1> HIDE DEF same, free, asked, blur
<1>8. /\ job' \in BookJobs
      /\ job'.at = "fetch" /\ job'.same = same /\ job'.free = free /\ job'.tool /\ job'.kind = "llm"
      /\ job'.model = o.model /\ job'.id = o.id /\ job'.offer = o.price /\ job'.first = 0
      /\ job'.since = {} /\ job'.blur = blur
  BY <1>4, <1>5, <1>6, <1>7 DEF BookJobs, JobStages
<1>9. TableParts' /\ rows' = rows /\ book' = book
  BY <1>8, TableStands DEF ToolAsks
<1>10. Begun' /\ TryWithin' /\ NoDearerThanOffered'
  BY <1>3, <1>8 DEF Options, Begun, TryWithin, NoDearerThanOffered
<1>11. OfferStands'
  BY <1>3, <1>8, <1>9 DEF OfferStands, ById, Rows
<1>12. PlanFits'
  BY <1>3, <1>8, <1>9, <1>13, PlanIsMade DEF same, free
<1> QED  BY <1>9, <1>10, <1>11, <1>12 DEF TableParts, BookInv

LEMMA FetchStep ==
    ASSUME BookInv, Fetch
    PROVE  BookInv'
<1>1. job.at = "fetch" /\ job \in BookJobs /\ UNCHANGED <<net, book, rows, tasks, clock>>
  BY DEF Fetch, BookInv, BookTypes
<1>2. CASE job' = NoJob
  BY <1>1, <1>2, RequestOver
<1>3. CASE ById(job.id) # {} /\ job' # NoJob
  <2> DEFINE e == CHOOSE f \in ById(job.id) : TRUE
             menu == book[e].menu
  <2>1. e \in ById(job.id) /\ job' = [job EXCEPT !.at = "try", !.menu = menu]
    BY <1>3 DEF Fetch
  <2>2. menu \in ListedMenus
    BY <2>1 DEF ById, Rows, BookInv, BookTypes, BookRows
  <2>3. job.id \notin job.since /\ job.blur = {} => Holds(menu, job.kind, job.model, job.offer)
    BY <1>1, <2>1 DEF BookInv, OfferStands
  <2> HIDE DEF e, menu
  <2>4. /\ job' \in BookJobs /\ job'.at = "try" /\ job'.menu = menu /\ job'.same = job.same
        /\ job'.free = job.free /\ job'.tool = job.tool /\ job'.kind = job.kind
        /\ job'.model = job.model /\ job'.id = job.id /\ job'.offer = job.offer
        /\ job'.first = job.first /\ job'.since = job.since /\ job'.blur = job.blur
    BY <1>1, <2>1, <2>2 DEF BookJobs, JobStages
  <2>5. TableParts' /\ rows' = rows /\ book' = book
    BY <1>1, <2>4, TableStands
  <2>6. Begun' /\ OfferStands' /\ NoDearerThanOffered'
    BY <1>1, <2>4 DEF BookInv, Begun, OfferStands, NoDearerThanOffered
  <2>7. TryWithin'
    <3> SUFFICES ASSUME job.id \notin job.since, job.blur = {} PROVE Within(menu, job')
      BY <2>4 DEF TryWithin
    <3>1. job.model \in Seq(Nat) /\ job.offer \in Nat /\ Serves(job.model, job.model)
      BY <1>1, ServesItself DEF BookJobs
    <3> QED  BY <2>3, <2>4, <3>1, HeldIsWithin
  <2>8. PlanFits'
    BY <1>1, <2>4, <2>5 DEF BookInv, PlanFits, RetryFits, ById, Rows
  <2> QED  BY <2>5, <2>6, <2>7, <2>8 DEF TableParts, BookInv
<1> QED  BY <1>2, <1>3 DEF Fetch

LEMMA TryStep ==
    ASSUME BookInv, Try
    PROVE  BookInv'
<1>1. job.at = "try" /\ job \in BookJobs /\ UNCHANGED <<net, book, rows, tasks, clock>>
  BY DEF Try, BookInv, BookTypes
<1>2. Charged(job) \in Nat
  <2>1. job.menu \in ListedMenus /\ job.menu \in Seq(MenuOffers) /\ DOMAIN job.menu \in SUBSET Nat
    BY <1>1, ListedOffers DEF BookJobs
  <2>2. ASSUME NEW fits \in SUBSET (DOMAIN job.menu) PROVE PriceAt(job.menu, fits) \in Nat
    <3>1. CASE fits = {}
      BY <3>1 DEF PriceAt
    <3>2. CASE fits # {}
      <4>1. Min(fits) \in fits
        BY <2>1, <3>2, LeastNatural
      <4>2. job.menu[Min(fits)] \in MenuOffers
        BY <2>1, <4>1
      <4> QED  BY <3>2, <4>2 DEF PriceAt, MenuOffers
    <3> QED  BY <3>1, <3>2
  <2> DEFINE fits == {k \in DOMAIN job.menu : IF job.tool THEN job.menu[k].model = job.model
                                              ELSE Serves(job.menu[k].model, job.model)}
  <2>3. fits \in SUBSET (DOMAIN job.menu) /\ Charged(job) = PriceAt(job.menu, fits)
    BY DEF Charged
  <2> QED  BY <2>2, <2>3
<1> DEFINE paid == Charged(job)
           first == IF job.first = 0 THEN job.id ELSE job.first
<1>3. job' = [job EXCEPT !.at = "trying", !.first = first, !.paid = paid]
  BY DEF Try
<1>4. first \in Nat
  BY <1>1 DEF BookJobs
<1>5. job.id \notin job.since /\ job.blur = {} /\ ~Several(job.menu, job.model) => paid <= job.offer
  BY <1>1, ChargedWithin DEF BookInv, TryWithin
<1> HIDE DEF paid, first
<1>7. /\ job' \in BookJobs /\ job'.at = "trying" /\ job'.same = job.same
      /\ job'.free = job.free /\ job'.tool = job.tool /\ job'.kind = job.kind
      /\ job'.model = job.model /\ job'.id = job.id /\ job'.offer = job.offer
      /\ job'.first = first /\ job'.since = job.since /\ job'.blur = job.blur /\ job'.paid = paid
      /\ job'.menu = job.menu
  BY <1>1, <1>2, <1>3, <1>4 DEF BookJobs, JobStages, paid
<1>8. TableParts' /\ rows' = rows /\ book' = book
  BY <1>1, <1>7, TableStands
<1>10. Begun' /\ OfferStands' /\ TryWithin'
  <2>1. first # 0
    BY <1>1 DEF BookInv, Begun, first
  <2> QED  BY <1>1, <1>7, <2>1 DEF BookInv, Begun, OfferStands, TryWithin
<1>11. PlanFits'
  BY <1>1, <1>7, <1>8 DEF BookInv, PlanFits, RetryFits, ById, Rows
<1>12. NoDearerThanOffered'
  <2> SUFFICES ASSUME job.id \notin job.since, job.blur = {}, ~Several(job.menu, job.model)
               PROVE  ~(paid > job.offer)
    BY <1>7 DEF NoDearerThanOffered
  <2>1. paid \in Nat /\ job.offer \in Nat
    BY <1>1, <1>2 DEF BookJobs, paid
  <2> QED  BY <1>5, <2>1
<1> QED  BY <1>8, <1>10, <1>11, <1>12 DEF TableParts, BookInv

LEMMA RetryStep ==
    ASSUME BookInv, Retry
    PROVE  BookInv'
<1>1. job.at = "trying" /\ job \in BookJobs /\ UNCHANGED <<net, book, rows, tasks, clock>>
  BY DEF Retry, BookInv, BookTypes
<1> DEFINE model(o) == IF job.kind = "llm" THEN o.model ELSE job.model
<1>2. PICK o \in NextUp : \E e \in ById(o.id) :
          job' = [job EXCEPT !.at = "try", !.id = o.id, !.menu = book[e].menu, !.model = model(o),
                             !.same = @ \ {o}, !.free = @ \ {o}]
  BY DEF Retry
<1>13. PICK e \in ById(o.id) :
          job' = [job EXCEPT !.at = "try", !.id = o.id, !.menu = book[e].menu, !.model = model(o),
                             !.same = @ \ {o}, !.free = @ \ {o}]
  BY <1>2
<1>3. o \in job.same \cup job.free
  BY DEF NextUp, Standing
<1>4. RetryFits(o) /\ o \in Options
  BY <1>1, <1>3 DEF BookInv, PlanFits, BookJobs
<1>5. o.id \in Nat /\ o.model \in Seq(Nat) /\ o.price \in Nat /\ book[e].menu \in ListedMenus
  BY <1>4 DEF Options, ById, Rows, BookInv, BookTypes, BookRows
<1> DEFINE name == model(o)
           menu == book[e].menu
<1>6. name \in Seq(Nat) /\ Serves(o.model, name) /\ (job.tool => name = o.model)
  <2>1. job.tool => job.kind = "llm"
    BY DEF BookInv, Begun
  <2>2. job.model \in Seq(Nat)
    BY <1>1 DEF BookJobs
  <2> QED  BY <1>4, <1>5, <2>1, <2>2, ServesItself DEF RetryFits
<1>7. job' = [job EXCEPT !.at = "try", !.id = o.id, !.menu = menu, !.model = name,
                         !.same = @ \ {o}, !.free = @ \ {o}]
  BY <1>13
<1>8. menu \in ListedMenus /\ (o.id \notin job.since => Holds(menu, job.kind, o.model, o.price))
  BY <1>4, <1>5 DEF RetryFits
<1> HIDE DEF name, menu, model
<1>9. /\ job' \in BookJobs /\ job'.at = "try" /\ job'.menu = menu /\ job'.same \subseteq job.same
      /\ job'.free \subseteq job.free /\ job'.tool = job.tool /\ job'.kind = job.kind
      /\ job'.model = name /\ job'.id = o.id /\ job'.offer = job.offer
      /\ job'.first = job.first /\ job'.since = job.since /\ job'.blur = job.blur
  BY <1>1, <1>5, <1>6, <1>7, <1>8 DEF BookJobs, JobStages
<1>10. TableParts' /\ rows' = rows /\ book' = book
  BY <1>1, <1>9, TableStands
<1>11. job.blur = {} => o.price <= job.offer
  BY <1>4 DEF RetryFits
<1>12. Begun' /\ OfferStands' /\ NoDearerThanOffered'
  BY <1>1, <1>4, <1>9 DEF BookInv, Begun, OfferStands, NoDearerThanOffered, Options
<1>14. TryWithin'
  <2> SUFFICES ASSUME o.id \notin job.since, job.blur = {} PROVE Within(menu, job')
    BY <1>9 DEF TryWithin
  <2>1. Holds(menu, job.kind, o.model, o.price) /\ o.price <= job'.offer
    BY <1>8, <1>9, <1>11
  <2>2. Serves(o.model, job'.model) /\ (job'.tool => o.model = job'.model)
    BY <1>6, <1>9
  <2> QED  BY <1>5, <1>9, <2>1, <2>2, HeldIsWithin
<1>15. PlanFits'
  <2> SUFFICES ASSUME NEW p \in job.same \cup job.free PROVE RetryFits(p)'
    BY <1>9 DEF PlanFits
  <2>1. RetryFits(p)
    BY <1>1 DEF BookInv, PlanFits
  <2>2. job.kind = "llm" \/ job'.model = job.model
    BY <1>9 DEF name, model
  <2> QED  BY <1>9, <1>10, <2>1, <2>2 DEF RetryFits, ById, Rows
<1> QED  BY <1>10, <1>12, <1>14, <1>15 DEF TableParts, BookInv

-----------------------------------------------------------------------------
LEMMA BookStarts == BookInit => BookInv
<1> SUFFICES ASSUME BookInit PROVE BookInv
  OBVIOUS
<1>1. job = NoJob /\ rows = 0 /\ clock = 0 /\ net \in Nets
      /\ book = [e \in Endpoints |-> NoRow] /\ tasks = [t \in Tasks |-> NoTask]
  BY DEF BookInit
<1>2. NoRow \in BookRows /\ NoRow.id = 0
  BY DEF NoRow, BookRows, ListedMenus
<1>3. BookTypes
  <2>1. net \in [Workers -> [up : BOOLEAN, menu : Menus]]
    BY <1>1, PeerBookAssumption
  <2> QED  BY <1>1, <1>2, <2>1, NoTaskTyped, NoJobTyped DEF BookTypes
<1>4. IdsAreRows
  BY <1>1, <1>2 DEF IdsAreRows
<1>5. Begun /\ OfferStands /\ TryWithin /\ PlanFits /\ NoDearerThanOffered
  BY <1>1, NoJobTyped DEF Begun, OfferStands, TryWithin, PlanFits, NoDearerThanOffered
<1> QED  BY <1>3, <1>4, <1>5 DEF BookInv

LEMMA BookGoesOn == BookInv /\ [BookNext]_bookVars => BookInv'
<1> SUFFICES ASSUME BookInv, [BookNext]_bookVars PROVE BookInv'
  OBVIOUS
<1>1. ASSUME TableParts', TableGoesOn PROVE BookInv'
  BY <1>1, RequestKeeps DEF JobParts, TableParts, BookInv
<1>2. CASE UNCHANGED bookVars
  <2>1. TableParts' /\ TableGoesOn
    BY <1>2 DEF bookVars, BookInv, BookTypes, IdsAreRows, TableParts, TableGoesOn
  <2> QED  BY <1>1, <2>1
<1>3. ASSUME NEW w \in Workers, Turn(w) PROVE BookInv'
  BY <1>1, <1>3, QuietSteps
<1>4. CASE Tick
  BY <1>1, <1>4, QuietSteps
<1>5. ASSUME NEW e \in Endpoints, AddPeer(e) \/ RemovePeer(e) PROVE BookInv'
  BY <1>1, <1>5, PeerSteps
<1>6. ASSUME NEW t \in Tasks, NEW e \in Endpoints, StartProbe(t, e) \/ Look(t, e) PROVE BookInv'
  BY <1>1, <1>6, QuietSteps
<1>7. ASSUME NEW t \in Tasks, StartSweep(t) \/ Hear(t) \/ Record(t) PROVE BookInv'
  BY <1>1, <1>7, QuietSteps
<1>8. ASSUME NEW t \in Tasks, Insert(t) \/ Write(t) \/ Prune(t) PROVE BookInv'
  BY <1>1, <1>8, InsertStep, WriteStep, PruneStep
<1>9. ASSUME NEW kind \in {"llm", "image"}, See(kind) PROVE BookInv'
  BY <1>9, SeeStep
<1>10. ASSUME NEW model \in Asked, ToolAsks(model) PROVE BookInv'
  BY <1>10, ToolAsksStep
<1>11. CASE Submit \/ Plan \/ Fetch \/ Try \/ Retry
  BY <1>11, SubmitStep, PlanStep, FetchStep, TryStep, RetryStep
<1>12. CASE End
  BY <1>12, RequestOver DEF End
<1> QED
  BY <1>2, <1>3, <1>4, <1>5, <1>6, <1>7, <1>8, <1>9, <1>10, <1>11, <1>12 DEF BookNext

\* However sweeps, probes, edits of the list and restarts of workers fall between
\* the tries of a request, whoever made it and whatever the menus list: no try is
\* charged more than the offer the request began with, unless a probe rewrote its row
\* since the plan, or the row the request began with before it, or one of the two
\* lists several names that fit (routing.rs fallbacks; jobs.rs, gateway/mod.rs submit).
THEOREM RetriesKeepTheOffer == BookSpec => []NoDearerThanOffered
<1>1. BookInv => NoDearerThanOffered
  BY DEF BookInv
<1> QED  BY <1>1, BookStarts, BookGoesOn, PTL DEF BookSpec

(***************************************************************************)
(* The connected tools                                                     *)
(***************************************************************************)

\* A file that is not there has no settings, and what we set is on our lists.
FileOk(F, f) ==
    /\ F = [there |-> F.there, whole |-> F.whole, keys |-> F.keys]
    /\ F.there \in BOOLEAN /\ F.whole \in BOOLEAN
    /\ ~F.there => DOMAIN F.keys = {}
    /\ ByUs(F.keys) \subseteq Sets(tool, f)
ToolsInv ==
    /\ files = [f \in Files |-> files[f]]
    /\ \A f \in Files : FileOk(files[f], f)

LEMMA WrittenOk ==
    ASSUME NEW f, NEW keys, ByUs(keys) \subseteq Sets(tool, f)
    PROVE  FileOk(Written(f, keys), f)
BY DEF FileOk, Written

LEMMA AbsentOk ==
    ASSUME NEW f
    PROVE  FileOk(Absent, f) /\ ByUs(Nothing) = {}
<1>1. DOMAIN Nothing = {}
  BY DEF Nothing
<1>2. ByUs(Nothing) = {}
  BY <1>1 DEF ByUs
<1> QED  BY <1>1, <1>2 DEF FileOk, Absent

\* What is read of a file is what it holds, or nothing.
LEMMA ReadOurs ==
    ASSUME NEW f \in Files, FileOk(files[f], f)
    PROVE  /\ Read(f) \in {files[f].keys, Nothing}
           /\ ByUs(Read(f)) \subseteq Sets(tool, f)
BY AbsentOk DEF Read, FileOk

LEMMA PatchedOurs ==
    ASSUME NEW f \in Files, FileOk(files[f], f)
    PROVE  ByUs(Patched(f)) \subseteq Sets(tool, f)
<1> DEFINE keys == Read(f)
<1>1. ByUs(keys) \subseteq Sets(tool, f)
  BY ReadOurs
<1>2. Patched(f) = [k \in DOMAIN keys \cup Sets(tool, f) |->
                       IF k \in Sets(tool, f) THEN Ours ELSE keys[k]]
  BY DEF Patched
<1> HIDE DEF keys
<1> QED  BY <1>1, <1>2 DEF ByUs

LEMMA UnpatchedKeys ==
    ASSUME NEW f \in Files
    PROVE  /\ DOMAIN Unpatched(f) = DOMAIN Read(f) \ TakesOut(tool, f, Read(f))
           /\ \A k \in DOMAIN Unpatched(f) : Unpatched(f)[k] = Read(f)[k]
BY DEF Unpatched, Restrict

LEMMA UnpatchedOurs ==
    ASSUME NEW f \in Files, FileOk(files[f], f)
    PROVE  ByUs(Unpatched(f)) \subseteq ByUs(Read(f))
BY UnpatchedKeys DEF ByUs

\* Files are written whole, or stay.
LEMMA WriteKeeps ==
    ASSUME ToolsInv, NEW fs \in SUBSET Files, NEW new, WriteText(fs, new), UNCHANGED tool,
           \A f \in fs : ByUs(new[f]) \subseteq Sets(tool, f)
    PROVE  ToolsInv'
<1>1. Files' = Files
  BY DEF Files
<1>2. files' = [f \in Files |-> IF f \in fs THEN Written(f, new[f]) ELSE files[f]]
  BY DEF WriteText
<1>3. ASSUME NEW f \in Files PROVE FileOk(files'[f], f)
  <2>1. CASE f \in fs
    BY <1>2, <2>1, WrittenOk
  <2>2. CASE f \notin fs
    BY <1>2, <2>2 DEF ToolsInv
  <2> QED  BY <2>1, <2>2
<1>4. ASSUME NEW f \in Files PROVE FileOk(files[f], f)'
  BY <1>3, <1>4 DEF FileOk
<1> QED  BY <1>1, <1>2, <1>4 DEF ToolsInv

LEMMA EditKeeps ==
    ASSUME ToolsInv, NEW f \in Files, PersonEdits(f)
    PROVE  ToolsInv'
<1> DEFINE F == files[f]
           Put(k) == [j \in DOMAIN F.keys \cup {k} |-> IF j = k THEN Person ELSE F.keys[j]]
<1>1. PICK new \in Edited(f) : files' = [files EXCEPT ![f] = new]
  BY DEF PersonEdits
<1>2. tool' = tool /\ Files' = Files
  BY DEF PersonEdits, Operation, Files
<1>3. FileOk(F, f)
  BY DEF ToolsInv
<1>4. \/ \E k \in Sets(tool, f) \cup {"other"} : new = [F EXCEPT !.there = TRUE, !.keys = Put(k)]
      \/ \E k \in DOMAIN F.keys : new = [F EXCEPT !.keys = Restrict(@, DOMAIN @ \ {k})]
      \/ F.there /\ new = [F EXCEPT !.whole = ~@]
      \/ new = Absent
  BY DEF Edited
<1>5. FileOk(new, f)
  <2>1. ASSUME NEW k, new = [F EXCEPT !.there = TRUE, !.keys = Put(k)] PROVE FileOk(new, f)
    <3>1. ByUs(Put(k)) \subseteq ByUs(F.keys)
      BY DEF ByUs, Person
    <3> DEFINE put == Put(k)
    <3> HIDE DEF put
    <3>2. new = [there |-> TRUE, whole |-> F.whole, keys |-> put]
      BY <1>3, <2>1 DEF FileOk, put
    <3>3. new.there = TRUE /\ new.whole = F.whole /\ new.keys = put
      BY <3>2
    <3> QED  BY <1>3, <3>1, <3>2, <3>3 DEF FileOk, put
  <2>2. ASSUME NEW k, new = [F EXCEPT !.keys = Restrict(@, DOMAIN @ \ {k})] PROVE FileOk(new, f)
    <3> DEFINE rest == Restrict(F.keys, DOMAIN F.keys \ {k})
    <3>1. ByUs(rest) \subseteq ByUs(F.keys) /\ DOMAIN rest \subseteq DOMAIN F.keys
      BY DEF ByUs, Restrict
    <3> HIDE DEF rest
    <3>2. new = [there |-> F.there, whole |-> F.whole, keys |-> rest]
      BY <1>3, <2>2 DEF FileOk, rest
    <3>3. new.there = F.there /\ new.whole = F.whole /\ new.keys = rest
      BY <3>2
    <3> QED  BY <1>3, <3>1, <3>2, <3>3 DEF FileOk
  <2>3. ASSUME F.there, new = [F EXCEPT !.whole = ~@] PROVE FileOk(new, f)
    <3>1. PICK b \in BOOLEAN : b = ~F.whole
      BY <1>3 DEF FileOk
    <3>2. new = [there |-> F.there, whole |-> b, keys |-> F.keys]
      BY <1>3, <2>3, <3>1 DEF FileOk
    <3>3. new.there = F.there /\ new.whole = b /\ new.keys = F.keys
      BY <3>2
    <3> QED  BY <1>3, <3>2, <3>3 DEF FileOk
  <2> QED  BY <1>4, <2>1, <2>2, <2>3, AbsentOk
<1>6. ASSUME NEW g \in Files PROVE FileOk(files'[g], g)
  BY <1>1, <1>5 DEF ToolsInv
<1>7. files' = [g \in Files |-> files'[g]]
  BY <1>1 DEF ToolsInv
<1>8. ASSUME NEW g \in Files PROVE FileOk(files[g], g)'
  BY <1>2, <1>6, <1>8 DEF FileOk
<1> QED  BY <1>2, <1>7, <1>8 DEF ToolsInv

LEMMA FirstAreFiles == \A fs \in FirstFiles : fs \subseteq Files
<1> DEFINE names == FilesOf(tool)
<1>1. Len(names) \in Nat /\ DOMAIN names = 1..Len(names)
  <2>1. CASE tool = "pi"
    BY <2>1 DEF FilesOf
  <2>2. CASE tool = "codex"
    BY <2>2 DEF FilesOf
  <2>3. CASE tool # "pi" /\ tool # "codex"
    BY <2>3 DEF FilesOf
  <2> QED  BY <2>1, <2>2, <2>3
<1>2. Files = {names[i] : i \in DOMAIN names}
  BY DEF Files, Range
<1>3. FirstFiles = {{names[i] : i \in 1..n} : n \in 0..(Len(names) - 1)}
  BY DEF FirstFiles
<1> HIDE DEF names
<1> QED  BY <1>1, <1>2, <1>3

LEMMA ToolsStart == ToolsInit => ToolsInv
<1> SUFFICES ASSUME ToolsInit PROVE ToolsInv
  OBVIOUS
<1> DEFINE theirs == [there |-> TRUE, whole |-> TRUE, keys |-> [k \in {"other"} |-> Person]]
<1>1. files \in [Files -> {Absent, theirs}]
  BY DEF ToolsInit, Files
<1>2. \A f \in Files : FileOk(theirs, f)
  <2>1. ByUs([k \in {"other"} |-> Person]) = {}
    BY DEF ByUs, Person
  <2> QED  BY <2>1 DEF FileOk
<1> HIDE DEF theirs
<1> QED  BY <1>1, <1>2, AbsentOk DEF ToolsInv

LEMMA ToolsGoOn == ToolsInv /\ [ToolsNext]_toolsVars => ToolsInv'
<1> SUFFICES ASSUME ToolsInv, [ToolsNext]_toolsVars PROVE ToolsInv'
  OBVIOUS
<1>1. \A f \in Files : FileOk(files[f], f)
  BY DEF ToolsInv
<1>2. \A f \in Files : ByUs(Patched(f)) \subseteq Sets(tool, f)
                       /\ ByUs(Unpatched(f)) \subseteq Sets(tool, f)
  BY <1>1, PatchedOurs, UnpatchedOurs, ReadOurs
<1>3. CASE Connect
  <2>1. tool' = tool
    BY <1>3 DEF Connect, Operation
  <2>2. PICK fs \in SUBSET Files : WriteText(fs, [f \in fs |-> Patched(f)])
    BY <1>3, FirstAreFiles DEF Connect
  <2> QED  BY <1>2, <2>1, <2>2, WriteKeeps
<1>4. CASE Disconnect
  <2>1. tool' = tool
    BY <1>4 DEF Disconnect, Operation
  <2>2. PICK fs \in SUBSET Files : WriteText(fs, [f \in fs |-> Unpatched(f)])
    BY <1>4, FirstAreFiles DEF Disconnect, Touched
  <2> QED  BY <1>2, <2>1, <2>2, WriteKeeps
<1>5. CASE RotateToken \/ UNCHANGED toolsVars
  BY <1>5 DEF RotateToken, Operation, toolsVars, ToolsInv, FileOk, Files
<1>6. ASSUME NEW f \in Files, PersonEdits(f) PROVE ToolsInv'
  BY <1>6, EditKeeps
<1> QED  BY <1>3, <1>4, <1>5, <1>6 DEF ToolsNext

\* What a disconnect takes out is on our lists, and all that is ours but the model.
LEMMA TakenOut ==
    ASSUME NEW f \in Files, NEW keys
    PROVE  /\ TakesOut(tool, f, keys) \subseteq Sets(tool, f)
           /\ \A k \in Sets(tool, f) \ TakesOut(tool, f, keys) :
                 k \in ByUs(keys) =>
                     k \in (IF tool = "codex" \/ f = "settings" THEN {"model"} ELSE {})
<1>1. CASE f = "settings"
  <2>1. TakesOut(tool, f, keys) = PiDrops(keys) /\ Sets(tool, f) = {"provider", "model"}
    BY <1>1 DEF TakesOut, Sets, PiSettings
  <2>2. CASE IsOurs("provider", keys)
    BY <2>1, <2>2 DEF PiDrops
  <2>3. CASE ~IsOurs("provider", keys)
    <3>1. TakesOut(tool, f, keys) = {}
      BY <2>1, <2>3 DEF PiDrops
    <3>2. "provider" \notin ByUs(keys)
      BY <2>3 DEF IsOurs, ByUs
    <3> QED  BY <1>1, <2>1, <3>1, <3>2
  <2> QED  BY <2>2, <2>3
<1>2. CASE f # "settings" /\ tool = "codex" /\ f = "config"
  BY <1>2 DEF TakesOut, Sets, CodexDrops, Codex
<1>3. CASE tool = "opencode" /\ f # "settings"
  <2>1. f = "config"
    BY <1>3 DEF Files, FilesOf, Range
  <2> QED  BY <1>3, <2>1 DEF TakesOut, Sets, OpenCodeDrops, OpenCode, IsOurs, ByUs
<1>4. CASE f # "settings" /\ ~(tool = "codex" /\ f = "config") /\ tool # "opencode"
  BY <1>4 DEF TakesOut
<1> QED  BY <1>1, <1>2, <1>3, <1>4

\* Whatever tools there are, and however connects, disconnects that failed half way,
\* edits of the person and rotations of the token came before: a disconnect that
\* succeeds leaves nothing of ours but the two models it names and touches no setting
\* outside our lists (connected_tools.rs).
THEOREM DisconnectsUndo == ToolsSpec => DisconnectUndoes
<1> DEFINE Undone ==
        did' = "disconnect" /\ edited' # edited =>
            \A f \in Files :
                /\ ByUs(files'[f].keys) \subseteq
                       (IF tool = "codex" \/ f = "settings" THEN {"model"} ELSE {})
                /\ (files[f].whole \/ ByLine(tool, f)) =>
                       \A k \in DOMAIN files[f].keys \ Sets(tool, f) :
                           k \in DOMAIN files'[f].keys /\ files'[f].keys[k] = files[f].keys[k]
<1>1. ASSUME ToolsInv, [ToolsNext]_toolsVars PROVE [Undone]_toolsVars
  <2> SUFFICES ASSUME ToolsNext, did' = "disconnect", edited' # edited, NEW f \in Files
               PROVE  /\ ByUs(files'[f].keys) \subseteq
                             (IF tool = "codex" \/ f = "settings" THEN {"model"} ELSE {})
                      /\ (files[f].whole \/ ByLine(tool, f)) =>
                             \A k \in DOMAIN files[f].keys \ Sets(tool, f) :
                                 k \in DOMAIN files'[f].keys /\ files'[f].keys[k] = files[f].keys[k]
    BY <1>1
  <2>1. WriteText(Touched, [g \in Touched |-> Unpatched(g)])
    BY DEF ToolsNext, Connect, Disconnect, RotateToken, PersonEdits
  <2>2. files' = [g \in Files |-> IF g \in Touched THEN Written(g, Unpatched(g)) ELSE files[g]]
    BY <2>1 DEF WriteText
  <2>3. FileOk(files[f], f)
    BY <1>1 DEF ToolsInv
  <2>4. CASE f \in Touched
    <3>1. files'[f].keys = Unpatched(f)
      BY <2>2, <2>4 DEF Written
    <3>2. ByUs(Unpatched(f)) \subseteq (IF tool = "codex" \/ f = "settings" THEN {"model"} ELSE {})
      <4>1. ASSUME NEW k \in ByUs(Unpatched(f))
            PROVE  k \in (IF tool = "codex" \/ f = "settings" THEN {"model"} ELSE {})
        <5>1. k \in ByUs(Read(f)) /\ k \notin TakesOut(tool, f, Read(f))
          BY <4>1, UnpatchedKeys DEF ByUs
        <5>2. k \in Sets(tool, f)
          BY <2>3, <5>1, ReadOurs
        <5> QED  BY <5>1, <5>2, TakenOut
      <4> QED  BY <4>1
    <3>3. ASSUME files[f].whole \/ ByLine(tool, f), NEW k \in DOMAIN files[f].keys \ Sets(tool, f)
          PROVE  k \in DOMAIN Unpatched(f) /\ Unpatched(f)[k] = files[f].keys[k]
      <4>1. Read(f) = files[f].keys
        BY <2>3, <3>3 DEF Read, FileOk
      <4>2. k \notin TakesOut(tool, f, Read(f))
        BY <3>3, TakenOut
      <4> QED  BY <3>3, <4>1, <4>2, UnpatchedKeys
    <3> QED  BY <3>1, <3>2, <3>3
  <2>5. CASE f \notin Touched
    <3>1. files'[f] = files[f] /\ ~files[f].there
      BY <2>2, <2>5 DEF Touched
    <3>2. DOMAIN files[f].keys = {}
      BY <2>3, <3>1 DEF FileOk
    <3> QED  BY <3>1, <3>2 DEF ByUs
  <2> QED  BY <2>4, <2>5
<1> QED  BY <1>1, ToolsStart, ToolsGoOn, PTL DEF ToolsSpec, DisconnectUndoes

(***************************************************************************)
(* Pictures                                                                *)
(***************************************************************************)

\* The graph a job runs is the operator's own, the standard one over the file asked
\* for, or a split one over that file or, where ComfyUI listed none of its name, the one
\* named like it; and with its family's VAE if the family's template was read.
JobShape(p) ==
    p = [at |-> p.at, asked |-> p.asked, file |-> p.file, start |-> p.start, step |-> p.step,
         graph |-> p.graph, had |-> p.had, out |-> p.out]
PictureShape == JobShape(picture)
SplitOf(g, name) ==
    /\ g.form = "split"
    /\ g.file = name \/ (name \notin g.unets /\ <<name, g.file>> \in Alike)
    /\ g.kind \in g.templates /\ About[g.kind].vae # "none" => g.vae = About[g.kind].vae
GraphFor(g, name) ==
    \/ g.form = "theirs"
    \/ g.form = "standard" /\ g.file = name
    \/ SplitOf(g, name)
PictureFrom(h, g) ==
    g.form # "theirs" =>
        /\ h.weights = g.file
        /\ g.form = "split" => g.kind = Made[g.file].family /\ h.vae = g.vae
PictureInv ==
    /\ box \in Boxes /\ "" \notin installed
    /\ PictureShape
    /\ picture.at = "queued" => ~picture.had
    /\ picture.at \in {"renders", "picture"} /\ picture.had =>
           picture.file = picture.asked /\ GraphFor(picture.graph, picture.asked)
    /\ picture.at = "picture" => PictureFrom(picture.out, picture.graph)

LEMMA TwinIsAlike ==
    ASSUME NEW r, NEW file, NEW u \in Twin(r, file)
    PROVE  u = file \/ (file \notin r.unets /\ <<file, u>> \in Alike)
BY DEF Twin, FirstOf

LEMMA KindIsKnown == \A r, kind : Kind(r, kind) # "none"
BY DEF Kind

\* A template of the family that was read is the one that is used.
LEMMA VaeIsNamed ==
    ASSUME NEW r, NEW seen, NEW file, NEW family, NEW recipe \in Recipe(seen, file, family),
           NEW v \in Vae(r, recipe), family \in seen, family # "none", About[family].vae # "none"
    PROVE  v = About[family].vae
<1>1. recipe = family
  BY DEF Recipe
<1> QED  BY <1>1 DEF Vae

LEMMA SplitIsOf ==
    ASSUME NEW file, NEW kind, NEW g \in SplitFor(file, kind)
    PROVE  SplitOf(g, file)
<1>0. PICK r, seen, family, clips :
         /\ family # "none"
         /\ \E recipe \in IF clips = {} THEN {} ELSE Recipe(seen, file, family) :
              \E u \in Twin(r, file), v \in Vae(r, recipe) :
                g = Split(u, family, clips, v, r.unets, seen)
  <2> DEFINE forced(typed) == IF kind # "none" THEN kind
                              ELSE IF typed THEN Made[file].named ELSE "none"
  <2>1. PICK r \in PartsRead, typed \in BOOLEAN, seen \in TemplatesRead :
          \E recipe \in IF Clips(r, forced(typed)) = {} THEN {}
                        ELSE Recipe(seen, file, Kind(r, forced(typed))) :
            \E u \in Twin(r, file), v \in Vae(r, recipe) :
              g = Split(u, Kind(r, forced(typed)), Clips(r, forced(typed)), v, r.unets, seen)
    BY DEF SplitFor
  <2> HIDE DEF forced
  <2> QED  BY <2>1, KindIsKnown
<1>1. PICK recipe \in Recipe(seen, file, family) :
         \E u \in Twin(r, file), v \in Vae(r, recipe) : g = Split(u, family, clips, v, r.unets, seen)
  BY <1>0
<1>2. PICK u \in Twin(r, file), v \in Vae(r, recipe) : g = Split(u, family, clips, v, r.unets, seen)
  BY <1>1
<1>3. /\ g.form = "split" /\ g.file = u /\ g.kind = family /\ g.vae = v
      /\ g.unets = r.unets /\ g.templates = seen
  BY <1>2 DEF Split
<1>4. family \in seen /\ About[family].vae # "none" => v = About[family].vae
  BY <1>0, VaeIsNamed
<1>5. u = file \/ (file \notin r.unets /\ <<file, u>> \in Alike)
  BY TwinIsAlike
<1> QED  BY <1>3, <1>4, <1>5 DEF SplitOf

LEMMA OutcomeFrom ==
    ASSUME NEW g, NEW h \in Outcomes(g), h.fails = "no"
    PROVE  PictureFrom(h, g)
<1>1. \A why, kind : Raises(why, kind).fails = why
  BY DEF Raises, Picture
<1>2. h # Lost /\ \A kind : h # Raises("other", kind) /\ h # Raises("no encoder", kind)
  <2>1. Lost.fails = "lost"
    BY <1>1 DEF Lost
  <2> QED  BY <1>1, <2>1
<1>3. CASE g.form = "standard"
  <2>1. h = Picture(g.file, Decoder[Made[g.file].family], g.start)
    BY <1>2, <1>3 DEF Outcomes
  <2>2. h.weights = g.file
    BY <2>1 DEF Picture
  <2> QED  BY <1>3, <2>2 DEF PictureFrom
<1>4. CASE g.form \notin {"theirs", "standard"}
  <2>1. h = Picture(g.file, g.vae, FALSE) /\ g.kind = Made[g.file].family
    BY <1>2, <1>4 DEF Outcomes
  <2>2. h.weights = g.file /\ h.vae = g.vae
    BY <2>1 DEF Picture
  <2> QED  BY <2>1, <2>2 DEF PictureFrom
<1> QED  BY <1>3, <1>4 DEF PictureFrom

LEMMA FirstOfIsIn == \A found : FirstOf(found) \subseteq found
BY DEF FirstOf

LEMMA PicturesStart == ImageInit => PictureInv
<1> SUFFICES ASSUME ImageInit PROVE PictureInv
  OBVIOUS
<1>1. picture.at = "idle" /\ PictureShape
  BY DEF ImageInit, NoPicture, PictureShape, JobShape
<1>2. box \in Boxes /\ "" \notin installed
  BY FilesAreNamed DEF ImageInit
<1> QED  BY <1>1, <1>2 DEF PictureInv

LEMMA FieldsOf ==
    ASSUME NEW at, NEW asked, NEW file, NEW start, NEW step, NEW graph, NEW had, NEW out,
           picture' = [at |-> at, asked |-> asked, file |-> file, start |-> start,
                       step |-> step, graph |-> graph, had |-> had, out |-> out]
    PROVE  /\ PictureShape'
           /\ picture'.at = at /\ picture'.asked = asked /\ picture'.file = file
           /\ picture'.graph = graph /\ picture'.had = had /\ picture'.out = out
BY DEF PictureShape, JobShape

\* What a job becomes when it starts to render: the same job with another graph.
LEMMA RenderIs ==
    ASSUME PictureShape, NEW step, NEW g, picture' = Render(step, g)
    PROVE  /\ PictureShape'
           /\ picture'.at = "renders" /\ picture'.asked = picture.asked
           /\ picture'.file = picture.file /\ picture'.graph = g /\ picture'.had = picture.had
BY DEF PictureShape, JobShape, Render

LEMMA RefusedIs ==
    ASSUME PictureShape, picture' = Refused
    PROVE  PictureShape' /\ picture'.at = "failed"
BY DEF PictureShape, JobShape, Refused

LEMMA DeliverIs ==
    ASSUME PictureShape, NEW h, picture' = Deliver(h)
    PROVE  /\ PictureShape'
           /\ picture'.at = IF h.fails = "no" THEN "picture" ELSE "failed"
           /\ picture'.asked = picture.asked /\ picture'.file = picture.file
           /\ picture'.graph = picture.graph /\ picture'.had = picture.had /\ picture'.out = h
BY DEF PictureShape, JobShape, Deliver

LEMMA RenderedKeeps == PictureInv /\ Rendered => PictureInv'
<1> SUFFICES ASSUME PictureInv, Rendered PROVE PictureInv'
  OBVIOUS
<1>1. box' \in Boxes /\ "" \notin installed'
  BY DEF PictureInv, Rendered, shop
<1>2. picture.at = "renders" /\ PictureShape
  BY DEF PictureInv, Rendered
<1>3. PICK h \in Outcomes(picture.graph) :
          \/ picture' = Deliver(h)
          \/ picture' = Refused
          \/ \E kind, step : \E g \in SplitFor(picture.file, kind) : picture' = Render(step, g)
  BY DEF Rendered
<1>4. CASE picture' = Deliver(h)
  <2>1. picture.had => picture.file = picture.asked /\ GraphFor(picture.graph, picture.asked)
    BY <1>2 DEF PictureInv
  <2>2. h.fails = "no" => PictureFrom(h, picture.graph)
    BY OutcomeFrom DEF PictureInv
  <2> QED  BY <1>1, <1>2, <1>4, <2>1, <2>2, DeliverIs DEF PictureInv, PictureFrom, GraphFor, SplitOf
<1>5. CASE picture' = Refused
  BY <1>1, <1>2, <1>5, RefusedIs DEF PictureInv
<1>6. ASSUME NEW kind, NEW step, NEW g \in SplitFor(picture.file, kind), picture' = Render(step, g)
      PROVE  PictureInv'
  <2>1. picture.had => picture.file = picture.asked
    BY <1>2 DEF PictureInv
  <2>2. SplitOf(g, picture.file)
    BY <1>6, SplitIsOf
  <2> QED  BY <1>1, <1>2, <1>6, <2>1, <2>2, RenderIs, ZenonT(30) DEF PictureInv, GraphFor, SplitOf
<1> QED  BY <1>3, <1>4, <1>5, <1>6

\* A job that was told its file, and goes on or not.
Went(at, file, graph, had) ==
    /\ JobShape(picture') /\ picture'.at = at /\ picture'.asked = picture.asked
    /\ picture'.file = file /\ picture'.graph = graph /\ picture'.had = had
LEMMA ToldIs ==
    ASSUME PictureShape, NEW file, NEW had, NEW told,
           told = [picture EXCEPT !.file = file, !.had = had]
    PROVE  /\ picture' = [told EXCEPT !.at = "failed"] => Went("failed", file, picture.graph, had)
           /\ \A step, g : picture' = [told EXCEPT !.at = "renders", !.step = step, !.graph = g]
                           => Went("renders", file, g, had)
<1>1. /\ JobShape(told) /\ told.at = picture.at /\ told.asked = picture.asked
      /\ told.file = file /\ told.graph = picture.graph /\ told.had = had
  BY DEF PictureShape, JobShape
<1>2. ASSUME picture' = [told EXCEPT !.at = "failed"]
      PROVE  Went("failed", file, picture.graph, had)
  BY <1>1, <1>2 DEF JobShape, Went
<1>3. ASSUME NEW step, NEW g, picture' = [told EXCEPT !.at = "renders", !.step = step, !.graph = g]
      PROVE  Went("renders", file, g, had)
  BY <1>1, <1>3 DEF JobShape, Went
<1> QED  BY <1>2, <1>3

\* A job that was on the installed list starts with the file of its own name.
LEMMA StartKeeps == PictureInv /\ StartImage => PictureInv'
<1> SUFFICES ASSUME PictureInv, StartImage PROVE PictureInv'
  OBVIOUS
<1> DEFINE found == IF settings.workflow THEN {} ELSE Checkpoint(picture.asked)
           file == CHOOSE f \in found : TRUE
<1>1. box' \in Boxes /\ "" \notin installed'
  BY DEF PictureInv, StartImage, shop
<1>2. picture.at = "queued" /\ PictureShape
  BY DEF PictureInv, StartImage
<1> DEFINE had == picture.asked \in installed
<1>4. found # {} /\ had => file = picture.asked
  <2>1. picture.asked \in installed => picture.asked # ""
    BY DEF PictureInv
  <2> QED  BY <2>1 DEF Checkpoint, Match
<1>5. \/ picture' = Refused
      \/ \E g : found = {} /\ picture' = Render("plain", Theirs(g))
      \/ /\ found # {}
         /\ \/ Went("failed", file, picture.graph, had)
            \/ \E g : Went("renders", file, g, had)
                  /\ (g \in SplitFor(file, kinds[file]) \/ g = FromPicture(file) \/ g = Standard(file, FALSE)
                      \/ \E t : g = Theirs(t))
  <2>1. CASE found = {}
    BY <2>1 DEF StartImage
  <2>2. CASE found # {}
    <3> DEFINE told == [picture EXCEPT !.file = file, !.had = had]
    <3>1. picture' = [told EXCEPT !.at = "failed"] => Went("failed", file, picture.graph, had)
      BY <1>2, ToldIs
    <3>2. ASSUME NEW step, NEW g, picture' = [told EXCEPT !.at = "renders", !.step = step, !.graph = g]
          PROVE  Went("renders", file, g, had)
      BY <1>2, <3>2, ToldIs
    <3> DEFINE own == IF picture.asked = "" THEN FirstOf(settings.own) ELSE Match(settings.own, picture.asked)
               theirSaved == IF picture.asked = "" THEN {} ELSE Match(saved, picture.asked)
               theirs == theirSaved \cup (IF theirSaved = {} THEN own ELSE {})
               graph == IF theirs # {} /\ ~picture.start THEN Theirs(CHOOSE t \in theirs : TRUE)
                        ELSE IF picture.start THEN FromPicture(file) ELSE Standard(file, FALSE)
    <3>3. \/ picture' = [told EXCEPT !.at = "renders", !.step = "plain", !.graph = graph]
          \/ picture' = [told EXCEPT !.at = "failed"]
          \/ \E g \in SplitFor(file, kinds[file]) :
                picture' = [told EXCEPT !.at = "renders", !.step = "plain", !.graph = g]
          \/ picture' = [told EXCEPT !.at = "renders", !.step = "first", !.graph = graph]
      BY <2>2 DEF StartImage
    <3>4. graph = FromPicture(file) \/ graph = Standard(file, FALSE) \/ \E t : graph = Theirs(t)
      OBVIOUS
    <3> HIDE DEF told, graph, own, theirSaved, theirs, file, had
    <3> QED  BY <2>2, <3>1, <3>2, <3>3, <3>4
  <2> QED  BY <2>1, <2>2
<1>6. CASE picture' = Refused
  BY <1>1, <1>2, <1>6, RefusedIs DEF PictureInv
<1>7. ASSUME NEW g, picture' = Render("plain", Theirs(g)), found = {} PROVE PictureInv'
  <2>1. Theirs(g).form = "theirs"
    BY DEF Theirs
  <2>2. ~picture.had
    BY <1>2 DEF PictureInv
  <2> QED  BY <1>1, <1>2, <1>7, <2>1, <2>2, RenderIs DEF PictureInv
<1>8. ASSUME Went("failed", file, picture.graph, had) PROVE PictureInv'
  <2>1. PictureShape' /\ picture'.at = "failed"
    BY <1>8 DEF Went, PictureShape, JobShape
  <2> QED  BY <1>1, <2>1 DEF PictureInv
<1>9. ASSUME found # {}, NEW g, Went("renders", file, g, had),
             g \in SplitFor(file, kinds[file]) \/ g = FromPicture(file) \/ g = Standard(file, FALSE)
             \/ \E t : g = Theirs(t)
      PROVE  PictureInv'
  <2>1. /\ PictureShape' /\ picture'.at = "renders" /\ picture'.asked = picture.asked
        /\ picture'.file = file /\ picture'.graph = g /\ picture'.had = had
    BY <1>9 DEF Went, PictureShape, JobShape
  <2>2. GraphFor(g, file)
    BY <1>9, SplitIsOf DEF GraphFor, FromPicture, Standard, Theirs
  <2> HIDE DEF file
  <2> QED  BY <1>1, <1>4, <1>9, <2>1, <2>2 DEF PictureInv, GraphFor, SplitOf
<1> QED  BY <1>5, <1>6, <1>7, <1>8, <1>9

LEMMA ClipKeeps == PictureInv /\ StartClip => PictureInv'
<1> SUFFICES ASSUME PictureInv, StartClip PROVE PictureInv'
  OBVIOUS
<1>1. box' \in Boxes /\ "" \notin installed'
  BY DEF PictureInv, StartClip, shop
<1>2. PictureShape
  BY DEF PictureInv
<1>3. CASE picture' = Refused
  BY <1>1, <1>2, <1>3, RefusedIs DEF PictureInv
<1>4. CASE picture' = [Render("plain", ClipGraph(picture.asked)) EXCEPT !.file = picture.asked]
  <2> DEFINE clip == ClipGraph(picture.asked)
  <2>1. clip.form = "theirs"
    BY DEF ClipGraph
  <2> HIDE DEF clip
  <2>2. picture' = [at |-> "renders", asked |-> picture.asked, file |-> picture.asked,
                    start |-> picture.start, step |-> "plain", graph |-> clip,
                    had |-> picture.had, out |-> picture.out]
    BY <1>2, <1>4 DEF Render, PictureShape, JobShape, clip
  <2>3. /\ PictureShape' /\ picture'.at = "renders" /\ picture'.asked = picture.asked
        /\ picture'.file = picture.asked /\ picture'.graph = clip
    BY <2>2, FieldsOf
  <2> QED  BY <1>1, <2>1, <2>3 DEF PictureInv, GraphFor
<1> QED  BY <1>3, <1>4 DEF StartClip

LEMMA PicturesGoOn == PictureInv /\ [ImageNext]_imageVars => PictureInv'
<1> SUFFICES ASSUME PictureInv, [ImageNext]_imageVars PROVE PictureInv'
  OBVIOUS
<1>1. CASE Operate \/ UNCHANGED imageVars
  BY <1>1 DEF PictureInv, PictureShape, Operate, shop, imageVars
<1>2. CASE DiscoverModels
  <2>1. "" \notin installed'
    BY <1>2, FilesAreNamed DEF DiscoverModels, PictureInv
  <2> QED  BY <1>2, <2>1 DEF DiscoverModels, PictureInv, PictureShape, JobShape
<1>3. CASE Ask
  <2>1. PICK name \in offered \cup {""}, start \in BOOLEAN :
            picture' = [NoPicture EXCEPT !.at = "queued", !.asked = name, !.start = start]
    BY <1>3 DEF Ask
  <2>2. picture' = [at |-> "queued", asked |-> name, file |-> "", start |-> start, step |-> "none",
                    graph |-> <<>>, had |-> FALSE, out |-> <<>>]
    BY <2>1 DEF NoPicture
  <2>3. PictureShape' /\ picture'.at = "queued"
    BY <2>2, FieldsOf
  <2>4. ~picture'.had
    BY <2>2
  <2> QED  BY <1>3, <2>3, <2>4 DEF Ask, shop, PictureInv
<1>4. CASE Done
  <2>1. PictureShape' /\ picture'.at = "idle"
    BY <1>4 DEF Done, NoPicture, PictureShape, JobShape
  <2> QED  BY <1>4, <2>1 DEF Done, shop, PictureInv
<1> QED  BY <1>1, <1>2, <1>3, <1>4, StartKeeps, ClipKeeps, RenderedKeeps DEF ImageNext

\* Whatever the operator installs or takes away while jobs run, whichever reads of
\* ComfyUI fail, whatever it answers and earlier jobs taught: a delivered picture of a
\* model that was installed when its job began has that model's weights, or those of
\* the one named like it where ComfyUI listed none of its name; and its family's
\* template, if it was among those read, named the VAE (comfyui.rs, split_for,
\* recipe_for and render_with_shape).
THEOREM PicturesAreAsAsked == ImageSpec => []PictureAsAsked
<1>1. PictureInv => PictureAsAsked
  BY DEF PictureInv, PictureFrom, GraphFor, SplitOf, PictureAsAsked
<1> QED  BY <1>1, PicturesStart, PicturesGoOn, PTL DEF ImageSpec
==============================================================================
