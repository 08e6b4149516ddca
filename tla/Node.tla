--------------------------------- MODULE Node ---------------------------------
(***************************************************************************)
(* A worker's place in the network (crates/rootmode-p2p/src/node.rs, and   *)
(* join of crates/rootmode-worker/src/p2p.rs): the relays it is reached    *)
(* through, the addresses it tells, the keys it announces in the DHT and   *)
(* the peers of its own network.                                           *)
(*                                                                         *)
(* The swarm is libp2p's: connections come and go, a reservation is        *)
(* granted, refused or lost, and the end of a listener is told some time   *)
(* after it.  The module models what the event loop makes of that.  A      *)
(* circuit address is named by its relay; identify, pings, hole punching   *)
(* and the lookups (which change nothing here) are left out.               *)
(***************************************************************************)
EXTENDS Integers, FiniteSets

CONSTANTS
    Relays,         \* entry points that name their peer: what listen_on needs
    Strangers,      \* every other peer
    Interfaces,     \* addresses the node may bind to
    Declared,       \* addresses of the config's p2p.external
    Afar,           \* addresses another network can dial (reachable_from_afar)
    Blank,          \* placeholders (is_unspecified)
    Keys,           \* cap_key and model_key of what a worker may serve
    Ttl,            \* PROVIDER_TTL
    Neighbours,     \* pairs of a peer and an address mdns may report
    MaxShifts       \* events of the network that no dial of ours brings about

VARIABLES
    links,          \* connections to each peer
    dials,          \* entry points a dial to is in flight
    bootstrapped,
    reserved,       \* relays asked already, as the loop remembers
    slots,          \* listeners on each relay: asked, held, and closed but not yet told
    stuck,          \* history: relays whose slot ended with nothing to ask it again
    listeners, external, advertised_private, has_public_external,
    provided,       \* the keys of the last provide
    kept,           \* the keys kad republishes
    records,        \* periods the record of each key still has in the DHT
    lapse,          \* history: periods since a key was last provided
    sightings,      \* pairs mdns holds for alive
    local_peers,
    shifts

nodeVars == <<links, dials, bootstrapped, reserved, slots, stuck, listeners, external,
    advertised_private, has_public_external, provided, kept, records, lapse, sightings,
    local_peers, shifts>>
swarmVars == <<links, dials, bootstrapped, reserved, slots, stuck>>
addressVars == <<listeners, external, advertised_private, has_public_external>>
dhtVars == <<provided, kept, records, lapse>>
lanVars == <<sightings, local_peers>>

Peers == Relays \cup Strangers
Alone == \A p \in Peers : links[p] = 0
NoSlot == [asked |-> 0, held |-> 0, lost |-> 0, refused |-> 0]

\* Node::start: every entry point is dialled; what the operator declared is told.
NodeInit ==
    /\ links = [p \in Peers |-> 0] /\ dials = Relays /\ bootstrapped = FALSE
    /\ reserved = {} /\ slots = [r \in Relays |-> NoSlot] /\ stuck = {}
    /\ listeners = {} /\ external = Declared
    /\ advertised_private = {} /\ has_public_external = (Declared \cap Afar # {})
    /\ provided = {} /\ kept = {}
    /\ records = [k \in Keys |-> 0] /\ lapse = [k \in Keys |-> Ttl]
    /\ sightings = {} /\ local_peers = {} /\ shifts = 0

Shift == shifts < MaxShifts /\ shifts' = shifts + 1
Turned(r, from, to) == [slots EXCEPT ![r][from] = @ - 1, ![r][to] = @ + 1]

-----------------------------------------------------------------------------
(* Connections and reservations *)

\* ConnectionEstablished: the first starts a walk of the DHT; a relay not yet
\* asked is asked for a slot.
Established(p) ==
    /\ links[p] < 2
    /\ links' = [links EXCEPT ![p] = @ + 1] /\ bootstrapped' = TRUE
    /\ IF p \in Relays \ reserved
       THEN /\ reserved' = reserved \cup {p} /\ stuck' = stuck \ {p}
            /\ slots' = [slots EXCEPT ![p].asked = @ + 1]
       ELSE UNCHANGED <<reserved, slots, stuck>>
    /\ UNCHANGED <<addressVars, dhtVars, lanVars>>
Dialled(r) == r \in dials /\ dials' = dials \ {r} /\ Established(r) /\ UNCHANGED shifts
Incoming(p) == Shift /\ Established(p) /\ UNCHANGED dials

DialFails(r) ==
    /\ r \in dials /\ dials' = dials \ {r}
    /\ UNCHANGED <<links, bootstrapped, reserved, slots, stuck, addressVars, dhtVars, lanVars, shifts>>

\* The last connection to a relay takes its listeners with it.
Ended(s) == [asked |-> 0, held |-> 0, lost |-> s.lost + s.held, refused |-> s.refused + s.asked]
Disconnects(p) ==
    /\ Shift /\ links[p] > 0 /\ links' = [links EXCEPT ![p] = @ - 1]
    /\ slots' = IF p \in Relays /\ links[p] = 1
                THEN [slots EXCEPT ![p] = Ended(@)] ELSE slots
    /\ UNCHANGED <<dials, bootstrapped, reserved, stuck, addressVars, dhtVars, lanVars>>

\* A relay with no slot left refuses; one that restarts its service drops them.
Refuses(r) ==
    /\ slots[r].asked > 0 /\ slots' = Turned(r, "asked", "refused")
    /\ UNCHANGED <<links, dials, bootstrapped, reserved, stuck, addressVars, dhtVars, lanVars, shifts>>
Drops(r) ==
    /\ Shift /\ slots[r].held > 0 /\ slots' = Turned(r, "held", "lost")
    /\ UNCHANGED <<links, dials, bootstrapped, reserved, stuck, addressVars, dhtVars, lanVars>>

\* ListenerClosed: one that had a circuit address lets its relay be asked again.
\* A listener closed before it had one names no relay.
CloseTold(r, how) ==
    /\ slots[r][how] > 0 /\ slots' = [slots EXCEPT ![r][how] = @ - 1]
    /\ stuck' = IF how = "refused" \/ links[r] > 0 THEN stuck \cup {r} ELSE stuck
    /\ UNCHANGED <<links, dials, bootstrapped, addressVars, dhtVars, lanVars, shifts>>
SlotClosedMarked(r) ==                                                \* mutant
    \E how \in {"lost", "refused"} : CloseTold(r, how) /\ UNCHANGED reserved
SlotClosed(r) ==
    \/ CloseTold(r, "lost") /\ reserved' = reserved \ {r}
    \/ CloseTold(r, "refused") /\ UNCHANGED reserved

\* reconnect_if_alone, by the watchdog.
Watchdog ==
    /\ Alone /\ dials' = Relays /\ bootstrapped' = FALSE /\ reserved' = {}
    /\ UNCHANGED <<links, slots, stuck, addressVars, dhtVars, lanVars, shifts>>

-----------------------------------------------------------------------------
(* Addresses: NewListenAddr *)

Withdrawn == IF has_public_external THEN {} ELSE advertised_private
Listening(a) ==
    /\ listeners' = listeners \cup {a}
    /\ \/ /\ a \in Blank /\ UNCHANGED <<external, advertised_private, has_public_external>>
       \/ /\ a \in Afar \ Blank
          /\ has_public_external' = TRUE
          /\ external' = (external \ Withdrawn) \cup {a}
          /\ advertised_private' = advertised_private \ Withdrawn
       \/ /\ a \notin Afar \cup Blank /\ ~has_public_external
          /\ external' = external \cup {a}
          /\ advertised_private' = advertised_private \cup {a}
          /\ UNCHANGED has_public_external
       \/ /\ a \notin Afar \cup Blank /\ has_public_external
          /\ UNCHANGED <<external, advertised_private, has_public_external>>

Binds(a) ==
    /\ Shift /\ Listening(a)
    /\ UNCHANGED <<swarmVars, dhtVars, lanVars>>
Granted(r) ==
    /\ slots[r].asked > 0 /\ slots' = Turned(r, "asked", "held") /\ Listening(r)
    /\ UNCHANGED <<links, dials, bootstrapped, reserved, stuck, dhtVars, lanVars, shifts>>

-----------------------------------------------------------------------------
(* Records *)

\* A record is stored when somebody can be reached.
Stored(keys) ==
    \/ ~Alone /\ records' = [k \in Keys |-> IF k \in keys THEN Ttl ELSE records[k]]
    \/ UNCHANGED records

\* Command::Provide replaces the set that was announced before.
Provide(next) ==
    /\ kept' = (kept \ (provided \ next)) \cup next /\ provided' = next
    /\ lapse' = [k \in Keys |-> IF k \in next THEN 0 ELSE lapse[k]]
    /\ Stored(next)
    /\ UNCHANGED <<swarmVars, addressVars, lanVars, shifts>>

\* The announce loop, with what the worker serves by then, and a clean shutdown.
Announce == \E next \in SUBSET Keys : Provide(next)
Leave == Provide({})

\* kad's own timer, set to a third of the life of a record.
Republish ==
    /\ kept # {} /\ Stored(kept)
    /\ UNCHANGED <<swarmVars, addressVars, provided, kept, lapse, lanVars, shifts>>

Period ==
    /\ Shift
    /\ records' = [k \in Keys |-> IF records[k] = 0 THEN 0 ELSE records[k] - 1]
    /\ lapse' = [k \in Keys |-> IF k \in provided \/ lapse[k] = Ttl THEN lapse[k] ELSE lapse[k] + 1]
    /\ UNCHANGED <<swarmVars, addressVars, provided, kept, lanVars>>

-----------------------------------------------------------------------------
(* The local network: mdns *)

Discovered(pair) ==
    /\ Shift /\ pair \notin sightings
    /\ sightings' = sightings \cup {pair} /\ local_peers' = local_peers \cup {pair[1]}
    /\ UNCHANGED <<swarmVars, addressVars, dhtVars>>
Expired(pair) ==
    /\ pair \in sightings
    /\ sightings' = sightings \ {pair} /\ local_peers' = local_peers \ {pair[1]}
    /\ UNCHANGED <<swarmVars, addressVars, dhtVars, shifts>>

\* The process dies and starts again; what the DHT holds of it stays.
Restart ==
    /\ Shift
    /\ links' = [p \in Peers |-> 0] /\ dials' = Relays /\ bootstrapped' = FALSE
    /\ reserved' = {} /\ slots' = [r \in Relays |-> NoSlot] /\ stuck' = {}
    /\ listeners' = {} /\ external' = Declared
    /\ advertised_private' = {} /\ has_public_external' = (Declared \cap Afar # {})
    /\ provided' = {} /\ kept' = {} /\ UNCHANGED <<records, lapse>>
    /\ sightings' = {} /\ local_peers' = {}

NodeNext ==
    \/ \E r \in Relays : \/ Dialled(r) \/ DialFails(r) \/ Granted(r) \/ Refuses(r)
                         \/ Drops(r) \/ SlotClosed(r)
    \/ \E p \in Peers : Incoming(p) \/ Disconnects(p)
    \/ \E a \in Interfaces : Binds(a)
    \/ Announce \/ Leave
    \/ \E pair \in Neighbours : Discovered(pair) \/ Expired(pair)
    \/ Republish \/ Period \/ Watchdog \/ Restart

NodeSpec == NodeInit /\ [][NodeNext]_nodeVars

-----------------------------------------------------------------------------
(* Properties *)

Slotted(r) == \E kind \in DOMAIN NoSlot : slots[r][kind] > 0

\* A node connected to a relay has a slot there or one on the way, unless the
\* relay refused it or the slot ended under a connection that stayed; and with
\* anybody connected the DHT was walked (node.rs, ConnectionEstablished).
SlotsFollowLinks ==
    /\ \A r \in Relays : links[r] > 0 => Slotted(r) \/ r \in stuck
    /\ ~Alone => bootstrapped

\* What is told to others, beside what the operator declared, is every address
\* another network can dial, or every address bound while there is none.
AdvertisesDialable ==
    LET dialable == listeners \ Blank IN
    /\ has_public_external = ((Declared \cup dialable) \cap Afar # {})
    /\ external \ Declared =
           (IF has_public_external THEN dialable \cap Afar ELSE dialable) \ Declared

\* What a worker stopped serving, or served before it crashed, is gone from the
\* DHT within one life of a record (PROVIDER_TTL's doc).
AgesOut == \A k \in Keys : records[k] > 0 => records[k] + lapse[k] <= Ttl

\* Only peers that mdns sees are taken for local.
LocalIsSeen == local_peers \subseteq {pair[1] : pair \in sightings}

FoundWhereItIs == SlotsFollowLinks /\ AdvertisesDialable /\ AgesOut /\ LocalIsSeen

\* "re-runs if the relay drops and comes back" (node.rs:288).
AskedAgain == \A r \in Relays : links[r] > 0 => Slotted(r)

\* "Declared addresses win over guessed ones" (node.rs:247).
DeclaredStays == Declared \subseteq external

\* Peers mdns still sees are local (node.rs:494, "Peers seen on this network").
SeenIsLocal == {pair[1] : pair \in sightings} \subseteq local_peers

\* A circuit address that is told is one its relay still holds.
CircuitsHeld == \A r \in external \cap Relays : slots[r].held + slots[r].lost > 0
===============================================================================
