------------------------------- MODULE Market --------------------------------
(***************************************************************************)
(* What a job costs, on the three machines that each work it out: the      *)
(* upstream catalogue an OpenRouter node resells                           *)
(* (worker/src/backends/openrouter.rs), the list the node announces and    *)
(* bills by (backends/mod.rs Registry, server.rs listed_price, bill_micros)*)
(* and the list the app quotes, locks and checks bills with                *)
(* (desktop jobs.rs attempt, pot.rs).  The arithmetic is that of           *)
(* rootmode-core (protocol.rs Price, VideoOffer; tokens.rs).               *)
(*                                                                         *)
(* Money is in micros, a rate in cents per million tokens or cents per     *)
(* second, an upstream rate in tenths of a cent.  One job at a time: a     *)
(* chat or a clip.                                                         *)
(***************************************************************************)
EXTENDS Integers, Sequences, FiniteSets, FiniteSetsExt, SequencesExt

CONSTANTS
    Catalogues,     \* sequences of listings [id, rates, skus, audio, frames]
    Extends,        \* <<long, short>>: the name `long` starts with `short`
    Chats,          \* chats that are asked for [messages, words, calls, images, tools]
    MaxTokens, Overs,   \* the limit of an answer; tokens counted beyond it
    Shapes,         \* the clips that are asked for
    Caps,           \* per-job caps of the account
    Gaps,           \* how far the node's ledger is from the client's
    Channels,       \* the client's channel [fresh, remaining, unsettled, free, raise]
    Premiums,       \* what upstream charges, in percent of its list; 0 where it names no cost
    Markup,         \* the node's margin, in percent (120 is a fifth)
    MaxEdits        \* bound on the changes of the catalogue

Prices == [input : Nat, output : Nat, cache : Nat, write : Nat]
UpstreamRates == [prompt : Nat, completion : Nat, read : Nat, write : Nat]
Skus == [dialect : {"seconds", "cents", "tokens"}, resolution : STRING, audio : STRING,
         from : STRING, rate : Nat, least : Nat]
Listings ==
    {l \in [id : STRING, kind : {"llm", "video"}, rates : UpstreamRates, skus : SUBSET Skus,
            audio : {"never", "always", "optional"}, frames : BOOLEAN, resolutions : SUBSET STRING] :
        IsFiniteSet(l.skus) /\ IsFiniteSet(l.resolutions)}

\* Money and tokens are unsigned; a cap is not zero.
ASSUME MarketAssumption ==
    /\ Catalogues \subseteq Seq(Listings)
    /\ Chats \subseteq [messages : Nat, words : Nat, calls : Nat, images : Nat, tools : Nat]
    /\ MaxTokens \subseteq Nat /\ Overs \subseteq Nat /\ Premiums \subseteq Nat /\ Markup \in Nat
    /\ Shapes \subseteq [seconds : Nat, resolution : STRING, audio : BOOLEAN, from : BOOLEAN]
    /\ Caps \subseteq Nat \ {0} /\ Gaps \subseteq Int

VARIABLES
    catalogue,      \* what upstream lists now
    edits,
    registry,       \* Registry: the models the node announces
    upstream,       \* OpenRouterBackend.upstream and .videos
    peer,           \* the announcement the app holds
    work            \* the job

marketVars == <<catalogue, edits, registry, upstream, peer, work>>

-----------------------------------------------------------------------------
(* Prices *)

CeilTo(x, unit) == (x + unit - 1) \div unit
\* ceil_cents of a marked-up upstream rate.
Cents(tenths) == CeilTo(tenths * Markup, 1000)

NoPrice == [input |-> 0, output |-> 0, cache |-> 0, write |-> 0]

\* Pricing::to_price and round_protocol.
ToPrice(r) ==
    LET input == IF r.prompt > 0 THEN r.prompt ELSE r.completion
        output == IF r.completion > 0 THEN r.completion ELSE r.prompt IN
    IF r.prompt + r.completion = 0 THEN NoPrice
    ELSE [input |-> Cents(input), output |-> Cents(output), cache |-> Cents(r.read),
          write |-> Max({Cents(input), Cents(r.write)})]

\* charge_llm_micros, rounded to the nearest micro.
Charge(price, prompt, completion, cached) ==
    ((prompt - Min({cached, prompt})) * price.write + Min({cached, prompt}) * price.cache
     + completion * price.output + 50) \div 100

IsFree(price) == price.input = 0 /\ price.output = 0

-----------------------------------------------------------------------------
(* Tokens: what a chat is counted as, at both ends alike *)

\* count_prompt: the words of its messages and tools, and the framing.
Counted(chat) ==
    3 + 3 * chat.messages + chat.words + chat.calls + 765 * chat.images
      + (IF chat.tools = 0 THEN 0 ELSE 9 + 3 * chat.tools)

\* measure: nothing is known to be cached.
Measured(prompt, completion) == [prompt |-> prompt, completion |-> completion, cached |-> 0]

\* from_meta and From<&Usage>: what is cached was read.
Reported(prompt, completion, cached) ==
    [prompt |-> prompt, completion |-> completion, cached |-> Min({cached, prompt})]
Unsaid == Reported(0, 0, 0)

\* reconcile: the higher count of each; only the provider knows what it cached.
Reconciled(ours, theirs) ==
    IF theirs.prompt = 0 /\ theirs.completion = 0 THEN ours
    ELSE LET prompt == Max({ours.prompt, theirs.prompt}) IN
         [prompt |-> prompt, completion |-> Max({ours.completion, theirs.completion}),
          cached |-> Min({theirs.cached, prompt})]

\* A server counts as we do, with its cache or without, or less, or more, or
\* says nothing.
Reports(ours) ==
    {Unsaid, ours, Reported(ours.prompt, ours.completion, ours.prompt),
     Reported(ours.prompt \div 2, 0, ours.prompt),
     Reported(ours.prompt + 9, ours.completion + 9, ours.prompt)}

-----------------------------------------------------------------------------
(* Locks: what the app sets aside before it asks *)

\* job_lock_micros: a chat's prompt and the longest answer to it.
ChatLock(price, prompt, max) == Max({1, Charge(price, prompt, max, 0)})
\* lock_micros and worst_case_micros: a clip's price, from cents.
ClipLock(cents) == Max({1, cents * 10000})

HeadroomJobs == 4
HeadroomFloor == 3000000

\* reserve_extra: what is added to the lock on the channel, out of the free
\* balance; at least a micro where the channel's caps are to follow.
ReserveExtra(remaining, need, free, raise) ==
    LET want == Max({need * HeadroomJobs, HeadroomFloor})
        short == remaining < need * 2 \/ remaining < HeadroomFloor \div 2 IN
    IF short \/ raise
    THEN Min({Max({want - remaining, IF raise THEN 1 ELSE 0}), free})
    ELSE 0

\* The lock must cover the job on top of what was signed and not settled.
PotCovers(ch, lock) ==
    LET need == lock + ch.unsettled IN
    ch.remaining + ReserveExtra(ch.remaining, need, ch.free, ch.raise) >= need

-----------------------------------------------------------------------------
(* Clips *)

\* A SKU names what it is for; "any" where it does not say.
Contradicts(sku, shape) ==
    \/ sku.resolution \notin {"any", shape.resolution}
    \/ sku.audio = (IF shape.audio THEN "without" ELSE "with")
    \/ sku.from = (IF shape.from THEN "text" ELSE "image")
Fitting(skus, shape) == {s \in skus : ~Contradicts(s, shape)}

\* shape_rate_usd: the first dialect the catalogue speaks, the dearest SKU of
\* it that fits, with room for the few tokens a clip is counted over; 0 when
\* there is none.
Dialects == <<"seconds", "cents", "tokens">>
Headroom(s) == IF s.dialect = "tokens" THEN CeilTo(s.rate * 104, 100) ELSE s.rate
Spoken(skus, shape) ==
    {d \in DOMAIN Dialects : \E s \in Fitting(skus, shape) : s.dialect = Dialects[d]}
ShapeRate(skus, shape) ==
    IF Spoken(skus, shape) = {} THEN 0
    ELSE Max({Headroom(s) : s \in {x \in Fitting(skus, shape) :
                                    x.dialect = Dialects[Min(Spoken(skus, shape))]}})
Floor(skus, shape) ==
    Max({0} \cup {s.least : s \in {x \in Fitting(skus, shape) : x.dialect = "cents"}})

\* audio_offer, takes_first_frame.
Sounds(l) == CASE l.audio = "never" -> {FALSE} [] l.audio = "always" -> {TRUE} [] OTHER -> BOOLEAN
Beginnings(l) == IF l.frames THEN BOOLEAN ELSE {FALSE}

\* offer: a rate for every combination the model makes.
OfferOf(l) ==
    {[resolution |-> x, audio |-> a, from |-> f,
      tenths |-> ShapeRate(l.skus, [resolution |-> x, audio |-> a, from |-> f]),
      least |-> Floor(l.skus, [resolution |-> x, audio |-> a, from |-> f])] :
        x \in l.resolutions, a \in Sounds(l), f \in Beginnings(l)}

\* shape_for: a shape on the menu.
OnMenu(l, shape) ==
    shape.resolution \in l.resolutions /\ shape.audio \in Sounds(l) /\ shape.from \in Beginnings(l)

RatesOf(l, shape) ==
    {r \in OfferOf(l) : r.tenths > 0 /\ r.audio = shape.audio /\ r.resolution = shape.resolution}
Dearest(rates) == CHOOSE r \in rates : \A x \in rates : x.tenths <= r.tenths

\* rate_for: the dearest of those that match, preferring the same first frame.
RateFor(l, shape) ==
    LET exact == {r \in RatesOf(l, shape) : r.from = shape.from} IN
    Dearest(IF exact # {} THEN exact ELSE RatesOf(l, shape))

\* quote_usd, in cents; 0 for a shape without a rate.
Quote(l, shape) ==
    IF RatesOf(l, shape) = {} THEN 0
    ELSE Max({Cents(RateFor(l, shape).tenths * shape.seconds), Cents(RateFor(l, shape).least)})

DefaultResolution(l) ==
    IF "720p" \in l.resolutions THEN "720p" ELSE CHOOSE x \in l.resolutions : TRUE

\* per_clip: the dearer of the default shape with and without a first frame.
PerClip(l) ==
    Max({Quote(l, [seconds |-> 5, resolution |-> DefaultResolution(l), audio |-> l.audio = "always", from |-> f])
         : f \in BOOLEAN})

\* pick and discover_models: what the node makes of a listing.
Described(l) ==
    [id |-> l.id, kind |-> l.kind, listing |-> l,
     price |-> IF l.kind = "llm" THEN ToPrice(l.rates) ELSE NoPrice,
     clip |-> IF l.kind = "video" THEN PerClip(l) ELSE 0]
Sold(m) == m.kind = "llm" \/ m.clip > 0
Discover(c) ==
    LET read[n \in 0..Len(c)] ==
            IF n = 0 THEN <<>>
            ELSE IF Sold(Described(c[n])) THEN Append(read[n - 1], Described(c[n]))
            ELSE read[n - 1]
    IN  read[Len(c)]

-----------------------------------------------------------------------------
(* Looking a model up: the first entry whose name begins the same *)

Names(m, id) == m.id = id \/ <<id, m.id>> \in Extends
Lookup(models, id, loose) ==
    {k \in DOMAIN models : Names(models[k], id) \/ (loose /\ <<models[k].id, id>> \in Extends)}
Exact(models, id) == {k \in DOMAIN models : models[k].id = id}
First(models, found) == models[Min(found)]

\* The cents of a clip: its quote, or the listed price off the menu.
ClipCents(m, shape) ==
    IF OnMenu(m.listing, shape) /\ Quote(m.listing, shape) > 0
    THEN Quote(m.listing, shape) ELSE m.clip

NoWork == [at |-> "idle", id |-> "", kind |-> "llm", prompt |-> 0, max |-> 0, shape |-> <<>>,
           price |-> NoPrice, clip |-> 0, ceiling |-> 0, delta |-> 0, cost |-> 0, bill |-> 0,
           fair |-> 0, same |-> TRUE]

MarketInit ==
    /\ catalogue \in Catalogues /\ edits = 0
    /\ registry \in {Discover(catalogue), <<>>}     \* build: a failed discovery advertises none
    /\ upstream = registry /\ peer = registry
    /\ work = NoWork

-----------------------------------------------------------------------------
Edit == /\ edits < MaxEdits /\ edits' = edits + 1 /\ catalogue' \in Catalogues \ {catalogue}
        /\ UNCHANGED <<registry, upstream, peer, work>>

Ids(models) == {models[k].id : k \in DOMAIN models}

\* Registry::refresh: what the node can run is read anew, what it announces
\* only when the set of names changes.
Refresh ==
    /\ upstream' = Discover(catalogue)
    /\ registry' = IF Ids(registry) = Ids(upstream') THEN registry ELSE upstream'
    /\ UNCHANGED <<catalogue, edits, peer, work>>

\* The app probes the node again.
Probe == /\ peer' = registry /\ UNCHANGED <<catalogue, edits, registry, upstream, work>>

\* issue_ticket: the lock is what the job can cost at most, under the cap, and
\* the pot has to cover it; a free model needs none.  On a channel with a cap a
\* clip above it is refused, on one not yet opened its bond is cut.
Lock ==
    /\ work.at = "idle"
    /\ \E m \in ToSet(peer), cap \in Caps, gap \in Gaps, ch \in Channels :
         LET listed == First(peer, Lookup(peer, m.id, FALSE)) IN
         \/ /\ m.kind = "llm"
            /\ \E chat \in Chats, max \in MaxTokens :
                 LET prompt == Counted(chat)
                     lock == Min({ChatLock(listed.price, prompt, max), cap})
                     bonded == ~IsFree(listed.price) IN
                 /\ bonded => PotCovers(ch, lock)
                 /\ work' = [NoWork EXCEPT !.at = "sent", !.id = m.id, !.prompt = prompt, !.max = max,
                               !.price = listed.price,
                               !.ceiling = IF bonded THEN lock ELSE 0,
                               !.delta = IF bonded THEN lock + gap ELSE 0]
         \/ /\ m.kind = "video"
            /\ \E shape \in Shapes :
                 LET price == ClipLock(ClipCents(listed, shape))
                     lock == Min({price, cap}) IN
                 /\ ch.fresh \/ price <= cap
                 /\ PotCovers(ch, lock)
                 /\ work' = [NoWork EXCEPT !.at = "sent", !.id = m.id, !.kind = "video", !.shape = shape,
                            !.clip = ClipCents(listed, shape), !.ceiling = lock, !.delta = lock + gap]
    /\ UNCHANGED <<catalogue, edits, registry, upstream, peer>>

\* listed_price; a node with one model prices every name by it.
ListedPrice(id) ==
    LET found == Lookup(registry, id, TRUE) IN
    IF found # {} THEN {First(registry, found)}
    ELSE IF Len(registry) = 1 THEN {registry[1]} ELSE {}

\* take_payment, take_bond and clamp_to_chunk, with require_auth.
Admit ==
    /\ work.at = "sent"
    /\ LET listed == ListedPrice(work.id)
           fresh == (work.prompt * (CHOOSE m \in listed : TRUE).price.write + 99) \div 100
           output == (CHOOSE m \in listed : TRUE).price.output IN
       work' = IF listed = {} THEN [work EXCEPT !.at = "refused"]
               ELSE IF work.kind = "llm" /\ IsFree((CHOOSE m \in listed : TRUE).price)
                 THEN [work EXCEPT !.at = "admitted"]
               ELSE IF work.delta <= 0 THEN [work EXCEPT !.at = "refused"]
               ELSE IF work.kind = "video" THEN [work EXCEPT !.at = "admitted"]
               ELSE IF fresh >= work.delta THEN [work EXCEPT !.at = "refused"]
               ELSE [work EXCEPT !.at = "admitted",
                       !.max = IF output = 0 THEN @
                               ELSE Min({@, Max({1, ((work.delta - fresh) * 100) \div output})})]
    /\ UNCHANGED <<catalogue, edits, registry, upstream, peer>>

\* min_bill_micros: what upstream charged plus the margin, rounded up.
FloorMicros(tenths, premium) == CeilTo(CeilTo(tenths * Markup, 100) * premium, 100000)

BillUncapped(by_rate, floor) == Max({1, Max({by_rate, floor})}) \* mutant

\* bill_micros and capture_chunk.
Bill(by_rate, floor) == Max({1, Min({work.delta, Max({by_rate, floor})})})

\* price_of: the exact entry of the model that ran.
PriceRun(id) ==
    IF Exact(registry, id) = {} THEN NoPrice ELSE First(registry, Exact(registry, id)).price

\* A chat runs: the counts are settled where it ran and once more for the bill,
\* which the server's own counts and cost can raise.
RunChat ==
    /\ work.at = "admitted" /\ work.kind = "llm"
    /\ \E written \in {1, work.max}, over \in Overs, premium \in Premiums :
       LET ours == Measured(work.prompt, written + over) IN
       \E theirs \in Reports(ours) :
         LET l == Exact(upstream, work.id)
             rates == First(upstream, l).listing.rates
             price == PriceRun(work.id)
             usage == Reconciled(ours, Reconciled(ours, theirs))
             tenths == theirs.prompt * rates.prompt + theirs.completion * rates.completion
             by_rate == Charge(price, usage.prompt, usage.completion, usage.cached) IN
         /\ theirs = Unsaid => premium = 0
         /\ work' = IF l = {} THEN [work EXCEPT !.at = "failed"]
                    ELSE [work EXCEPT !.at = "billed",
                           !.cost = FloorMicros(tenths, premium),
                           !.bill = IF IsFree(price) THEN 0
                                    ELSE Bill(by_rate, FloorMicros(tenths, premium)),
                           !.fair = Charge(work.price, usage.prompt, usage.completion, usage.cached),
                           !.same = price = work.price]
    /\ UNCHANGED <<catalogue, edits, registry, upstream, peer>>

\* The node lists what upstream charges by, and the app locked what it lists.
SameClip(listing, m) == listing = m.listing /\ ClipCents(m, work.shape) = work.clip

\* A token SKU counts a clip over by a few tokens.
SkuRate(sku) == IF sku.dialect = "tokens" THEN sku.rate * 102 ELSE sku.rate * 100

\* run_video: the provider bills the clip under one of its SKUs.
ClipRuns(listing, m, sku) ==
    LET flat == ClipCents(m, work.shape) * 10000
        cost == (Max({SkuRate(sku) * work.shape.seconds, sku.least * 100}) * Markup) \div 10 IN
    [work EXCEPT !.at = "billed", !.cost = cost, !.fair = work.clip * 10000,
       !.bill = Bill(Min({cost, flat}), 0), !.same = SameClip(listing, m)]

\* The shape is checked against the menu.
RunClip ==
    /\ work.at = "admitted" /\ work.kind = "video"
    /\ LET l == {k \in Exact(upstream, work.id) : upstream[k].kind = "video"}
           listing == First(upstream, l).listing
           m == ListedPrice(work.id) IN
       IF l = {} \/ m = {} \/ ~OnMenu(listing, work.shape)
       THEN work' = [work EXCEPT !.at = "failed"]
       ELSE \E sku \in Fitting(listing.skus, work.shape) :
              work' = ClipRuns(listing, CHOOSE x \in m : TRUE, sku)
    /\ UNCHANGED <<catalogue, edits, registry, upstream, peer>>

\* pay_invoice: half as much again as the rates say is tolerated.
Check ==
    /\ work.at = "billed"
    /\ work' = [work EXCEPT !.at = IF work.bill = 0 THEN "free"
                                   ELSE IF work.bill <= (work.fair * 3) \div 2 /\ work.bill <= work.ceiling
                                   THEN "accepted" ELSE "disputed"]
    /\ UNCHANGED <<catalogue, edits, registry, upstream, peer>>

Again == /\ work.at \in {"accepted", "disputed", "refused", "failed", "free"} /\ work' = NoWork
         /\ UNCHANGED <<catalogue, edits, registry, upstream, peer>>

MarketNext ==
    \/ Edit \/ Refresh \/ Probe
    \/ Lock \/ Admit \/ RunChat \/ RunClip \/ Check \/ Again

MarketSpec == MarketInit /\ [][MarketNext]_marketVars

-----------------------------------------------------------------------------
(* "Refusing such a bill does not save the client money - the worker then      *)
(* keeps the whole prepaid chunk instead" (pay_invoice): an honest node's bill *)
(* is accepted, whatever was counted over the limit, cut by a cap, cached or   *)
(* charged above the list, as long as both ends price the model alike, agree   *)
(* on the bond and upstream stays within half above its list.                  *)
BillsAreAccepted ==
    work.at = "disputed" =>
        \/ ~work.same
        \/ work.delta # work.ceiling
        \/ work.fair = 0                        \* see README
        \/ work.kind = "llm" /\ work.cost > (work.fair * 3) \div 2

(* "A SKU the provider might bill the clip under is never under the quote"     *)
(* (shape_rate_usd): a clip that was quoted, locked and billed by the list     *)
(* upstream charges by is not sold under its cost and margin.                  *)
NoClipAtALoss ==
    work.kind = "video" /\ work.at \in {"accepted", "disputed"} /\ work.same
        /\ work.delta >= ClipLock(work.clip) => work.bill >= work.cost
=============================================================================
