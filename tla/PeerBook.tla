------------------------------- MODULE PeerBook -------------------------------
(***************************************************************************)
(* Which provider a request goes to (apps/desktop/src-tauri/src):          *)
(* the list of peers (store.rs), the sweeps of the network and the probes  *)
(* that keep it (commands.rs), the choice of a provider and of those to    *)
(* try after it (routing.rs), and the loops of jobs.rs and gateway/mod.rs  *)
(* that read the list again at every try.                                  *)
(*                                                                         *)
(* A worker is reached by the endpoint discovery makes of its key ("p2p")  *)
(* or by an address somebody typed ("typed"): two endpoints, two rows.  A  *)
(* model's name is a sequence, so that one may begin with another.  Caps   *)
(* travel with the models; a price is the figure amount() shows.  Labels,  *)
(* latency and the pinned key are left out ("offline" is any failure).     *)
(***************************************************************************)
EXTENDS Integers, Sequences, FiniteSets, SequencesExt, FiniteSetsExt

CONSTANTS
    Workers, Menus,     \* what a worker may serve: sequences of offers
    Nets,               \* the networks a run begins with
    Typed,              \* workers whose address somebody has
    Asked,              \* model names outside tools ask for
    Tasks,              \* sweeps and probes under way at one time
    Silent,             \* periods after which a dead peer is forgotten
    MaxMoves            \* turns, ticks, edits, sweeps and probes

ASSUME PeerBookAssumption ==
    /\ Menus \subseteq Seq([model : Seq(Nat), kind : {"llm", "image"}, price : Nat])
    /\ Nets \subseteq [Workers -> [up : BOOLEAN, menu : Menus]] /\ Typed \subseteq Workers
    /\ {Silent, MaxMoves} \subseteq Nat

VARIABLES
    net,        \* each worker's menu, and whether it answers
    moves,      \* how often something outside a task or a request happened
    book,       \* the table peers, by its unique endpoint
    rows,       \* ids given so far
    tasks,      \* refresh_discovered and probe_peer
    clock,
    job         \* one request, from the list its user saw to its end

bookVars == <<net, moves, book, rows, tasks, clock, job>>

Endpoints == (Workers \X {"p2p"}) \cup (Typed \X {"typed"})
NoRow == [id |-> 0, source |-> "none", status |-> "none", menu |-> <<>>, seen |-> <<>>]
NewRow(source) ==
    [id |-> rows + 1, source |-> source, status |-> "unknown", menu |-> <<>>, seen |-> <<>>]
Rows == {e \in Endpoints : book[e].id # 0}
Online == {e \in Rows : book[e].status = "online"}
NoTask == [at |-> "idle", sweep |-> FALSE, todo |-> {}, endpoint |-> <<>>, id |-> 0,
           got |-> "none", menu |-> <<>>]
NoJob == [at |-> "none", tool |-> FALSE, kind |-> "llm", model |-> <<>>, id |-> 0, menu |-> <<>>,
          same |-> {}, free |-> {}, offer |-> 0, first |-> 0, paid |-> 0, since |-> {}, blur |-> {}]

BookInit ==
    /\ net \in Nets /\ moves = 0
    /\ book = [e \in Endpoints |-> NoRow] /\ rows = 0 /\ clock = 0
    /\ tasks = [t \in Tasks |-> NoTask] /\ job = NoJob

-----------------------------------------------------------------------------
(* routing.rs *)

OffersOf(menu, kind) == {o \in Range(menu) : o.kind = kind}
Serves(id, model) == IsPrefix(id, model)

\* More than one name of a menu fits: a lookup takes the first, whichever was chosen.
Several(menu, model) ==
    \E i, j \in DOMAIN menu : i # j /\ Serves(menu[i].model, model) /\ Serves(menu[j].model, model)

\* provider_options: every pair on offer, which a person picks from.
ProviderOptions(kind) ==
    UNION {{[id |-> book[e].id, model |-> o.model, price |-> o.price] :
                o \in OffersOf(book[e].menu, kind)} : e \in Online}

\* model_options: the pairs that may hold a model at the end of the loop, which
\* takes a cheaper one always and an equal one by chance.
ModelOptions(kind) ==
    {o \in ProviderOptions(kind) :
        \A p \in ProviderOptions(kind) : p.model = o.model => o.price <= p.price}

\* provider_for, and what the gateway takes instead when nobody serves the model:
\* the user's preferred one, or the head of the list.
Picks(model) ==
    LET offered == ModelOptions("llm")
        exact == {o \in offered : o.model = model} IN
    IF exact # {} THEN exact ELSE offered

\* fallbacks; the price of the first entry that fits, and nothing where none does.
PriceAt(menu, fits) == IF fits = {} THEN 0 ELSE menu[Min(fits)].price
PriceOf(menu, kind, model) ==
    PriceAt(menu, {i \in DOMAIN menu : menu[i].kind = kind /\ Serves(menu[i].model, model)})
FirstPrice(id, kind, model) ==
    LET mine == {e \in Rows : book[e].id = id} IN
    IF mine = {} THEN 0 ELSE PriceOf(book[CHOOSE e \in mine : TRUE].menu, kind, model)
Others(id, kind) == {o \in ProviderOptions(kind) : o.id # id}
SameModelAny(id, kind, model) ==                                      \* mutant
    {o \in Others(id, kind) : Serves(o.model, model)}
SameModel(id, kind, model) ==
    {o \in Others(id, kind) : Serves(o.model, model) /\ o.price <= FirstPrice(id, kind, model)}
OtherFree(id, kind, model) ==
    {o \in Others(id, kind) : /\ ~Serves(o.model, model)
                              /\ FirstPrice(id, kind, model) = 0 /\ o.price = 0 /\ kind = "llm"}

-----------------------------------------------------------------------------
(* The network *)

Move == moves < MaxMoves /\ moves' = moves + 1

Turn(w) ==
    /\ Move
    /\ \E up \in BOOLEAN, menu \in Menus :
           /\ [up |-> up, menu |-> menu] # net[w]
           /\ net' = [net EXCEPT ![w] = [up |-> up, menu |-> menu]]
    /\ UNCHANGED <<book, rows, tasks, clock, job>>

Tick ==
    /\ Move /\ clock' = clock + 1
    /\ UNCHANGED <<net, book, rows, tasks, job>>

-----------------------------------------------------------------------------
(* commands.rs and store.rs: the list *)

AddPeer(e) ==
    /\ Move /\ e \notin Rows
    /\ book' = [book EXCEPT ![e] = NewRow("manual")] /\ rows' = rows + 1
    /\ UNCHANGED <<net, tasks, clock, job>>

RemovePeer(e) ==
    /\ Move /\ e \in Rows /\ book' = [book EXCEPT ![e] = NoRow]
    /\ UNCHANGED <<net, rows, tasks, clock, job>>

Step(t, task) == tasks' = [tasks EXCEPT ![t] = task]

\* probe_peer, of a row the user or probe_all_peers names.
StartProbe(t, e) ==
    /\ Move /\ tasks[t].at = "idle" /\ e \in Rows
    /\ Step(t, [tasks[t] EXCEPT !.at = "probe", !.endpoint = e, !.id = book[e].id])
    /\ UNCHANGED <<net, book, rows, clock, job>>

\* refresh_discovered: discover names any workers, those long gone included.
StartSweep(t) ==
    /\ Move /\ tasks[t].at = "idle"
    /\ \E found \in SUBSET Workers :
           Step(t, [tasks[t] EXCEPT !.at = "look", !.sweep = TRUE, !.todo = found \X {"p2p"}])
    /\ UNCHANGED <<net, book, rows, clock, job>>

Look(t, e) ==
    /\ tasks[t].at = "look" /\ e \in tasks[t].todo
    /\ Step(t, [tasks[t] EXCEPT !.at = IF e \in Rows THEN "probe" ELSE "ask", !.endpoint = e,
                               !.id = book[e].id, !.todo = @ \ {e}])
    /\ UNCHANGED <<net, moves, book, rows, clock, job>>

\* What follows a probe: the next of a sweep, or the end of a single probe.
Then(t) == IF tasks[t].sweep THEN "look" ELSE "idle"

\* The answer as it was given: an announce, a connection that ends without one
\* (which counts as online), or none.  A worker not yet listed must announce
\* something it serves.
Hear(t) ==
    LET worker == net[tasks[t].endpoint[1]] IN
    /\ tasks[t].at \in {"probe", "ask"}
    /\ \E got \in IF worker.up THEN {"announce", "bare", "none"} ELSE {"none"} :
           LET new == tasks[t].at = "ask" IN
           IF new /\ (got # "announce" \/ worker.menu = <<>>)
           THEN Step(t, [tasks[t] EXCEPT !.at = "look"])
           ELSE Step(t, [tasks[t] EXCEPT !.at = IF new THEN "record" ELSE "write", !.got = got,
                                         !.menu = IF got = "announce" THEN worker.menu ELSE <<>>])
    /\ UNCHANGED <<net, moves, book, rows, clock, job>>

\* upsert_discovered_peer: the look, then the insert, which fails when a row
\* with this endpoint came in between; that ends the sweep.
Record(t) ==
    /\ tasks[t].at = "record"
    /\ LET e == tasks[t].endpoint IN
       Step(t, IF e \in Rows THEN [tasks[t] EXCEPT !.at = "write", !.id = book[e].id]
               ELSE [tasks[t] EXCEPT !.at = "insert"])
    /\ UNCHANGED <<net, moves, book, rows, clock, job>>

Insert(t) ==
    LET e == tasks[t].endpoint IN
    /\ tasks[t].at = "insert"
    /\ \/ /\ e \notin Rows
          /\ book' = [book EXCEPT ![e] = NewRow("discovered")] /\ rows' = rows + 1
          /\ Step(t, [tasks[t] EXCEPT !.at = "write", !.id = rows + 1])
       \/ /\ e \in Rows /\ tasks' = [tasks EXCEPT ![t] = NoTask]
          /\ UNCHANGED <<book, rows>>
    /\ UNCHANGED <<net, moves, clock, job>>

\* update_peer_status, by id: a row forgotten since is left alone.
Updated(row, task) ==
    CASE task.got = "none" -> [row EXCEPT !.status = "offline"]
      [] task.got = "bare" -> [row EXCEPT !.status = "online", !.seen = <<clock>>]
      [] OTHER -> [row EXCEPT !.status = "online", !.menu = task.menu, !.seen = <<clock>>]
\* What a request has of it, a history: the rows rewritten since its plan, and
\* whether its provider's was before.
Heard(id) ==
    CASE job.at \in {"fetch", "try", "trying"} -> [job EXCEPT !.since = @ \cup {id}]
      [] job.at \in {"seen", "plan"} /\ id = job.id -> [job EXCEPT !.blur = {"moved"}]
      [] OTHER -> job
Write(t) ==
    LET e == tasks[t].endpoint IN
    /\ tasks[t].at = "write"
    /\ IF book[e].id = tasks[t].id
       THEN /\ book' = [book EXCEPT ![e] = Updated(@, tasks[t])]
            /\ job' = Heard(tasks[t].id)
       ELSE UNCHANGED <<book, job>>
    /\ Step(t, [tasks[t] EXCEPT !.at = Then(t), !.endpoint = <<>>, !.id = 0, !.got = "none", !.menu = <<>>])
    /\ UNCHANGED <<net, moves, rows, clock>>

\* prune_dead_discovered, the end of a sweep.
Dead(row) ==
    /\ row.source = "discovered" /\ row.status # "online"
    /\ row.seen = <<>> \/ clock - Silent > row.seen[1]
Prune(t) ==
    /\ tasks[t].at = "look" /\ tasks[t].todo = {}
    /\ book' = [e \in Endpoints |-> IF Dead(book[e]) THEN NoRow ELSE book[e]]
    /\ tasks' = [tasks EXCEPT ![t] = NoTask]
    /\ UNCHANGED <<net, moves, rows, clock, job>>

-----------------------------------------------------------------------------
(* A request *)

ById(id) == {e \in Rows : book[e].id = id}

\* The user reads the list; the price shown is the offer.
See(kind) ==
    /\ job.at = "none"
    /\ \E o \in ProviderOptions(kind) :
           job' = [job EXCEPT !.at = "seen", !.kind = kind, !.model = o.model, !.id = o.id,
                              !.offer = o.price]
    /\ UNCHANGED <<net, moves, book, rows, tasks, clock>>

\* jobs::submit: the row, then the list again for the providers to try next.
Submit ==
    /\ job.at = "seen"
    /\ \/ \E e \in ById(job.id) :
              /\ book[e].menu = <<>> \/ OffersOf(book[e].menu, job.kind) # {}
              /\ job' = [job EXCEPT !.at = "plan", !.menu = book[e].menu]
       \/ /\ \A e \in ById(job.id) :
                 book[e].menu # <<>> /\ OffersOf(book[e].menu, job.kind) = {}
          /\ job' = NoJob
    /\ UNCHANGED <<net, moves, book, rows, tasks, clock>>

\* The plan, and of the history whether the first provider's price is in doubt.
SeveralAt(id, model) == \E e \in ById(id) : Several(book[e].menu, model)
Planned(j) ==
    [j EXCEPT !.same = SameModel(j.id, j.kind, j.model),
              !.free = OtherFree(j.id, j.kind, j.model),
              !.blur = IF SeveralAt(j.id, j.model) THEN @ \cup {"loose"} ELSE @]
Plan ==
    /\ job.at = "plan" /\ job' = [Planned(job) EXCEPT !.at = "try"]
    /\ UNCHANGED <<net, moves, book, rows, tasks, clock>>

\* The gateway's submit: one reading of the list for the choice and the plan,
\* the row of the chosen one after it.
Cheapest(model) == Min({o.price : o \in {p \in ProviderOptions("llm") : p.model = model}})
ToolAsks(model) ==
    /\ job.at = "none"
    /\ \E o \in Picks(model) :
           job' = [Planned([NoJob EXCEPT !.id = o.id, !.model = o.model])
                   EXCEPT !.at = "fetch", !.tool = TRUE, !.offer = Cheapest(o.model)]
    /\ UNCHANGED <<net, moves, book, rows, tasks, clock>>

Fetch ==
    /\ job.at = "fetch"
    /\ job' = IF ById(job.id) = {} THEN NoJob
              ELSE [job EXCEPT !.at = "try", !.menu = book[CHOOSE e \in ById(job.id) : TRUE].menu]
    /\ UNCHANGED <<net, moves, book, rows, tasks, clock>>

\* What a try is charged: the app takes the first name that fits, of any kind,
\* the gateway the very name.
Charged(j) ==
    PriceAt(j.menu, {i \in DOMAIN j.menu : IF j.tool THEN j.menu[i].model = j.model
                                           ELSE Serves(j.menu[i].model, j.model)})
Try ==
    /\ job.at = "try"
    /\ job' = [job EXCEPT !.at = "trying", !.first = IF @ = 0 THEN job.id ELSE @,
                          !.paid = Charged(job)]
    /\ UNCHANGED <<net, moves, book, rows, tasks, clock>>

\* A provider gave nothing: the next of the plan whose row is still there, the
\* same model first and cheapest first.
Standing(plan) == {o \in plan : ById(o.id) # {}}
NextUp ==
    IF Standing(job.same) # {}
    THEN {o \in Standing(job.same) : \A p \in Standing(job.same) : o.price <= p.price}
    ELSE Standing(job.free)
Retry ==
    /\ job.at = "trying"
    /\ \E o \in NextUp : \E e \in ById(o.id) :
           job' = [job EXCEPT !.at = "try", !.id = o.id, !.menu = book[e].menu,
                              !.model = IF job.kind = "llm" THEN o.model ELSE @,
                              !.same = @ \ {o}, !.free = @ \ {o}]
    /\ UNCHANGED <<net, moves, book, rows, tasks, clock>>

\* An answer, a Stop, or nobody left.
End ==
    /\ job.at = "trying" /\ job' = [NoJob EXCEPT !.at = "over"]
    /\ UNCHANGED <<net, moves, book, rows, tasks, clock>>

BookNext ==
    \/ \E w \in Workers : Turn(w)
    \/ Tick
    \/ \E e \in Endpoints : AddPeer(e) \/ RemovePeer(e)
    \/ \E t \in Tasks : \/ \E e \in Endpoints : StartProbe(t, e) \/ Look(t, e)
                        \/ StartSweep(t) \/ Hear(t) \/ Record(t) \/ Insert(t) \/ Write(t) \/ Prune(t)
    \/ \E kind \in {"llm", "image"} : See(kind)
    \/ \E model \in Asked : ToolAsks(model)
    \/ Submit \/ Plan \/ Fetch \/ Try \/ Retry \/ End
BookSpec == BookInit /\ [][BookNext]_bookVars

-----------------------------------------------------------------------------
(* Properties *)

\* A request never costs more than the offer it began with, and a free one is
\* never retried on a paid provider, unless a probe rewrote the row of the dearer
\* try since the plan, or that of the provider the request began with before it
\* (its price then bounds the plan), or one of the two lists several names that
\* fit (fallbacks, routing.rs; jobs.rs and gateway/mod.rs read the rows again).
NoDearerThanOffered ==
    job.at = "trying" /\ job.paid > job.offer =>
        job.id \in job.since \/ job.blur # {} \/ Several(job.menu, job.model)

\* "A retry never costs more than the offer the user saw ... a free choice is never
\* retried on a paid one" (fallbacks), even where no row was rewritten.  TLC finds
\* otherwise.
RetryNeverDearer ==
    job.at = "trying" /\ job.id # job.first /\ job.since = {} /\ "moved" \notin job.blur =>
        job.paid <= job.offer

\* A peer added by hand does not become a stranger because discovery also found
\* it (store.rs:443): no worker is listed as both.
NoStranger ==
    \A w \in Typed : ~(/\ book[<<w, "p2p">>].source = "discovered"
                         /\ book[<<w, "typed">>].source = "manual")

\* Only the user forgets a peer added by hand, and nobody one that answers: a
\* row that leaves by a sweep was found by one and is not online.
ForgetsOnlyTheDead ==
    \A e \in Endpoints :
        (/\ book[e].id # 0 /\ book'[e].id # book[e].id
         /\ \E t \in Tasks : tasks'[t] # tasks[t]) => Dead(book[e])
===============================================================================
