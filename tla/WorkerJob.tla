----------------------------- MODULE WorkerJob -----------------------------
(***************************************************************************)
(* The jobs of one worker: crates/rootmode-worker/src/server.rs, with the  *)
(* ledger channel they are paid on (channels.rs).                          *)
(*                                                                         *)
(* Each job is a task.  It is admitted, waits for a GPU permit, runs a     *)
(* backend while a second task, the forwarder, streams its tokens, and     *)
(* ends in done or failed.  A priced job carries a bond, a prepaid ticket; *)
(* tokens stream against it, the forwarder asks for a top-up when it runs  *)
(* out, and after the run the bill is captured from the ticket the client  *)
(* signs for it, or from the bond when the client stays silent.            *)
(*                                                                         *)
(* A step is the code between two awaits.  All jobs here pay from one      *)
(* channel, one client with one payout address.  A token costs one micro,  *)
(* a ticket is its cumulative, and a signature or ticket that fails a      *)
(* check is a refused job.                                                 *)
(***************************************************************************)
EXTENDS Integers, Coins

CONSTANTS
    Jobs,
    Priced,         \* the jobs holdback_for holds to a prepaid bond
    MaxConcurrent,  \* GPU permits: config.worker.max_concurrent
    MaxInflight,    \* MAX_INFLIGHT_JOBS
    Prompt,         \* tokens in a prompt
    MaxTokens,      \* the most tokens a backend produces, as delta_tokens counts
    Tickets,        \* the cumulatives a client may sign
    ChainEarned     \* what the chain may show as earned on this channel

ASSUME JobAssumption == IsFiniteSet(Jobs) /\ Priced \subseteq Jobs
ASSUME LimitAssumption == MaxConcurrent \in Nat /\ MaxInflight \in Nat
ASSUME TokenAssumption ==
    /\ Prompt \in Nat /\ MaxTokens \in Nat
    /\ Tickets \subseteq Nat \ {0} /\ ChainEarned \subseteq Nat

VARIABLES
    job,        \* what the worker holds of each job
    ledger      \* the channel's authorised: the highest cumulative banked

vars == <<job, ledger>>

NoBond == [cum |-> 0, delta |-> 0]

\* Unlimited stands for u64::MAX, the authorisation of a job that is free.
Unlimited == Prompt + MaxTokens

Phases == {"idle",      \* not submitted yet
           "admit",     \* task spawned
           "lock",      \* awaiting the chain in ensure_lock
           "queued",    \* awaiting stop or a GPU permit
           "running",   \* awaiting stop, a top-up request or the backend
           "topup",     \* awaiting stop, job.pay or a timeout in request_top_up
           "drain",     \* awaiting the forwarder
           "capture",   \* awaiting job.pay or a timeout in capture_chunk
           "settle",    \* awaiting the chain in settle_if_configured
           "done", "failed"}

Forwarder == {"none",
              "stream",     \* awaiting a delta
              "asking",     \* has sent a need; awaiting its oneshot
              "ended"}

Job == [pc       : Phases,
        stop     : BOOLEAN,         \* a waiter on `stop` was notified
        told     : Phases,          \* history: the phase the first job.cancel met
        bond     : [cum : Nat, delta : Nat],    \* the entry in pending_bonds
        awaited  : BOOLEAN,         \* an entry in pending_pays
        paid     : Nat,             \* the ticket its oneshot received, or 0
        fwd      : Forwarder,
        authorized : Nat,           \* the forwarder's copy of the budget
        produced : Nat,             \* tokens the backend handed to delta_tx
        taken    : Nat,             \* tokens the forwarder received
        sent     : Nat,             \* tokens streamed to the client
        outcome  : {"none", "ok", "error", "stopped"},
        billed   : Nat]             \* what banking credited this job with

NewJob == [pc |-> "idle", stop |-> FALSE, told |-> "idle", bond |-> NoBond,
           awaited |-> FALSE, paid |-> 0, fwd |-> "none", authorized |-> 0,
           produced |-> 0, taken |-> 0, sent |-> 0, outcome |-> "none",
           billed |-> 0]

Init == job = [j \in Jobs |-> NewJob] /\ ledger = 0

----------------------------------------------------------------------------
Least(a, b) == IF a < b THEN a ELSE b
AtLeastOne(n) == IF n > 0 THEN n ELSE 1

Ended(r) == r.pc \in {"done", "failed"}
InFlight == {j \in Jobs : job[j].pc # "idle" /\ ~Ended(job[j])}
OnGpu == {j \in Jobs : job[j].pc \in {"running", "topup", "drain"}}

\* stop.notified() is pending in these phases, and only there.
Listening(r) == r.pc \in {"queued", "running", "topup"}

At(j, phase) == job[j].pc = phase
Becomes(j, r) == job' = [job EXCEPT ![j] = r]
Fail(j) == Becomes(j, [job[j] EXCEPT !.pc = "failed"]) /\ UNCHANGED ledger

\* Price::authorized_tokens: the tokens, prompt included, a bond covers.
AuthorizedTokens(delta) == IF delta > Prompt THEN delta ELSE Prompt

\* bill_micros, when no backend sets a floor.
Bill(j) == IF j \in Priced THEN Prompt + job[j].produced ELSE 0

BankableRise(cum, amount) == cum > ledger                        \* mutant

\* Channels::accept_spend: bank a ticket for a bill of amount.
Bankable(cum, amount) == cum >= ledger + amount /\ cum > ledger

----------------------------------------------------------------------------
(* Admission.                                                               *)

\* on_line, job.submit: a task is spawned unless too many are in flight.
Submit(j) ==
    /\ At(j, "idle")
    /\ Cardinality(InFlight) < MaxInflight
    /\ Becomes(j, [job[j] EXCEPT !.pc = "admit"])
    /\ UNCHANGED ledger

SubmitRefused(j) ==
    /\ At(j, "idle")
    /\ Cardinality(InFlight) >= MaxInflight
    /\ Fail(j)

\* authorize, or for a priced job take_bond and clamp_to_chunk, refuses.
Refuse(j) == At(j, "admit") /\ Fail(j)

\* The rest of admission, once nothing is left that refuses.
Queue(j, r) == Becomes(j, [r EXCEPT !.pc = "queued"]) /\ UNCHANGED ledger

\* A free job goes through validate, screen and route without an await.
AdmitFree(j) ==
    /\ At(j, "admit")
    /\ j \notin Priced
    /\ Queue(j, job[j])

\* take_bond: the ticket must raise the ledger.  clamp_to_chunk: by more than
\* the prompt costs.
TakeBond(j, cum) ==
    /\ At(j, "admit")
    /\ j \in Priced
    /\ cum > ledger
    /\ Prompt < cum - ledger
    /\ Becomes(j, [job[j] EXCEPT !.pc = "lock",
                                 !.bond = [cum |-> cum, delta |-> cum - ledger]])
    /\ UNCHANGED ledger

LockFoundUnclamped(j, earned) ==                                 \* mutant
    /\ At(j, "lock")
    /\ Queue(j, [job[j] EXCEPT !.bond.delta = Least(@, job[j].bond.cum - earned)])

\* ensure_lock answers Ok, having read earned from the chain.
LockFound(j, earned) ==
    LET bond  == job[j].bond
        above == AtLeastOne(bond.cum - earned)
    IN  /\ At(j, "lock")
        /\ Queue(j, [job[j] EXCEPT !.bond.delta = Least(@, above)])

\* ensure_lock refuses: the bond is dropped.
LockRefused(j) ==
    /\ At(j, "lock")
    /\ Becomes(j, [job[j] EXCEPT !.pc = "failed", !.bond = NoBond])
    /\ UNCHANGED ledger

\* ensure_lock answers Ok and then validate, screen or route refuses.
Screened(j, earned) ==
    LET above == AtLeastOne(job[j].bond.cum - earned)
    IN  /\ At(j, "lock")
        /\ Becomes(j, [job[j] EXCEPT !.pc = "failed",
                                     !.bond.delta = Least(@, above)])
        /\ UNCHANGED ledger

----------------------------------------------------------------------------
(* The queue and the run.                                                   *)

\* on_line, job.cancel: notify_waiters reaches whoever is waiting now.
Cancel(j) ==
    /\ j \in InFlight
    /\ Becomes(j, [job[j] EXCEPT !.told = IF @ = "idle" THEN job[j].pc ELSE @,
                                 !.stop = @ \/ Listening(job[j])])
    /\ UNCHANGED ledger

\* The selects are biased: a stop is seen before a permit, a need or a result.
StopQueued(j) ==
    /\ At(j, "queued")
    /\ job[j].stop
    /\ Fail(j)

StartIgnoringStop(j) ==                                          \* mutant
    /\ At(j, "queued")
    /\ Cardinality(OnGpu) < MaxConcurrent
    /\ Becomes(j, [job[j] EXCEPT !.pc = "running", !.fwd = "stream",
           !.authorized = IF j \in Priced THEN AuthorizedTokens(job[j].bond.delta)
                                          ELSE Unlimited])
    /\ UNCHANGED ledger

Start(j) ==
    /\ At(j, "queued")
    /\ ~job[j].stop
    /\ Cardinality(OnGpu) < MaxConcurrent
    /\ Becomes(j, [job[j] EXCEPT !.pc = "running", !.fwd = "stream",
           !.authorized = IF j \in Priced THEN AuthorizedTokens(job[j].bond.delta)
                                          ELSE Unlimited])
    /\ UNCHANGED ledger

Produce(j) ==
    /\ At(j, "running")
    /\ job[j].produced < MaxTokens
    /\ Becomes(j, [job[j] EXCEPT !.produced = @ + 1])
    /\ UNCHANGED ledger

\* One poll of the backend may hand over several tokens and its outcome: a
\* stop or a need that arrives meanwhile does not come first.
Finish(j, outcome) ==
    /\ At(j, "running")
    /\ Becomes(j, [job[j] EXCEPT !.pc = "drain", !.outcome = outcome])
    /\ UNCHANGED ledger

Stop(j) ==
    /\ At(j, "running")
    /\ job[j].stop
    /\ Becomes(j, [job[j] EXCEPT !.pc = "drain", !.outcome = "stopped"])
    /\ UNCHANGED ledger

----------------------------------------------------------------------------
(* The forwarder, and the top-ups it asks for.                              *)

ForwardCountsLate(j) ==                                          \* mutant
    /\ job[j].fwd = "stream"
    /\ job[j].taken < job[j].produced
    /\ Becomes(j, IF Prompt + job[j].taken <= job[j].authorized
                    THEN [job[j] EXCEPT !.taken = @ + 1, !.sent = @ + 1]
                    ELSE [job[j] EXCEPT !.taken = @ + 1, !.fwd = "asking"])
    /\ UNCHANGED ledger

\* A token within the budget is streamed; the first beyond it is held back
\* while the forwarder asks for more and awaits the answer.
Forward(j) ==
    LET used == Prompt + job[j].taken + 1
    IN  /\ job[j].fwd = "stream"
        /\ job[j].taken < job[j].produced
        /\ Becomes(j, IF used <= job[j].authorized
                        THEN [job[j] EXCEPT !.taken = @ + 1, !.sent = @ + 1]
                        ELSE [job[j] EXCEPT !.taken = @ + 1, !.fwd = "asking"])
        /\ UNCHANGED ledger

\* Once the run is over its senders are gone, and a select that sees either
\* channel closed ends the loop; the tokens left are streamed as they are.
ForwardRest(j) ==
    /\ job[j].fwd = "stream"
    /\ At(j, "drain")
    /\ Becomes(j, [job[j] EXCEPT !.fwd = "ended", !.taken = job[j].produced,
                                 !.sent = @ + (job[j].produced - job[j].taken)])
    /\ UNCHANGED ledger

\* The run loop takes the need and request_top_up sends an invoice.
AskTopUp(j) ==
    /\ At(j, "running")
    /\ ~job[j].stop
    /\ job[j].fwd = "asking"
    /\ Becomes(j, [job[j] EXCEPT !.pc = "topup", !.awaited = TRUE, !.paid = 0])
    /\ UNCHANGED ledger

\* The top-up is over without a raise: the oneshot is dropped and with it the
\* rest of the stream.  The run goes on.
NoTopUp(j) ==
    Becomes(j, [job[j] EXCEPT !.pc = "running", !.awaited = FALSE, !.paid = 0,
                              !.stop = FALSE, !.fwd = "ended"])
    /\ UNCHANGED ledger

\* request_top_up's own select consumes a stop.
TopUpStopped(j) == At(j, "topup") /\ job[j].stop /\ NoTopUp(j)

TopUpTimeout(j) ==
    At(j, "topup") /\ ~job[j].stop /\ job[j].paid = 0 /\ NoTopUp(j)

TopUpRefused(j) ==
    LET r == job[j]
    IN  /\ At(j, "topup") /\ ~r.stop /\ r.paid # 0
        /\ r.paid - ledger <= r.bond.delta
        /\ NoTopUp(j)

\* The ticket raises the bond, and the answer the forwarder's budget: it
\* streams the token it holds, or asks again when that is still beyond it.
TopUpPaid(j) ==
    LET r     == job[j]
        delta == r.paid - ledger
        fits  == Prompt + r.taken <= AuthorizedTokens(delta)
    IN  /\ At(j, "topup") /\ ~r.stop /\ r.paid # 0
        /\ delta > r.bond.delta
        /\ Becomes(j, [r EXCEPT !.pc = "running", !.paid = 0,
               !.bond = [cum |-> r.paid, delta |-> delta],
               !.authorized = AuthorizedTokens(delta),
               !.sent = IF fits THEN @ + 1 ELSE @,
               !.fwd  = IF fits THEN "stream" ELSE "asking"])
        /\ UNCHANGED ledger

\* on_line, job.pay: a ticket nobody awaits is dropped.
Pay(j, cum) ==
    /\ job[j].awaited
    /\ Becomes(j, [job[j] EXCEPT !.awaited = FALSE, !.paid = cum])
    /\ UNCHANGED ledger

----------------------------------------------------------------------------
(* The end of a job.                                                        *)

EndIfError(j) ==                                                 \* mutant
    /\ At(j, "drain")
    /\ job[j].fwd = "ended"
    /\ job[j].outcome = "error"
    /\ Fail(j)

\* A stopped or failed run: its bond stays in pending_bonds.
EndFailed(j) ==
    /\ At(j, "drain")
    /\ job[j].fwd = "ended"
    /\ job[j].outcome \in {"error", "stopped"}
    /\ Fail(j)

EndFreeEarly(j) ==                                               \* mutant
    /\ At(j, "drain")
    /\ job[j].outcome = "ok"
    /\ Bill(j) = 0
    /\ Becomes(j, [job[j] EXCEPT !.pc = "done", !.bond = NoBond])
    /\ UNCHANGED ledger

\* A run that owes nothing: the result, then done.
EndFree(j) ==
    /\ At(j, "drain")
    /\ job[j].fwd = "ended"
    /\ job[j].outcome = "ok"
    /\ Bill(j) = 0
    /\ Becomes(j, [job[j] EXCEPT !.pc = "done", !.bond = NoBond])
    /\ UNCHANGED ledger

\* The result, then capture_chunk's invoice.  The bond's delta is kept beside
\* the job for the wait; capture_chunk owns the bond from here.
Invoice(j) ==
    /\ At(j, "drain")
    /\ job[j].fwd = "ended"
    /\ job[j].outcome = "ok"
    /\ Bill(j) > 0
    /\ Becomes(j, [job[j] EXCEPT !.pc = "capture", !.awaited = TRUE, !.paid = 0])
    /\ UNCHANGED ledger

\* What capture_chunk asks for.
Amount(j) == AtLeastOne(Least(Bill(j), job[j].bond.delta))

\* A ticket is banked, the job is credited amount, and settling may follow.
Bank(j, cum, amount) ==
    /\ ledger' = cum
    /\ Becomes(j, [job[j] EXCEPT !.pc = "settle", !.bond = NoBond, !.paid = 0,
                                 !.awaited = FALSE, !.billed = amount])

\* The bond is banked whole; if it no longer raises the ledger by its delta,
\* nothing is.
BankBond(j) ==
    LET bond == job[j].bond
    IN  IF Bankable(bond.cum, bond.delta)
          THEN Bank(j, bond.cum, bond.delta)
          ELSE /\ Becomes(j, [job[j] EXCEPT !.pc = "done", !.bond = NoBond,
                                            !.paid = 0, !.awaited = FALSE])
               /\ UNCHANGED ledger

CapturePaid(j) ==
    /\ At(j, "capture")
    /\ job[j].paid # 0
    /\ IF Bankable(job[j].paid, Amount(j))
         THEN Bank(j, job[j].paid, Amount(j))
         ELSE BankBond(j)

CaptureTimeout(j) ==
    /\ At(j, "capture")
    /\ job[j].paid = 0
    /\ BankBond(j)

\* settle_if_configured returns, whatever the chain said; then done.
Settled(j) ==
    /\ At(j, "settle")
    /\ Becomes(j, [job[j] EXCEPT !.pc = "done"])
    /\ UNCHANGED ledger

----------------------------------------------------------------------------
\* What the worker does by itself.
Admission(j) ==
    \/ Refuse(j) \/ AdmitFree(j)
    \/ \E cum \in Tickets : TakeBond(j, cum)
    \/ LockRefused(j)
    \/ \E earned \in ChainEarned : LockFound(j, earned) \/ Screened(j, earned)

Running(j) ==
    \/ Start(j) \/ StopQueued(j) \/ Produce(j) \/ Stop(j)
    \/ \E outcome \in {"ok", "error"} : Finish(j, outcome)

Forwarding(j) == Forward(j) \/ ForwardRest(j)

ToppingUp(j) ==
    \/ AskTopUp(j) \/ TopUpStopped(j) \/ TopUpTimeout(j)
    \/ TopUpRefused(j) \/ TopUpPaid(j)

Ending(j) ==
    \/ EndFailed(j) \/ EndFree(j) \/ Invoice(j)
    \/ CapturePaid(j) \/ CaptureTimeout(j) \/ Settled(j)

\* What the client does.
Client(j) ==
    \/ Submit(j) \/ SubmitRefused(j) \/ Cancel(j)
    \/ \E cum \in Tickets : Pay(j, cum)

Step(j) == \/ Admission(j) \/ Running(j) \/ Forwarding(j)
           \/ ToppingUp(j) \/ Ending(j) \/ Client(j)

AllOver == \A j \in Jobs : Ended(job[j])

\* Every job has ended: the worker waits for the next.
Over == AllOver /\ UNCHANGED vars

Next == (\E j \in Jobs : Step(j)) \/ Over

Spec == Init /\ [][Next]_vars

\* ensure_lock and settle_if_configured read the chain through a client that
\* has no timeout: a job awaiting it may wait for ever.
AwaitsChain(j) == job[j].pc \in {"lock", "settle"}

\* Every other await of a job comes back: tokio polls a ready task, a run ends
\* (the client of a chat backend has a timeout), both waits for job.pay have one.
\* A job that awaits the chain is owed nothing.
Fairness ==
    \A j \in Jobs :
        /\ WF_vars(~AwaitsChain(j) /\ Admission(j))
        /\ WF_vars(Running(j)) /\ WF_vars(Forwarding(j)) /\ WF_vars(ToppingUp(j))
        /\ WF_vars(~AwaitsChain(j) /\ Ending(j))

FairSpec == Spec /\ Fairness

----------------------------------------------------------------------------
(* Properties.                                                              *)

\* Every field has the shape of the state it stands for.
TypeOK == job \in [Jobs -> Job] /\ ledger \in Nat

\* What the worker counts as earned, over all jobs of the channel, is covered
\* by the one cumulative it can settle: no signature pays for two jobs,
\* whichever tickets are late, repeated, or beaten by another job's.
Billed == [j \in Jobs |-> job[j].billed]
EarnedCovered == Total(Jobs, Billed) <= ledger

\* While a priced job generates, what was streamed to the client stays within
\* what its bond prepaid, through every top-up, refusal and timeout.
Within(j) == Prompt + job[j].sent <= AuthorizedTokens(job[j].bond.delta)
StreamPrepaid ==
    \A j \in Priced : job[j].pc \in {"running", "topup"} => Within(j)

\* docs/PROTOCOL.md, "Never forward tokens that are not prepaid": also when the
\* run is over and the forwarder empties its channels.
AllStreamPrepaid ==
    \A j \in Priced :
        job[j].pc \in {"running", "topup", "drain", "capture"} => Within(j)

\* docs/PROTOCOL.md, "done and failed are terminal": nothing of a job is
\* streamed after its terminal status, which the forwarder, a task of its own,
\* could be late for.
TerminalIsLast ==
    [][\A j \in Jobs : Ended(job[j]) => UNCHANGED <<job[j].pc, job[j].sent>>]_vars

\* A job told to stop while it is queued never gets the GPU.
QueuedStopHolds ==
    \A j \in Jobs : job[j].told = "queued" => job[j].pc \in {"queued", "failed"}

\* "A job in flight can be told to stop": one told before it had the GPU, in
\* whatever phase the cancel met it, never gets it.
StoppedNeverRuns ==
    \A j \in Jobs : job[j].told \in {"admit", "lock", "queued"} => j \notin OnGpu

\* docs/PROTOCOL.md, "If job.pay never arrives, the worker settles the prepaid
\* bond itself": silence leaves the bond's ticket banked, whatever other jobs of
\* the channel banked since the bond was taken.
SilencePaysBond ==
    [][\A j \in Jobs : CaptureTimeout(j) => ledger' >= job[j].bond.cum]_vars

\* docs/ARCHITECTURE.md, "A failure at any point becomes failed with the
\* reason": a job that was submitted waits for ever nowhere but on the chain.
\* From every other phase it goes on, to its end or to an await of the chain.
JobsEnd ==
    \A j \in Jobs : job[j].pc # "idle" ~> Ended(job[j]) \/ AwaitsChain(j)
============================================================================
