----------------------------- MODULE Settlement -----------------------------
(***************************************************************************)
(* How the workers of one payout collect what they are owed: the ledger of *)
(* crates/rootmode-worker/src/channels.rs with its file, settle_due and    *)
(* settle_ticket of server.rs, and the calls of chain.rs, over the pot     *)
(* contract itself (RootmodePot).                                          *)
(*                                                                         *)
(* One client, one payout, several nodes that share it, each with its own  *)
(* ledger and pay key.  A job ends with a ticket the client signs on top   *)
(* of all its earlier ones; the node banks it, and posts it when it is     *)
(* worth a transaction.  Each node also sweeps its ledger once a minute.   *)
(* A unit of time is long against a sweep and a transaction, so time       *)
(* passes only when every node has swept what it holds and nothing is in   *)
(* flight (Tick).                                                          *)
(***************************************************************************)
EXTENDS Integers, FiniteSets

CONSTANTS
    Jobs,
    Nodes,          \* workers with the same payout address
    Client, Payout, Key, NoKey, Pot, FeeVault,
    JobCap,         \* the account's maxPerJob
    DayCap,         \* the account's maxPerDay
    Locks,          \* the totals a reserve ticket may carry
    Need,           \* the bond of a job: what its lock must still hold
    Bills,          \* what a job may come to, at most Need
    SettleMin,      \* SETTLE_MIN_MICROS
    DueSoon,        \* SETTLE_BEFORE_DEADLINE_SECS
    Ttl,            \* TICKET_TTL_SECS of the app
    Grace, Day, Horizon

ASSUME BillAssumption == Bills \subseteq 1 .. Need /\ Need \in Nat /\ SettleMin \in Nat
ASSUME CallerAssumption == Jobs \cap Nodes = {} /\ NoKey \notin Nodes
\* Amounts and times are unsigned; the largest lock is what the client can fund.
ASSUME NumberAssumption ==
    /\ Locks \subseteq Nat /\ \E m \in Locks : \A l \in Locks : l <= m
    /\ {JobCap, DayCap, Ttl, Grace, Day, Horizon} \subseteq Nat
    /\ DueSoon \in Nat \ {0}

VARIABLES
    now, accounts, channels, usdc,      \* the pot
    signed,     \* the client's newest total
    job,        \* each job, up to the bank of its ticket
    ledger,     \* node -> its entry for the channel, in memory
    file,       \* node -> what its file restores
    call,       \* a job's or a sweeper's call of settle_ticket
    mempool,    \* transactions posted that nobody waits for
    swept,      \* nodes whose last sweep in this unit of time left nothing to post
    banked,     \* history: the highest total each node ever banked
    faulted     \* history: a post, a receipt, a settle, a write or a bank failed

chain == <<now, accounts, channels, usdc>>
vars == <<chain, signed, job, ledger, file, call, mempool, swept, banked, faulted>>

Wallet == CHOOSE m \in Locks : \A l \in Locks : l <= m
Pair == <<Client, Payout>>

Chain == INSTANCE RootmodePot WITH
    Clients <- {Client}, Workers <- {Payout}, AppKeys <- {Key}, FeeBps <- 1000,
    Deposits <- {Wallet}, Cumulatives <- Locks, JobLimits <- {JobCap},
    DayLimits <- {DayCap}, Deadlines <- {}, Start <- 1

\* The channel as chain.rs reads it.
Channel == channels[Pair]
Remaining == Channel.reserved - Channel.earned
Closing == Channel.closeAt # 0

Callers == Jobs \cup Nodes

\* A job: submitted to a node, running, its ticket signed, over.
NewJob == [at |-> "new", node |-> NoKey, cum |-> 0, amount |-> 0, deadline |-> 0]
\* A call: weighed by worth_settling, checked and given a nonce, posted, waited
\* for, given up while the transaction may still be mined.
NoCall == [at |-> "idle", node |-> NoKey, cum |-> 0, deadline |-> 0, fresh |-> FALSE]
NoEntry == [authorised |-> 0, settled |-> 0, deadline |-> 0]

Higher(a, b) == IF a >= b THEN a ELSE b

Init ==
    /\ Chain!Init
    /\ signed = 0
    /\ job = [j \in Jobs |-> NewJob]
    /\ ledger = [n \in Nodes |-> NoEntry] /\ file = ledger
    /\ call = [c \in Callers |-> NoCall]
    /\ mempool = {} /\ swept = {} /\ faulted = FALSE
    /\ banked = [n \in Nodes |-> 0]

Ledgers == <<ledger, file, banked>>

\* A behaviour has one fault of the environment.
Fault == ~faulted /\ faulted' = TRUE

-----------------------------------------------------------------------------
(* The client and its wallet *)

Fund ==
    /\ Channel.appKey = NoKey
    /\ Chain!Deposit(Client, Wallet, JobCap, DayCap, Key)
    /\ UNCHANGED <<signed, job, Ledgers, call, swept, faulted, mempool>>

RequestClose ==
    /\ ~Closing
    /\ Chain!RequestClose(Client, Payout)
    /\ UNCHANGED <<signed, job, Ledgers, call, swept, faulted, mempool>>

\* Anyone may close a lapsed lock, or a closing one after its grace.
Close ==
    /\ Channel.reserved > Channel.earned
    /\ Chain!Close(Client, Payout)
    /\ UNCHANGED <<signed, job, Ledgers, call, swept, faulted, mempool>>

\* pay_invoice: the bill goes on top of what the client last signed or the
\* chain shows, whichever is higher.
SignBill(j) ==
    /\ job[j].at = "running"
    /\ \E amount \in Bills :
         LET cum == Higher(signed, Channel.earned) + amount IN
         /\ signed' = cum
         /\ job' = [job EXCEPT ![j].at = "signed", ![j].cum = cum,
                               ![j].amount = amount, ![j].deadline = now + Ttl]
    /\ UNCHANGED <<chain, Ledgers, call, swept, faulted, mempool>>

-----------------------------------------------------------------------------
(* ensure_lock *)

\* A raise the client signed above the lock is posted by the node.
PostReserve(j) ==
    /\ job[j].at = "new"
    /\ \E lock \in Locks :
         /\ lock > Channel.reserved
         /\ Chain!Reserve(Client, Payout, lock, now + Ttl, Key)
    /\ UNCHANGED <<signed, job, Ledgers, call, swept, faulted, mempool>>

\* The channel is not closing and still covers the job's bond.
Admit(j, n) ==
    /\ job[j].at = "new"
    /\ ~Closing /\ Channel.appKey # NoKey
    /\ Remaining >= Higher(signed, Channel.earned) + Need - Channel.earned
    /\ job' = [job EXCEPT ![j].at = "running", ![j].node = n]
    /\ UNCHANGED <<chain, signed, Ledgers, call, swept, faulted, mempool>>

-----------------------------------------------------------------------------
(* accept_spend and the file *)

\* The ledger is written whole beside the file and moved into place.  A write
\* that fails is ignored.
Write(n, entry) ==
    /\ ledger' = [ledger EXCEPT ![n] = entry]
    /\ \/ file' = [file EXCEPT ![n] = entry] /\ UNCHANGED faulted
       \/ Fault /\ UNCHANGED file

Bankable(n, t) ==
    /\ now <= t.deadline
    /\ t.cum >= ledger[n].authorised + t.amount
    /\ t.cum > ledger[n].authorised

\* The ticket becomes the channel's newest, and the job asks whether to settle.
Bank(j) ==
    LET n == job[j].node IN
    /\ job[j].at = "signed" /\ Bankable(n, job[j])
    /\ Write(n, [ledger[n] EXCEPT !.authorised = job[j].cum, !.deadline = job[j].deadline])
    /\ banked' = [banked EXCEPT ![n] = job[j].cum]
    /\ job' = [job EXCEPT ![j] = [NewJob EXCEPT !.at = "over"]]
    /\ call' = [call EXCEPT ![j] = [at |-> "weigh", node |-> n, cum |-> job[j].cum,
                                    deadline |-> job[j].deadline, fresh |-> FALSE]]
    /\ swept' = swept \ {n}
    /\ UNCHANGED <<chain, signed, mempool>>

\* Refused: bank_pay fails and the job ends without its bill.
Refuse(j) ==
    /\ job[j].at = "signed" /\ ~Bankable(job[j].node, job[j])
    /\ job' = [job EXCEPT ![j] = [NewJob EXCEPT !.at = "over"]]
    /\ faulted' = TRUE
    /\ UNCHANGED <<chain, signed, Ledgers, call, swept, mempool>>

-----------------------------------------------------------------------------
(* settle_due, worth_settling, settle_ticket *)

\* The sweeper of n looks at its ledger.
Sweep(n) ==
    /\ call[n].at = "idle" /\ n \notin swept
    /\ IF ledger[n].authorised > ledger[n].settled
         THEN /\ call' = [call EXCEPT ![n] =
                    [at |-> "weigh", node |-> n, cum |-> ledger[n].authorised,
                     deadline |-> ledger[n].deadline, fresh |-> FALSE]]
              /\ UNCHANGED swept
         ELSE UNCHANGED call /\ swept' = swept \cup {n}
    /\ UNCHANGED <<chain, signed, job, Ledgers, faulted, mempool>>

Ends(c) ==
    /\ call' = [call EXCEPT ![c] = NoCall]
    /\ UNCHANGED swept

Moves(c, phase) ==
    /\ call' = [call EXCEPT ![c].at = phase, ![c].fresh = (phase = "post")]
    /\ UNCHANGED swept

WorthUnlessClosing(c) ==                                        \* mutant
    LET delta == call[c].cum - Channel.earned IN
    \/ call[c].deadline - now < DueSoon
    \/ delta > 0 /\ (delta >= SettleMin \/ delta >= JobCap \div 2)

WorthIgnoringDeadline(c) ==                                     \* mutant
    LET delta == call[c].cum - Channel.earned IN
    Closing \/ (delta > 0 /\ (delta >= SettleMin \/ delta >= JobCap \div 2))

\* A closing channel reads as an error, and an error settles.
Worth(c) ==
    LET delta == call[c].cum - Channel.earned IN
    \/ call[c].deadline - now < DueSoon
    \/ Closing
    \/ /\ delta > 0
       /\ \/ delta >= SettleMin
          \/ Channel.maxPerJob > 0 /\ delta >= Channel.maxPerJob \div 2

\* Any other read may fail as well.
Weigh(c) ==
    /\ call[c].at = "weigh"
    /\ \/ Moves(c, "check")
       \/ /\ ~Worth(c)
          /\ call' = [call EXCEPT ![c] = NoCall]
          /\ swept' = IF c \in Nodes /\ call[c].cum = ledger[c].authorised
                        THEN swept \cup {c} ELSE swept
    /\ UNCHANGED <<chain, signed, job, Ledgers, faulted, mempool>>

\* Channels::settled: the mark only rises, and the ledger is written.
Marked(n, upto) ==
    Write(n, [ledger[n] EXCEPT !.settled = Higher(@, upto)]) /\ UNCHANGED banked

\* Read as already on the chain: marked without a transaction.  Otherwise, or
\* unread, the next nonce is read.
Check(c) ==
    /\ call[c].at = "check"
    /\ \/ /\ ~Closing /\ call[c].cum <= Channel.earned
          /\ Ends(c) /\ Marked(call[c].node, call[c].cum)
       \/ Moves(c, "post") /\ UNCHANGED <<Ledgers, faulted>>
    /\ UNCHANGED <<chain, signed, job, mempool>>

\* A transaction takes the nonce; another of the node that read the same one
\* is refused when it is sent.
Post(c) ==
    /\ call[c].at = "post" /\ call[c].fresh
    /\ call' = [d \in Callers |->
                  IF d = c THEN [call[c] EXCEPT !.at = "wait", !.fresh = FALSE]
                  ELSE IF call[d].node = call[c].node THEN [call[d] EXCEPT !.fresh = FALSE]
                  ELSE call[d]]
    /\ UNCHANGED <<chain, signed, job, Ledgers, swept, faulted, mempool>>

\* The nonce was used, or the endpoint or the gas failed: "settle later".
PostFails(c) ==
    /\ call[c].at = "post"
    /\ Ends(c)
    /\ IF call[c].fresh THEN Fault ELSE UNCHANGED faulted
    /\ UNCHANGED <<chain, signed, job, Ledgers, mempool>>

Accepted(c) == Chain!Settle(Client, Payout, call[c].cum, call[c].deadline, Key)
Reverts(c) == ~Chain!Recognizable(Client, Payout, call[c].cum, call[c].deadline, Key)

MarkedBeforeMined(c) ==                                         \* mutant
    /\ call[c].at = "wait"
    /\ Marked(call[c].node, call[c].cum) /\ UNCHANGED chain
    /\ Ends(c)
    /\ UNCHANGED <<signed, job, mempool>>

\* The receipt of a posted settle: success marks the ledger.
Mined(c) ==
    /\ call[c].at = "wait"
    /\ \/ Accepted(c) /\ Marked(call[c].node, call[c].cum)
       \/ Reverts(c) /\ faulted' = TRUE /\ UNCHANGED <<chain, Ledgers>>
    /\ Ends(c)
    /\ UNCHANGED <<signed, job, mempool>>

\* No receipt in thirty seconds: the node stops waiting, the transaction may
\* still be mined, or never.
GivesUp(c) ==
    /\ call[c].at = "wait"
    /\ mempool' = mempool \cup {[cum |-> call[c].cum, deadline |-> call[c].deadline]}
    /\ Ends(c)
    /\ Fault
    /\ UNCHANGED <<chain, signed, job, Ledgers>>

MinedLate ==
    /\ \E t \in mempool :
         /\ \/ Chain!Settle(Client, Payout, t.cum, t.deadline, Key)
            \/ UNCHANGED chain
         /\ mempool' = mempool \ {t}
    /\ UNCHANGED <<signed, job, Ledgers, call, swept, faulted>>

\* The node comes back with what its file holds; its jobs and calls are gone,
\* what it posted is not.
Restart(n) ==
    /\ ledger' = [ledger EXCEPT ![n] = file[n]]
    /\ job' = [j \in Jobs |-> IF job[j].node = n THEN [NewJob EXCEPT !.at = "over"] ELSE job[j]]
    /\ mempool' = mempool \cup
         {[cum |-> call[c].cum, deadline |-> call[c].deadline] :
             c \in {d \in Callers : call[d].node = n /\ call[d].at = "wait"}}
    /\ call' = [c \in Callers |-> IF call[c].node = n THEN NoCall ELSE call[c]]
    /\ IF \/ \E j \in Jobs : job[j].node = n /\ job[j].at = "signed"
          \/ \E c \in Callers : call[c].node = n
         THEN Fault
         ELSE UNCHANGED faulted /\ (ledger[n] # file[n] \/ \E j \in Jobs : job[j].node = n)
    /\ UNCHANGED <<chain, signed, file, swept, banked>>

InFlight == \E c \in Callers : call[c].at \in {"weigh", "check", "post", "wait"}

Tick ==
    /\ ~InFlight
    /\ swept = Nodes \/ faulted
    /\ \A j \in Jobs : job[j].at # "signed"
    /\ Chain!Tick
    /\ swept' = {}
    /\ UNCHANGED <<signed, job, Ledgers, call, faulted, mempool>>

CallStep(c) ==
    \/ Weigh(c) \/ Check(c) \/ Post(c) \/ PostFails(c)
    \/ Mined(c) \/ GivesUp(c)

JobStep(j) ==
    \/ PostReserve(j) \/ SignBill(j) \/ Bank(j) \/ Refuse(j)
    \/ \E n \in Nodes : Admit(j, n)

Next ==
    \/ Fund \/ RequestClose \/ Close \/ MinedLate \/ Tick
    \/ \E j \in Jobs : JobStep(j)
    \/ \E c \in Callers : CallStep(c)
    \/ \E n \in Nodes : Sweep(n) \/ Restart(n)

Spec == Init /\ [][Next]_vars

-----------------------------------------------------------------------------
(* Every entry is a ticket or none, and a call is where its phases say        *)
(* (channels.rs Channel; server.rs settle_ticket).                            *)
TypeOK ==
    /\ signed \in Nat /\ faulted \in BOOLEAN /\ swept \subseteq Nodes
    /\ job \in [Jobs -> [at : {"new", "running", "signed", "over"}, node : Nodes \cup {NoKey},
                         cum : Nat, amount : Nat, deadline : Nat]]
    /\ call \in [Callers -> [at : {"idle", "weigh", "check", "post", "wait"},
                             node : Nodes \cup {NoKey}, cum : Nat, deadline : Nat, fresh : BOOLEAN]]
    /\ \A n \in Nodes : \A e \in {ledger[n], file[n]} :
         e.authorised \in Nat /\ e.settled \in 0 .. e.authorised /\ e.deadline \in Nat
    /\ banked \in [Nodes -> Nat]

(* What a node marks as settled, in memory or on disk, the contract has        *)
(* recognised: "what has been redeemed on-chain" (channels.rs), however        *)
(* sweeper, jobs, siblings, late transactions and restarts interleave.         *)
(* Marking more would take a ticket out of redeemable for good.                *)
SettledIsEarned ==
    \A n \in Nodes : ledger[n].settled <= Channel.earned /\ file[n].settled <= Channel.earned

\* A bill signed earlier arrives after a later one and will be refused.
Overtaken == \E j \in Jobs : job[j].at = "signed" /\ ~Bankable(job[j].node, job[j])

Uncollected(n) == banked[n] > Channel.earned

\* The totals some node holds a ticket for, or is about to be sent one for.
Held == {ledger[n].authorised : n \in Nodes} \cup {call[c].cum : c \in Callers}
        \cup {job[j].cum : j \in {k \in Jobs : job[k].at = "signed"}}

(* "Well before it nears the cap" (server.rs, worth_settling): while nothing   *)
(* has failed, what is banked can still be collected.  Some ticket a node      *)
(* holds rises over the chain by no more than the per-job cap; if the newest   *)
(* ones all rise by more, every settle reverts OverCap from then on.           *)
NeverStranded ==
    ~faulted /\ ~Overtaken => \A n \in Nodes : Uncollected(n) /\ Channel.maxPerJob > 0 =>
        \E t \in Held : t > Channel.earned /\ t <= Channel.earned + Channel.maxPerJob

(* "Settle ... always before the deadline" (server.rs, worth_settling): while  *)
(* nothing has failed, what a node banked and the lock still covers does not   *)
(* outlive its ticket, through deferrals, siblings' settles and restarts.      *)
NothingExpires ==
    ~faulted => \A n \in Nodes :
        Uncollected(n) /\ banked[n] <= Channel.reserved => now <= ledger[n].deadline

(* A client that gives notice cannot take back what a node banked before the   *)
(* nodes last swept: in the grace the channel reads as an error, and an error   *)
(* settles (chain.rs channel_state, server.rs worth_settling).                 *)
NoticeLeavesBanked ==
    [][Close /\ ~faulted /\ ~InFlight /\ swept = Nodes
             /\ Chain!TimedOut(Channel) /\ ~Chain!Lapsed(Channel) =>
         \A n \in Nodes : banked[n] <= Channel.earned]_vars

(* "Waiting loses nothing as long as the newest is settled before its         *)
(* deadline" (server.rs, SETTLE_MIN_MICROS): while nothing has failed, the lock  *)
(* covers what is banked and not collected.                                    *)
WaitingLosesNothing ==
    ~faulted => \A n \in Nodes : Uncollected(n) => banked[n] <= Channel.reserved
=============================================================================
