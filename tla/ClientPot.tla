----------------------------- MODULE ClientPot -----------------------------
(***************************************************************************)
(* The desktop app's pot ledger: apps/desktop/src-tauri/src/pot.rs, with   *)
(* the spend rows of store.rs.                                             *)
(*                                                                         *)
(* One channel, one client with one payout address, shared by all the      *)
(* jobs and, through the payout, by several nodes.  `latest` is the newest *)
(* cumulative the app stands by.  A job is issued a bond on top of it; the *)
(* bill that ends the job raises it.  Signing happens under a gate that    *)
(* one call holds at a time, but the chain is read, and a refusal          *)
(* compared, before the gate is taken.                                     *)
(*                                                                         *)
(* A step is the code between two awaits, or up to the write of            *)
(* pot-pending.json and after it, where a crash may fall.  A top-up is not *)
(* a step: a job's ceiling is its cap from the start, so there is never    *)
(* room for one and pay_invoice refuses it without a change.               *)
(***************************************************************************)
EXTENDS Integers, FiniteSets

CONSTANTS
    Jobs,
    Need,           \* a job's cap, its ceiling and its bond: job_cap
    Cap,            \* the account's max_per_job_micros
    Cums,           \* the cumulatives the app may sign
    Metered,        \* jobs with a result that settle_job may have to bill
    Refused,        \* jobs a node refuses, naming the total it has authorised
    Retried         \* jobs with a fallback provider on the same payout

ASSUME AmountAssumption ==
    Need \in Nat /\ Cap \in Nat /\ 0 < Need /\ Need <= Cap /\ Cums \subseteq Nat
ASSUME EnvironmentAssumption ==
    Metered \subseteq Jobs /\ Refused \subseteq Jobs /\ Retried \subseteq Jobs

VARIABLES
    latest,     \* the cached ticket's cumulative, 0 without one
    file,       \* what pot-pending.json restores: a cumulative, or Torn
    job,        \* each job's call into the ledger
    spends,     \* the spends table: one row for each job
    given,      \* the tickets nodes hold
    earned,     \* what the chain shows as earned on the channel
    lowered     \* history: a ticket was replaced or restored by a lower one

vars == <<latest, file, job, spends, given, earned, lowered>>

Torn == -1

Phases == {"idle",      \* not issued, or waiting for a fallback's attempt
           "issuing",   \* channel read; awaiting the gate in issue_ticket
           "bonding",   \* gate held; writing the file in issue_ticket
           "open",      \* bond sent; an entry in `jobs`, not paid
           "paying",    \* gate held; awaiting the chain in pay_invoice
           "billing",   \* gate held; writing the file in pay_invoice
           "settling",  \* gate held; awaiting the chain in settle_job
           "charging",  \* gate held; writing the file in settle_job
           "adopting",  \* total compared; awaiting the gate in adopt_authorised
           "adopted",   \* gate held; writing the file in adopt_authorised
           "refused",   \* the refusal is dealt with
           "paid",      \* an entry in `jobs`, paid
           "over"}

Reading == {"paying", "settling"}
Writing == {"bonding", "billing", "charging", "adopted"}
Holding == Reading \cup Writing

Call == [at   : Phases,
         base : Nat,        \* the authorised total the call reads
         want : Nat,        \* the amount to bill, or the total to adopt
         bond : Nat,        \* bond_cumulative
         clears : Nat]      \* history: the total adopted for this job

NewCall == [at |-> "idle", base |-> 0, want |-> 0, bond |-> 0, clears |-> 0]

Row == [kind : {"none", "bill", "abandoned"}, cost : Nat, cum : Nat, bond : Nat]

NoRow == [kind |-> "none", cost |-> 0, cum |-> 0, bond |-> 0]

Ticket == [job : Jobs, kind : {"bond", "bill"}, cum : Nat]

Higher(a, b) == IF a >= b THEN a ELSE b

GateFree == \A j \in Jobs : job[j].at \notin Holding

Init ==
    /\ latest = 0 /\ file = 0 /\ earned = 0
    /\ job = [j \in Jobs |-> NewCall]
    /\ spends = [j \in Jobs |-> NoRow]
    /\ given = {} /\ lowered = FALSE

At(j, phase) == job' = [job EXCEPT ![j].at = phase]

\* The cached ticket becomes one of total cum.
Caches(cum) == latest' = cum /\ lowered' = (lowered \/ cum < latest)

Cache == <<latest, lowered>>
Chain == <<given, earned>>

-----------------------------------------------------------------------------
(* issue_ticket *)

\* One read of the channel, before the gate.
Issue(j) ==
    /\ job[j].at = "idle"
    /\ job' = [job EXCEPT ![j].at = "issuing", ![j].base = earned]
    /\ UNCHANGED <<Cache, file, spends, Chain>>

\* The read failed, or the pot does not cover the job: the job fails.
IssueFails(j) ==
    /\ job[j].at = "issuing"
    /\ At(j, "over")
    /\ UNCHANGED <<Cache, file, spends, Chain>>

BondFromChain(j) ==                                             \* mutant
    LET cum == job[j].base + Need IN
    /\ job[j].at = "issuing" /\ GateFree
    /\ cum \in Cums
    /\ job' = [job EXCEPT ![j].at = "bonding", ![j].bond = cum]
    /\ file' = Torn
    /\ UNCHANGED <<Cache, spends, Chain>>

\* The bond is signed on top of the cache; the cache itself does not move.
Bond(j) ==
    LET cum == Higher(latest, job[j].base) + Need IN
    /\ job[j].at = "issuing" /\ GateFree
    /\ cum \in Cums
    /\ job' = [job EXCEPT ![j].at = "bonding", ![j].bond = cum]
    /\ file' = Torn
    /\ UNCHANGED <<Cache, spends, Chain>>

Bonded(j) ==
    /\ job[j].at = "bonding"
    /\ At(j, "open")
    /\ file' = latest
    /\ given' = given \cup {[job |-> j, kind |-> "bond", cum |-> job[j].bond]}
    /\ UNCHANGED <<Cache, spends, earned>>

-----------------------------------------------------------------------------
(* pay_invoice *)

PayUngated(j) ==                                                \* mutant
    /\ job[j].at = "open"
    /\ \E amount \in 1..Need :
         job' = [job EXCEPT ![j].at = "paying",
                            ![j].base = Higher(latest, earned),
                            ![j].want = amount]
    /\ UNCHANGED <<Cache, file, spends, Chain>>

\* The invoice passes its checks and the call takes the gate and reads the
\* cache and the chain.
Pay(j) ==
    /\ job[j].at = "open" /\ GateFree
    /\ \E amount \in 1..Need :
         job' = [job EXCEPT ![j].at = "paying",
                            ![j].base = Higher(latest, earned),
                            ![j].want = amount]
    /\ UNCHANGED <<Cache, file, spends, Chain>>

PayFails(j) ==
    /\ job[j].at = "paying"
    /\ At(j, "open")
    /\ UNCHANGED <<Cache, file, spends, Chain>>

SignedTotal(j) == job[j].base + job[j].want

\* The total is signed, becomes the cache, and starts to be written.
Sign(j, phase) ==
    /\ SignedTotal(j) \in Cums
    /\ Caches(SignedTotal(j))
    /\ file' = Torn
    /\ At(j, phase)
    /\ UNCHANGED <<spends, Chain>>

SignBill(j) == job[j].at = "paying" /\ Sign(j, "billing")

RecordedRise(j) ==                                              \* mutant
    spends' = [spends EXCEPT ![j] = [kind |-> "bill", cost |-> latest - earned,
                                     cum |-> latest, bond |-> 0]]

\* record_spend: INSERT OR REPLACE, so the row of an earlier attempt goes.
Recorded(j) ==
    spends' = [spends EXCEPT ![j] = [kind |-> "bill", cost |-> job[j].want,
                                     cum |-> latest, bond |-> 0]]

BillSavedStale(j) ==                                            \* mutant
    /\ job[j].at = "billing"
    /\ At(j, "paid")
    /\ file' = job[j].base
    /\ Recorded(j)
    /\ given' = given \cup {[job |-> j, kind |-> "bill", cum |-> latest]}
    /\ UNCHANGED <<Cache, earned>>

BillSaved(j) ==
    /\ job[j].at = "billing"
    /\ At(j, "paid")
    /\ file' = latest
    /\ Recorded(j)
    /\ given' = given \cup {[job |-> j, kind |-> "bill", cum |-> latest]}
    /\ UNCHANGED <<Cache, earned>>

-----------------------------------------------------------------------------
(* settle_job: the bill of a provider that did not invoice *)

SettleJob(j) ==
    /\ job[j].at = "open" /\ j \in Metered /\ GateFree
    /\ \E amount \in 1..Cap :
         job' = [job EXCEPT ![j].at = "settling",
                            ![j].base = Higher(latest, earned),
                            ![j].want = amount]
    /\ UNCHANGED <<Cache, file, spends, Chain>>

\* No billable usage was reported.
SettleNothing(j) ==
    /\ job[j].at = "open" /\ j \in Metered
    /\ At(j, "over")
    /\ spends' = [spends EXCEPT ![j] = [NoRow EXCEPT !.kind = "bill"]]
    /\ UNCHANGED <<Cache, file, Chain>>

SettleFails(j) ==
    /\ job[j].at = "settling"
    /\ At(j, "over")
    /\ UNCHANGED <<Cache, file, spends, Chain>>

SignCharge(j) == job[j].at = "settling" /\ Sign(j, "charging")

\* The ticket is kept; no node is sent it.
ChargeSaved(j) ==
    /\ job[j].at = "charging"
    /\ At(j, "over")
    /\ file' = latest
    /\ Recorded(j)
    /\ UNCHANGED <<Cache, Chain>>

-----------------------------------------------------------------------------
(* abandon_job and adopt_authorised *)

\* The reply ended without a bill.  A fallback is tried under the same id.
Abandon(j) ==
    /\ job[j].at \in {"open", "refused"}
    /\ At(j, IF j \in Retried THEN "idle" ELSE "over")
    /\ spends' = [spends EXCEPT ![j] = [kind |-> "abandoned", cost |-> 0,
                                        cum |-> 0, bond |-> job[j].bond]]
    /\ UNCHANGED <<Cache, file, Chain>>

\* The tickets of other calls that a node may have banked when it refuses
\* this bond for raising its ledger by too little.
Ahead(j) ==
    {t \in given : /\ t.job # j \/ t.cum # job[j].bond
                   /\ t.cum + Need > job[j].bond}

\* The node names its total, and it is above the cache.
Adopt(j) ==
    /\ job[j].at = "open" /\ j \in Refused
    /\ \E t \in Ahead(j) :
         /\ t.cum > latest
         /\ job' = [job EXCEPT ![j].at = "adopting", ![j].want = t.cum]
    /\ UNCHANGED <<Cache, file, spends, Chain>>

\* The gate is taken; the total replaces whatever the cache holds by now.
AdoptSign(j) ==
    /\ job[j].at = "adopting" /\ GateFree
    /\ Caches(job[j].want)
    /\ file' = Torn
    /\ job' = [job EXCEPT ![j].at = "adopted", ![j].clears = job[j].want]
    /\ UNCHANGED <<spends, Chain>>

Adopted(j) ==
    /\ job[j].at = "adopted"
    /\ At(j, "refused")
    /\ file' = latest
    /\ UNCHANGED <<Cache, spends, Chain>>

-----------------------------------------------------------------------------
(* The process and the chain *)

\* restore reads the file back and ignores one it cannot parse; the jobs map
\* is gone and the store fails the jobs that were open.
Restart ==
    /\ Caches(IF file = Torn THEN 0 ELSE file)
    /\ job' = [j \in Jobs |->
                 IF job[j].at = "idle" /\ spends[j] = NoRow
                 THEN job[j] ELSE [NewCall EXCEPT !.at = "over"]]
    /\ UNCHANGED <<file, spends, Chain>>

\* A node posts a ticket it holds.  The contract takes one that is higher.
SettleTicket ==
    /\ \E t \in given : t.cum > earned /\ earned' = t.cum
    /\ UNCHANGED <<Cache, file, job, spends, given>>

JobStep(j) ==
    \/ Issue(j) \/ IssueFails(j) \/ Bond(j) \/ Bonded(j)
    \/ Pay(j) \/ PayFails(j) \/ SignBill(j) \/ BillSaved(j)
    \/ SettleJob(j) \/ SettleNothing(j) \/ SettleFails(j) \/ SignCharge(j) \/ ChargeSaved(j)
    \/ Abandon(j) \/ Adopt(j) \/ AdoptSign(j) \/ Adopted(j)

Next == (\E j \in Jobs : JobStep(j)) \/ Restart \/ SettleTicket

Spec == Init /\ [][Next]_vars

-----------------------------------------------------------------------------
(* Type correctness: latest and the chain's total are numbers, the file is *)
(* one or unreadable, and calls, rows and tickets keep their shape         *)
(* (pot.rs LatestTicket, PendingJob; store.rs spends).                     *)
TypeOK ==
    /\ latest \in Nat /\ earned \in Nat
    /\ file \in Nat \cup {Torn}
    /\ job \in [Jobs -> Call]
    /\ spends \in [Jobs -> Row]
    /\ given \subseteq Ticket
    /\ lowered \in BOOLEAN

Charged(j) == spends[j].kind = "bill" /\ spends[j].cost > 0

(* Until the cache has been lowered, two jobs are never billed the same    *)
(* micros: the interval of the channel a bill covers, up to its            *)
(* cumulative, is disjoint from every other bill's.  spend_history tells   *)
(* which settle collected a reply by its cumulative alone (store.rs), and  *)
(* the gate is what keeps two calls from signing on the same total.        *)
DistinctBills ==
    \A i, j \in Jobs : i # j /\ Charged(i) /\ Charged(j) =>
        \/ lowered
        \/ spends[i].cum <= spends[j].cum - spends[j].cost
        \/ spends[j].cum <= spends[i].cum - spends[i].cost

(* Nothing lowers the cache but the adoption of a total and a restart that *)
(* finds the file half-written: no order of bonds, bills, settles on the   *)
(* chain and restarts does.  cached_cumulative is "the highest cumulative  *)
(* this app has signed" (pot.rs); a lower one is a ticket nodes refuse.    *)
LoweredOnlyBy ==
    [][latest' < latest =>
        (\E j \in Jobs : AdoptSign(j)) \/ (Restart /\ file = Torn)]_vars

(* A total adopted from a refusal is one the job's next bond clears: "a    *)
(* number our next ticket must clear, whichever node it goes to" (pot.rs,  *)
(* adopt_authorised), or the node goes on refusing.                        *)
NextTicketClears == \A j \in Jobs : job[j].at = "bonding" => job[j].bond > job[j].clears
=============================================================================
