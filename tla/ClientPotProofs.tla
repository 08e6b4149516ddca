-------------------------- MODULE ClientPotProofs --------------------------
(***************************************************************************)
(* The safety of the app's pot ledger, for any jobs, amounts and totals,   *)
(* with refusals adopted and crashes anywhere.                             *)
(*                                                                         *)
(* A bill is disjoint from the others because the total it was signed on   *)
(* was at least every earlier bill's when it was read, and nobody else     *)
(* signs before it is saved: the holder of the gate carries the proof.     *)
(***************************************************************************)
EXTENDS ClientPot, TLAPS

\* The gate is held by one call.
OneHolder ==
    \A i, j \in Jobs : job[i].at \in Holding /\ job[j].at \in Holding => i = j

\* The file restores the cache or nothing.
FileFollows == file \in {latest, Torn}

\* The total a holder has read is not below the cache.
ReadsCache == \A j \in Jobs : job[j].at \in Reading => job[j].base >= latest

\* A call that is saving its bill signed it above every bill of the table.
SignsAbove ==
    \A j \in Jobs : job[j].at \in {"billing", "charging"} =>
        /\ latest = job[j].base + job[j].want
        /\ \A i \in Jobs : Charged(i) /\ ~lowered => spends[i].cum <= job[j].base

\* The cache covers every bill of the table.
CacheCovers == \A j \in Jobs : Charged(j) /\ ~lowered => spends[j].cum <= latest

Ledger == OneHolder /\ FileFollows /\ ReadsCache /\ SignsAbove
          /\ CacheCovers /\ DistinctBills

IInv == TypeOK /\ Ledger


-----------------------------------------------------------------------------
(* The types of the parts, and of each step. *)

LEMMA CachesType ==
    ASSUME TypeOK, NEW cum \in Nat, Caches(cum)
    PROVE  latest' \in Nat /\ lowered' \in BOOLEAN
BY DEF Caches, TypeOK

LEMMA TypeInit == Init => TypeOK
<1> SUFFICES ASSUME Init PROVE TypeOK
  OBVIOUS
<1>1. NewCall \in Call /\ NoRow \in Row
  BY DEF Call, NewCall, Row, NoRow, Phases
<1>2. lowered \in BOOLEAN
  BY DEF Init
<1> QED BY <1>1, <1>2 DEF Init, TypeOK

LEMMA HigherType ==
    ASSUME NEW a \in Nat, NEW b \in Nat
    PROVE  Higher(a, b) \in Nat /\ Higher(a, b) >= a /\ Higher(a, b) >= b
BY DEF Higher

\* The steps of one job keep the types.
LEMMA TypeJobStep ==
    ASSUME TypeOK, NEW j \in Jobs, JobStep(j)
    PROVE  TypeOK'
<1> USE DEF Cache, Chain, At
<1>t. job[j] \in Call /\ spends[j] \in Row /\ latest \in Nat /\ earned \in Nat
  BY DEF TypeOK
<1>1. CASE Issue(j)
  BY <1>1, <1>t DEF Issue, TypeOK, Call, Phases
<1>2. CASE IssueFails(j)
  BY <1>2, <1>t DEF IssueFails, TypeOK, Call, Phases
<1>3. CASE Bond(j)
  <2>1. job[j].base \in Nat /\ Need \in Nat
    BY <1>t, AmountAssumption DEF Call
  <2>2. Higher(latest, job[j].base) \in Nat
    BY <1>t, <2>1, HigherType
  <2>3. Higher(latest, job[j].base) + Need \in Nat
    BY <2>1, <2>2
  <2> QED BY <1>3, <1>t, <2>3 DEF Bond, TypeOK, Call, Phases
<1>4. CASE Bonded(j)
  <2>1. [job |-> j, kind |-> "bond", cum |-> job[j].bond] \in Ticket
    BY <1>t DEF Ticket, Call
  <2> QED BY <1>4, <1>t, <2>1 DEF Bonded, TypeOK, Call, Phases
<1>5. CASE Pay(j)
  <2>1. Higher(latest, earned) \in Nat
    BY <1>t, HigherType
  <2>2. PICK amount \in 1..Need :
          job' = [job EXCEPT ![j].at = "paying",
                             ![j].base = Higher(latest, earned),
                             ![j].want = amount]
    BY <1>5 DEF Pay
  <2>3. amount \in Nat
    BY AmountAssumption
  <2>4. job' \in [Jobs -> Call]
    BY <1>t, <2>1, <2>2, <2>3 DEF TypeOK, Call, Phases
  <2> QED BY <1>5, <2>4 DEF Pay, TypeOK
<1>6. CASE PayFails(j)
  BY <1>6, <1>t DEF PayFails, TypeOK, Call, Phases
<1>7. CASE SignBill(j)
  <2>1. SignedTotal(j) \in Nat
    BY <1>7, AmountAssumption DEF SignBill, Sign
  <2>2. latest' \in Nat /\ lowered' \in BOOLEAN
    BY <1>7, <2>1, CachesType DEF SignBill, Sign
  <2> QED BY <1>7, <1>t, <2>2 DEF SignBill, Sign, TypeOK, Call, Phases
<1>8. CASE BillSaved(j)
  <2>1. [job |-> j, kind |-> "bill", cum |-> latest] \in Ticket
    BY <1>t DEF Ticket
  <2>2. [kind |-> "bill", cost |-> job[j].want, cum |-> latest, bond |-> 0] \in Row
    BY <1>t DEF Row, Call
  <2> QED BY <1>8, <1>t, <2>1, <2>2 DEF BillSaved, Recorded, TypeOK, Call, Phases
<1>9. CASE SettleJob(j)
  <2>1. Higher(latest, earned) \in Nat
    BY <1>t, HigherType
  <2>2. PICK amount \in 1..Cap :
          job' = [job EXCEPT ![j].at = "settling",
                             ![j].base = Higher(latest, earned),
                             ![j].want = amount]
    BY <1>9 DEF SettleJob
  <2>3. amount \in Nat
    BY AmountAssumption
  <2>4. job' \in [Jobs -> Call]
    BY <1>t, <2>1, <2>2, <2>3 DEF TypeOK, Call, Phases
  <2> QED BY <1>9, <2>4 DEF SettleJob, TypeOK
<1>10. CASE SettleNothing(j)
  <2>1. [NoRow EXCEPT !.kind = "bill"] \in Row
    BY DEF Row, NoRow
  <2> QED BY <1>10, <1>t, <2>1 DEF SettleNothing, TypeOK, Call, Phases
<1>11. CASE SettleFails(j)
  BY <1>11, <1>t DEF SettleFails, TypeOK, Call, Phases
<1>12. CASE SignCharge(j)
  <2>1. SignedTotal(j) \in Nat
    BY <1>12, AmountAssumption DEF SignCharge, Sign
  <2>2. latest' \in Nat /\ lowered' \in BOOLEAN
    BY <1>12, <2>1, CachesType DEF SignCharge, Sign
  <2> QED BY <1>12, <1>t, <2>2 DEF SignCharge, Sign, TypeOK, Call, Phases
<1>13. CASE ChargeSaved(j)
  <2>1. [kind |-> "bill", cost |-> job[j].want, cum |-> latest, bond |-> 0] \in Row
    BY <1>t DEF Row, Call
  <2> QED BY <1>13, <1>t, <2>1 DEF ChargeSaved, Recorded, TypeOK, Call, Phases
<1>14. CASE Abandon(j)
  <2>1. [kind |-> "abandoned", cost |-> 0, cum |-> 0, bond |-> job[j].bond] \in Row
    BY <1>t DEF Row, Call
  <2>2. (IF j \in Retried THEN "idle" ELSE "over") \in Phases
    BY DEF Phases
  <2> QED BY <1>14, <1>t, <2>1, <2>2 DEF Abandon, TypeOK, Call
<1>15. CASE Adopt(j)
  <2>1. PICK t \in Ahead(j) :
          job' = [job EXCEPT ![j].at = "adopting", ![j].want = t.cum]
    BY <1>15 DEF Adopt
  <2>2. t.cum \in Nat
    BY <1>t DEF Ahead, TypeOK, Ticket
  <2>3. job' \in [Jobs -> Call]
    BY <1>t, <2>1, <2>2 DEF TypeOK, Call, Phases
  <2> QED BY <1>15, <2>3 DEF Adopt, TypeOK
<1>16. CASE AdoptSign(j)
  <2>1. job[j].want \in Nat
    BY <1>t DEF Call
  <2>2. latest' \in Nat /\ lowered' \in BOOLEAN
    BY <1>16, <2>1, CachesType DEF AdoptSign
  <2> QED BY <1>16, <1>t, <2>1, <2>2 DEF AdoptSign, TypeOK, Call, Phases
<1>17. CASE Adopted(j)
  BY <1>17, <1>t DEF Adopted, TypeOK, Call, Phases
<1> QED
  BY <1>1, <1>2, <1>3, <1>4, <1>5, <1>6, <1>7, <1>8, <1>9, <1>10, <1>11, <1>12,
     <1>13, <1>14, <1>15, <1>16, <1>17 DEF JobStep

LEMMA TypeNext ==
    ASSUME TypeOK, [Next]_vars
    PROVE  TypeOK'
<1> USE DEF Cache, Chain
<1>1. CASE \E j \in Jobs : JobStep(j)
  BY <1>1, TypeJobStep
<1>2. CASE Restart
  <2>1. [NewCall EXCEPT !.at = "over"] \in Call
    BY DEF NewCall, Call, Phases
  <2>2. (IF file = Torn THEN 0 ELSE file) \in Nat
    BY DEF TypeOK
  <2>3. latest' \in Nat /\ lowered' \in BOOLEAN
    BY <1>2, <2>2, CachesType DEF Restart
  <2> QED BY <1>2, <2>1, <2>3 DEF Restart, TypeOK
<1>3. CASE SettleTicket
  BY <1>3 DEF SettleTicket, TypeOK, Ticket
<1>4. CASE UNCHANGED vars
  BY <1>4 DEF vars, TypeOK
<1> QED
  BY <1>1, <1>2, <1>3, <1>4 DEF Next

-----------------------------------------------------------------------------
(* The ledger's invariant, by what a step does to the gate. *)

\* Only j's call moves.
Others(j) == \A k \in Jobs : k # j => job'[k] = job[k]

\* No bill is added or changed.
KeepsBills == \A k \in Jobs : Charged(k)' => Charged(k) /\ spends'[k] = spends[k]

\* A step that signs nothing and leaves j outside the gate.
LEMMA OutsideStep ==
    ASSUME Ledger, NEW j \in Jobs, Others(j), KeepsBills,
           job[j].at \notin Writing, job'[j].at \notin Holding,
           UNCHANGED <<latest, lowered, file>>
    PROVE  Ledger'
<1> USE DEF Ledger, Others, KeepsBills, Holding, Reading, Writing
<1>2. OneHolder'
  BY DEF OneHolder
<1>3. FileFollows'
  BY DEF FileFollows
<1>4. ReadsCache'
  BY DEF ReadsCache
<1>5. SignsAbove'
  BY DEF SignsAbove
<1>6. CacheCovers'
  BY DEF CacheCovers
<1>7. DistinctBills'
  BY DEF DistinctBills
<1> QED BY <1>2, <1>3, <1>4, <1>5, <1>6, <1>7

\* A step that takes the gate to read.
LEMMA ReadStep ==
    ASSUME Ledger, NEW j \in Jobs, Others(j), GateFree,
           job'[j].at \in Reading, job'[j].base >= latest,
           UNCHANGED <<latest, lowered, file, spends>>
    PROVE  Ledger'
<1> USE DEF Ledger, Others, GateFree, Holding, Reading, Writing
<1>2. OneHolder'
  BY DEF OneHolder
<1>3. FileFollows'
  BY DEF FileFollows
<1>4. ReadsCache'
  BY DEF ReadsCache
<1>5. SignsAbove'
  BY DEF SignsAbove, Charged
<1>6. CacheCovers'
  BY DEF CacheCovers, Charged
<1>7. DistinctBills'
  BY DEF DistinctBills, Charged
<1> QED BY <1>2, <1>3, <1>4, <1>5, <1>6, <1>7

\* A step that takes the gate to write what is cached already.
LEMMA BondStep ==
    ASSUME Ledger, NEW j \in Jobs, Others(j), GateFree,
           job'[j].at = "bonding", file' = Torn,
           UNCHANGED <<latest, lowered, spends>>
    PROVE  Ledger'
<1> USE DEF Ledger, Others, GateFree, Holding, Reading, Writing
<1>2. OneHolder'
  BY DEF OneHolder
<1>3. FileFollows'
  BY DEF FileFollows
<1>4. ReadsCache'
  BY DEF ReadsCache
<1>5. SignsAbove'
  BY DEF SignsAbove, Charged
<1>6. CacheCovers'
  BY DEF CacheCovers, Charged
<1>7. DistinctBills'
  BY DEF DistinctBills, Charged
<1> QED BY <1>2, <1>3, <1>4, <1>5, <1>6, <1>7

\* A holder signs a bill on the total it read.
LEMMA SignStep ==
    ASSUME TypeOK, TypeOK', Ledger, NEW j \in Jobs, Others(j),
           job[j].at \in Reading, job'[j].at \in {"billing", "charging"},
           job'[j].base = job[j].base, job'[j].want = job[j].want,
           Caches(job[j].base + job[j].want), file' = Torn,
           UNCHANGED spends
    PROVE  Ledger' /\ latest' >= latest
<1>t. /\ latest \in Nat /\ job[j].base \in Nat /\ job[j].want \in Nat
      /\ \A i \in Jobs : spends[i].cum \in Nat
  BY DEF TypeOK, Call, Row
<1>b. job[j].base >= latest
  BY DEF Ledger, ReadsCache
<1>a. \A i \in Jobs : Charged(i) /\ ~lowered => spends[i].cum <= job[j].base
  BY <1>t, <1>b DEF Ledger, CacheCovers
<1>o. \A k \in Jobs : k # j => job[k].at \notin Holding
  BY DEF Ledger, OneHolder, Holding
<1>8. latest' >= latest /\ latest' = job[j].base + job[j].want /\ lowered' = lowered
  <2>1. /\ latest' = job[j].base + job[j].want
        /\ lowered' = (lowered \/ job[j].base + job[j].want < latest)
    BY DEF Caches
  <2>2. job[j].base + job[j].want >= latest /\ ~(job[j].base + job[j].want < latest)
    BY <1>t, <1>b
  <2>3. lowered \in BOOLEAN
    BY DEF TypeOK
  <2> QED BY <2>1, <2>2, <2>3
<1> USE DEF Ledger, Others, Holding, Reading, Writing
<1>2. OneHolder'
  BY <1>o DEF OneHolder
<1>3. FileFollows'
  BY DEF FileFollows
<1>4. ReadsCache'
  BY <1>o DEF ReadsCache
<1>5. SignsAbove'
  BY <1>o, <1>a, <1>8 DEF SignsAbove, Charged
<1>6. CacheCovers'
  BY <1>t, <1>a, <1>8 DEF CacheCovers, Charged
<1>7. DistinctBills'
  BY <1>8 DEF DistinctBills, Charged
<1> QED BY <1>2, <1>3, <1>4, <1>5, <1>6, <1>7, <1>8

\* A holder's bill is saved and recorded.
LEMMA SaveStep ==
    ASSUME TypeOK, Ledger, NEW j \in Jobs, Others(j), Recorded(j),
           job[j].at \in {"billing", "charging"},
           job'[j].at \notin Holding,
           file' = latest, UNCHANGED <<latest, lowered>>
    PROVE  Ledger'
<1>t. /\ latest \in Nat /\ job[j].base \in Nat /\ job[j].want \in Nat
      /\ spends \in [Jobs -> Row]
  BY DEF TypeOK, Call
<1>a. /\ latest = job[j].base + job[j].want
      /\ \A i \in Jobs : Charged(i) /\ ~lowered => spends[i].cum <= job[j].base
  BY DEF Ledger, SignsAbove
<1>o. \A k \in Jobs : k # j => job[k].at \notin Holding
  BY DEF Ledger, OneHolder, Holding, Writing
<1>r. /\ spends'[j].cum = latest /\ spends'[j].cost = job[j].want
      /\ \A k \in Jobs : k # j => spends'[k] = spends[k]
  BY <1>t DEF Recorded
<1>l. spends'[j].cum - spends'[j].cost = job[j].base
  BY <1>t, <1>a, <1>r
<1> USE DEF Ledger, Others, Holding, Reading, Writing
<1>2. OneHolder'
  BY <1>o DEF OneHolder
<1>3. FileFollows'
  BY <1>o DEF FileFollows
<1>4. ReadsCache'
  BY <1>o DEF ReadsCache
<1>5. SignsAbove'
  BY <1>o DEF SignsAbove
<1>6. CacheCovers'
  BY <1>t, <1>r DEF CacheCovers, Charged
<1>7. DistinctBills'
  <2> SUFFICES ASSUME NEW i \in Jobs, NEW k \in Jobs, i # k,
                      Charged(i)', Charged(k)', ~lowered'
               PROVE  \/ spends'[i].cum <= spends'[k].cum - spends'[k].cost
                      \/ spends'[k].cum <= spends'[i].cum - spends'[i].cost
    BY DEF DistinctBills
  <2>1. CASE i = j
    BY <2>1, <1>a, <1>r, <1>l DEF Charged
  <2>2. CASE k = j
    BY <2>2, <1>a, <1>r, <1>l DEF Charged
  <2>3. CASE i # j /\ k # j
    BY <2>3, <1>r DEF DistinctBills, Charged
  <2> QED BY <2>1, <2>2, <2>3
<1> QED BY <1>2, <1>3, <1>4, <1>5, <1>6, <1>7

\* A holder that bills nothing has saved the file.
LEMMA BondedStep ==
    ASSUME Ledger, NEW j \in Jobs, Others(j),
           job[j].at \in {"bonding", "adopted"}, job'[j].at \notin Holding,
           file' = latest, UNCHANGED <<latest, lowered, spends>>
    PROVE  Ledger'
<1>o. \A k \in Jobs : k # j => job[k].at \notin Holding
  BY DEF Ledger, OneHolder, Holding, Writing
<1> USE DEF Ledger, Others, Holding, Reading, Writing
<1>2. OneHolder'
  BY <1>o DEF OneHolder
<1>3. FileFollows'
  BY <1>o DEF FileFollows
<1>4. ReadsCache'
  BY <1>o DEF ReadsCache
<1>5. SignsAbove'
  BY <1>o DEF SignsAbove
<1>6. CacheCovers'
  BY DEF CacheCovers, Charged
<1>7. DistinctBills'
  BY DEF DistinctBills, Charged
<1> QED BY <1>2, <1>3, <1>4, <1>5, <1>6, <1>7

\* A step that takes the gate to store a total that may be lower.
LEMMA AdoptStep ==
    ASSUME TypeOK, Ledger, NEW j \in Jobs, Others(j), GateFree,
           job'[j].at = "adopted", job[j].want \in Nat,
           Caches(job[j].want), file' = Torn, UNCHANGED spends
    PROVE  Ledger'
<1>t. /\ latest \in Nat /\ lowered \in BOOLEAN
      /\ \A i \in Jobs : spends[i].cum \in Nat
  BY DEF TypeOK, Row
<1>c. latest' = job[j].want /\ (~lowered' => ~lowered /\ latest' >= latest)
  <2>1. latest' = job[j].want /\ lowered' = (lowered \/ job[j].want < latest)
    BY DEF Caches
  <2>2. job[j].want < latest \/ job[j].want >= latest
    BY <1>t
  <2> QED BY <2>1, <2>2
<1> USE DEF Ledger, Others, GateFree, Holding, Reading, Writing
<1>2. OneHolder'
  BY DEF OneHolder
<1>3. FileFollows'
  BY DEF FileFollows
<1>4. ReadsCache'
  BY DEF ReadsCache
<1>5. SignsAbove'
  BY DEF SignsAbove
<1>6. CacheCovers'
  BY <1>t, <1>c DEF CacheCovers, Charged
<1>7. DistinctBills'
  BY <1>c DEF DistinctBills, Charged
<1> QED BY <1>2, <1>3, <1>4, <1>5, <1>6, <1>7

\* A step that leaves the calls, the cache and the bills alone.
LEMMA AsideStep ==
    ASSUME Ledger, KeepsBills, UNCHANGED <<latest, lowered, file, job>>
    PROVE  Ledger'
<1> USE DEF Ledger, KeepsBills
<1>1. OneHolder' /\ FileFollows' /\ ReadsCache'
  BY DEF OneHolder, FileFollows, ReadsCache
<1>2. SignsAbove'
  BY DEF SignsAbove
<1>3. CacheCovers'
  BY DEF CacheCovers
<1>4. DistinctBills'
  BY DEF DistinctBills
<1> QED BY <1>1, <1>2, <1>3, <1>4

-----------------------------------------------------------------------------
(* The steps of the module. *)

LEMMA LedgerInit == Init => Ledger
BY DEF Init, Ledger, OneHolder, FileFollows, ReadsCache, SignsAbove,
       CacheCovers, DistinctBills, Charged, NewCall, NoRow, Holding, Reading, Writing

LEMMA LedgerJobStep ==
    ASSUME TypeOK, TypeOK', Ledger, NEW j \in Jobs, JobStep(j)
    PROVE  Ledger' /\ (latest' < latest => AdoptSign(j))
<1> USE DEF Cache, Chain, At, Others, Holding, Reading, Writing
<1>t. /\ job \in [Jobs -> Call] /\ job[j] \in Call /\ spends \in [Jobs -> Row]
      /\ latest \in Nat /\ earned \in Nat
  BY DEF TypeOK
<1>k. ASSUME UNCHANGED spends PROVE KeepsBills
  BY <1>k DEF KeepsBills, Charged
<1>1. CASE Issue(j)
  BY <1>1, <1>t, <1>k, OutsideStep DEF Issue, Call
<1>2. CASE IssueFails(j)
  BY <1>2, <1>t, <1>k, OutsideStep DEF IssueFails, Call
<1>3. CASE Bond(j)
  BY <1>3, <1>t, BondStep DEF Bond, Call
<1>4. CASE Bonded(j)
  BY <1>4, <1>t, BondedStep DEF Bonded, Call
<1>5. CASE Pay(j)
  <2>1. Higher(latest, earned) >= latest
    BY <1>t, HigherType
  <2> QED BY <1>5, <1>t, <2>1, ReadStep DEF Pay, Call
<1>6. CASE PayFails(j)
  BY <1>6, <1>t, <1>k, OutsideStep DEF PayFails, Call
<1>7. CASE SignBill(j)
  <2>1. /\ job[j].at \in Reading /\ job'[j].at = "billing"
        /\ job'[j].base = job[j].base /\ job'[j].want = job[j].want
        /\ Others(j) /\ file' = Torn /\ spends' = spends
    BY <1>7, <1>t DEF SignBill, Sign, Call
  <2>2. Caches(job[j].base + job[j].want)
    BY <1>7 DEF SignBill, Sign, SignedTotal
  <2>3. Ledger' /\ latest' >= latest
    BY <2>1, <2>2, SignStep
  <2>4. latest' \in Nat
    BY DEF TypeOK
  <2> QED BY <1>t, <2>3, <2>4
<1>8. CASE BillSaved(j)
  BY <1>8, <1>t, SaveStep DEF BillSaved, Call
<1>9. CASE SettleJob(j)
  <2>1. Higher(latest, earned) >= latest
    BY <1>t, HigherType
  <2> QED BY <1>9, <1>t, <2>1, ReadStep DEF SettleJob, Call
<1>10. CASE SettleNothing(j)
  <2>1. KeepsBills
    BY <1>10, <1>t DEF SettleNothing, KeepsBills, Charged, NoRow
  <2> QED BY <1>10, <1>t, <2>1, OutsideStep DEF SettleNothing, Call
<1>11. CASE SettleFails(j)
  BY <1>11, <1>t, <1>k, OutsideStep DEF SettleFails, Call
<1>12. CASE SignCharge(j)
  <2>1. /\ job[j].at \in Reading /\ job'[j].at = "charging"
        /\ job'[j].base = job[j].base /\ job'[j].want = job[j].want
        /\ Others(j) /\ file' = Torn /\ spends' = spends
    BY <1>12, <1>t DEF SignCharge, Sign, Call
  <2>2. Caches(job[j].base + job[j].want)
    BY <1>12 DEF SignCharge, Sign, SignedTotal
  <2>3. Ledger' /\ latest' >= latest
    BY <2>1, <2>2, SignStep
  <2>4. latest' \in Nat
    BY DEF TypeOK
  <2> QED BY <1>t, <2>3, <2>4
<1>13. CASE ChargeSaved(j)
  BY <1>13, <1>t, SaveStep DEF ChargeSaved, Call
<1>14. CASE Abandon(j)
  <2>1. KeepsBills
    BY <1>14, <1>t DEF Abandon, KeepsBills, Charged
  <2> QED BY <1>14, <1>t, <2>1, OutsideStep DEF Abandon, Call
<1>15. CASE Adopt(j)
  <2>1. PICK t \in Ahead(j) :
          job' = [job EXCEPT ![j].at = "adopting", ![j].want = t.cum]
    BY <1>15 DEF Adopt
  <2> QED BY <1>15, <1>t, <1>k, <2>1, OutsideStep DEF Adopt, Call
<1>16. CASE AdoptSign(j)
  BY <1>16, <1>t, AdoptStep DEF AdoptSign, Call
<1>17. CASE Adopted(j)
  BY <1>17, <1>t, BondedStep DEF Adopted, Call
<1> QED
  BY <1>1, <1>2, <1>3, <1>4, <1>5, <1>6, <1>7, <1>8, <1>9, <1>10, <1>11, <1>12,
     <1>13, <1>14, <1>15, <1>16, <1>17 DEF JobStep

\* A restart keeps the cache unless it finds the file torn.
LEMMA LedgerRestart ==
    ASSUME TypeOK, Ledger, Restart
    PROVE  Ledger' /\ (latest' < latest => file = Torn)
<1>t. /\ latest \in Nat /\ lowered \in BOOLEAN
      /\ \A i \in Jobs : spends[i].cum \in Nat
  BY DEF TypeOK, Row
<1>f. /\ file' = file /\ spends' = spends
      /\ (file = Torn /\ latest' = 0) \/ (file # Torn /\ latest' = latest)
      /\ ~lowered' => ~lowered /\ latest' >= latest
  <2> DEFINE cum == IF file = Torn THEN 0 ELSE file
  <2>1. latest' = cum /\ lowered' = (lowered \/ cum < latest)
    BY DEF Restart, Caches
  <2>2. (file = Torn /\ cum = 0) \/ (file # Torn /\ cum = latest)
    BY DEF Ledger, FileFollows
  <2>3. cum < latest \/ cum >= latest
    BY <1>t, <2>2
  <2>4. file' = file /\ spends' = spends
    BY DEF Restart
  <2> HIDE DEF cum
  <2> QED BY <2>1, <2>2, <2>3, <2>4
<1>j. \A k \in Jobs : job'[k].at \in {"idle", "over"}
  BY DEF Restart, NewCall
<1> USE DEF Holding, Reading, Writing
<1>1. OneHolder' /\ ReadsCache' /\ SignsAbove'
  BY <1>j DEF OneHolder, ReadsCache, SignsAbove
<1>2. FileFollows'
  BY <1>f DEF FileFollows, Ledger
<1>3. CacheCovers'
  BY <1>f, <1>t DEF Ledger, CacheCovers, Charged
<1>4. DistinctBills'
  BY <1>f DEF Ledger, DistinctBills, Charged
<1>5. latest' < latest => file = Torn
  BY <1>f, <1>t
<1> QED BY <1>1, <1>2, <1>3, <1>4, <1>5 DEF Ledger

\* What may lower the cache.
Lowering == (\E j \in Jobs : AdoptSign(j)) \/ (Restart /\ file = Torn)

LEMMA LedgerNext ==
    ASSUME TypeOK, TypeOK', Ledger, [Next]_vars
    PROVE  Ledger' /\ (latest' < latest => Lowering)
<1>t. latest \in Nat /\ spends \in [Jobs -> Row]
  BY DEF TypeOK
<1> USE DEF Cache, Chain, Lowering
<1>1. CASE \E j \in Jobs : JobStep(j)
  BY <1>1, LedgerJobStep
<1>2. CASE Restart
  BY <1>2, <1>t, LedgerRestart
<1>3. CASE SettleTicket
  <2>1. KeepsBills
    BY <1>3 DEF SettleTicket, KeepsBills, Charged
  <2> QED BY <1>3, <1>t, <2>1, AsideStep DEF SettleTicket
<1>4. CASE UNCHANGED vars
  <2>1. KeepsBills
    BY <1>4 DEF vars, KeepsBills, Charged
  <2> QED BY <1>4, <1>t, <2>1, AsideStep DEF vars
<1> QED
  BY <1>1, <1>2, <1>3, <1>4 DEF Next

-----------------------------------------------------------------------------
(* The theorems. *)

(* Type correctness (pot.rs, store.rs): the cache, the file, the calls,    *)
(* the rows and the tickets keep their shape.                              *)
THEOREM ClientTypeCorrect == Spec => []TypeOK
<1>1. Init => TypeOK
  BY TypeInit
<1>2. TypeOK /\ [Next]_vars => TypeOK'
  BY TypeNext
<1> QED BY <1>1, <1>2, PTL DEF Spec

(* The inductive invariant of the app's ledger: what the holder of the     *)
(* gate knows, and what the cache covers until it is lowered.              *)
THEOREM ClientInvariance == Spec => []IInv
<1>1. Init => IInv
  BY TypeInit, LedgerInit DEF IInv
<1>2. IInv /\ [Next]_vars => IInv'
  BY TypeNext, LedgerNext DEF IInv
<1> QED BY <1>1, <1>2, PTL DEF Spec

(* No two bills cover the same micros of the channel until the cache has   *)
(* been lowered, whatever the order in which issue_ticket, pay_invoice,    *)
(* settle_job, restarts and the chain interleave.                          *)
THEOREM BillsDistinct == Spec => []DistinctBills
<1>1. IInv => DistinctBills
  BY DEF IInv, Ledger
<1> QED BY <1>1, ClientInvariance, PTL

(* Only adopt_authorised, or a restore that finds a half-written file,     *)
(* lowers the cached cumulative (pot.rs).                                  *)
THEOREM CacheLoweredOnlyBy == Spec => LoweredOnlyBy
<1>1. IInv /\ [Next]_vars => (latest' < latest => Lowering)
  BY TypeNext, LedgerNext DEF IInv
<1>2. IInv /\ [Next]_vars =>
        [latest' < latest =>
          (\E j \in Jobs : AdoptSign(j)) \/ (Restart /\ file = Torn)]_vars
  BY <1>1 DEF Lowering
<1> QED BY <1>2, ClientInvariance, PTL DEF Spec, LoweredOnlyBy

-----------------------------------------------------------------------------
(* One refused job. *)

\* The cache covers what is adopted; a job that adopted has a row before it
\* is issued again; a bond being saved clears it.
JobClears(j) ==
    /\ job[j].clears <= latest
    /\ job[j].clears > 0 => j \in Refused
    /\ job[j].at = "adopting" => j \in Refused
    /\ job[j].clears > 0 /\ spends[j] = NoRow => job[j].at \in {"adopted", "refused"}
    /\ job[j].at = "bonding" => job[j].bond > job[j].clears

ClearsInv == \A j \in Jobs : JobClears(j)

LEMMA ClearsJobStep ==
    ASSUME NEW r, Refused \subseteq {r},
           TypeOK, TypeOK', Ledger, ClearsInv, NEW j \in Jobs, JobStep(j)
    PROVE  ClearsInv'
<1> USE DEF Cache, Chain, At
<1>t. /\ job \in [Jobs -> Call] /\ spends \in [Jobs -> Row]
      /\ latest \in Nat /\ latest' \in Nat
      /\ \A k \in Jobs : job[k].clears \in Nat /\ job[k].bond \in Nat
  BY DEF TypeOK, Call
<1>l. latest' < latest => AdoptSign(j)
  BY LedgerJobStep
\* Who else adopted is not refused, so has adopted nothing.
<1>o. ASSUME NEW k \in Jobs, k # j, job'[k] = job[k], spends'[k] = spends[k]
      PROVE  JobClears(k)'
  <2>1. JobClears(k)
    BY DEF ClearsInv
  <2>2. CASE latest' >= latest
    BY <1>o, <1>t, <2>1, <2>2 DEF JobClears
  <2>3. CASE latest' < latest
    <3>1. j \in Refused
      BY <1>l, <2>3 DEF AdoptSign, ClearsInv, JobClears
    <3>2. job[k].clears = 0
      BY <3>1, <2>1, <1>o, <1>t DEF JobClears
    <3> QED BY <1>o, <1>t, <2>1, <3>2 DEF JobClears
  <2> QED BY <1>t, <2>2, <2>3
<1>j. JobClears(j)
  BY DEF ClearsInv
<1>q. ASSUME JobClears(j)', \A k \in Jobs : k # j => job'[k] = job[k],
             \A k \in Jobs : k # j => spends'[k] = spends[k]
      PROVE  ClearsInv'
  BY <1>q, <1>o DEF ClearsInv
<1>1. CASE Issue(j)
  BY <1>1, <1>t, <1>j, <1>q DEF Issue, JobClears, Call
<1>2. CASE IssueFails(j)
  BY <1>2, <1>t, <1>j, <1>q DEF IssueFails, JobClears, Call
<1>3. CASE Bond(j)
  <2>1. job[j].base \in Nat /\ Need \in Nat /\ Need > 0
    BY <1>t, AmountAssumption DEF Call
  <2>2. Higher(latest, job[j].base) \in Nat /\ Higher(latest, job[j].base) >= latest
    BY <1>t, <2>1, HigherType
  <2>3. Higher(latest, job[j].base) + Need > job[j].clears
    BY <1>t, <1>j, <2>1, <2>2 DEF JobClears
  <2>4. spends[j] = NoRow => job[j].clears = 0
    BY <1>3, <1>t, <1>j DEF Bond, JobClears
  <2> QED BY <1>3, <1>t, <1>j, <1>q, <2>3, <2>4 DEF Bond, JobClears, Call
<1>4. CASE Bonded(j)
  BY <1>4, <1>t, <1>j, <1>q DEF Bonded, JobClears, Call
<1>5. CASE Pay(j)
  BY <1>5, <1>t, <1>j, <1>q DEF Pay, JobClears, Call
<1>6. CASE PayFails(j)
  BY <1>6, <1>t, <1>j, <1>q DEF PayFails, JobClears, Call
<1>7. CASE SignBill(j)
  <2>1. latest' >= latest
    BY <1>7, <1>l, <1>t DEF SignBill, AdoptSign
  <2> QED BY <1>7, <1>t, <1>j, <1>q, <2>1 DEF SignBill, Sign, JobClears, Call
<1>8. CASE BillSaved(j)
  BY <1>8, <1>t, <1>j, <1>q DEF BillSaved, Recorded, NoRow, JobClears, Call
<1>9. CASE SettleJob(j)
  BY <1>9, <1>t, <1>j, <1>q DEF SettleJob, JobClears, Call
<1>10. CASE SettleNothing(j)
  BY <1>10, <1>t, <1>j, <1>q DEF SettleNothing, NoRow, JobClears, Call
<1>11. CASE SettleFails(j)
  BY <1>11, <1>t, <1>j, <1>q DEF SettleFails, JobClears, Call
<1>12. CASE SignCharge(j)
  <2>1. latest' >= latest
    BY <1>12, <1>l, <1>t DEF SignCharge, AdoptSign
  <2> QED BY <1>12, <1>t, <1>j, <1>q, <2>1 DEF SignCharge, Sign, JobClears, Call
<1>13. CASE ChargeSaved(j)
  BY <1>13, <1>t, <1>j, <1>q DEF ChargeSaved, Recorded, NoRow, JobClears, Call
<1>14. CASE Abandon(j)
  BY <1>14, <1>t, <1>j, <1>q DEF Abandon, NoRow, JobClears, Call
<1>15. CASE Adopt(j)
  BY <1>15, <1>t, <1>j, <1>q DEF Adopt, JobClears, Call
<1>16. CASE AdoptSign(j)
  <2>1. j \in Refused /\ job[j].want \in Nat
    BY <1>16, <1>t, <1>j DEF AdoptSign, JobClears, Call
  <2>2. latest' = job[j].want
    BY <1>16 DEF AdoptSign, Caches
  <2> QED BY <1>16, <1>t, <1>j, <1>q, <2>1, <2>2 DEF AdoptSign, JobClears, Call
<1>17. CASE Adopted(j)
  BY <1>17, <1>t, <1>j, <1>q DEF Adopted, JobClears, Call
<1> QED
  BY <1>1, <1>2, <1>3, <1>4, <1>5, <1>6, <1>7, <1>8, <1>9, <1>10, <1>11, <1>12,
     <1>13, <1>14, <1>15, <1>16, <1>17 DEF JobStep

LEMMA ClearsNext ==
    ASSUME NEW r, Refused \subseteq {r}, IInv, IInv', ClearsInv, [Next]_vars
    PROVE  ClearsInv'
<1> USE DEF Cache, Chain
<1>t. /\ latest \in Nat /\ latest' \in Nat
      /\ \A k \in Jobs : job[k].clears \in Nat
  BY DEF IInv, TypeOK, Call
<1>1. CASE \E j \in Jobs : JobStep(j)
  BY <1>1, ClearsJobStep DEF IInv
<1>2. CASE Restart
  <2> SUFFICES ASSUME NEW j \in Jobs PROVE JobClears(j)'
    BY DEF ClearsInv
  <2>1. job'[j].at \notin {"adopting", "bonding"} /\ job'[j].clears = 0
    BY <1>2, <1>t DEF Restart, NewCall, ClearsInv, JobClears
  <2> QED BY <2>1, <1>t DEF JobClears
<1>3. CASE SettleTicket
  BY <1>3 DEF SettleTicket, ClearsInv, JobClears
<1>4. CASE UNCHANGED vars
  BY <1>4 DEF vars, ClearsInv, JobClears
<1> QED
  BY <1>1, <1>2, <1>3, <1>4 DEF Next

(* When one job at most is refused, a total it adopted is cleared by its   *)
(* next bond, whatever the other jobs bill in between (pot.rs,             *)
(* adopt_authorised and issue_ticket).                                     *)
THEOREM AdoptedCleared ==
    ASSUME NEW r, Refused \subseteq {r}
    PROVE  Spec => []NextTicketClears
<1>1. Init => ClearsInv
  BY DEF Init, ClearsInv, JobClears, NewCall
<1>2. ClearsInv /\ IInv /\ IInv' /\ [Next]_vars => ClearsInv'
  BY ClearsNext
<1>3. ClearsInv => NextTicketClears
  BY DEF ClearsInv, JobClears, NextTicketClears
<1> QED BY <1>1, <1>2, <1>3, ClientInvariance, PTL DEF Spec
=============================================================================
