---------------------------- MODULE WorkerProofs ----------------------------
(***************************************************************************)
(* Safety of the worker for every set of jobs, tickets, budgets and        *)
(* limits, for everything a server may stream and for every window of      *)
(* finished jobs: what is sent was paid for, a result is what its server   *)
(* wrote and begins with what was streamed, a conversation reaches the     *)
(* server with every text in its order, and the charts add up.             *)
(***************************************************************************)
EXTENDS WorkerJob, ChatBackend, ChatTurns, Statistics, CoinTheorems

-----------------------------------------------------------------------------
(* Jobs.  A step changes one job; JobInv is what a job keeps. *)

\* What holds of one job in every state.
JobInv(j, r) ==
    /\ r.billed # 0 => r.pc \in {"settle", "done"}
    /\ r.pc \in {"idle", "admit", "lock", "queued"} =>
          r.fwd = "none" /\ r.taken = 0 /\ r.sent = 0
    /\ r.sent <= r.taken
    /\ r.taken <= r.produced
    /\ r.fwd = "asking" => r.sent < r.taken
    /\ r.pc = "topup" => r.fwd = "asking"
    /\ r.fwd \in {"stream", "asking"} => r.pc \in {"running", "topup", "drain"}
    /\ j \in Priced /\ r.pc \in {"running", "topup"} =>
          /\ r.authorized <= AuthorizedTokens(r.bond.delta)
          /\ Prompt + r.sent <= AuthorizedTokens(r.bond.delta)
    /\ r.told = "queued" =>
          r.pc \in {"queued", "failed"} /\ (r.pc = "queued" => r.stop)

IInv == /\ TypeOK
        /\ \A j \in Jobs : JobInv(j, job[j])
        /\ EarnedCovered

\* A step of job j: the job stays a job with its invariant, the ledger rises by
\* at least what the job is credited, and no other job changes.
Good(j) ==
    /\ job'[j] \in Job
    /\ job' = [job EXCEPT ![j] = job'[j]]
    /\ JobInv(j, job'[j])
    /\ ledger' \in Nat
    /\ job'[j].billed - job[j].billed <= ledger' - ledger

USE TokenAssumption

----------------------------------------------------------------------------
(* Facts about the operators.                                               *)

\* A budget is a number of tokens, covers the prompt, and grows with its bond.
LEMMA Budget ==
    ASSUME NEW d \in Nat
    PROVE  /\ AuthorizedTokens(d) \in Nat
           /\ Prompt <= AuthorizedTokens(d)
           /\ \A e \in Nat : d <= e => AuthorizedTokens(d) <= AuthorizedTokens(e)
BY DEF AuthorizedTokens

\* A step given by its new record is good when the record is.
LEMMA Becoming ==
    ASSUME TypeOK, NEW j \in Jobs, NEW r \in Job, Becomes(j, r), JobInv(j, r),
           r.billed = job[j].billed, UNCHANGED ledger
    PROVE  Good(j)
<1>1. job'[j] = r
  BY DEF TypeOK, Becomes
<1>2. job[j].billed \in Nat /\ ledger \in Nat
  BY DEF TypeOK, Job
<1>3. job' = [job EXCEPT ![j] = job'[j]]
  BY <1>1 DEF Becomes
<1>4. job'[j] \in Job /\ JobInv(j, job'[j])
  BY <1>1
<1>5. job'[j].billed - job[j].billed <= ledger' - ledger
  <2>1. job'[j].billed = job[j].billed
    BY <1>1
  <2>2. ledger' = ledger
    OBVIOUS
  <2>3. QED
    BY <1>2, <2>1, <2>2
<1>6. QED
  BY <1>2, <1>3, <1>4, <1>5 DEF Good

----------------------------------------------------------------------------
(* Each group of actions keeps the invariant of its job.                    *)

\* Admission: no job is credited, and the GPU is not reached.
LEMMA AdmissionGood ==
    ASSUME TypeOK, NEW j \in Jobs, JobInv(j, job[j]), Admission(j)
    PROVE  Good(j)
<1> DEFINE r == job[j]
<1>1. r \in Job /\ ledger \in Nat
  BY DEF TypeOK
<1>2. CASE Refuse(j)
  <2> DEFINE s == [r EXCEPT !.pc = "failed"]
  <2>1. Becomes(j, s) /\ UNCHANGED ledger
    BY <1>2 DEF Refuse, Fail
  <2>2. s \in Job /\ s.billed = r.billed
    BY <1>1, <1>2 DEF Refuse, At, Job, Phases, Forwarder, JobInv
  <2>3. JobInv(j, s)
    BY <1>1, <1>2 DEF Refuse, At, Job, JobInv
  <2>4. QED
    BY <2>1, <2>2, <2>3, Becoming
<1>3. CASE AdmitFree(j)
  <2> DEFINE s == [r EXCEPT !.pc = "queued"]
  <2>1. Becomes(j, s) /\ UNCHANGED ledger
    BY <1>3 DEF AdmitFree, Queue
  <2>2. s \in Job /\ s.billed = r.billed
    BY <1>1, <1>3 DEF AdmitFree, At, Job, Phases, Forwarder, JobInv
  <2>3. JobInv(j, s)
    BY <1>1, <1>3 DEF AdmitFree, At, Job, JobInv
  <2>4. QED
    BY <2>1, <2>2, <2>3, Becoming
<1>4. ASSUME NEW cum \in Tickets,
              TakeBond(j, cum)
       PROVE  Good(j)
  <2> DEFINE b == [cum |-> cum, delta |-> cum - ledger]
  <2>1. b \in [cum : Nat, delta : Nat]
    BY <1>1, <1>4 DEF TakeBond, At, Job
  <2> DEFINE s == [r EXCEPT !.pc = "lock", !.bond = b]
  <2>2. Becomes(j, s) /\ UNCHANGED ledger
    BY <1>4 DEF TakeBond
  <2> HIDE DEF b
  <2>3. s \in Job /\ s.billed = r.billed
    BY <1>1, <1>4, <2>1 DEF TakeBond, At, Job, Phases, Forwarder, JobInv
  <2>4. JobInv(j, s)
    BY <1>1, <1>4, <2>1 DEF TakeBond, At, Job, JobInv
  <2>5. QED
    BY <2>2, <2>3, <2>4, Becoming
<1>5. CASE LockRefused(j)
  <2> DEFINE s == [r EXCEPT !.pc = "failed", !.bond = NoBond]
  <2>1. Becomes(j, s) /\ UNCHANGED ledger
    BY <1>5 DEF LockRefused
  <2>2. s \in Job /\ s.billed = r.billed
    BY <1>1, <1>5 DEF LockRefused, At, Job, Phases, Forwarder, JobInv, NoBond
  <2>3. JobInv(j, s)
    BY <1>1, <1>5 DEF LockRefused, At, Job, JobInv, NoBond
  <2>4. QED
    BY <2>1, <2>2, <2>3, Becoming
<1>6. ASSUME NEW earned \in ChainEarned,
              LockFound(j, earned)
       PROVE  Good(j)
  <2> DEFINE d == Least(r.bond.delta, AtLeastOne(r.bond.cum - earned))
  <2>1. d \in Nat
    BY <1>1, <1>6 DEF LockFound, At, Job, Least, AtLeastOne
  <2> DEFINE s == [r EXCEPT !.pc = "queued", !.bond.delta = d]
  <2>2. Becomes(j, s) /\ UNCHANGED ledger
    BY <1>6 DEF LockFound, Queue
  <2> HIDE DEF d
  <2>3. s \in Job /\ s.billed = r.billed
    BY <1>1, <1>6, <2>1 DEF LockFound, At, Job, Phases, Forwarder, JobInv
  <2>4. JobInv(j, s)
    BY <1>1, <1>6, <2>1 DEF LockFound, At, Job, JobInv
  <2>5. QED
    BY <2>2, <2>3, <2>4, Becoming
<1>7. ASSUME NEW earned \in ChainEarned,
              Screened(j, earned)
       PROVE  Good(j)
  <2> DEFINE d == Least(r.bond.delta, AtLeastOne(r.bond.cum - earned))
  <2>1. d \in Nat
    BY <1>1, <1>7 DEF Screened, At, Job, Least, AtLeastOne
  <2> DEFINE s == [r EXCEPT !.pc = "failed", !.bond.delta = d]
  <2>2. Becomes(j, s) /\ UNCHANGED ledger
    BY <1>7 DEF Screened
  <2> HIDE DEF d
  <2>3. s \in Job /\ s.billed = r.billed
    BY <1>1, <1>7, <2>1 DEF Screened, At, Job, Phases, Forwarder, JobInv
  <2>4. JobInv(j, s)
    BY <1>1, <1>7, <2>1 DEF Screened, At, Job, JobInv
  <2>5. QED
    BY <2>2, <2>3, <2>4, Becoming
<1>8. QED
  BY <1>2, <1>3, <1>4, <1>5, <1>6, <1>7 DEF Admission

\* The queue and the run: the budget a run starts with is what its bond covers.
LEMMA RunningGood ==
    ASSUME TypeOK, NEW j \in Jobs, JobInv(j, job[j]), Running(j)
    PROVE  Good(j)
<1> DEFINE r == job[j]
<1>1. r \in Job /\ ledger \in Nat
  BY DEF TypeOK
<1>2. CASE Start(j)
  <2> DEFINE n == IF j \in Priced THEN AuthorizedTokens(r.bond.delta)
                              ELSE Unlimited
  <2>1. n \in Nat /\ (j \in Priced => n = AuthorizedTokens(r.bond.delta))
          /\ (j \in Priced => Prompt <= n)
    BY <1>1, <1>2 DEF Start, At, Job, Unlimited, AuthorizedTokens
  <2> DEFINE s == [r EXCEPT !.pc = "running", !.fwd = "stream", !.authorized = n]
  <2>2. Becomes(j, s) /\ UNCHANGED ledger
    BY <1>2 DEF Start
  <2> HIDE DEF n
  <2>3. s \in Job /\ s.billed = r.billed
    BY <1>1, <1>2, <2>1 DEF Start, At, Job, Phases, Forwarder, JobInv
  <2>4. JobInv(j, s)
    BY <1>1, <1>2, <2>1 DEF Start, At, Job, JobInv
  <2>5. QED
    BY <2>2, <2>3, <2>4, Becoming
<1>3. CASE StopQueued(j)
  <2> DEFINE s == [r EXCEPT !.pc = "failed"]
  <2>1. Becomes(j, s) /\ UNCHANGED ledger
    BY <1>3 DEF StopQueued, Fail
  <2>2. s \in Job /\ s.billed = r.billed
    BY <1>1, <1>3 DEF StopQueued, At, Job, Phases, Forwarder, JobInv
  <2>3. JobInv(j, s)
    BY <1>1, <1>3 DEF StopQueued, At, Job, JobInv
  <2>4. QED
    BY <2>1, <2>2, <2>3, Becoming
<1>4. CASE Produce(j)
  <2> DEFINE s == [r EXCEPT !.produced = @ + 1]
  <2>1. Becomes(j, s) /\ UNCHANGED ledger
    BY <1>4 DEF Produce
  <2>2. s \in Job /\ s.billed = r.billed
    BY <1>1, <1>4 DEF Produce, At, Job, Phases, Forwarder, JobInv
  <2>3. JobInv(j, s)
    BY <1>1, <1>4 DEF Produce, At, Job, JobInv
  <2>4. QED
    BY <2>1, <2>2, <2>3, Becoming
<1>5. CASE Stop(j)
  <2> DEFINE s == [r EXCEPT !.pc = "drain", !.outcome = "stopped"]
  <2>1. Becomes(j, s) /\ UNCHANGED ledger
    BY <1>5 DEF Stop
  <2>2. s \in Job /\ s.billed = r.billed
    BY <1>1, <1>5 DEF Stop, At, Job, Phases, Forwarder, JobInv
  <2>3. JobInv(j, s)
    BY <1>1, <1>5 DEF Stop, At, Job, JobInv
  <2>4. QED
    BY <2>1, <2>2, <2>3, Becoming
<1>6. ASSUME NEW end \in {"ok", "error"},
              Finish(j, end)
       PROVE  Good(j)
  <2> DEFINE s == [r EXCEPT !.pc = "drain", !.outcome = end]
  <2>1. Becomes(j, s) /\ UNCHANGED ledger
    BY <1>6 DEF Finish
  <2>2. s \in Job /\ s.billed = r.billed
    BY <1>1, <1>6 DEF Finish, At, Job, Phases, Forwarder, JobInv
  <2>3. JobInv(j, s)
    BY <1>1, <1>6 DEF Finish, At, Job, JobInv
  <2>4. QED
    BY <2>1, <2>2, <2>3, Becoming
<1>7. QED
  BY <1>2, <1>3, <1>4, <1>5, <1>6 DEF Running

\* The forwarder streams within its budget, or holds a token back and asks.
LEMMA ForwardingGood ==
    ASSUME TypeOK, NEW j \in Jobs, JobInv(j, job[j]), Forwarding(j)
    PROVE  Good(j)
<1> DEFINE r == job[j]
<1>1. r \in Job /\ ledger \in Nat
  BY DEF TypeOK
<1>2. CASE Forward(j)
  <2> DEFINE fits == Prompt + r.taken + 1 <= r.authorized
  <2> DEFINE taken == r.taken + 1
  <2> DEFINE sent == r.sent + 1
  <2>1. taken \in Nat /\ sent \in Nat
    BY <1>1 DEF Job
  <2>2. CASE fits
    <3> DEFINE s == [r EXCEPT !.taken = taken, !.sent = sent]
    <3>1. Becomes(j, s) /\ UNCHANGED ledger
      BY <1>2, <2>2 DEF Forward
    <3>2. JobInv(j, s)
      BY <1>1, <1>2, <2>2, Budget DEF Forward, Job, JobInv
    <3>3. s \in Job /\ s.billed = r.billed
      <4> HIDE DEF taken, sent
      <4> QED BY <1>1, <2>1 DEF Job, Forwarder
    <3>4. QED
      BY <3>1, <3>2, <3>3, Becoming
  <2>3. CASE ~fits
    <3> DEFINE s == [r EXCEPT !.taken = taken, !.fwd = "asking"]
    <3>1. Becomes(j, s) /\ UNCHANGED ledger
      BY <1>2, <2>3 DEF Forward
    <3>2. JobInv(j, s)
      BY <1>1, <1>2, <2>3 DEF Forward, Job, JobInv
    <3>3. s \in Job /\ s.billed = r.billed
      <4> HIDE DEF taken, sent
      <4> QED BY <1>1, <2>1 DEF Job, Forwarder
    <3>4. QED
      BY <3>1, <3>2, <3>3, Becoming
  <2>4. QED
    BY <2>2, <2>3
<1>3. CASE ForwardRest(j)
  <2> DEFINE n == r.sent + (r.produced - r.taken)
  <2>1. n \in Nat /\ n <= r.produced
    BY <1>1, <1>3 DEF ForwardRest, At, Job, JobInv
  <2> DEFINE s == [r EXCEPT !.fwd = "ended", !.taken = r.produced,
                          !.sent = n]
  <2>2. Becomes(j, s) /\ UNCHANGED ledger
    BY <1>3 DEF ForwardRest
  <2> HIDE DEF n
  <2>3. s \in Job /\ s.billed = r.billed
    BY <1>1, <1>3, <2>1 DEF ForwardRest, At, Job, Phases, Forwarder, JobInv
  <2>4. JobInv(j, s)
    BY <1>1, <1>3, <2>1 DEF ForwardRest, At, Job, JobInv
  <2>5. QED
    BY <2>2, <2>3, <2>4, Becoming
<1>4. QED
  BY <1>2, <1>3 DEF Forwarding

\* A top-up only ever raises the bond, and with it the budget.
LEMMA ToppingUpGood ==
    ASSUME TypeOK, NEW j \in Jobs, JobInv(j, job[j]), ToppingUp(j)
    PROVE  Good(j)
<1> DEFINE r == job[j]
<1>1. r \in Job /\ ledger \in Nat
  BY DEF TypeOK
<1>2. CASE AskTopUp(j)
  <2> DEFINE s == [r EXCEPT !.pc = "topup", !.awaited = TRUE, !.paid = 0]
  <2>1. Becomes(j, s) /\ UNCHANGED ledger
    BY <1>2 DEF AskTopUp
  <2>2. s \in Job /\ s.billed = r.billed
    BY <1>1, <1>2 DEF AskTopUp, At, Job, Phases, Forwarder, JobInv
  <2>3. JobInv(j, s)
    BY <1>1, <1>2 DEF AskTopUp, At, Job, JobInv
  <2>4. QED
    BY <2>1, <2>2, <2>3, Becoming
<1>3. CASE TopUpStopped(j)
  <2> DEFINE s == [r EXCEPT !.pc = "running", !.awaited = FALSE, !.paid = 0,
                          !.stop = FALSE, !.fwd = "ended"]
  <2>1. Becomes(j, s) /\ UNCHANGED ledger
    BY <1>3 DEF TopUpStopped, NoTopUp
  <2>2. s \in Job /\ s.billed = r.billed
    BY <1>1, <1>3 DEF TopUpStopped, At, Job, Phases, Forwarder, JobInv
  <2>3. JobInv(j, s)
    BY <1>1, <1>3 DEF TopUpStopped, At, Job, JobInv
  <2>4. QED
    BY <2>1, <2>2, <2>3, Becoming
<1>4. CASE TopUpTimeout(j)
  <2> DEFINE s == [r EXCEPT !.pc = "running", !.awaited = FALSE, !.paid = 0,
                          !.stop = FALSE, !.fwd = "ended"]
  <2>1. Becomes(j, s) /\ UNCHANGED ledger
    BY <1>4 DEF TopUpTimeout, NoTopUp
  <2>2. s \in Job /\ s.billed = r.billed
    BY <1>1, <1>4 DEF TopUpTimeout, At, Job, Phases, Forwarder, JobInv
  <2>3. JobInv(j, s)
    BY <1>1, <1>4 DEF TopUpTimeout, At, Job, JobInv
  <2>4. QED
    BY <2>1, <2>2, <2>3, Becoming
<1>5. CASE TopUpRefused(j)
  <2> DEFINE s == [r EXCEPT !.pc = "running", !.awaited = FALSE, !.paid = 0,
                          !.stop = FALSE, !.fwd = "ended"]
  <2>1. Becomes(j, s) /\ UNCHANGED ledger
    BY <1>5 DEF TopUpRefused, NoTopUp
  <2>2. s \in Job /\ s.billed = r.billed
    BY <1>1, <1>5 DEF TopUpRefused, At, Job, Phases, Forwarder, JobInv
  <2>3. JobInv(j, s)
    BY <1>1, <1>5 DEF TopUpRefused, At, Job, JobInv
  <2>4. QED
    BY <2>1, <2>2, <2>3, Becoming
<1>6. CASE TopUpPaid(j)
  <2> DEFINE delta == r.paid - ledger
  <2> DEFINE fits == Prompt + r.taken <= AuthorizedTokens(delta)
  <2> DEFINE sent == IF fits THEN r.sent + 1 ELSE r.sent
  <2> DEFINE fwd == IF fits THEN "stream" ELSE "asking"
  <2> DEFINE s == [r EXCEPT !.pc = "running", !.paid = 0,
                            !.bond = [cum |-> r.paid, delta |-> delta],
                            !.authorized = AuthorizedTokens(delta),
                            !.sent = sent, !.fwd = fwd]
  <2>1. /\ r.pc = "topup" /\ r.fwd = "asking" /\ r.sent < r.taken
        /\ r.bond.delta < delta /\ delta \in Nat /\ r.bond.delta \in Nat
    BY <1>1, <1>6 DEF TopUpPaid, At, JobInv, Job
  <2>2. /\ AuthorizedTokens(delta) \in Nat
        /\ AuthorizedTokens(r.bond.delta) <= AuthorizedTokens(delta)
        /\ AuthorizedTokens(r.bond.delta) \in Nat
    <3> HIDE DEF delta
    <3> QED BY <2>1, Budget
  <2>3. /\ sent \in Nat /\ sent <= r.taken /\ r.taken <= r.produced
        /\ fwd \in Forwarder /\ (fwd = "asking" => sent < r.taken)
    BY <1>1, <2>1 DEF Forwarder, Job, JobInv
  <2>4. j \in Priced => Prompt + sent <= AuthorizedTokens(delta)
    <3> HIDE DEF delta
    <3> QED BY <1>1, <2>1, <2>2 DEF JobInv, Job
  <2>5. Becomes(j, s) /\ UNCHANGED ledger
    BY <1>6 DEF TopUpPaid
  <2> HIDE DEF delta, fits, sent, fwd
  <2>6. s \in Job /\ s.billed = r.billed
    BY <1>1, <2>1, <2>2, <2>3 DEF Job, Phases
  <2>7. JobInv(j, s)
    BY <1>1, <2>1, <2>2, <2>3, <2>4 DEF Job, JobInv
  <2>8. QED
    BY <2>5, <2>6, <2>7, Becoming
<1>7. QED
  BY <1>2, <1>3, <1>4, <1>5, <1>6 DEF ToppingUp

\* A ticket is banked for no more than it raises the ledger by.
LEMMA BankGood ==
    ASSUME TypeOK, NEW j \in Jobs, JobInv(j, job[j]), job[j].pc = "capture",
           NEW cum \in Nat, NEW amount \in Nat, Bankable(cum, amount),
           Bank(j, cum, amount)
    PROVE  Good(j)
<1> DEFINE r == job[j]
<1> DEFINE s == [r EXCEPT !.pc = "settle", !.bond = NoBond, !.paid = 0,
                          !.awaited = FALSE, !.billed = amount]
<1>1. r \in Job /\ ledger \in Nat /\ r.billed = 0
  BY DEF TypeOK, JobInv, Job
<1>2. s \in Job
  BY <1>1, ZenonT(30) DEF Job, Phases, NoBond
<1>3. JobInv(j, s)
  BY <1>1 DEF JobInv, Job
<1>4. job'[j] = s /\ job' = [job EXCEPT ![j] = job'[j]]
  BY DEF Bank, Becomes, TypeOK
<1>5. s.billed = amount
  BY <1>1 DEF Job
<1>6. ledger' = cum /\ cum >= ledger + amount
  BY DEF Bank, Bankable
<1>7. job'[j].billed - job[j].billed <= ledger' - ledger
  <2>1. job'[j].billed = amount /\ job[j].billed = 0
    BY <1>1, <1>4, <1>5
  <2>2. QED
    BY <1>1, <1>6, <2>1
<1>8. job'[j] \in Job /\ JobInv(j, job'[j])
  BY <1>2, <1>3, <1>4
<1>9. QED
  BY <1>1, <1>4, <1>6, <1>7, <1>8 DEF Good

\* A timeout banks the bond whole, or nothing.
LEMMA BankBondGood ==
    ASSUME TypeOK, NEW j \in Jobs, JobInv(j, job[j]), job[j].pc = "capture",
           BankBond(j)
    PROVE  Good(j)
<1> DEFINE r == job[j]
<1>1. r \in Job /\ r.bond.cum \in Nat /\ r.bond.delta \in Nat
  BY DEF TypeOK, Job
<1>2. CASE Bankable(r.bond.cum, r.bond.delta)
  BY <1>1, <1>2, BankGood DEF BankBond
<1>3. CASE ~Bankable(r.bond.cum, r.bond.delta)
  <2> DEFINE s == [r EXCEPT !.pc = "done", !.bond = NoBond, !.paid = 0,
                            !.awaited = FALSE]
  <2>1. Becomes(j, s) /\ UNCHANGED ledger
    BY <1>3 DEF BankBond
  <2>2. s \in Job /\ s.billed = r.billed
    BY <1>1 DEF Job, Phases, NoBond
  <2>3. JobInv(j, s)
    BY <1>1 DEF Job, JobInv
  <2>4. QED
    BY <2>1, <2>2, <2>3, Becoming
<1>4. QED
  BY <1>2, <1>3

\* The end of a job: what it is credited, the ledger rises by.
LEMMA EndingGood ==
    ASSUME TypeOK, NEW j \in Jobs, JobInv(j, job[j]), Ending(j)
    PROVE  Good(j)
<1> DEFINE r == job[j]
<1>1. r \in Job /\ ledger \in Nat
  BY DEF TypeOK
<1>2. CASE EndFailed(j)
  <2> DEFINE s == [r EXCEPT !.pc = "failed"]
  <2>1. Becomes(j, s) /\ UNCHANGED ledger
    BY <1>2 DEF EndFailed, Fail
  <2>2. s \in Job /\ s.billed = r.billed
    BY <1>1, <1>2 DEF EndFailed, At, Job, Phases, Forwarder, JobInv
  <2>3. JobInv(j, s)
    BY <1>1, <1>2 DEF EndFailed, At, Job, JobInv
  <2>4. QED
    BY <2>1, <2>2, <2>3, Becoming
<1>3. CASE EndFree(j)
  <2> DEFINE s == [r EXCEPT !.pc = "done", !.bond = NoBond]
  <2>1. Becomes(j, s) /\ UNCHANGED ledger
    BY <1>3 DEF EndFree
  <2>2. s \in Job /\ s.billed = r.billed
    BY <1>1, <1>3 DEF EndFree, At, Job, Phases, Forwarder, JobInv, NoBond
  <2>3. JobInv(j, s)
    BY <1>1, <1>3 DEF EndFree, At, Job, JobInv, NoBond
  <2>4. QED
    BY <2>1, <2>2, <2>3, Becoming
<1>4. CASE Invoice(j)
  <2> DEFINE s == [r EXCEPT !.pc = "capture", !.awaited = TRUE, !.paid = 0]
  <2>1. Becomes(j, s) /\ UNCHANGED ledger
    BY <1>4 DEF Invoice
  <2>2. s \in Job /\ s.billed = r.billed
    BY <1>1, <1>4 DEF Invoice, At, Job, Phases, Forwarder, JobInv
  <2>3. JobInv(j, s)
    BY <1>1, <1>4 DEF Invoice, At, Job, JobInv
  <2>4. QED
    BY <2>1, <2>2, <2>3, Becoming
<1>5. CASE CapturePaid(j)
  <2>1. r.pc = "capture" /\ r.paid \in Nat /\ Amount(j) \in Nat
    BY <1>1, <1>5 DEF CapturePaid, At, Job, Amount, AtLeastOne, Least, Bill
  <2>2. CASE Bankable(r.paid, Amount(j))
    BY <2>1, <2>2, <1>5, BankGood DEF CapturePaid
  <2>3. CASE ~Bankable(r.paid, Amount(j))
    BY <2>1, <2>3, <1>5, BankBondGood DEF CapturePaid
  <2>4. QED
    BY <2>2, <2>3
<1>6. CASE CaptureTimeout(j)
  BY <1>6, BankBondGood DEF CaptureTimeout, At
<1>7. CASE Settled(j)
  <2> DEFINE s == [r EXCEPT !.pc = "done"]
  <2>1. Becomes(j, s) /\ UNCHANGED ledger
    BY <1>7 DEF Settled
  <2>2. s \in Job /\ s.billed = r.billed
    BY <1>1, <1>7 DEF Settled, At, Job, Phases, Forwarder, JobInv
  <2>3. JobInv(j, s)
    BY <1>1, <1>7 DEF Settled, At, Job, JobInv
  <2>4. QED
    BY <2>1, <2>2, <2>3, Becoming
<1>8. QED
  BY <1>2, <1>3, <1>4, <1>5, <1>6, <1>7 DEF Ending

\* A message from the client changes what a job waits for, not what it owns.
LEMMA ClientGood ==
    ASSUME TypeOK, NEW j \in Jobs, JobInv(j, job[j]), Client(j)
    PROVE  Good(j)
<1> DEFINE r == job[j]
<1>1. r \in Job /\ ledger \in Nat
  BY DEF TypeOK
<1>2. CASE Submit(j)
  <2> DEFINE s == [r EXCEPT !.pc = "admit"]
  <2>1. Becomes(j, s) /\ UNCHANGED ledger
    BY <1>2 DEF Submit
  <2>2. s \in Job /\ s.billed = r.billed
    BY <1>1, <1>2 DEF Submit, At, Job, Phases, Forwarder, JobInv
  <2>3. JobInv(j, s)
    BY <1>1, <1>2 DEF Submit, At, Job, JobInv
  <2>4. QED
    BY <2>1, <2>2, <2>3, Becoming
<1>3. CASE SubmitRefused(j)
  <2> DEFINE s == [r EXCEPT !.pc = "failed"]
  <2>1. Becomes(j, s) /\ UNCHANGED ledger
    BY <1>3 DEF SubmitRefused, Fail
  <2>2. s \in Job /\ s.billed = r.billed
    BY <1>1, <1>3 DEF SubmitRefused, At, Job, Phases, Forwarder, JobInv
  <2>3. JobInv(j, s)
    BY <1>1, <1>3 DEF SubmitRefused, At, Job, JobInv
  <2>4. QED
    BY <2>1, <2>2, <2>3, Becoming
<1>4. CASE Cancel(j)
  <2> DEFINE told == IF r.told = "idle" THEN r.pc ELSE r.told
  <2> DEFINE stop == r.stop \/ Listening(r)
  <2> DEFINE s == [r EXCEPT !.told = told, !.stop = stop]
  <2>1. Becomes(j, s) /\ UNCHANGED ledger
    BY <1>4 DEF Cancel
  <2>2. told \in Phases /\ stop \in BOOLEAN /\ (r.stop => stop)
    BY <1>1 DEF Job, Listening
  <2>3. told = "queued" =>
          r.pc \in {"queued", "failed"} /\ (r.pc = "queued" => stop)
    BY <1>1, <1>4 DEF JobInv, Listening, Job
  <2> HIDE DEF told, stop
  <2>4. s \in Job /\ s.billed = r.billed
    BY <1>1, <2>2 DEF Job
  <2>5. JobInv(j, s)
    BY <1>1, <2>2, <2>3 DEF Job, JobInv
  <2>6. QED
    BY <2>1, <2>4, <2>5, Becoming
<1>5. ASSUME NEW cum \in Tickets,
              Pay(j, cum)
       PROVE  Good(j)
  <2> DEFINE s == [r EXCEPT !.awaited = FALSE, !.paid = cum]
  <2>1. Becomes(j, s) /\ UNCHANGED ledger
    BY <1>5 DEF Pay
  <2>2. s \in Job /\ s.billed = r.billed
    BY <1>1, <1>5 DEF Pay, At, Job, Phases, Forwarder, JobInv
  <2>3. JobInv(j, s)
    BY <1>1, <1>5 DEF Pay, At, Job, JobInv
  <2>4. QED
    BY <2>1, <2>2, <2>3, Becoming
<1>6. QED
  BY <1>2, <1>3, <1>4, <1>5 DEF Client

\* Whatever a job does, its step is good.
LEMMA StepGood ==
    ASSUME TypeOK, NEW j \in Jobs, JobInv(j, job[j]), Step(j)
    PROVE  Good(j)
BY AdmissionGood, RunningGood, ForwardingGood, ToppingUpGood, EndingGood,
   ClientGood DEF Step

----------------------------------------------------------------------------
(* The invariant of all jobs together.                                      *)

\* No job is there at the start and nothing is banked.
LEMMA InitIInv == Init => IInv
<1> SUFFICES ASSUME Init PROVE IInv
  OBVIOUS
<1>1. NewJob \in Job
  BY DEF NewJob, NoBond, Job, Phases, Forwarder
<1>2. TypeOK
  BY <1>1 DEF Init, TypeOK
<1>3. ASSUME NEW j \in Jobs PROVE JobInv(j, job[j])
  BY DEF Init, NewJob, JobInv
<1>4. \A j \in Jobs : Billed[j] = 0
  BY DEF Init, Billed, NewJob
<1>5. EarnedCovered
  BY <1>4, TotalZero DEF EarnedCovered, Init
<1>6. QED
  BY <1>2, <1>3, <1>5 DEF IInv

\* A good step credits one job no more than it raises the ledger.
LEMMA GoodCovered ==
    ASSUME TypeOK, EarnedCovered, NEW j \in Jobs, Good(j)
    PROVE  EarnedCovered'
<1> DEFINE f == Billed
<1> DEFINE g == Billed'
<1>1. IsFiniteSet(Jobs)
  BY JobAssumption
<1>2. \A i \in Jobs : f[i] \in Nat
  BY DEF Billed, TypeOK, Job
<1>3. g[j] \in Nat /\ g[j] = job'[j].billed /\ f[j] = job[j].billed
  BY DEF Billed, Good, Job
<1>4. \A i \in Jobs \ {j} : g[i] = f[i]
  BY DEF Billed, Good, TypeOK
<1>5. g[j] - f[j] <= ledger' - ledger /\ ledger' \in Nat /\ ledger \in Nat
  BY <1>3 DEF Good, TypeOK
<1>6. Total(Jobs, f) <= ledger
  BY DEF EarnedCovered
<1> HIDE DEF f, g
<1>7. Total(Jobs, g) = Total(Jobs, f) + g[j] - f[j] /\ Total(Jobs, f) \in Nat
  BY <1>1, <1>2, <1>3, <1>4, TotalChange
<1>8. f[j] \in Nat
  BY <1>2
<1>9. Total(Jobs, g) <= ledger'
  BY <1>3, <1>5, <1>6, <1>7, <1>8
<1>10. QED
  BY <1>9 DEF EarnedCovered, g

\* One good step keeps the invariant of every job and of their total.
LEMMA NextIInv == IInv /\ [Next]_vars => IInv'
<1> SUFFICES ASSUME IInv, [Next]_vars PROVE IInv'
  OBVIOUS
<1>1. ASSUME NEW j \in Jobs, Step(j) PROVE IInv'
  <2>1. Good(j)
    BY <1>1, StepGood DEF IInv
  <2>2. TypeOK'
    BY <2>1 DEF IInv, TypeOK, Good
  <2>3. ASSUME NEW i \in Jobs PROVE JobInv(i, job'[i])
    <3>1. CASE i = j
      BY <2>1, <3>1 DEF Good
    <3>2. CASE i # j
      <4>1. job'[i] = job[i]
        BY <2>1, <3>2 DEF Good, IInv, TypeOK
      <4>2. JobInv(i, job[i])
        BY DEF IInv
      <4>3. QED
        BY <4>1, <4>2
    <3>3. QED
      BY <3>1, <3>2
  <2>4. EarnedCovered'
    BY <2>1, GoodCovered DEF IInv
  <2>5. (\A i \in Jobs : JobInv(i, job[i]))'
    BY <2>3
  <2>6. QED
    BY <2>2, <2>4, <2>5 DEF IInv
<1>2. CASE UNCHANGED vars
  <2>1. TypeOK'
    BY <1>2 DEF IInv, TypeOK, vars
  <2>2. (\A i \in Jobs : JobInv(i, job[i]))'
    BY <1>2 DEF IInv, vars
  <2>3. EarnedCovered'
    BY <1>2 DEF IInv, EarnedCovered, Billed, vars
  <2>4. QED
    BY <2>1, <2>2, <2>3 DEF IInv
<1>3. CASE Over
  BY <1>2, <1>3 DEF Over
<1>4. QED
  BY <1>1, <1>2, <1>3 DEF Next

\* Every job and the ledger keep their invariant for ever.
THEOREM Invariance == Spec => []IInv
BY InitIInv, NextIInv, PTL DEF Spec

\* accept_spend is the only writer of the ledger and each of its callers hands
\* it the amount it then credits: whatever tickets come late, come twice or are
\* overtaken by another job's, what the worker counts as earned is covered by
\* the highest cumulative it holds.
THEOREM EarningsCovered == Spec => []EarnedCovered
<1>1. IInv => EarnedCovered
  BY DEF IInv
<1>2. QED
  BY <1>1, Invariance, PTL

\* The forwarder and request_top_up: while a priced job generates, it has
\* streamed no token its bond does not prepay.
THEOREM StreamsPrepaid == Spec => []StreamPrepaid
<1>1. IInv => StreamPrepaid
  <2> SUFFICES ASSUME IInv, NEW j \in Priced, job[j].pc \in {"running", "topup"}
               PROVE  Within(j)
    BY DEF StreamPrepaid
  <2>1. j \in Jobs
    BY JobAssumption
  <2>2. QED
    BY <2>1 DEF IInv, JobInv, Within
<1>2. QED
  BY <1>1, Invariance, PTL

\* The biased select of the permit: a job told to stop while it waits for the
\* GPU never gets it.
THEOREM QueuedStops == Spec => []QueuedStopHolds
<1>1. IInv => QueuedStopHolds
  BY DEF IInv, JobInv, QueuedStopHolds
<1>2. QED
  BY <1>1, Invariance, PTL

\* The join of the forwarder before the terminal status is sent: once a job is
\* done or failed, neither its status nor its stream changes.
THEOREM NothingAfterTerminal == Spec => TerminalIsLast
<1>1. ASSUME IInv, [Next]_vars, NEW j \in Jobs, Ended(job[j])
      PROVE  UNCHANGED <<job[j].pc, job[j].sent>>
  <2>1. ASSUME NEW i \in Jobs, Step(i)
        PROVE  UNCHANGED <<job[j].pc, job[j].sent>>
    <3>1. CASE i = j
      <4>1. ~Admission(j) /\ ~Ending(j)
        BY <1>1 DEF Ended, Admission, Ending, Refuse, AdmitFree, TakeBond,
           LockRefused, LockFound, Screened, EndFailed, EndFree, Invoice,
           CapturePaid, CaptureTimeout, Settled, At
      <4>2. ~Running(j) /\ ~ToppingUp(j)
        BY <1>1 DEF Ended, Running, ToppingUp, Start, StopQueued, Produce, Stop,
           Finish, AskTopUp, TopUpStopped, TopUpTimeout, TopUpRefused,
           TopUpPaid, At
      <4>3. ~Forwarding(j)
        BY <1>1 DEF IInv, JobInv, Ended, Forwarding, Forward, ForwardRest, At
      <4>4. PICK cum \in Tickets : Pay(j, cum)
        BY <1>1, <2>1, <3>1, <4>1, <4>2, <4>3 DEF Step, Client, Submit,
           SubmitRefused, Cancel, InFlight, Ended, At
      <4>5. QED
        BY <1>1, <4>4 DEF Pay, Becomes, IInv, TypeOK, Job
    <3>2. CASE i # j
      <4>1. Good(i)
        BY <1>1, <2>1, StepGood DEF IInv
      <4>2. job'[j] = job[j]
        BY <1>1, <3>2, <4>1 DEF Good, IInv, TypeOK
      <4>3. QED
        BY <4>2
    <3>3. QED
      BY <3>1, <3>2
  <2>2. CASE UNCHANGED vars
    BY <2>2 DEF vars
  <2>3. QED
    BY <1>1, <2>1, <2>2 DEF Next, Over
<1>2. IInv /\ [Next]_vars
        => [\A j \in Jobs : Ended(job[j]) =>
               UNCHANGED <<job[j].pc, job[j].sent>>]_vars
  BY <1>1
<1>3. QED
  BY <1>2, Invariance, PTL DEF Spec, TerminalIsLast

\* Every field keeps its type; every budget,
\* ticket and count is a natural number.
THEOREM JobsTypeCorrect == Spec => []TypeOK
<1>1. IInv => TypeOK
  BY DEF IInv
<1>2. QED
  BY <1>1, Invariance, PTL

-----------------------------------------------------------------------------
(* Completions: a result is what its server wrote, and what is streamed starts it *)

\* A completion that is being read.
Call == [named : BOOLEAN, args : Seq(STRING)]
CallTable == [Indices -> Call]
TokenSeq == Seq(Tokens)
Runs == [text : TokenSeq, think : Nat, calls : CallTable, error : BOOLEAN,
         finish : {"none", "stop"}, usage : Nat]

\* Each call has its name and its arguments from its own parts, in their order.
CallsTold(r, fs) ==
    \A i \in Indices :
        /\ r.calls[i].named <=> \E k \in DOMAIN fs : IsPart(fs[k], i) /\ fs[k].name
        /\ r.calls[i].args = Arguments(fs, i)
Faultless(fs) == \A k \in DOMAIN fs : fs[k].kind # "error"

\* What reading the frames has made of them, unless one of them was an error.
Told(r, fs) == ~r.error => Faultless(fs) /\ r.text = Contents(fs) /\ CallsTold(r, fs)

\* One frame more is its tokens more of content.
LEMMA ContentsMore ==
    ASSUME NEW fs \in Seq(Frames), NEW f \in Frames
    PROVE  /\ Contents(fs) \in Seq(Tokens)
           /\ Contents(Append(fs, f)) = Contents(fs) \o (IF f.kind = "content" THEN f.tokens ELSE <<>>)
<1> DEFINE c(g) == IF g.kind = "content" THEN g.tokens ELSE <<>>
           p == [k \in DOMAIN fs |-> c(fs[k])]
           q == [k \in DOMAIN Append(fs, f) |-> c(Append(fs, f)[k])]
<1>1. \A g \in Frames : c(g) \in Seq(Tokens)
  BY BackendAssumption
<1> HIDE DEF c
<1>2. p \in Seq(Seq(Tokens))
  <2>1. \A k \in 1..Len(fs) : c(fs[k]) \in Seq(Tokens)
    BY <1>1
  <2>2. DOMAIN fs = 1..Len(fs) /\ Len(fs) \in Nat
    OBVIOUS
  <2> QED  BY <2>1, <2>2
<1>3. q = Append(p, c(f))
  <2> DEFINE w == Append(p, c(f))
  <2>1. /\ DOMAIN fs = 1..Len(fs) /\ Len(fs) \in Nat /\ DOMAIN Append(fs, f) = 1..(Len(fs) + 1)
        /\ Append(fs, f)[Len(fs) + 1] = f /\ \A k \in 1..Len(fs) : Append(fs, f)[k] = fs[k]
    OBVIOUS
  <2>2. p \in Seq(Seq(Tokens)) /\ Len(p) = Len(fs) /\ c(f) \in Seq(Tokens)
    BY <1>1, <1>2, <2>1
  <2>3. w \in Seq(Seq(Tokens)) /\ Len(w) = Len(fs) + 1 /\ w[Len(fs) + 1] = c(f) /\ \A k \in 1..Len(fs) : w[k] = p[k]
    <3> HIDE DEF p
    <3> QED  BY <2>2
  <2>4. w = [k \in 1..(Len(fs) + 1) |-> w[k]]
    <3> HIDE DEF w
    <3> QED  BY <2>3
  <2> HIDE DEF w
  <2>5. \A k \in 1..(Len(fs) + 1) : w[k] = c(Append(fs, f)[k])
    BY <2>1, <2>3
  <2>6. q = w
    BY <2>1, <2>4, <2>5
  <2> QED  BY <2>6 DEF w
<1>4. Contents(fs) = FlattenSeq(p) /\ Contents(Append(fs, f)) = FlattenSeq(q)
  BY DEF Contents, c
<1>5. c(f) \in Seq(Tokens)
  BY <1>1
<1> HIDE DEF p, q
<1>6. FlattenSeq(p) \in Seq(Tokens) /\ FlattenSeq(Append(p, c(f))) = FlattenSeq(p) \o c(f)
  BY <1>2, <1>5, FlattenType, FlattenMore
<1> QED  BY <1>3, <1>4, <1>6 DEF c

\* One frame more is its arguments more of the call it is a part of.
LEMMA ArgumentsMore ==
    ASSUME NEW fs \in Seq(Frames), NEW f \in Frames, NEW n \in Indices
    PROVE  /\ Arguments(fs, n) \in Seq(STRING)
           /\ Arguments(Append(fs, f), n) = Arguments(fs, n) \o (IF IsPart(f, n) THEN f.args ELSE <<>>)
<1> DEFINE c(g) == IF IsPart(g, n) THEN g.args ELSE <<>>
           p == [k \in DOMAIN fs |-> c(fs[k])]
           q == [k \in DOMAIN Append(fs, f) |-> c(Append(fs, f)[k])]
<1>1. \A g \in Frames : c(g) \in Seq(STRING)
  <2>1. \A g \in Frames : g.args \in Seq(STRING)
    BY BackendAssumption
  <2>2. <<>> \in Seq(STRING)
    OBVIOUS
  <2> QED  BY <2>1, <2>2, Zenon
<1> HIDE DEF c
<1>2. p \in Seq(Seq(STRING))
  <2>1. \A k \in 1..Len(fs) : c(fs[k]) \in Seq(STRING)
    BY <1>1
  <2>2. DOMAIN fs = 1..Len(fs) /\ Len(fs) \in Nat
    OBVIOUS
  <2> QED  BY <2>1, <2>2
<1>3. q = Append(p, c(f))
  <2> DEFINE w == Append(p, c(f))
  <2>1. /\ DOMAIN fs = 1..Len(fs) /\ Len(fs) \in Nat /\ DOMAIN Append(fs, f) = 1..(Len(fs) + 1)
        /\ Append(fs, f)[Len(fs) + 1] = f /\ \A k \in 1..Len(fs) : Append(fs, f)[k] = fs[k]
    OBVIOUS
  <2>2. p \in Seq(Seq(STRING)) /\ Len(p) = Len(fs) /\ c(f) \in Seq(STRING)
    BY <1>1, <1>2, <2>1
  <2>3. w \in Seq(Seq(STRING)) /\ Len(w) = Len(fs) + 1 /\ w[Len(fs) + 1] = c(f) /\ \A k \in 1..Len(fs) : w[k] = p[k]
    <3> HIDE DEF p
    <3> QED  BY <2>2
  <2>4. w = [k \in 1..(Len(fs) + 1) |-> w[k]]
    <3> HIDE DEF w
    <3> QED  BY <2>3
  <2> HIDE DEF w
  <2>5. \A k \in 1..(Len(fs) + 1) : w[k] = c(Append(fs, f)[k])
    BY <2>1, <2>3
  <2>6. q = w
    BY <2>1, <2>4, <2>5
  <2> QED  BY <2>6 DEF w
<1>4. Arguments(fs, n) = FlattenSeq(p) /\ Arguments(Append(fs, f), n) = FlattenSeq(q)
  BY DEF Arguments, c
<1>5. c(f) \in Seq(STRING)
  BY <1>1
<1> HIDE DEF p, q
<1>6. FlattenSeq(p) \in Seq(STRING) /\ FlattenSeq(Append(p, c(f))) = FlattenSeq(p) \o c(f)
  BY <1>2, <1>5, FlattenType, FlattenMore
<1> QED  BY <1>3, <1>4, <1>6 DEF c

\* An error stays one of the frames.
LEMMA FaultlessMore ==
    ASSUME NEW fs \in Seq(Frames), NEW f \in Frames
    PROVE  Faultless(Append(fs, f)) <=> Faultless(fs) /\ f.kind # "error"
<1>1. /\ DOMAIN fs = 1..Len(fs) /\ Len(fs) \in Nat /\ DOMAIN Append(fs, f) = 1..(Len(fs) + 1)
      /\ Append(fs, f)[Len(fs) + 1] = f /\ \A k \in 1..Len(fs) : Append(fs, f)[k] = fs[k]
  OBVIOUS
<1>2. Faultless(Append(fs, f)) => Faultless(fs) /\ f.kind # "error"
  BY <1>1 DEF Faultless
<1>3. ASSUME Faultless(fs), f.kind # "error" PROVE Faultless(Append(fs, f))
  BY <1>1, <1>3 DEF Faultless
<1> QED  BY <1>2, <1>3

\* A call has its name once one of its parts told it.
LEMMA NamedMore ==
    ASSUME NEW fs \in Seq(Frames), NEW f \in Frames, NEW i
    PROVE  (\E k \in DOMAIN Append(fs, f) : IsPart(Append(fs, f)[k], i) /\ Append(fs, f)[k].name)
             <=> (\E k \in DOMAIN fs : IsPart(fs[k], i) /\ fs[k].name) \/ (IsPart(f, i) /\ f.name)
<1>1. /\ DOMAIN fs = 1..Len(fs) /\ Len(fs) \in Nat /\ DOMAIN Append(fs, f) = 1..Len(fs) \cup {Len(fs) + 1}
      /\ Append(fs, f)[Len(fs) + 1] = f /\ \A k \in 1..Len(fs) : Append(fs, f)[k] = fs[k]
  OBVIOUS
<1> QED  BY <1>1

\* take_frame (vllm.rs) reads one frame as it was meant.
LEMMA TellsOn ==
    ASSUME NEW r \in Runs, NEW fs \in Seq(Frames), NEW f \in Frames, Told(r, fs)
    PROVE  TakeFrame(r, f) \in Runs /\ Told(TakeFrame(r, f), Append(fs, f))
<1>1. f.tokens \in Seq(Tokens) /\ f.index \in Nat /\ f.index \in Indices /\ f.name \in BOOLEAN /\ f.args \in Seq(STRING)
  BY BackendAssumption DEF Indices
<1>2. CASE r.error
  BY <1>2 DEF TakeFrame, Told
<1>3. CASE ~r.error
  <2>1. Faultless(fs) /\ r.text = Contents(fs) /\ CallsTold(r, fs)
    BY <1>3 DEF Told
  <2>2. Contents(Append(fs, f)) = r.text \o (IF f.kind = "content" THEN f.tokens ELSE <<>>)
    BY <2>1, ContentsMore
  <2>3. r.text \in Seq(Tokens) /\ r.text \o <<>> = r.text
    BY DEF Runs, TokenSeq
  <2>4. ASSUME NEW i \in Indices
        PROVE  Arguments(Append(fs, f), i) = r.calls[i].args \o (IF IsPart(f, i) THEN f.args ELSE <<>>)
    <3>1. r.calls[i].args = Arguments(fs, i)
      BY <2>1 DEF CallsTold
    <3> QED  BY <3>1, ArgumentsMore
  <2>5. \A i \in Indices : r.calls[i].args \in Seq(STRING) /\ r.calls[i].args \o <<>> = r.calls[i].args
    <3>1. r.calls \in CallTable
      BY DEF Runs
    <3>2. \A i \in Indices : r.calls[i].args \in Seq(STRING)
      BY <3>1 DEF CallTable, Call
    <3> QED  BY <3>2
  <2> DEFINE t == TakeFrame(r, f)
             gs == Append(fs, f)
  <2>6. CASE f.kind # "call"
    <3>1. \A i \in Indices : ~IsPart(f, i)
      BY <2>6 DEF IsPart
    <3>2. t \in Runs /\ t.calls = r.calls
      <4>1. CASE f.kind = "content"
        <5>1. PICK x \in TokenSeq : x = r.text \o f.tokens
          <6>1. PICK a \in Seq(Tokens), b \in Seq(Tokens) : a = r.text /\ b = f.tokens
            BY <1>1, <2>3
          <6>2. a \o b \in Seq(Tokens)
            OBVIOUS
          <6> QED  BY <6>1, <6>2 DEF TokenSeq
        <5>2. t = [r EXCEPT !.text = x]
          BY <1>3, <4>1, <5>1 DEF TakeFrame
        <5> QED  BY <5>2 DEF Runs
      <4>2. CASE f.kind = "think"
        <5>1. PICK x \in Nat : x = r.think + 1
          BY DEF Runs
        <5>2. t = [r EXCEPT !.think = x]
          BY <1>3, <4>2, <5>1 DEF TakeFrame
        <5> QED  BY <5>2 DEF Runs
      <4>3. CASE f.kind = "finish"
        BY <1>3, <4>3 DEF TakeFrame, Runs
      <4>4. CASE f.kind = "usage"
        BY <1>1, <1>3, <4>4 DEF TakeFrame, Runs
      <4>5. CASE f.kind = "error"
        BY <1>3, <4>5 DEF TakeFrame, Runs
      <4>6. CASE f.kind \notin {"content", "think", "finish", "usage", "error"}
        BY <1>3, <2>6, <4>6 DEF TakeFrame
      <4> QED  BY <4>1, <4>2, <4>3, <4>4, <4>5, <4>6
    <3>3. CASE f.kind = "error"
      <4>1. t.error
        BY <1>3, <3>3 DEF TakeFrame, Runs
      <4> QED  BY <3>2, <4>1 DEF Told
    <3>4. CASE f.kind # "error"
      <4>1. t.text = Contents(gs)
        BY <1>3, <2>2, <2>3, <2>6, <3>4 DEF TakeFrame, Runs
      <4>2. CallsTold(t, gs)
        <5> SUFFICES ASSUME NEW i \in Indices
                     PROVE  /\ t.calls[i].named <=> \E k \in DOMAIN gs : IsPart(gs[k], i) /\ gs[k].name
                            /\ t.calls[i].args = Arguments(gs, i)
          BY DEF CallsTold
        <5>1. t.calls[i].named <=> \E k \in DOMAIN gs : IsPart(gs[k], i) /\ gs[k].name
          BY <2>1, <3>1, <3>2, NamedMore DEF CallsTold
        <5>2. t.calls[i].args = Arguments(gs, i)
          BY <2>4, <2>5, <3>1, <3>2
        <5> QED  BY <5>1, <5>2
      <4>3. Faultless(gs)
        BY <2>1, <3>4, FaultlessMore
      <4> QED  BY <3>2, <4>1, <4>2, <4>3 DEF Told
    <3> QED  BY <3>3, <3>4
  <2>7. CASE f.kind = "call"
    <3> DEFINE n == f.index
    <3>1. \A i \in Indices : IsPart(f, i) <=> i = n
      BY <2>7 DEF IsPart
    <3>2. t = [r EXCEPT !.calls = Part(r.calls, f)]
      BY <1>3, <2>7 DEF TakeFrame
    <3>3. r.calls \in [Indices -> Call] /\ r.calls[n] \in Call /\ n \in Indices
      BY <1>1 DEF Runs, CallTable
    <3>4. PICK p : p = Part(r.calls, f)
      OBVIOUS
    <3>5. p[n].args = r.calls[n].args \o f.args /\ (p[n].named <=> r.calls[n].named \/ f.name)
      BY <3>3, <3>4 DEF Part, Call
    <3>6. p \in CallTable /\ \A i \in Indices \ {n} : p[i] = r.calls[i]
      <4>1. PICK told \in Seq(STRING) : told = r.calls[n].args \o f.args
        <5>1. r.calls[n].args \in Seq(STRING) /\ f.args \in Seq(STRING)
          <6>1. r.calls[n].args \in Seq(STRING)
            BY <3>3 DEF Call
          <6> QED  BY <1>1, <6>1
        <5>2. PICK S : S = STRING
          OBVIOUS
        <5>3. PICK a \in Seq(S), b \in Seq(S) : a = r.calls[n].args /\ b = f.args
          BY <5>1, <5>2
        <5>4. a \o b \in Seq(S)
          OBVIOUS
        <5> QED  BY <5>2, <5>3, <5>4
      <4>2. PICK called \in BOOLEAN : called = (r.calls[n].named \/ f.name)
        OBVIOUS
      <4>3. p = [r.calls EXCEPT ![n] = [@ EXCEPT !.named = called, !.args = told]]
        BY <3>3, <3>4, <4>1, <4>2 DEF Part, Call
      <4>4. [r.calls[n] EXCEPT !.named = called, !.args = told] \in Call
        BY <3>3 DEF Call
      <4> QED  BY <3>3, <4>3, <4>4 DEF CallTable
    <3>7. t \in Runs /\ t.calls = p /\ t.text = r.text
      <4>1. t = [r EXCEPT !.calls = p]
        BY <3>2, <3>4
      <4>2. t.calls = p /\ t.text = r.text
        BY <4>1 DEF Runs
      <4> QED  BY <3>6, <4>1, <4>2 DEF Runs
    <3>8. t.text = Contents(gs)
      BY <2>2, <2>3, <2>7, <3>7
    <3>9. Faultless(gs)
      BY <2>1, <2>7, FaultlessMore
    <3>10. ASSUME NEW i \in Indices
           PROVE  /\ t.calls[i].named <=> \E k \in DOMAIN gs : IsPart(gs[k], i) /\ gs[k].name
                  /\ t.calls[i].args = Arguments(gs, i)
      <4>1. /\ r.calls[i].named <=> \E k \in DOMAIN fs : IsPart(fs[k], i) /\ fs[k].name
            /\ r.calls[i].args = Arguments(fs, i)
        BY <2>1 DEF CallsTold
      <4>2. (\E k \in DOMAIN gs : IsPart(gs[k], i) /\ gs[k].name)
              <=> (\E k \in DOMAIN fs : IsPart(fs[k], i) /\ fs[k].name) \/ (IsPart(f, i) /\ f.name)
        BY NamedMore
      <4>3. CASE i = n
        <5>1. t.calls[i].args = Arguments(gs, i)
          BY <2>4, <3>1, <3>5, <3>7, <4>3
        <5>2. t.calls[i].named <=> r.calls[i].named \/ f.name
          BY <3>5, <3>7, <4>3, Zenon
        <5> QED  BY <3>1, <4>1, <4>2, <4>3, <5>1, <5>2, Zenon
      <4>4. CASE i # n
        <5>1. t.calls[i] = r.calls[i] /\ ~IsPart(f, i)
          BY <3>1, <3>6, <3>7, <4>4
        <5>2. t.calls[i].args = Arguments(gs, i)
          BY <2>4, <2>5, <5>1
        <5> QED  BY <4>1, <4>2, <5>1, <5>2, Zenon
      <4> QED  BY <4>3, <4>4
    <3> HIDE DEF t, gs
    <3>11. CallsTold(t, gs)
      BY <3>10 DEF CallsTold
    <3>12. t \in Runs /\ Told(t, gs)
      BY <3>7, <3>8, <3>9, <3>11 DEF Told
    <3> QED  BY <3>12 DEF t, gs
  <2> QED  BY <2>6, <2>7
<1> QED  BY <1>2, <1>3

(* What is streamed *)
\* Where a text opens markup: a tag, or one whose halves two frames brought.
Opens(text) == {p \in DOMAIN text : text[p] = "open" \/ Cut(text, p)}
FirstOpen(text) == IF Opens(text) = {} THEN Len(text) + 1 ELSE Min(Opens(text))

\* It is a position of the text or the one after, and nothing opens before it.
LEMMA FirstOpenIs ==
    ASSUME NEW text \in Seq(Tokens)
    PROVE  /\ FirstOpen(text) \in 1..(Len(text) + 1)
           /\ \A p \in 1..(FirstOpen(text) - 1) : p \in DOMAIN text /\ p \notin Opens(text)
           /\ FirstOpen(text) <= Len(text) => FirstOpen(text) \in Opens(text)
<1>0. Len(text) \in Nat /\ DOMAIN text = 1..Len(text)
  OBVIOUS
<1>1. CASE Opens(text) = {}
  <2>1. FirstOpen(text) = Len(text) + 1
    BY <1>1 DEF FirstOpen
  <2> QED  BY <1>0, <1>1, <2>1
<1>2. CASE Opens(text) # {}
  <2>1. PICK S : S = Opens(text)
    OBVIOUS
  <2>2. S \in SUBSET (1..Len(text)) /\ S # {}
    BY <1>0, <1>2, <2>1 DEF Opens
  <2>3. Min(S) \in S /\ \A y \in S : Min(S) <= y
    <3>0. Len(text) \in Int
      OBVIOUS
    <3>1. PICK n \in Int : n = Len(text)
      BY <3>0
    <3>2. 1 \in Int /\ S \in SUBSET (1..n)
      BY <2>2, <3>1
    <3> QED  BY <2>2, <3>1, <3>2, LeastOf
  <2>4. FirstOpen(text) = Min(S)
    BY <1>2, <2>1 DEF FirstOpen
  <2> QED  BY <1>0, <2>1, <2>2, <2>3, <2>4
<1> QED  BY <1>1, <1>2

\* A position is the first open one if it is open and none before it is.
LEMMA FirstOpenMeans ==
    ASSUME NEW text \in Seq(Tokens), NEW p \in 1..(Len(text) + 1),
           \A q \in 1..(p - 1) : q \notin Opens(text), p <= Len(text) => p \in Opens(text)
    PROVE  FirstOpen(text) = p
<1>1. Len(text) \in Nat /\ FirstOpen(text) \in Nat /\ p \in Nat
  BY FirstOpenIs
<1>2. ~(FirstOpen(text) < p)
  BY <1>1, FirstOpenIs
<1>3. ~(p < FirstOpen(text))
  BY <1>1, FirstOpenIs
<1> QED  BY <1>1, <1>2, <1>3

\* Joining parts is associative.
LEMMA PartsJoin ==
    ASSUME NEW a \in Seq(Seq(Tokens)), NEW b \in Seq(Seq(Tokens)), NEW c \in Seq(Seq(Tokens))
    PROVE  a \o (b \o c) = (a \o b) \o c
BY ConcatAssociative, SMTT(30)

\* Making cut tags whole leaves what is before the first one as it was, and an
\* opening tag after that.
LEMMA JoinedStarts ==
    ASSUME NEW text \in Seq(Tokens), NEW p, p = FirstOpen(text)
    PROVE  /\ Joined(text) \in Seq(Tokens)
           /\ SubSeq(Joined(text), 1, p - 1) = SubSeq(text, 1, p - 1)
           /\ p = Len(text) + 1 => Joined(text) = text
           /\ p <= Len(text) => Len(Joined(text)) >= p /\ Joined(text)[p] = "open"
<1> DEFINE piece(k) == IF Cut(text, k) THEN <<>> ELSE IF Cut(text, k - 1) THEN <<"open">> ELSE <<text[k]>>
           parts == [k \in DOMAIN text |-> piece(k)]
<1>0. Len(text) \in Nat /\ DOMAIN text = 1..Len(text) /\ p \in 1..(Len(text) + 1)
  BY FirstOpenIs
<1>1. \A k \in 1..Len(text) : text[k] \in Tokens /\ piece(k) \in Seq(Tokens)
  <2>1. <<>> \in Seq(Tokens) /\ <<"open">> \in Seq(Tokens)
    BY DEF Tokens
  <2>2. \A k \in 1..Len(text) : text[k] \in Tokens /\ <<text[k]>> \in Seq(Tokens)
    OBVIOUS
  <2> QED  BY <2>1, <2>2
<1> HIDE DEF piece
<1>2. parts \in Seq(Seq(Tokens)) /\ Len(parts) = Len(text) /\ \A k \in 1..Len(text) : parts[k] = piece(k)
  BY <1>0, <1>1
<1>3. Joined(text) = FlattenSeq(parts)
  BY DEF Joined, piece
<1> HIDE DEF parts
<1>4. Joined(text) \in Seq(Tokens)
  BY <1>2, <1>3, FlattenType
<1>5. \A k \in 1..(p - 1) : parts[k] = <<text[k]>>
  <2> SUFFICES ASSUME NEW k \in 1..(p - 1) PROVE parts[k] = <<text[k]>>
    OBVIOUS
  <2>1. k \in 1..Len(text) /\ ~Cut(text, k)
    BY <1>0, FirstOpenIs DEF Opens
  <2>2. ~Cut(text, k - 1)
    <3>1. CASE k = 1
      BY <1>0, <3>1 DEF Cut
    <3>2. CASE k # 1
      <4>1. k - 1 \in 1..(p - 1)
        BY <1>0, <3>2
      <4> QED  BY <1>0, <4>1, FirstOpenIs DEF Opens
    <3> QED  BY <3>1, <3>2
  <2> QED  BY <1>2, <2>1, <2>2 DEF piece
<1>6. FlattenSeq(SubSeq(parts, 1, p - 1)) = SubSeq(text, 1, p - 1)
  <2>1. p - 1 \in Nat /\ p - 1 <= Len(text) /\ p - 1 <= Len(parts)
    BY <1>0, <1>2
  <2> QED  BY <1>2, <1>5, <2>1, FlattenSingles
<1>7. CASE p = Len(text) + 1
  <2>1. SubSeq(parts, 1, p - 1) = parts /\ SubSeq(text, 1, p - 1) = text
    BY <1>0, <1>2, <1>7
  <2>2. Joined(text) = text
    BY <1>3, <1>6, <2>1
  <2> QED  BY <1>0, <1>4, <1>7, <2>2
<1>8. CASE p <= Len(text)
  <2> DEFINE l == SubSeq(parts, 1, p - 1)
             rest == SubSeq(parts, p, Len(parts))
             start == SubSeq(text, 1, p - 1)
  <2>1. l \in Seq(Seq(Tokens)) /\ rest \in Seq(Seq(Tokens)) /\ parts = l \o rest
    <3>1. p \in 1..(Len(parts) + 1)
      BY <1>0, <1>2
    <3> QED  BY <1>2, <3>1, SplitAt
  <2>2. PICK tl \in Seq(Tokens) : FlattenSeq(rest) = <<"open">> \o tl
    <3>0. <<"open">> \in Seq(Tokens) /\ <<>> \in Seq(Tokens)
      BY DEF Tokens
    <3>1. CASE Cut(text, p)
      <4> DEFINE after == SubSeq(parts, p + 2, Len(parts))
      <4>1. p + 1 \in 1..Len(text) /\ parts[p] = <<>> /\ parts[p + 1] = <<"open">>
        <5>1. p + 1 \in 1..Len(text) /\ p \in 1..Len(text)
          BY <1>0, <3>1 DEF Cut
        <5>2. ~Cut(text, p + 1)
          BY <1>0, <3>1, <5>1 DEF Cut
        <5>3. p + 1 - 1 = p
          BY <1>0
        <5>4. parts[p] = <<>>
          BY <1>2, <3>1, <5>1 DEF piece
        <5>5. piece(p + 1) = <<"open">>
          <6>1. PICK q : q = p + 1
            OBVIOUS
          <6>2. ~Cut(text, q) /\ q - 1 = p
            <7>1. ~Cut(text, q)
              BY <5>2, <6>1, Zenon
            <7>2. q - 1 = p
              BY <1>0, <6>1
            <7> QED  BY <7>1, <7>2
          <6>3. Cut(text, q - 1)
            BY <3>1, <6>2
          <6>4. piece(q) = <<"open">>
            BY <6>2, <6>3 DEF piece
          <6> QED  BY <6>1, <6>4
        <5> QED  BY <1>2, <5>1, <5>4, <5>5
      <4>2. after \in Seq(Seq(Tokens)) /\ rest = <<<<>>, <<"open">>>> \o after
        <5>1. p \in 1..Len(parts) /\ p + 1 \in 1..Len(parts) /\ p + 1 + 1 = p + 2
          BY <1>0, <1>2, <1>8, <4>1
        <5>2. after \in Seq(Seq(Tokens))
          BY <1>2, <5>1
        <5>3. rest = <<parts[p]>> \o SubSeq(parts, p + 1, Len(parts))
          BY <1>2, <5>1, SplitFirst
        <5>4. SubSeq(parts, p + 1, Len(parts)) = <<parts[p + 1]>> \o SubSeq(parts, p + 1 + 1, Len(parts))
          BY <1>2, <5>1, SplitFirst
        <5>5. rest = <<<<>>>> \o (<<<<"open">>>> \o after)
          BY <4>1, <5>1, <5>3, <5>4
        <5> HIDE DEF after
        <5>6. PICK a \in Seq(Seq(Tokens)), b \in Seq(Seq(Tokens)) : a = <<<<>>>> /\ b = <<<<"open">>>>
          <6>1. PICK x \in Seq(Tokens), y \in Seq(Tokens) : x = <<>> /\ y = <<"open">>
            BY <3>0
          <6>2. <<x>> \in Seq(Seq(Tokens)) /\ <<y>> \in Seq(Seq(Tokens))
            OBVIOUS
          <6> QED  BY <6>1, <6>2
        <5>7. a \o (b \o after) = (a \o b) \o after
          <6>1. PICK c \in Seq(Seq(Tokens)) : c = after
            BY <5>2
          <6>2. a \o (b \o c) = (a \o b) \o c
            BY PartsJoin
          <6> QED  BY <6>1, <6>2
        <5>8. a \o b = <<<<>>, <<"open">>>>
          <6>1. PICK x \in Seq(Tokens), y \in Seq(Tokens) : x = <<>> /\ y = <<"open">>
            BY <3>0
          <6>2. <<x>> \o <<y>> = <<x, y>>
            BY PairOf
          <6> QED  BY <5>6, <6>1, <6>2
        <5> QED  BY <5>2, <5>5, <5>6, <5>7, <5>8
      <4>3. <<<<>>, <<"open">>>> = Append(<<<<>>>>, <<"open">>) /\ <<<<>>>> \in Seq(Seq(Tokens))
            /\ <<<<>>, <<"open">>>> \in Seq(Seq(Tokens))
        BY <3>0
      <4>4. FlattenSeq(Append(<<<<>>>>, <<"open">>)) = FlattenSeq(<<<<>>>>) \o <<"open">>
        BY <3>0, <4>3, FlattenMore
      <4>5. FlattenSeq(<<<<>>>>) = <<>> /\ <<>> \o <<"open">> = <<"open">>
        <5>1. PICK x \in Seq(Tokens) : x = <<>>
          BY <3>0
        <5>2. FlattenSeq(<<x>>) = x
          BY FlattenOne
        <5>3. <<>> \o <<"open">> = <<"open">>
          OBVIOUS
        <5> QED  BY <5>1, <5>2, <5>3
      <4> HIDE DEF after, rest
      <4>6. FlattenSeq(<<<<>>, <<"open">>>> \o after) = FlattenSeq(<<<<>>, <<"open">>>>) \o FlattenSeq(after)
        BY <4>2, <4>3, FlattenBoth
      <4> QED  BY <4>2, <4>3, <4>4, <4>5, <4>6, FlattenType
    <3>2. CASE ~Cut(text, p)
      <4> DEFINE after == SubSeq(parts, p + 1, Len(parts))
      <4>1. parts[p] = <<"open">>
        <5>1. p \in 1..Len(text) /\ text[p] = "open"
          BY <1>0, <1>8, <3>2, FirstOpenIs DEF Opens
        <5>2. CASE Cut(text, p - 1)
          BY <1>2, <3>2, <5>1, <5>2 DEF piece
        <5>3. CASE ~Cut(text, p - 1)
          BY <1>2, <3>2, <5>1, <5>3 DEF piece
        <5> QED  BY <5>2, <5>3
      <4>2. after \in Seq(Seq(Tokens)) /\ rest = <<<<"open">>>> \o after
        <5>1. p \in 1..Len(parts)
          BY <1>0, <1>2, <1>8
        <5>2. after \in Seq(Seq(Tokens))
          BY <1>2, <5>1
        <5>3. rest = <<parts[p]>> \o SubSeq(parts, p + 1, Len(parts))
          BY <1>2, <5>1, SplitFirst
        <5> QED  BY <4>1, <5>2, <5>3
      <4>3. <<<<"open">>>> \in Seq(Seq(Tokens)) /\ FlattenSeq(<<<<"open">>>>) = <<"open">>
        <5>1. PICK x \in Seq(Tokens) : x = <<"open">>
          BY <3>0
        <5>2. FlattenSeq(<<x>>) = x /\ <<x>> \in Seq(Seq(Tokens))
          BY FlattenOne
        <5> QED  BY <5>1, <5>2
      <4> HIDE DEF after, rest
      <4>4. FlattenSeq(<<<<"open">>>> \o after) = FlattenSeq(<<<<"open">>>>) \o FlattenSeq(after)
        BY <4>2, <4>3, FlattenBoth
      <4> QED  BY <4>2, <4>3, <4>4, FlattenType
    <3> QED  BY <3>1, <3>2
  <2>3. FlattenSeq(l \o rest) = FlattenSeq(l) \o FlattenSeq(rest)
    <3> HIDE DEF l, rest
    <3> QED  BY <2>1, FlattenBoth
  <2>4. Joined(text) = start \o (<<"open">> \o tl)
    <3>1. FlattenSeq(l) = start
      BY <1>6
    <3> HIDE DEF l, rest, start
    <3> QED  BY <1>3, <2>1, <2>2, <2>3, <3>1
  <2>5. start \in Seq(Tokens) /\ Len(start) = p - 1
    BY <1>0, <1>8
  <2>6. <<"open">> \o tl \in Seq(Tokens) /\ Len(<<"open">> \o tl) >= 1 /\ (<<"open">> \o tl)[1] = "open"
    BY DEF Tokens
  <2> HIDE DEF start
  <2>7. PICK u \in Seq(Tokens) : u = <<"open">> \o tl
    BY <2>6
  <2>8. Len(start \o u) >= p /\ (start \o u)[p] = "open" /\ SubSeq(start \o u, 1, p - 1) = start
    <3>1. Len(u) >= 1 /\ u[1] = "open"
      BY <2>6, <2>7
    <3>2. /\ start \o u \in Seq(Tokens) /\ Len(start \o u) = Len(start) + Len(u)
          /\ \A i \in 1 .. Len(start) + Len(u) :
               (start \o u)[i] = IF i <= Len(start) THEN start[i] ELSE u[i - Len(start)]
      BY <2>5, ConcatProperties
    <3>3. Len(u) \in Nat /\ p \in 1..(Len(start) + Len(u)) /\ p - Len(start) = 1 /\ ~(p <= Len(start))
      BY <1>0, <2>5, <3>1
    <3>4. (start \o u)[p] = "open"
      BY <3>1, <3>2, <3>3
    <3>5. SubSeq(start \o u, 1, p - 1) = start
      <4>1. PICK n \in Nat : n = p - 1
        BY <1>0
      <4>2. SubSeq(start \o u, 1, n) \in Seq(Tokens) /\ Len(SubSeq(start \o u, 1, n)) = n
        BY <2>5, <3>2, <4>1
      <4>3. \A i \in 1..n : SubSeq(start \o u, 1, n)[i] = start[i]
        BY <2>5, <3>2, <4>1
      <4> QED  BY <2>5, <4>1, <4>2, <4>3, SeqEqual
    <3>6. Len(start \o u) >= p
      BY <3>2, <3>3
    <3> QED  BY <3>4, <3>5, <3>6
  <2>9. Len(Joined(text)) >= p /\ Joined(text)[p] = "open" /\ SubSeq(Joined(text), 1, p - 1) = start
    BY <2>4, <2>7, <2>8
  <2>10. p # Len(text) + 1
    BY <1>0, <1>8
  <2> QED  BY <1>4, <2>9, <2>10 DEF start
<1> QED  BY <1>0, <1>7, <1>8

\* The markup of a text starts at its first opening tag, whole or cut.
LEMMA MarkupIs ==
    ASSUME NEW text \in Seq(Tokens), NEW t, t = Joined(text), NEW p, p = FirstOpen(text)
    PROVE  /\ t \in Seq(Tokens)
           /\ p <= Len(text) => MarkupStart(t) = p /\ p <= Len(t)
           /\ p = Len(text) + 1 => t = text /\ MarkupStart(t) = Len(t) + 1
           /\ p = Len(text) + 1 => {q \in DOMAIN t : t[q] = "open"} = {}
           /\ p <= Len(text) => p \in {q \in DOMAIN t : t[q] = "open"}
                                /\ Min({q \in DOMAIN t : t[q] = "open"}) = p
<1> DEFINE opens == {q \in DOMAIN t : t[q] = "open"}
<1>1. /\ t \in Seq(Tokens)
      /\ SubSeq(t, 1, p - 1) = SubSeq(text, 1, p - 1)
      /\ p = Len(text) + 1 => t = text
      /\ p <= Len(text) => Len(t) >= p /\ t[p] = "open"
  BY JoinedStarts
<1>2. Len(text) \in Nat /\ Len(t) \in Nat /\ p \in 1..(Len(text) + 1) /\ DOMAIN t = 1..Len(t) /\ DOMAIN text = 1..Len(text)
  BY <1>1, FirstOpenIs
<1>3. \A q \in 1..(p - 1) : text[q] # "open"
  BY FirstOpenIs DEF Opens
<1>4. CASE p = Len(text) + 1
  <2>1. opens = {}
    BY <1>1, <1>2, <1>3, <1>4
  <2>2. MarkupStart(t) = Min({Len(t) + 1})
    BY <2>1 DEF MarkupStart
  <2>3. Min({Len(t) + 1}) = Len(t) + 1
    BY <1>2 DEF Min
  <2>4. ~(p <= Len(text))
    BY <1>2, <1>4
  <2> QED  BY <1>1, <1>4, <2>1, <2>2, <2>3, <2>4
<1>5. CASE p <= Len(text)
  <2>1. \A q \in 1..(p - 1) : t[q] = text[q]
    <3>1. PICK k \in Nat : k = p - 1
      BY <1>2
    <3>2. k <= Len(text) /\ k <= Len(t)
      BY <1>1, <1>2, <1>5, <3>1
    <3>3. \A q \in 1..k : SubSeq(t, 1, k)[q] = t[q]
      BY <1>1, <3>1, <3>2
    <3>4. \A q \in 1..k : SubSeq(text, 1, k)[q] = text[q]
      BY <3>1, <3>2
    <3> QED  BY <1>1, <3>1, <3>3, <3>4
  <2>2. p \in opens
    BY <1>1, <1>2, <1>5
  <2>3. \A q \in opens : p <= q
    <3> SUFFICES ASSUME NEW q \in opens, q < p PROVE FALSE
      BY <1>2
    <3>1. q \in 1..(p - 1) /\ t[q] = "open"
      BY <1>2
    <3> QED  BY <1>3, <2>1, <3>1
  <2>4. PICK S : S = opens
    OBVIOUS
  <2>5. PICK n \in Nat : n = Len(t)
    BY <1>2
  <2>6. S \subseteq 1..n /\ p \in S /\ p \in Int /\ p <= n /\ \A q \in S : p <= q
    BY <1>1, <1>2, <1>5, <2>2, <2>3, <2>4, <2>5
  <2>7. Min(S) = p
    <3>1. S \in SUBSET (1..n) /\ S # {} /\ 1 \in Int /\ n \in Int
      BY <2>6
    <3>2. Min(S) \in S /\ \A y \in S : Min(S) <= y
      BY <3>1, LeastOf
    <3>3. PICK x \in S : x = Min(S)
      BY <3>2
    <3>4. x \in 1..n /\ x <= p /\ p <= x
      BY <2>6, <3>2, <3>3
    <3> QED  BY <2>6, <3>3, <3>4
  <2>8. Min(S \cup {n + 1}) = p
    <3>1. PICK R : R = S \cup {n + 1}
      OBVIOUS
    <3>2. R \in SUBSET (1..(n + 1)) /\ R # {} /\ 1 \in Int /\ n + 1 \in Int /\ p \in R /\ \A q \in R : p <= q
      BY <2>6, <3>1
    <3>3. Min(R) \in R /\ \A y \in R : Min(R) <= y
      BY <3>2, LeastOf
    <3>4. PICK x \in R : x = Min(R)
      BY <3>3
    <3>5. x \in 1..(n + 1) /\ x <= p /\ p <= x
      BY <3>2, <3>3, <3>4
    <3> QED  BY <2>6, <3>1, <3>4, <3>5
  <2>9. MarkupStart(t) = p
    BY <2>4, <2>5, <2>8 DEF MarkupStart
  <2>10. p # Len(text) + 1
    BY <1>2, <1>5
  <2> QED  BY <1>1, <2>2, <2>4, <2>7, <2>9, <2>10
<1> QED  BY <1>2, <1>4, <1>5

\* A text that opens nothing holds no opening tag.
LEMMA NoMarkup ==
    ASSUME NEW text \in Seq(Tokens), NEW t, t = Joined(text), FirstOpen(text) = Len(text) + 1
    PROVE  {q \in DOMAIN t : t[q] = "open"} = {}
BY MarkupIs, ZenonT(30)

\* What a client has been shown of a text: what is before its first opening
\* tag, or that and the half of the tag that went out before the other came.
Sent(s, text) ==
    \/ s = SubSeq(text, 1, FirstOpen(text) - 1)
    \/ /\ FirstOpen(text) <= Len(text) /\ text[FirstOpen(text)] = "half1"
       /\ s = SubSeq(text, 1, FirstOpen(text))

\* The delta of more text adds just what is now known not to be markup.
LEMMA SentMore ==
    ASSUME NEW prev \in Seq(Tokens), NEW t \in Seq(Tokens), Len(prev) <= Len(t),
           \A q \in 1..Len(prev) : t[q] = prev[q], NEW s, Sent(s, prev)
    PROVE  Sent(s \o SubSeq(t, Len(prev) + 1, FirstOpen(t) - 1), t)
<1>0. PICK n \in Nat, m \in Nat, p \in Nat, r \in Nat :
          n = Len(prev) /\ m = Len(t) /\ p = FirstOpen(prev) /\ r = FirstOpen(t)
  BY FirstOpenIs
<1>1. n <= m /\ DOMAIN prev = 1..n /\ DOMAIN t = 1..m /\ p \in 1..(n + 1) /\ r \in 1..(m + 1)
  BY <1>0, FirstOpenIs
<1>2. \A q \in 1..n : t[q] = prev[q]
  BY <1>0
<1>3. \A q \in 1..(n - 1) : q \in Opens(t) <=> q \in Opens(prev)
  <2> TAKE q \in 1..(n - 1)
  <2>1. q \in 1..n /\ q + 1 \in 1..n /\ q \in 1..m /\ q < n /\ q < m
    BY <1>1
  <2>2. t[q] = prev[q] /\ t[q + 1] = prev[q + 1]
    BY <1>2, <2>1
  <2>3. Cut(t, q) <=> Cut(prev, q)
    BY <1>0, <1>1, <2>1, <2>2 DEF Cut
  <2> QED  BY <1>1, <2>1, <2>2, <2>3 DEF Opens
<1>4. n \in 1..n => (n \notin Opens(prev) /\ n \in Opens(t) => t[n] = "half1")
  <2> HAVE n \in 1..n
  <2>1. t[n] = prev[n] /\ n \in 1..m
    BY <1>1, <1>2
  <2> QED  BY <1>1, <2>1 DEF Opens, Cut
<1>5. n \in Opens(prev) => n \in Opens(t)
  <2> HAVE n \in Opens(prev)
  <2>1. n \in 1..n /\ n \in 1..m /\ t[n] = prev[n]
    BY <1>1, <1>2 DEF Opens
  <2>2. ~Cut(prev, n)
    BY <1>0, <1>1 DEF Cut
  <2>3. prev[n] = "open"
    BY <2>2 DEF Opens
  <2> QED  BY <1>1, <2>1, <2>3 DEF Opens
<1>6. CASE p <= n
  <2>1. p \in Opens(prev) /\ \A q \in 1..(p - 1) : q \notin Opens(prev)
    BY <1>0, <1>6, FirstOpenIs
  <2>2. p \in Opens(t)
    <3>1. p \in 1..(n - 1) \/ p = n
      BY <1>1, <1>6
    <3> QED  BY <1>3, <1>5, <2>1, <3>1
  <2>3. \A q \in 1..(p - 1) : q \notin Opens(t)
    <3>1. \A q \in 1..(p - 1) : q \in 1..(n - 1)
      BY <1>1, <1>6
    <3> QED  BY <1>3, <2>1, <3>1
  <2>4. r = p
    <3>1. p \in 1..(Len(t) + 1)
      BY <1>0, <1>1, <1>6
    <3> QED  BY <1>0, <2>2, <2>3, <3>1, FirstOpenMeans
  <2>5. SubSeq(t, n + 1, r - 1) = <<>>
    <3>1. n + 1 \in Int /\ r - 1 \in Int /\ r - 1 < n + 1
      BY <1>1, <1>6, <2>4
    <3> QED  BY <3>1, SubSeqEmpty
  <2>6. ASSUME NEW k \in 0..n PROVE SubSeq(t, 1, k) = SubSeq(prev, 1, k) /\ SubSeq(prev, 1, k) \in Seq(Tokens)
    <3>1. /\ SubSeq(t, 1, k) \in Seq(Tokens) /\ Len(SubSeq(t, 1, k)) = k
          /\ \A q \in 1..k : SubSeq(t, 1, k)[q] = t[q]
      BY <1>0, <1>1
    <3>2. /\ SubSeq(prev, 1, k) \in Seq(Tokens) /\ Len(SubSeq(prev, 1, k)) = k
          /\ \A q \in 1..k : SubSeq(prev, 1, k)[q] = prev[q]
      BY <1>0, <1>1
    <3>3. \A q \in 1..k : SubSeq(t, 1, k)[q] = SubSeq(prev, 1, k)[q]
      BY <1>2, <3>1, <3>2
    <3> QED  BY <3>1, <3>2, <3>3, SeqEqual
  <2>7. s \in Seq(Tokens) /\ Sent(s, t)
    <3>1. p \in 0..n /\ p - 1 \in 0..n /\ p <= m /\ t[p] = prev[p]
      BY <1>1, <1>2, <1>6
    <3>2. CASE s = SubSeq(prev, 1, p - 1)
      <4>1. s = SubSeq(t, 1, r - 1) /\ s \in Seq(Tokens)
        BY <2>4, <2>6, <3>1, <3>2
      <4> QED  BY <1>0, <4>1 DEF Sent
    <3>3. CASE prev[p] = "half1" /\ s = SubSeq(prev, 1, p)
      <4>1. t[r] = "half1" /\ s = SubSeq(t, 1, r) /\ r <= m /\ s \in Seq(Tokens)
        BY <2>4, <2>6, <3>1, <3>3
      <4> QED  BY <1>0, <4>1 DEF Sent
    <3> QED  BY <1>0, <3>2, <3>3 DEF Sent
  <2>8. s \o <<>> = s
    BY <2>7
  <2> QED  BY <1>0, <2>5, <2>7, <2>8
<1>7. CASE p = n + 1
  <2>1. s = prev
    <3>1. s = SubSeq(prev, 1, n)
      BY <1>0, <1>1, <1>7 DEF Sent
    <3> QED  BY <1>0, <3>1, SubSeqFull
  <2>2. \A q \in 1..n : q \notin Opens(prev)
    <3>1. p - 1 = n
      BY <1>1, <1>7
    <3> QED  BY <1>0, <3>1, FirstOpenIs
  <2>3. r >= n
    <3> SUFFICES ASSUME r < n PROVE FALSE
      BY <1>1
    <3>1. r \in 1..(n - 1) /\ r \in 1..n /\ r <= Len(t)
      BY <1>0, <1>1
    <3>2. r \in Opens(t)
      BY <1>0, <3>1, FirstOpenIs
    <3> QED  BY <1>3, <2>2, <3>1, <3>2
  <2>4. prev = SubSeq(t, 1, n)
    <3>1. /\ SubSeq(t, 1, n) \in Seq(Tokens) /\ Len(SubSeq(t, 1, n)) = n
          /\ \A q \in 1..n : SubSeq(t, 1, n)[q] = t[q]
      BY <1>0, <1>1
    <3>2. \A q \in 1..n : prev[q] = SubSeq(t, 1, n)[q]
      BY <1>2, <3>1
    <3> QED  BY <1>0, <3>1, <3>2, SeqEqual
  <2>5. CASE r = n
    <3>1. n \in 1..n /\ r <= Len(t)
      BY <1>0, <1>1, <2>5
    <3>2. t[r] = "half1"
      <4>1. r \in Opens(t)
        BY <1>0, <3>1, FirstOpenIs
      <4> QED  BY <1>4, <2>2, <2>5, <3>1, <4>1
    <3>3. SubSeq(t, n + 1, r - 1) = <<>>
      <4>1. n + 1 \in Int /\ r - 1 \in Int /\ r - 1 < n + 1
        BY <1>1, <2>5
      <4> QED  BY <4>1, SubSeqEmpty
    <3>4. prev \o <<>> = prev
      OBVIOUS
    <3>5. s \o SubSeq(t, n + 1, r - 1) = SubSeq(t, 1, r)
      BY <2>1, <2>4, <2>5, <3>3, <3>4
    <3> QED  BY <1>0, <3>1, <3>2, <3>5 DEF Sent
  <2>6. CASE r > n
    <3>1. 1 \in 1..(Len(t) + 1) /\ n \in (1 - 1)..Len(t) /\ r - 1 \in n..Len(t)
      BY <1>0, <1>1, <2>6
    <3>2. SubSeq(t, 1, n) \o SubSeq(t, n + 1, r - 1) = SubSeq(t, 1, r - 1)
      BY <3>1, ConcatAdjacentSubSeq
    <3>3. s \o SubSeq(t, n + 1, r - 1) = SubSeq(t, 1, r - 1)
      BY <2>1, <2>4, <3>2
    <3> QED  BY <1>0, <3>3 DEF Sent
  <2> QED  BY <1>1, <2>3, <2>5, <2>6
<1> QED  BY <1>1, <1>6, <1>7

\* What was shown are tokens.
LEMMA SentType ==
    ASSUME NEW text \in Seq(Tokens), NEW s, Sent(s, text)
    PROVE  s \in Seq(Tokens)
<1>1. PICK n \in Nat, p \in Nat : n = Len(text) /\ p = FirstOpen(text)
  BY FirstOpenIs
<1>2. p \in 1..(n + 1)
  BY <1>1, FirstOpenIs
<1>3. SubSeq(text, 1, p - 1) \in Seq(Tokens)
  BY <1>1, <1>2
<1>4. p <= n => SubSeq(text, 1, p) \in Seq(Tokens)
  BY <1>1, <1>2
<1> QED  BY <1>1, <1>3, <1>4 DEF Sent

\* visible_delta (vllm.rs) shows what is new of a text, up to its first opening tag.
LEMMA DeltaIs ==
    ASSUME NEW prev \in Seq(Tokens), NEW added \in Seq(Tokens)
    PROVE  VisibleDelta(prev, added) = SubSeq(prev \o added, Len(prev) + 1, FirstOpen(prev \o added) - 1)
<1>0. prev \o added \in Seq(Tokens)
  OBVIOUS
<1>1. PICK t \in Seq(Tokens) : t = prev \o added
  BY <1>0
<1>2. PICK j : j = Joined(t)
  OBVIOUS
<1>3. PICK n \in Nat, m \in Nat, p \in Nat : n = Len(t) /\ m = Len(j) /\ p = FirstOpen(t)
  <2>1. Len(t) \in Nat /\ FirstOpen(t) \in Nat
    BY FirstOpenIs
  <2>2. Len(j) \in Nat
    BY <1>2, JoinedStarts
  <2> QED  BY <2>1, <2>2
<1>4. p \in 1..(n + 1)
  BY <1>3, FirstOpenIs
<1>5. (p <= n => MarkupStart(j) = p /\ p <= m) /\ (p = n + 1 => j = t /\ MarkupStart(j) = m + 1)
  BY <1>2, <1>3, MarkupIs
<1>6. VisibleDelta(prev, added)
        = SubSeq(t, Len(prev) + 1, IF MarkupStart(j) > m THEN n ELSE MarkupStart(j) - 1)
  BY <1>1, <1>2, <1>3 DEF VisibleDelta
<1>7. (IF MarkupStart(j) > m THEN n ELSE MarkupStart(j) - 1) = p - 1
  <2>1. CASE p <= n
    BY <1>3, <1>5, <2>1
  <2>2. CASE p = n + 1
    BY <1>3, <1>5, <2>2
  <2> QED  BY <1>4, <2>1, <2>2
<1> QED  BY <1>1, <1>3, <1>6, <1>7

\* What is known of a completion that is being read.
Read(s, fs) == s.run \in Runs /\ Told(s.run, fs) /\ (~s.run.error => Sent(s.streamed, s.run.text))

\* A frame read keeps what is known.
LEMMA ReadsOn ==
    ASSUME NEW s, NEW fs \in Seq(Frames), NEW f \in Frames, Read(s, fs)
    PROVE  Read(ReadFrame(s, f), Append(fs, f))
<1> DEFINE t == ReadFrame(s, f)
<1>1. s.run \in Runs /\ Told(s.run, fs) /\ (~s.run.error => Sent(s.streamed, s.run.text))
  BY DEF Read
<1>2. t.run = TakeFrame(s.run, f) /\ t.streamed = s.streamed \o Shown(s.run, f)
  BY DEF ReadFrame
<1> HIDE DEF t
<1>3. t.run \in Runs /\ Told(t.run, Append(fs, f))
  BY <1>1, <1>2, TellsOn
<1>4. ASSUME ~t.run.error PROVE Sent(t.streamed, t.run.text)
  <2>1. ~s.run.error
    BY <1>2, <1>4 DEF TakeFrame
  <2>2. PICK text \in Seq(Tokens) : text = s.run.text
    BY <1>1 DEF Runs, TokenSeq
  <2>3. Sent(s.streamed, text)
    BY <1>1, <2>1, <2>2
  <2>4. f.tokens \in Seq(Tokens)
    BY BackendAssumption
  <2>5. CASE f.kind = "content"
    <3>1. t.run = [s.run EXCEPT !.text = @ \o f.tokens]
      BY <1>2, <2>1, <2>5 DEF TakeFrame
    <3>2. t.run.text = text \o f.tokens
      BY <1>1, <2>2, <3>1 DEF Runs
    <3>3. PICK all \in Seq(Tokens), added \in Seq(Tokens) : added = f.tokens /\ all = text \o added
      <4>1. PICK a \in Seq(Tokens) : a = f.tokens
        BY <2>4
      <4>2. text \o a \in Seq(Tokens)
        OBVIOUS
      <4> QED  BY <4>1, <4>2
    <3>4. t.streamed = s.streamed \o VisibleDelta(text, added)
      BY <1>2, <2>1, <2>2, <2>5, <3>3 DEF Shown
    <3>5. VisibleDelta(text, added) = SubSeq(all, Len(text) + 1, FirstOpen(all) - 1)
      BY <3>3, DeltaIs
    <3>6. Len(text) <= Len(all) /\ \A q \in 1..Len(text) : all[q] = text[q]
      BY <3>3
    <3>7. Sent(s.streamed \o SubSeq(all, Len(text) + 1, FirstOpen(all) - 1), all)
      BY <2>3, <3>6, SentMore
    <3> QED  BY <3>2, <3>3, <3>4, <3>5, <3>7
  <2>6. CASE f.kind # "content"
    <3>1. t.streamed = s.streamed \o <<>>
      BY <1>2, <2>6 DEF Shown
    <3>2. s.streamed \in Seq(Tokens)
      BY <2>3, SentType
    <3>3. t.streamed = s.streamed
      BY <3>1, <3>2
    <3>4. t.run.text = text
      BY <1>1, <1>2, <2>1, <2>2, <2>6 DEF TakeFrame, Runs
    <3> QED  BY <2>3, <3>3, <3>4
  <2> QED  BY <2>5, <2>6
<1> QED  BY <1>3, <1>4 DEF Read, t

\* The states of a run that reads n frames.
Reads(g, s, lines, n) ==
    g = [k \in 0..n |-> IF k = 0 THEN s ELSE ReadFrame(g[k - 1], lines[k])]

\* Reading line after line gives a state for every line.
LEMMA ReadsExist ==
    ASSUME NEW s, NEW lines, NEW n \in Nat
    PROVE  \E g : Reads(g, s, lines, n)
<1> DEFINE good == {k \in Nat : \E g : Reads(g, s, lines, k)}
<1>1. 0 \in good
  <2> DEFINE g == [k \in 0..0 |-> s]
  <2>1. g = [k \in 0..0 |-> IF k = 0 THEN s ELSE ReadFrame(g[k - 1], lines[k])]
    OBVIOUS
  <2> HIDE DEF g
  <2>2. Reads(g, s, lines, 0)
    BY <2>1 DEF Reads
  <2> QED  BY <2>2
<1>2. ASSUME NEW k \in Nat, k \in good PROVE k + 1 \in good
  <2>1. PICK g : Reads(g, s, lines, k)
    BY <1>2
  <2>2. \A i \in 0..k : g[i] = IF i = 0 THEN s ELSE ReadFrame(g[i - 1], lines[i])
    BY <2>1 DEF Reads
  <2> DEFINE h == [i \in 0..(k + 1) |-> IF i = k + 1 THEN ReadFrame(g[k], lines[k + 1]) ELSE g[i]]
  <2>3. ASSUME NEW i \in 0..(k + 1) PROVE h[i] = IF i = 0 THEN s ELSE ReadFrame(h[i - 1], lines[i])
    <3>1. CASE i = k + 1
      <4>1. i # 0 /\ i - 1 = k /\ i - 1 \in 0..(k + 1) /\ i - 1 # k + 1
        BY <3>1
      <4>2. h[i - 1] = g[k] /\ h[i] = ReadFrame(g[k], lines[k + 1])
        BY <3>1, <4>1
      <4> HIDE DEF h
      <4> QED  BY <3>1, <4>1, <4>2
    <3>2. CASE i # k + 1
      <4>1. i \in 0..k /\ (i # 0 => i - 1 \in 0..(k + 1) /\ i - 1 # k + 1)
        BY <3>2
      <4>2. h[i] = g[i] /\ (i # 0 => h[i - 1] = g[i - 1])
        BY <3>2, <4>1
      <4> HIDE DEF h
      <4> QED  BY <2>2, <4>1, <4>2
    <3> QED  BY <3>1, <3>2
  <2>4. h = [i \in 0..(k + 1) |-> h[i]]
    OBVIOUS
  <2> HIDE DEF h
  <2>5. Reads(h, s, lines, k + 1)
    BY <2>3, <2>4 DEF Reads
  <2> QED  BY <2>5
<1>3. \A k \in Nat : k \in good
  <2> HIDE DEF good
  <2> QED  BY <1>1, <1>2, EveryNumber
<1> QED  BY <1>3

\* And so does every chunk of frames, wherever the network cuts them.
LEMMA ReadAll ==
    ASSUME NEW s, NEW fs \in Seq(Frames), NEW lines \in Seq(Frames), Read(s, fs),
           NEW g, Reads(g, s, lines, Len(lines))
    PROVE  Read(g[Len(lines)], fs \o lines)
<1> DEFINE To(k) == SubSeq(lines, 1, k)
           good == {k \in Nat : k <= Len(lines) => Read(g[k], fs \o To(k))}
<1>1. \A k \in 0..Len(lines) : g[k] = IF k = 0 THEN s ELSE ReadFrame(g[k - 1], lines[k])
  BY DEF Reads
<1>2. 0 \in good
  <2>1. To(0) = <<>> /\ fs \o <<>> = fs
    OBVIOUS
  <2>2. g[0] = s
    BY <1>1
  <2> QED  BY <2>1, <2>2
<1>3. ASSUME NEW k \in Nat, k \in good PROVE k + 1 \in good
  <2> SUFFICES ASSUME k + 1 <= Len(lines) PROVE Read(g[k + 1], fs \o To(k + 1))
    OBVIOUS
  <2>1. PICK f \in Frames : f = lines[k + 1]
    OBVIOUS
  <2>2. PICK x \in Seq(Frames) : x = To(k) /\ To(k + 1) = Append(x, f)
    <3>1. To(k) \in Seq(Frames) /\ To(k + 1) = Append(To(k), f)
      BY <2>1
    <3> HIDE DEF To
    <3> QED  BY <3>1
  <2> HIDE DEF To
  <2>3. PICK so \in Seq(Frames) : so = fs \o x
    <3>1. fs \o x \in Seq(Frames)
      OBVIOUS
    <3> QED  BY <3>1
  <2>4. fs \o Append(x, f) = Append(fs \o x, f)
    OBVIOUS
  <2>5. g[k + 1] = ReadFrame(g[k], f)
    <3>1. k + 1 \in 0..Len(lines) /\ k + 1 # 0 /\ k + 1 - 1 = k
      OBVIOUS
    <3> QED  BY <1>1, <2>1, <3>1
  <2>6. Read(g[k], so)
    BY <1>3, <2>2, <2>3
  <2> QED  BY <2>2, <2>3, <2>4, <2>5, <2>6, ReadsOn
<1>4. \A k \in Nat : k \in good
  <2> HIDE DEF good
  <2> QED  BY <1>2, <1>3, EveryNumber
<1>5. To(Len(lines)) = lines /\ Len(lines) \in Nat /\ Len(lines) <= Len(lines)
  OBVIOUS
<1> HIDE DEF To
<1> QED  BY <1>4, <1>5

\* The last step of a text's stripping keeps what has been shown of it.
LEMMA StrippedStarts ==
    ASSUME NEW text \in Seq(Tokens), NEW s, Sent(s, text)
    PROVE  LET n == Len(s)
               shown == IF n > 0 /\ s[n] = "half1" THEN SubSeq(s, 1, n - 1) ELSE s IN
           IsPrefix(shown, Stripped(text))
<1> DEFINE n == Len(s)
           shown == IF n > 0 /\ s[n] = "half1" THEN SubSeq(s, 1, n - 1) ELSE s
<1>1. PICK t \in Seq(Tokens) : t = Joined(text)
  BY MarkupIs
<1>2. PICK m \in Nat, p \in Nat : m = Len(text) /\ p = FirstOpen(text)
  BY FirstOpenIs
<1>3. p \in 1..(m + 1)
  BY <1>2, FirstOpenIs
<1>4. s \in Seq(Tokens)
  BY SentType
<1>5. n \in Nat /\ shown \in Seq(Tokens) /\ Len(shown) \in Nat /\ Len(shown) <= n
  BY <1>4
<1>6. \A q \in 1..Len(shown) : shown[q] = s[q]
  BY <1>4
\* What is shown is a start of what is before the first tag.
<1>7. Len(shown) <= p - 1 /\ \A q \in 1..Len(shown) : shown[q] = text[q]
  <2>1. CASE s = SubSeq(text, 1, p - 1)
    <3>1. n = p - 1 /\ \A q \in 1..n : s[q] = text[q]
      BY <1>2, <1>3, <2>1
    <3> QED  BY <1>3, <1>5, <1>6, <3>1
  <2>2. CASE p <= m /\ text[p] = "half1" /\ s = SubSeq(text, 1, p)
    <3>1. n = p /\ \A q \in 1..n : s[q] = text[q]
      BY <1>2, <1>3, <2>2
    <3>2. n > 0 /\ s[n] = "half1"
      BY <1>3, <2>2, <3>1
    <3>3. Len(shown) = n - 1
      <4>1. shown = SubSeq(s, 1, n - 1)
        BY <3>2
      <4>2. Len(SubSeq(s, 1, n - 1)) = n - 1
        <5>1. PICK k \in Nat : k = n /\ k > 0
          BY <1>4, <3>2
        <5>2. Len(SubSeq(s, 1, k - 1)) = k - 1
          BY <1>4, <5>1
        <5> QED  BY <5>1, <5>2
      <4> QED  BY <4>1, <4>2
    <3> QED  BY <1>3, <1>5, <1>6, <3>1, <3>3
  <2> QED  BY <1>2, <2>1, <2>2 DEF Sent
<1> HIDE DEF n, shown
\* The answer starts with what is before the first tag.
<1>8. PICK a \in Seq(Tokens) : a = Stripped(text) /\ Len(a) >= p - 1 /\ \A q \in 1..(p - 1) : a[q] = text[q]
  <2> DEFINE opens == {q \in DOMAIN t : t[q] = "open"}
             closes == {q \in DOMAIN t : t[q] = "close" /\ q > Max(opens)}
             stop == IF closes = {} THEN Len(t) ELSE Min(closes)
  <2>1. Stripped(text) = IF opens = {} THEN text ELSE SubSeq(t, 1, Min(opens) - 1) \o SubSeq(t, stop + 1, Len(t))
    BY <1>1 DEF Stripped
  <2>2. CASE p = m + 1
    <3>1. opens = {}
      <4>1. FirstOpen(text) = Len(text) + 1
        BY <1>2, <2>2
      <4> QED  BY <1>1, <4>1, NoMarkup
    <3> HIDE DEF opens, stop
    <3>2. Stripped(text) = text
      BY <2>1, <3>1
    <3> QED  BY <1>2, <2>2, <3>2
  <2>3. CASE p <= m
    <3>1. opens # {} /\ Min(opens) = p
      BY <1>1, <1>2, <2>3, MarkupIs
    <3>2. stop \in Nat
      <4>1. PICK k \in Nat : k = Len(t)
        BY <1>1
      <4>2. CASE closes = {}
        BY <4>1, <4>2
      <4>3. CASE closes # {}
        <5>1. PICK S : S = closes
          OBVIOUS
        <5>2. S \in SUBSET (1..k) /\ S # {} /\ 1 \in Int /\ k \in Int
          BY <1>1, <4>1, <4>3, <5>1, SMTT(30)
        <5>3. Min(S) \in S
          BY <5>2, LeastOf
        <5>4. Min(S) \in 1..k
          BY <5>2, <5>3
        <5> QED  BY <4>3, <5>1, <5>4
      <4> QED  BY <4>2, <4>3
    <3> HIDE DEF opens, stop
    <3>3. SubSeq(t, 1, p - 1) = SubSeq(text, 1, p - 1)
      BY <1>1, <1>2, JoinedStarts
    <3>4. PICK start \in Seq(Tokens) : start = SubSeq(text, 1, p - 1) /\ Len(start) = p - 1 /\ \A q \in 1..(p - 1) : start[q] = text[q]
      <4>1. /\ SubSeq(text, 1, p - 1) \in Seq(Tokens) /\ Len(SubSeq(text, 1, p - 1)) = p - 1
            /\ \A q \in 1..(p - 1) : SubSeq(text, 1, p - 1)[q] = text[q]
        BY <1>2, <1>3, <2>3
      <4> QED  BY <4>1
    <3>5. PICK rest \in Seq(Tokens) : rest = SubSeq(t, stop + 1, Len(t))
      <4>1. PICK k \in Nat, b \in Nat : k = Len(t) /\ b = stop + 1 /\ b >= 1
        BY <1>1, <3>2
      <4>2. SubSeq(t, b, k) \in Seq(Tokens)
        BY <4>1
      <4> QED  BY <4>1, <4>2
    <3>6. Stripped(text) = start \o rest
      BY <2>1, <3>1, <3>3, <3>4, <3>5
    <3>7. /\ start \o rest \in Seq(Tokens) /\ Len(start \o rest) = Len(start) + Len(rest)
          /\ \A q \in 1 .. Len(start) + Len(rest) :
               (start \o rest)[q] = IF q <= Len(start) THEN start[q] ELSE rest[q - Len(start)]
      BY ConcatProperties
    <3>8. Len(rest) \in Nat
      OBVIOUS
    <3>9. Len(start \o rest) >= p - 1 /\ \A q \in 1..(p - 1) : (start \o rest)[q] = text[q]
      BY <1>3, <3>4, <3>7, <3>8
    <3> QED  BY <3>6, <3>7, <3>9
  <2> QED  BY <1>3, <2>2, <2>3
<1>9. PICK k \in Nat : k = Len(shown)
  BY <1>5
<1>10. k <= Len(a) /\ SubSeq(shown, 1, k) = SubSeq(a, 1, k)
  <2>1. k <= Len(a) /\ k <= p - 1
    BY <1>3, <1>7, <1>8, <1>9
  <2>2. /\ SubSeq(shown, 1, k) \in Seq(Tokens) /\ Len(SubSeq(shown, 1, k)) = k
        /\ \A q \in 1..k : SubSeq(shown, 1, k)[q] = shown[q]
    BY <1>5, <1>9
  <2>3. /\ SubSeq(a, 1, k) \in Seq(Tokens) /\ Len(SubSeq(a, 1, k)) = k
        /\ \A q \in 1..k : SubSeq(a, 1, k)[q] = a[q]
    BY <2>1
  <2>4. \A q \in 1..k : SubSeq(shown, 1, k)[q] = SubSeq(a, 1, k)[q]
    BY <1>3, <1>7, <1>8, <1>9, <2>1, <2>2, <2>3
  <2> QED  BY <2>1, <2>2, <2>3, <2>4, SeqEqual
<1>11. IsPrefix(shown, a)
  BY <1>9, <1>10 DEF IsPrefix
<1> QED  BY <1>8, <1>11 DEF n, shown

\* While the server writes, what was read so far is what it wrote so far.
ReplyInv ==
    /\ replied \in Seq(Frames) /\ tail \in Seq(Frames)
    /\ outcome \in {"posting", "retrying", "reading"} =>
         ~run.error /\ Read([run |-> run, streamed |-> streamed], replied)
    /\ AnswerAsGenerated /\ StreamedIsAnswer

\* Nothing was asked, nothing written.
LEMMA NothingRead ==
    ASSUME BackendInit
    PROVE  ReplyInv
<1>1. /\ replied = <<>> /\ tail = <<>> /\ streamed = <<>> /\ outcome = "posting"
      /\ run = [text |-> <<>>, think |-> 0, calls |-> [i \in Indices |-> NoCall],
                error |-> FALSE, finish |-> "none", usage |-> 0]
  BY DEF BackendInit
<1>2. \A S : <<>> \in Seq(S)
  OBVIOUS
<1>3. run \in Runs
  <2>1. NoCall \in Call
    BY <1>2 DEF NoCall, Call
  <2>2. [i \in Indices |-> NoCall] \in CallTable
    BY <2>1 DEF CallTable
  <2>3. <<>> \in TokenSeq
    BY <1>2 DEF TokenSeq
  <2> QED  BY <1>1, <2>2, <2>3 DEF Runs
<1>4. Told(run, replied)
  <2>1. DOMAIN replied = {} /\ Len(replied) = 0
    BY <1>1
  <2>2. \A e : [k \in {} |-> e] = <<>>
    OBVIOUS
  <2>3. Contents(replied) = <<>>
    <3>1. [k \in DOMAIN replied |-> IF replied[k].kind = "content" THEN replied[k].tokens ELSE <<>>] = <<>>
      BY <2>1
    <3> QED  BY <3>1, FlattenNone DEF Contents
  <2>4. ASSUME NEW i PROVE Arguments(replied, i) = <<>>
    <3>1. [k \in DOMAIN replied |-> IF IsPart(replied[k], i) THEN replied[k].args ELSE <<>>] = <<>>
      BY <2>1
    <3> QED  BY <3>1, FlattenNone DEF Arguments
  <2>5. CallsTold(run, replied)
    BY <1>1, <2>1, <2>4 DEF CallsTold, NoCall
  <2> QED  BY <1>1, <2>1, <2>3, <2>5 DEF Told, Faultless
<1>5. Sent(streamed, run.text)
  <2>1. PICK text \in Seq(Tokens) : text = <<>>
    BY <1>2
  <2>2. FirstOpen(text) = 1
    <3>1. Len(text) = 0
      BY <2>1
    <3>2. FirstOpen(text) \in 1..(0 + 1)
      BY <3>1, FirstOpenIs
    <3> QED  BY <3>2
  <2>3. SubSeq(text, 1, 0) = <<>>
    BY <2>1
  <2> QED  BY <1>1, <2>1, <2>2, <2>3 DEF Sent
<1>6. Read([run |-> run, streamed |-> streamed], replied)
  BY <1>3, <1>4, <1>5 DEF Read
<1> QED  BY <1>1, <1>2, <1>6 DEF ReplyInv, AnswerAsGenerated, StreamedIsAnswer

\* A chunk of frames (generate_streaming).
LEMMA ChunkTells ==
    ASSUME ReplyInv, Chunk
    PROVE  ReplyInv'
<1>1. PICK fs \in BoundedSeq(Frames, 1), next \in BoundedSeq(Frames, 1) :
         LET lines == Completed(fs)
             read[k \in 0..Len(lines)] ==
                 IF k = 0 THEN [run |-> run, streamed |-> streamed]
                 ELSE ReadFrame(read[k - 1], lines[k]) IN
         /\ run' = read[Len(lines)].run
         /\ streamed' = read[Len(lines)].streamed
         /\ replied' = replied \o tail \o fs
         /\ tail' = next
         /\ outcome' = IF run'.error THEN "failed" ELSE "reading"
  BY DEF Chunk
<1>2. BoundedSeq(Frames, 1) \subseteq Seq(Frames)
  <2> SUFFICES ASSUME NEW m \in 0..1, NEW x \in [1..m -> Frames] PROVE x \in Seq(Frames)
    BY DEF BoundedSeq, SeqOf
  <2> QED  OBVIOUS
<1>3. outcome = "reading"
  BY DEF Chunk
<1>4. replied \in Seq(Frames) /\ tail \in Seq(Frames) /\ Read([run |-> run, streamed |-> streamed], replied)
  BY <1>3 DEF ReplyInv
<1>5. PICK lines \in Seq(Frames) : lines = tail \o fs
  <2>1. PICK a \in Seq(Frames), b \in Seq(Frames) : a = tail /\ b = fs
    BY <1>2, <1>4
  <2>2. a \o b \in Seq(Frames)
    OBVIOUS
  <2> QED  BY <2>1, <2>2
<1>6. PICK s : s = [run |-> run, streamed |-> streamed]
  OBVIOUS
<1> DEFINE g == CHOOSE g : g = [k \in 0..Len(lines) |-> IF k = 0 THEN s ELSE ReadFrame(g[k - 1], lines[k])]
<1>7. run' = g[Len(lines)].run /\ streamed' = g[Len(lines)].streamed
  BY <1>1, <1>5, <1>6 DEF Completed
<1>8. Reads(g, s, lines, Len(lines))
  <2>1. Len(lines) \in Nat
    OBVIOUS
  <2>2. PICK h : Reads(h, s, lines, Len(lines))
    BY <2>1, ReadsExist
  <2> QED  BY <2>2 DEF Reads
<1> HIDE DEF g
<1>9. Read(g[Len(lines)], replied \o lines)
  BY <1>4, <1>6, <1>8, ReadAll
<1>10. replied' = replied \o lines
  <2>1. PICK r \in Seq(Frames), a \in Seq(Frames), b \in Seq(Frames) : r = replied /\ a = tail /\ b = fs
    BY <1>2, <1>4
  <2>2. (r \o a) \o b = r \o (a \o b)
    BY ConcatAssociative
  <2> QED  BY <1>1, <1>5, <2>1, <2>2
<1>11. replied' \in Seq(Frames) /\ tail' \in Seq(Frames)
  <2>1. PICK r \in Seq(Frames) : r = replied
    BY <1>4
  <2>2. r \o lines \in Seq(Frames)
    OBVIOUS
  <2> QED  BY <1>1, <1>2, <1>10, <2>1, <2>2
<1>12. outcome' \in {"reading", "failed"} /\ (outcome' = "reading" => ~run'.error)
  BY <1>1
<1>13. Read([run |-> run', streamed |-> streamed'], replied')
  BY <1>7, <1>9, <1>10 DEF Read
<1> QED  BY <1>11, <1>12, <1>13 DEF ReplyInv, AnswerAsGenerated, StreamedIsAnswer

\* The end of the stream: the result is put together, or it is an error.
LEMMA ClosesTells ==
    ASSUME ReplyInv, Closes
    PROVE  ReplyInv'
<1>1. outcome = "reading" /\ outcome' \in {"failed", "ok"} /\ UNCHANGED <<asked, replied, tail, streamed>>
  BY DEF Closes
<1>2. run \in Runs /\ ~run.error /\ Told(run, replied) /\ Sent(streamed, run.text)
  BY <1>1 DEF ReplyInv, Read
<1>3. run'.text = Stripped(run.text) /\ run'.calls = run.calls
  BY <1>2 DEF Closes, Runs
<1>4. Faultless(replied) /\ run.text = Contents(replied) /\ CallsTold(run, replied)
  BY <1>2 DEF Told
<1>5. AnswerAsGenerated'
  <2>1. \A k \in DOMAIN replied : replied[k].kind # "error"
    BY <1>4 DEF Faultless
  <2>2. \A i : i \in Assembled(run)' <=> i \in Assembled(run)
    BY <1>3 DEF Assembled
  <2>3. ASSUME NEW i \in Indices
        PROVE  /\ (i \in Assembled(run))' <=> \E k \in DOMAIN replied : IsPart(replied[k], i) /\ replied[k].name
               /\ run'.calls[i].args = Arguments(replied, i)
    BY <1>3, <1>4 DEF CallsTold, Assembled
  <2>4. run'.text = Stripped(Contents(replied))
    BY <1>3, <1>4
  <2> QED  BY <1>1, <2>1, <2>3, <2>4 DEF AnswerAsGenerated
<1>6. StreamedIsAnswer'
  <2>1. PICK text \in Seq(Tokens) : text = run.text
    BY <1>2 DEF Runs, TokenSeq
  <2>2. LET n == Len(streamed)
            shown == IF n > 0 /\ streamed[n] = "half1" THEN SubSeq(streamed, 1, n - 1) ELSE streamed IN
        IsPrefix(shown, Stripped(text))
    BY <1>2, <2>1, StrippedStarts
  <2> QED  BY <1>1, <1>3, <2>1, <2>2 DEF StreamedIsAnswer
<1> QED  BY <1>1, <1>5, <1>6 DEF ReplyInv

\* The invariant of a completion, for every sequence of frames in every cut.
THEOREM ReplyAlways == BackendSpec => []ReplyInv
<1>1. BackendInit => ReplyInv
  BY NothingRead
<1>2. ReplyInv /\ [BackendNext]_backendVars => ReplyInv'
  <2> SUFFICES ASSUME ReplyInv, [BackendNext]_backendVars PROVE ReplyInv'
    OBVIOUS
  <2>1. CASE Answers
    BY <2>1 DEF Answers, ReplyInv, AnswerAsGenerated, StreamedIsAnswer
  <2>2. CASE Chunk
    BY <2>2, ChunkTells
  <2>3. CASE Breaks
    BY <2>3 DEF Breaks, ReplyInv, AnswerAsGenerated, StreamedIsAnswer
  <2>4. CASE Closes
    BY <2>4, ClosesTells
  <2>5. CASE UNCHANGED backendVars
    BY <2>5 DEF backendVars, ReplyInv, AnswerAsGenerated, StreamedIsAnswer, Assembled
  <2> QED  BY <2>1, <2>2, <2>3, <2>4, <2>5 DEF BackendNext
<1> QED  BY <1>1, <1>2, PTL DEF BackendSpec

\* Keyed by the index: a result holds every call with its own arguments and the
\* content outside of markup, and none follows an error the server reported.
THEOREM ResultAsGenerated == BackendSpec => []AnswerAsGenerated
<1>1. ReplyInv => AnswerAsGenerated
  BY DEF ReplyInv
<1> QED  BY <1>1, ReplyAlways, PTL

\* What a client has read of an answer is its start: the tail held back is enough.
THEOREM StreamStartsResult == BackendSpec => []StreamedIsAnswer
<1>1. ReplyInv => StreamedIsAnswer
  BY DEF ReplyInv
<1> QED  BY <1>1, ReplyAlways, PTL

-----------------------------------------------------------------------------
(* Statistics: the charts add up *)

\* Days go up with the hours.
LEMMA DaysGoUp ==
    ASSUME NEW h \in Nat
    PROVE  Day(h) \in Nat /\ Day(h) <= Day(h + 1)
<1> DEFINE q == h \div DayLength
           p == (h + 1) \div DayLength
<1>0. DayLength \in Nat /\ DayLength > 0
  BY StatisticsAssumption
<1>1. q \in Nat /\ p \in Nat
  BY <1>0
<1>2. DayLength * q <= h /\ h + 1 < DayLength * (p + 1)
  BY <1>0
<1>3. SUFFICES ASSUME p < q PROVE FALSE
  BY <1>1 DEF Day
<1> HIDE DEF q, p
<1>4. PICK k \in Nat : q = p + 1 + k
  <2>1. q - p - 1 \in Nat /\ q = p + 1 + (q - p - 1)
    BY <1>1, <1>3
  <2> QED  BY <2>1
<1>5. DayLength * q = DayLength * (p + 1) + DayLength * k /\ DayLength * k >= 0
  BY <1>0, <1>1, <1>4
<1>6. DayLength * q \in Nat /\ DayLength * (p + 1) \in Nat /\ DayLength * k \in Nat
  BY <1>0, <1>1
<1> QED  BY <1>2, <1>5, <1>6

(* The rises *)

\* The rises of a counter that never falls, each since the reading before, add up
\* to what it rose from the first reading to the last.
Since(D, f, d) ==
    IF d \in D /\ {e \in D : e < d} # {} THEN f[d] - f[Max({e \in D : e < d})] ELSE 0
NeverFalls(D, f) == \A d, e \in D : d <= e => f[d] <= f[e]
Between(D, a, b) == \A d \in D : d \in Int /\ a <= d /\ d <= b
Tells(rise, D, f, a, b) == \A d \in a..b : rise[d] = Since(D, f, d)

\* Day after day: what was told up to a day is the rise up to its last reading.
LEMMA RisesAddUp ==
    ASSUME NEW a \in Int, NEW b \in Int, NEW D, D # {}, Between(D, a, b),
           NEW E, D \subseteq E, NEW f \in [E -> Nat], NeverFalls(D, f),
           NEW rise, Tells(rise, D, f, a, b)
    PROVE  Total(a..b, rise) = f[Max(D)] - f[Min(D)]
<1> DEFINE To(n) == {e \in D : e <= a + n}
           Sum(n) == Total(a..(a + n), rise)
           good == {n \in Nat : a + n <= b =>
                      Sum(n) = IF To(n) = {} THEN 0 ELSE f[Max(To(n))] - f[Min(D)]}
<1> USE DEF Between, Tells
<1>1. a <= b
  OBVIOUS
<1>2. D \in SUBSET (a..b)
  OBVIOUS
<1>3. \A d \in a..b : rise[d] \in Nat
  <2> SUFFICES ASSUME NEW d \in a..b PROVE Since(D, f, d) \in Nat
    OBVIOUS
  <2> SUFFICES ASSUME {e \in D : e < d} # {}, d \in D PROVE Since(D, f, d) \in Nat
    BY DEF Since
  <2> DEFINE before == {e \in D : e < d}
  <2>1. before \in SUBSET (a..b) /\ before # {}
    BY <1>2
  <2>2. Max(before) \in D /\ Max(before) < d
    <3> HIDE DEF before
    <3>1. Max(before) \in before
      BY <2>1, GreatestOf
    <3> QED  BY <3>1 DEF before
  <2>3. f[d] \in Nat /\ f[Max(before)] \in Nat
    BY <2>2
  <2>4. f[Max(before)] <= f[d]
    <3> HIDE DEF before
    <3>1. Max(before) \in Int /\ d \in Int
      BY <2>2
    <3>2. Max(before) <= d
      BY <2>2, <3>1
    <3> QED  BY <2>2, <3>2 DEF NeverFalls
  <2> QED  BY <2>3, <2>4 DEF Since
<1>4. \A n \in Nat : a + n <= b => \A x \in a..(a + n) : rise[x] \in Nat
  BY <1>3
<1>5. 0 \in good
  <2>1. a..(a + 0) = {a} /\ {a} \ {a} = {} /\ a \in a..b
    BY <1>1
  <2>2. {e \in D : e < a} = {}
    BY <1>1
  <2>3. rise[a] = 0
    BY <2>1, <2>2 DEF Since
  <2>4. Sum(0) = 0
    BY <2>1, <2>3, TotalZero
  <2>5. CASE a \in D
    <3>1. Min(D) \in D /\ Min(D) <= a
      BY <1>2, <2>5, LeastOf
    <3>2. Min(D) = a
      BY <1>1, <3>1
    <3>3. To(0) = {a}
      <4>1. \A e \in D : e <= a + 0 => e = a
        OBVIOUS
      <4>2. a <= a + 0
        OBVIOUS
      <4> QED  BY <2>5, <4>1, <4>2
    <3>4. Max({a}) = a
      BY DEF Max
    <3>5. f[a] \in Nat
      BY <2>5
    <3>6. To(0) # {} /\ f[Max(To(0))] = f[Min(D)] /\ f[Min(D)] \in Nat
      BY <3>2, <3>3, <3>4, <3>5
    <3> HIDE DEF To, Sum
    <3> QED  BY <2>4, <3>6
  <2>6. CASE a \notin D
    <3>1. To(0) = {}
      BY <1>1, <2>6
    <3> QED  BY <2>4, <3>1
  <2> QED  BY <2>5, <2>6
<1>6. ASSUME NEW n \in Nat, n \in good PROVE n + 1 \in good
  <2> SUFFICES ASSUME a + (n + 1) <= b
               PROVE  Sum(n + 1) = IF To(n + 1) = {} THEN 0 ELSE f[Max(To(n + 1))] - f[Min(D)]
    OBVIOUS
  <2> DEFINE x == a + (n + 1)
  <2>1. a + n \in Int /\ a + n <= b /\ x \in Int /\ x = a + n + 1 /\ x \in a..b
    BY <1>1
  <2>2. Sum(n) = IF To(n) = {} THEN 0 ELSE f[Max(To(n))] - f[Min(D)]
    BY <1>6, <2>1
  <2>3. Sum(n + 1) = Sum(n) + rise[x] /\ Sum(n) \in Nat
    <3>1. (a..x) \ {x} = a..(a + n) /\ x \in a..x
      BY <2>1
    <3>2. IsFiniteSet(a..x)
      BY <2>1, FS_Interval
    <3>3. \A y \in a..x : rise[y] \in Nat
      <4>1. \A y \in a..x : y \in a..b
        BY <2>1
      <4> QED  BY <1>3, <4>1
    <3> HIDE DEF x
    <3>4. Total(a..x, rise) = Total((a..x) \ {x}, rise) + rise[x] /\ Total((a..x) \ {x}, rise) \in Nat
      BY <3>1, <3>2, <3>3, TotalSplit
    <3> QED  BY <3>1, <3>4 DEF x
  <2>4. {e \in D : e < x} = To(n)
    BY <1>1, <2>1
  <2>5. rise[x] = Since(D, f, x)
    BY <2>1
  <2>6. CASE x \notin D
    <3>1. To(n + 1) = To(n)
      BY <1>1, <2>1, <2>6
    <3>2. rise[x] = 0
      BY <2>5, <2>6 DEF Since
    <3> HIDE DEF To, Sum, x
    <3> QED  BY <2>2, <2>3, <3>1, <3>2
  <2>7. CASE x \in D
    <3>1. To(n + 1) = To(n) \cup {x} /\ x \in To(n + 1)
      BY <1>1, <2>1, <2>7
    <3>2. Max(To(n + 1)) = x
      <4>1. To(n + 1) \in SUBSET (a..b)
        OBVIOUS
      <4>2. Max(To(n + 1)) \in To(n + 1) /\ x <= Max(To(n + 1))
        BY <3>1, <4>1, GreatestOf
      <4>3. Max(To(n + 1)) <= x /\ Max(To(n + 1)) \in Int
        BY <1>1, <4>2
      <4> QED  BY <2>1, <4>2, <4>3
    <3>3. Min(D) \in D /\ \A y \in D : Min(D) <= y
      BY <1>2, LeastOf
    <3>4. f[x] \in Nat /\ f[Min(D)] \in Nat
      BY <2>7, <3>3
    <3>5. CASE To(n) = {}
      <4>1. Min(D) = x
        <5>1. Min(D) \notin To(n) /\ Min(D) <= x /\ Min(D) \in Int
          BY <1>1, <2>7, <3>3, <3>5
        <5>2. ~(Min(D) <= a + n)
          BY <3>3, <5>1
        <5> QED  BY <2>1, <5>1, <5>2
      <4>2. rise[x] = 0
        BY <2>4, <2>5, <3>5 DEF Since
      <4> HIDE DEF To, Sum, x
      <4> QED  BY <2>2, <2>3, <3>1, <3>2, <3>4, <3>5, <4>1, <4>2
    <3>6. CASE To(n) # {}
      <4>1. rise[x] = f[x] - f[Max(To(n))]
        BY <2>4, <2>5, <2>7, <3>6 DEF Since
      <4>2. f[Max(To(n))] \in Nat
        <5>1. To(n) \in SUBSET (a..b)
          OBVIOUS
        <5>2. Max(To(n)) \in To(n)
          BY <3>6, <5>1, GreatestOf
        <5> QED  BY <5>2
      <4> HIDE DEF To, Sum, x
      <4> QED  BY <2>2, <2>3, <3>1, <3>2, <3>4, <3>6, <4>1, <4>2
    <3> QED  BY <3>5, <3>6
  <2> HIDE DEF To, Sum
  <2> QED  BY <2>6, <2>7
<1>7. \A n \in Nat : n \in good
  <2> HIDE DEF good
  <2> QED  BY <1>5, <1>6, EveryNumber
<1>8. b - a \in Nat /\ a + (b - a) = b
  BY <1>1
<1>9. Sum(b - a) = IF To(b - a) = {} THEN 0 ELSE f[Max(To(b - a))] - f[Min(D)]
  <2>1. b - a \in good
    BY <1>7, <1>8
  <2> QED  BY <1>8, <2>1
<1>10. To(b - a) = D
  BY <1>1, <1>8
<1>11. Total(a..b, rise) = Sum(b - a)
  BY <1>8
<1> HIDE DEF To, Sum
<1> QED  BY <1>9, <1>10, <1>11

(* Downloads and installs *)
\* A snapshot is a day up to now and never above what GitHub counts; an install
\* is filed on the day of its first heartbeat.
GrowthInv ==
    /\ hour \in Nat /\ github \in Nat
    /\ snapshots \in [DOMAIN snapshots -> Nat] /\ DOMAIN snapshots \subseteq 0..Today
    /\ NeverFalls(DOMAIN snapshots, snapshots) /\ \A d \in DOMAIN snapshots : snapshots[d] <= github
    /\ \A i \in DOMAIN installs : i \in Installs /\ <<Day(installs[i].first), i>> \in heartbeats

\* Before the first snapshot.
LEMMA GrowthStarts == StatsInit => GrowthInv
BY DEF StatsInit, GrowthInv, NeverFalls

\* Every step keeps it.
LEMMA GrowthStep == GrowthInv /\ [StatsNext]_statsVars => GrowthInv'
<1> SUFFICES ASSUME GrowthInv, [StatsNext]_statsVars PROVE GrowthInv'
  OBVIOUS
<1>1. CASE UNCHANGED <<hour, growthVars>>
  BY <1>1 DEF growthVars, GrowthInv, NeverFalls, Today
<1>2. CASE HourPasses
  <2>1. hour' = hour + 1 /\ hour' \in Nat /\ Day(hour) <= Day(hour') /\ UNCHANGED growthVars
    BY <1>2, DaysGoUp DEF HourPasses, GrowthInv
  <2>2. Today' = Day(hour') /\ Today \in Nat /\ Today' \in Nat /\ Today <= Today'
    BY <2>1, DaysGoUp DEF GrowthInv, Today
  <2>3. 0..Today \subseteq 0..Today'
    BY <2>2
  <2> QED  BY <2>1, <2>3 DEF growthVars, GrowthInv, NeverFalls
<1>3. CASE GitHubCounts
  <2>1. /\ github' = github + 1 /\ github' \in Nat /\ UNCHANGED <<hour, snapshots, installs, heartbeats, Today>>
    BY <1>3 DEF GitHubCounts, GrowthInv, Today
  <2>2. \A d \in DOMAIN snapshots : snapshots[d] <= github'
    BY <2>1 DEF GrowthInv
  <2> QED  BY <2>1, <2>2 DEF GrowthInv, NeverFalls
<1>4. CASE Snapshot
  <2> DEFINE D == DOMAIN snapshots
             E == D \cup {Today}
  <2>1. snapshots' = [d \in E |-> IF d = Today THEN github ELSE snapshots[d]]
    BY <1>4 DEF Snapshot, ReleaseCounts
  <2>2. UNCHANGED <<hour, github, installs, heartbeats, Today>> /\ Today \in Nat
    BY <1>4, DaysGoUp DEF Snapshot, GrowthInv, Today
  <2>3. DOMAIN snapshots' = E /\ E \subseteq 0..Today
    BY <2>1, <2>2 DEF GrowthInv
  <2>4. snapshots' \in [E -> Nat]
    BY <2>1 DEF GrowthInv
  <2>5. \A d \in E : snapshots'[d] <= github
    BY <2>1 DEF GrowthInv
  <2>6. ASSUME NEW d \in E, NEW e \in E, d <= e PROVE snapshots'[d] <= snapshots'[e]
    <3>1. CASE e = Today
      BY <2>1, <2>5, <3>1
    <3>2. CASE e # Today
      <4>1. d # Today /\ d \in D /\ e \in D
        BY <2>2, <2>3, <2>6, <3>2
      <4> QED  BY <2>1, <2>6, <3>2, <4>1 DEF GrowthInv, NeverFalls
    <3> QED  BY <3>1, <3>2
  <2> HIDE DEF D, E
  <2> QED  BY <2>2, <2>3, <2>4, <2>5, <2>6 DEF GrowthInv, NeverFalls
<1>5. ASSUME NEW id \in Installs, Heartbeat(id) PROVE GrowthInv'
  <2>1. UNCHANGED <<hour, github, snapshots, Today>>
    BY <1>5 DEF Heartbeat, Today
  <2>2. ASSUME NEW i \in DOMAIN installs'
        PROVE  i \in Installs /\ <<Day(installs'[i].first), i>> \in heartbeats'
    <3>1. /\ installs'[i] = IF i # id THEN installs[i]
                            ELSE [first |-> IF id \in DOMAIN installs THEN installs[id].first ELSE hour,
                                  last |-> hour]
          /\ i \in DOMAIN installs \/ i = id
          /\ heartbeats' = heartbeats \cup {<<Today, id>>}
      BY <1>5 DEF Heartbeat
    <3>2. CASE i \in DOMAIN installs
      <4>1. installs'[i].first = installs[i].first
        BY <3>1, <3>2
      <4> QED  BY <3>1, <3>2, <4>1 DEF GrowthInv
    <3>3. CASE i \notin DOMAIN installs
      BY <3>1, <3>3 DEF Today
    <3> QED  BY <3>2, <3>3
  <2> QED  BY <2>1, <2>2 DEF GrowthInv, NeverFalls
<1> QED
  BY <1>1, <1>2, <1>3, <1>4, <1>5
  DEF StatsNext, statsVars, growthVars, UsageNext, GrowthNext, JobEnds, DrainAndSend, SendFails, SendOk,
      LoopRestart, Collect

\* The daily rises of the downloads add up to their rise.
LEMMA GrowthShows == GrowthInv => GrowthAddsUp
<1> SUFFICES ASSUME GrowthInv PROVE GrowthAddsUp
  OBVIOUS
<1>1. ASSUME NEW d \in 0..Today PROVE InstallsNew(d) \subseteq InstallsActive(d)
  BY DEF GrowthInv, InstallsNew, InstallsActive
<1> DEFINE taken == DOMAIN snapshots \cap ChartWindow
           a == Today - ChartDays + 1
           rise == [d \in ChartWindow |-> IF Rise(d) = <<>> THEN 0 ELSE Rise(d)[1]]
<1>2. ASSUME taken # {}
      PROVE  Total(ChartWindow, rise) = snapshots[Max(taken)] - snapshots[Min(taken)]
  <2>1. Today \in Nat /\ a \in Int /\ ChartWindow = a..Today
    BY DaysGoUp, StatisticsAssumption DEF GrowthInv, Today, ChartWindow
  <2>2. \A d \in taken : d \in Int /\ a <= d /\ d <= Today
    BY <2>1
  <2>3. NeverFalls(taken, snapshots) /\ snapshots \in [DOMAIN snapshots -> Nat]
    BY DEF GrowthInv, NeverFalls
  <2>4. ASSUME NEW d \in ChartWindow PROVE rise[d] = Since(taken, snapshots, d)
    <3>1. Previous(d) = {e \in taken : e < d}
      BY DEF Previous
    <3>2. d \in DOMAIN snapshots <=> d \in taken
      OBVIOUS
    <3> HIDE DEF taken
    <3>3. CASE d \in taken /\ Previous(d) # {}
      <4>1. Rise(d) = <<snapshots[d] - snapshots[Max(Previous(d))]>>
        BY <3>2, <3>3 DEF Rise
      <4>2. Rise(d) # <<>> /\ Rise(d)[1] = snapshots[d] - snapshots[Max(Previous(d))]
        BY <4>1
      <4>3. rise[d] = snapshots[d] - snapshots[Max(Previous(d))]
        BY <4>2
      <4> QED  BY <3>1, <3>3, <4>3 DEF Since
    <3>4. CASE ~(d \in taken /\ Previous(d) # {})
      BY <3>1, <3>2, <3>4 DEF Rise, Since
    <3> QED  BY <3>3, <3>4
  <2>5. \A d \in a..Today : rise[d] = Since(taken, snapshots, d)
    BY <2>1, <2>4
  <2>6. taken \subseteq DOMAIN snapshots
    OBVIOUS
  <2> HIDE DEF taken, a, rise
  <2>7. PICK E : E = DOMAIN snapshots
    OBVIOUS
  <2>8. PICK D : D = taken
    OBVIOUS
  <2>9. D # {} /\ D \subseteq E /\ snapshots \in [E -> Nat] /\ NeverFalls(D, snapshots)
    BY <1>2, <2>3, <2>6, <2>7, <2>8
  <2>10. Between(D, a, Today) /\ Tells(rise, D, snapshots, a, Today)
    BY <2>2, <2>5, <2>8 DEF Between, Tells
  <2>11. Total(a..Today, rise) = snapshots[Max(D)] - snapshots[Min(D)]
    BY <2>1, <2>9, <2>10, RisesAddUp
  <2> QED  BY <2>1, <2>11, <2>8
<1> QED  BY <1>1, <1>2 DEF GrowthAddsUp

(* The windows of finished jobs *)

\* The window in flight that the collector does not have.
Outgoing == IF sending # <<>> /\ ~sending[2] THEN sending[1] ELSE {}
Reported(j) == \E i \in DOMAIN reports : j \in reports[i].jobs

\* What the worker and the collector hold are jobs that ended.
UsageTypes ==
    /\ ended \in Seq(Kinds)
    /\ meter \subseteq DOMAIN ended /\ hour \in Nat
    /\ sending # <<>> => /\ sending = <<sending[1], sending[2]>>
                         /\ sending[1] \subseteq DOMAIN ended /\ sending[2] \in BOOLEAN
    /\ reports \in Seq([day : Nat, at : Nat, jobs : SUBSET Nat])
    /\ \A i \in DOMAIN reports : reports[i].jobs \subseteq DOMAIN ended /\ reports[i].day <= Today

\* A finished job is somewhere, and in two places only if an answer was lost.
PlacesInv ==
    /\ \A j \in DOMAIN ended : j \in gone \/ j \in meter \/ j \in Outgoing \/ Reported(j)
    /\ \A j \in DOMAIN ended \ unsure :
         /\ j \in meter => j \notin Outgoing /\ ~Reported(j)
         /\ j \in Outgoing => ~Reported(j)
         /\ \A i, k \in DOMAIN reports : j \in reports[i].jobs /\ j \in reports[k].jobs => i = k
    /\ sending # <<>> /\ sending[2] => \A j \in sending[1] : Reported(j)

\* The requests among some jobs: those that were not turned down.
Served(e, jobs) == Cardinality({j \in jobs : e[j] # "rejected"})
RequestsIn(jobs) == Served(ended, jobs)
\* The bars of the chart and their sum, and what is still to be filed.
Filed == [d \in 0..Today |-> Charted(d)]
OnChart == Total(0..Today, Filed)
Unfiled == RequestsIn(meter) + RequestsIn(Outgoing)

\* What the chart shows and what is still to come are all that there was.
SumInv == gone \cup unsure = {} => OnChart + Unfiled = RequestsIn(DOMAIN ended)
UsageInv == UsageTypes /\ PlacesInv /\ SumInv

\* A window is finite.
LEMMA FiniteParts ==
    ASSUME NEW n \in Nat, NEW S, S \subseteq 1..n
    PROVE  IsFiniteSet(S)
<1>1. IsFiniteSet(1..n)
  BY FS_Interval
<1> QED  BY <1>1, FS_Subset

\* They are what is left without the rejected ones (merge_counters).
LEMMA ServedAre ==
    ASSUME NEW e, NEW J, IsFiniteSet(J)
    PROVE  /\ Served(e, J) \in Nat
           /\ Cardinality(J) - Cardinality({j \in J : e[j] = "rejected"}) = Served(e, J)
<1> DEFINE no == {j \in J : e[j] = "rejected"}
           yes == {j \in J : e[j] # "rejected"}
<1>1. IsFiniteSet(J)
  OBVIOUS
<1>2. J = no \cup yes /\ no \cap yes = {} /\ no \subseteq J /\ yes \subseteq J
  OBVIOUS
<1>3. IsFiniteSet(no) /\ IsFiniteSet(yes)
  BY <1>1, <1>2, FS_Subset
<1>4. Cardinality(no) \in Nat /\ Cardinality(yes) \in Nat /\ Cardinality(no \cap yes) = 0
  BY <1>2, <1>3, FS_CardinalityType, FS_EmptySet
<1>5. Cardinality(no \cup yes) = Cardinality(no) + Cardinality(yes) - Cardinality(no \cap yes)
  <2> HIDE DEF no, yes
  <2> QED  BY <1>3, FS_Union
<1>6. Served(e, J) = Cardinality(yes)
  BY DEF Served
<1> HIDE DEF no, yes
<1>7. Cardinality(J) = Cardinality(no) + Cardinality(yes)
  BY <1>2, <1>4, <1>5
<1> QED  BY <1>4, <1>6, <1>7 DEF no

\* Two windows with no job in common hold as many as each.
LEMMA ServedJoin ==
    ASSUME NEW e, NEW J, NEW K, IsFiniteSet(J), IsFiniteSet(K), J \cap K = {}
    PROVE  Served(e, J \cup K) = Served(e, J) + Served(e, K)
<1> DEFINE A == {j \in J : e[j] # "rejected"}
           B == {j \in K : e[j] # "rejected"}
           C == {j \in J \cup K : e[j] # "rejected"}
<1>1. IsFiniteSet(A) /\ IsFiniteSet(B)
  <2>1. A \subseteq J /\ B \subseteq K
    OBVIOUS
  <2> HIDE DEF A, B
  <2> QED  BY <2>1, FS_Subset
<1>2. C = A \cup B /\ A \cap B = {}
  OBVIOUS
<1>3. Served(e, J \cup K) = Cardinality(C) /\ Served(e, J) = Cardinality(A) /\ Served(e, K) = Cardinality(B)
  BY DEF Served
<1> HIDE DEF A, B, C
<1>4. Cardinality(A) \in Nat /\ Cardinality(B) \in Nat /\ Cardinality(A \cap B) = 0
  BY <1>1, <1>2, FS_CardinalityType, FS_EmptySet
<1>5. Cardinality(A \cup B) = Cardinality(A) + Cardinality(B) - Cardinality(A \cap B)
  BY <1>1, FS_Union
<1> QED  BY <1>2, <1>3, <1>4, <1>5

\* An empty window.
LEMMA ServedNone == ASSUME NEW e PROVE Served(e, {}) = 0
<1>1. {j \in {} : e[j] # "rejected"} = {}
  OBVIOUS
<1> QED  BY <1>1, FS_EmptySet DEF Served

\* The same jobs that ended the same way.
LEMMA ServedSame ==
    ASSUME NEW e, NEW f, NEW J, \A j \in J : f[j] = e[j]
    PROVE  Served(f, J) = Served(e, J)
<1>1. {j \in J : f[j] # "rejected"} = {j \in J : e[j] # "rejected"}
  OBVIOUS
<1> QED  BY <1>1 DEF Served

\* The counter of a window.
LEMMA RequestsAre ==
    ASSUME UsageTypes, NEW J, J \subseteq DOMAIN ended
    PROVE  Counters(J).requests = RequestsIn(J) /\ RequestsIn(J) \in Nat
<1>1. Counters(J).requests = Cardinality(J) - Cardinality({j \in J : ended[j] = "rejected"})
  BY DEF Counters
<1>2. Len(ended) \in Nat /\ DOMAIN ended = 1..Len(ended)
  BY DEF UsageTypes
<1>3. IsFiniteSet(J)
  BY <1>2, FiniteParts
<1> QED  BY <1>1, <1>3, ServedAre DEF RequestsIn

\* A day's bar is a number, and what it counts are the rows of that day.
LEMMA BarsAreNumbers ==
    ASSUME UsageTypes, NEW d
    PROVE  /\ IsFiniteSet({i \in DOMAIN reports : reports[i].day = d})
           /\ \A i \in DOMAIN reports : Counters(reports[i].jobs).requests \in Nat
           /\ Charted(d) \in Nat
<1>1. IsFiniteSet({i \in DOMAIN reports : reports[i].day = d})
  <2>1. DOMAIN reports = 1..Len(reports) /\ Len(reports) \in Nat
    BY DEF UsageTypes
  <2>2. {i \in DOMAIN reports : reports[i].day = d} \subseteq DOMAIN reports
    OBVIOUS
  <2> QED  BY <2>1, <2>2, FiniteParts
<1>2. \A i \in DOMAIN reports : Counters(reports[i].jobs).requests \in Nat
  BY RequestsAre DEF UsageTypes
<1>3. Charted(d) \in Nat
  <2> DEFINE f == [i \in DOMAIN reports |-> Counters(reports[i].jobs).requests]
             S == {i \in DOMAIN reports : reports[i].day = d}
  <2>1. \A i \in S : f[i] \in Nat
    BY <1>2
  <2>2. Charted(d) = Total(S, f)
    BY DEF Charted
  <2> HIDE DEF f, S
  <2>3. IsFiniteSet(S)
    BY <1>1 DEF S
  <2> QED  BY <2>1, <2>2, <2>3, CoinsFinite
<1> QED  BY <1>1, <1>2, <1>3

\* A bar changes with the reports only.
LEMMA BarStays ==
    ASSUME UsageTypes, NEW d, reports' = reports, \A j \in DOMAIN ended : ended'[j] = ended[j]
    PROVE  Charted(d)' = Charted(d)
<1> DEFINE f == [i \in DOMAIN reports |-> Counters(reports[i].jobs).requests]
           S == {i \in DOMAIN reports : reports[i].day = d}
<1>1. ASSUME NEW i \in DOMAIN reports
      PROVE  Counters(reports[i].jobs)' = Counters(reports[i].jobs)
  <2>1. PICK J : J = reports[i].jobs
    OBVIOUS
  <2>2. J \subseteq DOMAIN ended
    BY <2>1 DEF UsageTypes
  <2>3. \A k : {j \in J : ended'[j] = k} = {j \in J : ended[j] = k}
    BY <2>2
  <2>4. Counters(J)' = Counters(J)
    BY <2>3 DEF Counters
  <2> QED  BY <2>1, <2>4
<1> QED  BY <1>1 DEF Charted

\* Every step keeps the types.
LEMMA UsageTypesStep == UsageTypes /\ [StatsNext]_statsVars => UsageTypes'
<1> SUFFICES ASSUME UsageTypes, [StatsNext]_statsVars PROVE UsageTypes'
  OBVIOUS
<1> DEFINE n == Len(ended)
<1>0. n \in Nat /\ DOMAIN ended = 1..n
  BY DEF UsageTypes
<1>1. CASE UNCHANGED <<ended, meter, sending, reports, hour>>
  BY <1>1 DEF UsageTypes, Today
<1>2. ASSUME NEW k \in Kinds, JobEnds(k) PROVE UsageTypes'
  <2>1. ended' = Append(ended, k) /\ meter' = meter \cup {n + 1} /\ UNCHANGED <<sending, reports, hour>>
    BY <1>2 DEF JobEnds
  <2>2. ended' \in Seq(Kinds) /\ DOMAIN ended' = 1..(n + 1)
    BY <2>1 DEF UsageTypes
  <2>3. DOMAIN ended \subseteq DOMAIN ended' /\ n + 1 \in DOMAIN ended'
    BY <1>0, <2>2
  <2> HIDE DEF n
  <2> QED  BY <2>1, <2>2, <2>3 DEF UsageTypes, Today
<1>3. CASE HourPasses
  <2>1. hour' = hour + 1 /\ UNCHANGED <<ended, meter, sending, reports>>
    BY <1>3 DEF HourPasses
  <2>2. hour \in Nat /\ hour' \in Nat /\ Today \in Nat /\ Today' \in Nat /\ Today <= Today'
    BY <2>1, DaysGoUp DEF UsageTypes, Today
  <2>3. ASSUME NEW i \in DOMAIN reports PROVE reports[i].day <= Today'
    <3>1. reports \in Seq([day : Nat, at : Nat, jobs : SUBSET Nat]) /\ reports[i].day <= Today
      BY DEF UsageTypes
    <3>2. PICK Rows : Rows = [day : Nat, at : Nat, jobs : SUBSET Nat]
      OBVIOUS
    <3>3. reports[i] \in Rows
      <4>1. reports \in Seq(Rows)
        BY <3>1, <3>2
      <4> QED  BY <4>1
    <3>4. reports[i].day \in Nat
      BY <3>2, <3>3
    <3> QED  BY <2>2, <3>1, <3>4
  <2> QED  BY <2>1, <2>2, <2>3 DEF UsageTypes
<1>4. CASE DrainAndSend
  <2>1. meter' = {} /\ UNCHANGED <<ended, reports, hour>> /\ (sending' = <<meter, FALSE>> \/ sending' = <<>>)
    BY <1>4 DEF DrainAndSend, Drained
  <2>2. ASSUME sending' # <<>>
        PROVE  sending' = <<sending'[1], sending'[2]>> /\ sending'[1] = meter /\ sending'[2] \in BOOLEAN
    <3>1. sending' = <<meter, FALSE>>
      BY <2>1, <2>2
    <3>2. sending'[1] = meter /\ sending'[2] = FALSE
      BY <3>1
    <3> QED  BY <3>1, <3>2, Zenon
  <2>3. meter \subseteq DOMAIN ended
    BY DEF UsageTypes
  <2> QED  BY <2>1, <2>2, <2>3 DEF UsageTypes, Today
<1>5. CASE SendFails \/ LoopRestart \/ SendOk
  <2>1. UNCHANGED <<ended, reports, hour>> /\ sending' = <<>>
    BY <1>5 DEF SendFails, LoopRestart, SendOk
  <2>2. meter' \subseteq DOMAIN ended
    BY <1>5 DEF SendFails, LoopRestart, SendOk, Restored, UsageTypes
  <2> QED  BY <2>1, <2>2 DEF UsageTypes, Today
<1>6. CASE Collect
  <2> DEFINE row == [day |-> Today, at |-> hour, jobs |-> sending[1]]
  <2>1. /\ reports' = Append(reports, row) /\ sending' = <<sending[1], TRUE>>
        /\ UNCHANGED <<ended, meter, hour>> /\ sending # <<>>
    BY <1>6 DEF Collect, Row
  <2>2. Today \in Nat /\ hour \in Nat /\ sending[1] \subseteq DOMAIN ended /\ sending[1] \subseteq Nat
    BY <2>1, <1>0, DaysGoUp DEF UsageTypes, Today
  <2>3. reports' \in Seq([day : Nat, at : Nat, jobs : SUBSET Nat])
    BY <2>1, <2>2 DEF UsageTypes
  <2>4. ASSUME NEW i \in DOMAIN reports'
        PROVE  reports'[i].jobs \subseteq DOMAIN ended /\ reports'[i].day <= Today
    <3>1. (i \in DOMAIN reports /\ reports'[i] = reports[i]) \/ reports'[i] = row
      BY <2>1 DEF UsageTypes
    <3> QED  BY <2>2, <3>1 DEF UsageTypes
  <2> QED  BY <2>1, <2>2, <2>3, <2>4 DEF UsageTypes, Today
<1> QED
  BY <1>1, <1>2, <1>3, <1>4, <1>5, <1>6
  DEF StatsNext, statsVars, growthVars, UsageNext, GrowthNext, Heartbeat, Snapshot, GitHubCounts

\* A step takes a job from one place to the next: job end, drain, sent, restored
\* (stats.rs), inserted (services/stats).
LEMMA PlacesStep == UsageTypes /\ PlacesInv /\ [StatsNext]_statsVars => PlacesInv'
<1> SUFFICES ASSUME UsageTypes, PlacesInv, [StatsNext]_statsVars PROVE PlacesInv'
  OBVIOUS
<1> DEFINE n == Len(ended)
<1>0. n \in Nat /\ DOMAIN ended = 1..n /\ n + 1 \notin DOMAIN ended
  BY DEF UsageTypes
<1>1. CASE UNCHANGED <<ended, meter, sending, reports, gone, unsure>>
  BY <1>1 DEF PlacesInv, Outgoing, Reported
<1>2. ASSUME NEW k \in Kinds, JobEnds(k) PROVE PlacesInv'
  <2>1. /\ ended' = Append(ended, k) /\ meter' = meter \cup {n + 1}
        /\ UNCHANGED <<sending, reports, gone, unsure, Outgoing>>
    BY <1>2 DEF JobEnds, Outgoing
  <2>2. DOMAIN ended' = DOMAIN ended \cup {n + 1}
    BY <1>0, <2>1 DEF UsageTypes
  <2>3. n + 1 \notin Outgoing /\ \A i \in DOMAIN reports : n + 1 \notin reports[i].jobs
    BY <1>0 DEF Outgoing, UsageTypes
  <2>4. \A j : Reported(j)' = Reported(j)
    BY <2>1 DEF Reported
  <2>5. ~Reported(n + 1)
    BY <2>3 DEF Reported
  <2> HIDE DEF n
  <2> QED  BY <1>0, <2>1, <2>2, <2>3, <2>4, <2>5 DEF PlacesInv
<1>3. CASE DrainAndSend
  <2>1. /\ meter' = {} /\ sending = <<>> /\ UNCHANGED <<ended, reports, unsure>>
        /\ \A j : Reported(j)' = Reported(j)
    BY <1>3 DEF DrainAndSend, Drained, Reported
  <2>2. Outgoing = {}
    BY <2>1 DEF Outgoing
  <2>3. CASE sending' = <<meter, FALSE>> /\ gone' = gone
    <3>1. sending' # <<>> /\ sending'[1] = meter /\ ~sending'[2]
      BY <2>3
    <3>2. Outgoing' = meter
      BY <3>1 DEF Outgoing
    <3> QED  BY <2>1, <2>2, <2>3, <3>1, <3>2 DEF PlacesInv
  <2>4. CASE sending' = <<>> /\ gone' = gone \cup meter
    <3>1. Outgoing' = {}
      BY <2>4 DEF Outgoing
    <3> QED  BY <2>1, <2>2, <2>4, <3>1 DEF PlacesInv
  <2> QED  BY <1>3, <2>3, <2>4 DEF DrainAndSend
<1>4. CASE SendFails
  <2>1. /\ sending # <<>> /\ sending' = <<>> /\ Outgoing' = {} /\ meter' = meter \cup sending[1]
        /\ UNCHANGED <<ended, reports, gone>> /\ \A j : Reported(j)' = Reported(j)
        /\ unsure' = IF sending[2] THEN unsure \cup sending[1] ELSE unsure
    BY <1>4 DEF SendFails, Restored, Outgoing, Reported
  <2>2. CASE sending[2]
    <3>1. unsure' = unsure \cup sending[1]
      BY <2>1, <2>2
    <3>2. Outgoing = {}
      BY <2>2 DEF Outgoing
    <3> QED  BY <2>1, <3>1, <3>2 DEF PlacesInv
  <2>3. CASE ~sending[2]
    <3>1. Outgoing = sending[1] /\ unsure' = unsure
      BY <2>1, <2>3 DEF Outgoing
    <3> QED  BY <2>1, <3>1 DEF PlacesInv
  <2> QED  BY <2>2, <2>3
<1>5. CASE SendOk
  <2>1. /\ sending # <<>> /\ sending[2] /\ sending' = <<>> /\ Outgoing' = {} /\ Outgoing = {}
        /\ UNCHANGED <<ended, meter, reports, gone, unsure>> /\ \A j : Reported(j)' = Reported(j)
    BY <1>5 DEF SendOk, Outgoing, Reported
  <2> QED  BY <2>1 DEF PlacesInv
<1>6. CASE LoopRestart
  <2>1. /\ gone' = gone \cup meter \cup (IF sending = <<>> THEN {} ELSE sending[1])
        /\ meter' = {} /\ sending' = <<>> /\ Outgoing' = {}
        /\ UNCHANGED <<ended, reports, unsure>> /\ \A j : Reported(j)' = Reported(j)
    BY <1>6 DEF LoopRestart, Outgoing, Reported
  <2>2. \A j \in Outgoing : j \in gone'
    BY <2>1 DEF Outgoing
  <2> QED  BY <2>1, <2>2 DEF PlacesInv
<1>7. CASE Collect
  <2> DEFINE row == [day |-> Today, at |-> hour, jobs |-> sending[1]]
             m == Len(reports)
  <2>1. /\ sending # <<>> /\ ~sending[2] /\ reports' = Append(reports, row) /\ sending' = <<sending[1], TRUE>>
        /\ UNCHANGED <<ended, meter, gone, unsure>>
    BY <1>7 DEF Collect, Row
  <2>2. /\ DOMAIN reports' = DOMAIN reports \cup {m + 1} /\ m + 1 \notin DOMAIN reports
        /\ reports'[m + 1].jobs = sending[1]
        /\ \A i \in DOMAIN reports : reports'[i] = reports[i]
    BY <2>1 DEF UsageTypes
  <2>3. Outgoing = sending[1] /\ Outgoing' = {} /\ sending'[1] = sending[1] /\ sending'[2]
    BY <2>1 DEF Outgoing
  <2> HIDE DEF m, row
  <2>4. \A j : Reported(j)' <=> Reported(j) \/ j \in sending[1]
    <3> TAKE j
    <3> QED  BY <2>2 DEF Reported
  <2>5. ASSUME NEW j \in DOMAIN ended \ unsure, NEW i \in DOMAIN reports', NEW k \in DOMAIN reports',
               j \in reports'[i].jobs, j \in reports'[k].jobs
        PROVE  i = k
    <3>1. CASE j \in sending[1]
      <4>1. ~Reported(j)
        BY <2>1, <2>3, <2>5, <3>1 DEF PlacesInv
      <4> QED  BY <2>2, <2>5, <4>1 DEF Reported
    <3>2. CASE j \notin sending[1]
      <4>1. i \in DOMAIN reports /\ k \in DOMAIN reports
        BY <2>2, <2>5, <3>2
      <4> QED  BY <2>1, <2>2, <2>5, <4>1 DEF PlacesInv
    <3> QED  BY <3>1, <3>2
  <2>6. \A j \in DOMAIN ended : j \in gone \/ j \in meter \/ Reported(j) \/ j \in sending[1]
    BY <2>3 DEF PlacesInv
  <2>7. \A j \in DOMAIN ended \ unsure : j \in meter => j \notin sending[1] /\ ~Reported(j)
    BY <2>3 DEF PlacesInv
  <2> QED  BY <2>1, <2>3, <2>4, <2>5, <2>6, <2>7 DEF PlacesInv
<1> QED
  BY <1>1, <1>2, <1>3, <1>4, <1>5, <1>6, <1>7
  DEF StatsNext, statsVars, growthVars, UsageNext, GrowthNext, Heartbeat, Snapshot, GitHubCounts, HourPasses

\* So does the chart.
LEMMA BarsStay ==
    ASSUME UsageTypes, reports' = reports, hour' = hour, \A j \in DOMAIN ended : ended'[j] = ended[j]
    PROVE  OnChart' = OnChart
<1>1. Today' = Today
  BY DEF Today
<1>2. \A d \in 0..Today : Charted(d)' = Charted(d)
  BY BarStays
<1>3. Filed' = Filed
  BY <1>1, <1>2 DEF Filed
<1> QED  BY <1>1, <1>3 DEF OnChart

\* A report adds its requests to the bar of its day.
LEMMA BarGrows ==
    ASSUME UsageTypes, Collect, NEW d
    PROVE  Charted(d)' = Charted(d) + IF d = Today THEN RequestsIn(sending[1]) ELSE 0
<1> DEFINE S == {i \in DOMAIN reports : reports[i].day = d}
           f == [i \in DOMAIN reports |-> Counters(reports[i].jobs).requests]
<1>0. PICK m : m = Len(reports)
  OBVIOUS
<1>1. PICK T : T = {i \in DOMAIN reports' : reports'[i].day = d}
  OBVIOUS
<1>2. PICK g : g = [i \in DOMAIN reports |-> Counters(reports[i].jobs).requests]'
  OBVIOUS
<1>3. Charted(d)' = Total(T, g) /\ Charted(d) = Total(S, f)
  BY <1>1, <1>2 DEF Charted
<1>4. /\ DOMAIN reports' = DOMAIN reports \cup {m + 1} /\ m + 1 \notin DOMAIN reports
      /\ reports'[m + 1].jobs = sending[1] /\ reports'[m + 1].day = Today
      /\ \A i \in DOMAIN reports : reports'[i] = reports[i]
  <2>1. reports' = Append(reports, [day |-> Today, at |-> hour, jobs |-> sending[1]])
    BY DEF Collect, Row
  <2> QED  BY <1>0, <2>1 DEF UsageTypes
<1>5. sending[1] \subseteq DOMAIN ended /\ ended' = ended
  BY DEF Collect, UsageTypes
<1>6. \A J : Counters(J)' = Counters(J)
  BY <1>5 DEF Counters
<1>7. g[m + 1] = RequestsIn(sending[1]) /\ g[m + 1] \in Nat
  <2>1. PICK J : J = sending[1]
    OBVIOUS
  <2>2. g[m + 1] = Counters(J).requests
    <3>1. g[m + 1] = Counters(reports[m + 1].jobs)'.requests
      BY <1>2, <1>4
    <3>2. reports'[m + 1].jobs = J
      BY <1>4, <2>1
    <3> QED  BY <1>6, <3>1, <3>2
  <2> QED  BY <1>5, <2>1, <2>2, RequestsAre
<1>8. \A i \in DOMAIN reports : g[i] = f[i]
  <2> SUFFICES ASSUME NEW i \in DOMAIN reports PROVE g[i] = f[i]
    OBVIOUS
  <2>1. PICK J : J = reports[i].jobs
    OBVIOUS
  <2>2. g[i] = Counters(reports[i].jobs)'.requests
    BY <1>2, <1>4
  <2>3. reports'[i].jobs = J
    BY <1>4, <2>1
  <2>4. g[i] = Counters(J).requests
    BY <1>6, <2>2, <2>3
  <2> QED  BY <2>1, <2>4
<1>9. IsFiniteSet(S) /\ \A i \in S : f[i] \in Nat
  BY BarsAreNumbers
<1>10. Total(S, g) = Total(S, f) /\ Total(S, f) \in Nat
  <2>1. \A i \in S : g[i] = f[i]
    BY <1>8
  <2> HIDE DEF S, f
  <2> QED  BY <1>9, <2>1, TotalSame, CoinsFinite
<1>11. CASE d = Today
  <2>1. T = S \cup {m + 1} /\ m + 1 \notin S
    BY <1>1, <1>4, <1>11
  <2>2. \A i \in T : g[i] \in Nat
    BY <1>7, <1>8, <1>9, <2>1
  <2> HIDE DEF S, f
  <2>3. IsFiniteSet(T) /\ T \ {m + 1} = S /\ m + 1 \in T
    BY <1>9, <2>1, FS_AddElement
  <2>4. Total(T, g) = Total(T \ {m + 1}, g) + g[m + 1]
    BY <2>2, <2>3, TotalSplit
  <2>5. Total(T, g) = Total(S, f) + RequestsIn(sending[1])
    BY <1>7, <1>10, <2>3, <2>4
  <2> QED  BY <1>3, <1>11, <2>5
<1>12. CASE d # Today
  <2>1. T = S
    BY <1>1, <1>4, <1>12
  <2> HIDE DEF S, f
  <2> QED  BY <1>3, <1>10, <1>12, <2>1
<1> QED  BY <1>11, <1>12

\* No step loses a request or counts it twice, unless a window was lost or its
\* answer was.
LEMMA SumStep == UsageTypes /\ PlacesInv /\ SumInv /\ [StatsNext]_statsVars => SumInv'
<1> SUFFICES ASSUME UsageTypes, PlacesInv, SumInv, [StatsNext]_statsVars, gone' \cup unsure' = {}
             PROVE  OnChart' + Unfiled' = RequestsIn(DOMAIN ended)'
  BY DEF SumInv
<1> DEFINE n == Len(ended)
<1>1. n \in Nat /\ DOMAIN ended = 1..n /\ meter \subseteq 1..n /\ Outgoing \subseteq 1..n
  BY DEF UsageTypes, Outgoing
<1>2. gone \cup unsure = {}
  BY DEF StatsNext, statsVars, growthVars, UsageNext, GrowthNext, JobEnds, DrainAndSend, SendFails, SendOk,
         LoopRestart, Collect, HourPasses, Heartbeat, Snapshot, GitHubCounts
<1>3. OnChart + Unfiled = RequestsIn(DOMAIN ended)
  BY <1>2 DEF SumInv
<1>4. RequestsIn(meter) \in Nat /\ RequestsIn(Outgoing) \in Nat /\ RequestsIn(DOMAIN ended) \in Nat
  BY <1>1, RequestsAre
<1>5. Unfiled = RequestsIn(meter) + RequestsIn(Outgoing)
  BY DEF Unfiled
<1>6. ended' = ended => \A J : RequestsIn(J)' = RequestsIn(J)
  BY DEF RequestsIn
<1>7. reports' = reports /\ hour' = hour /\ (\A j \in DOMAIN ended : ended'[j] = ended[j]) => OnChart' = OnChart
  BY BarsStay
<1>8. Today \in Nat /\ \A d \in 0..Today : Filed[d] = Charted(d) /\ Filed[d] \in Nat
  BY DaysGoUp, BarsAreNumbers DEF UsageTypes, Today, Filed
<1>9. OnChart \in Nat
  <2>1. IsFiniteSet(0..Today)
    BY <1>8, FS_Interval
  <2> QED  BY <1>8, <2>1, CoinsFinite DEF OnChart
<1>10. CASE UNCHANGED <<ended, meter, sending, reports, hour>>
  <2>1. meter' = meter /\ Outgoing' = Outgoing /\ ended' = ended
    BY <1>10 DEF Outgoing
  <2>2. Unfiled' = Unfiled /\ RequestsIn(DOMAIN ended)' = RequestsIn(DOMAIN ended)
    BY <2>1, <1>6 DEF Unfiled
  <2>3. OnChart' = OnChart
    BY <1>10, <1>7
  <2> QED  BY <2>2, <2>3, <1>3 DEF OnChart
<1>11. ASSUME NEW k \in Kinds, JobEnds(k) PROVE OnChart' + Unfiled' = RequestsIn(DOMAIN ended)'
  <2>1. PICK e : e = ended'
    OBVIOUS
  <2>2. PICK N \in Nat : N = n + 1
    BY <1>1
  <2>3. PICK O : O = Outgoing
    OBVIOUS
  <2>4. PICK M : M = meter
    OBVIOUS
  <2>5. ended' = Append(ended, k) /\ meter' = M \cup {N} /\ UNCHANGED <<sending, reports, hour>>
    BY <1>11, <2>2, <2>4 DEF JobEnds
  <2>6. DOMAIN ended' = (1..n) \cup {N} /\ \A j \in 1..n : e[j] = ended[j]
    BY <1>1, <2>1, <2>2, <2>5 DEF UsageTypes
  <2>7. Outgoing' = O
    BY <2>3, <2>5 DEF Outgoing
  <2> HIDE DEF n
  <2>8. (1..n) \cap {N} = {} /\ M \cap {N} = {}
    BY <1>1, <2>2, <2>4
  <2>9. IsFiniteSet(1..n) /\ IsFiniteSet({N}) /\ IsFiniteSet(M)
    BY <1>1, <2>4, FS_Singleton, FiniteParts
  <2>10. Served(e, (1..n) \cup {N}) = Served(e, 1..n) + Served(e, {N})
    BY <2>8, <2>9, ServedJoin
  <2>11. Served(e, M \cup {N}) = Served(e, M) + Served(e, {N})
    BY <2>8, <2>9, ServedJoin
  <2>12. /\ Served(e, 1..n) = RequestsIn(DOMAIN ended) /\ Served(e, M) = RequestsIn(meter)
         /\ Served(e, O) = RequestsIn(Outgoing) /\ Served(e, {N}) \in Nat
    <3>1. Served(e, 1..n) = Served(ended, 1..n)
      BY <2>6, ServedSame
    <3>2. Served(e, M) = Served(ended, M)
      BY <1>1, <2>4, <2>6, ServedSame, ZenonT(30)
    <3>3. Served(e, O) = Served(ended, O)
      BY <1>1, <2>3, <2>6, ServedSame, ZenonT(30)
    <3>4. Served(e, {N}) \in Nat
      BY <2>9, ServedAre
    <3> QED  BY <1>1, <2>3, <2>4, <3>1, <3>2, <3>3, <3>4 DEF RequestsIn
  <2>13. /\ RequestsIn(DOMAIN ended)' = Served(e, (1..n) \cup {N})
         /\ Unfiled' = Served(e, M \cup {N}) + Served(e, O)
    BY <2>1, <2>5, <2>6, <2>7 DEF RequestsIn, Unfiled
  <2>14. OnChart' = OnChart
    <3>1. \A j \in DOMAIN ended : ended'[j] = ended[j]
      BY <1>1, <2>1, <2>6
    <3> QED  BY <1>7, <2>5, <3>1
  <2> QED  BY <1>3, <1>4, <1>5, <1>9, <2>10, <2>11, <2>12, <2>13, <2>14
<1>12. CASE DrainAndSend
  <2>1. meter' = {} /\ sending = <<>> /\ UNCHANGED <<ended, reports, hour>>
    BY <1>12 DEF DrainAndSend, Drained
  <2>2. PICK M : M = meter
    OBVIOUS
  <2>3. Outgoing = {} /\ Outgoing' = M
    <3>1. Outgoing = {}
      BY <2>1 DEF Outgoing
    <3>2. CASE sending' = <<meter, FALSE>>
      <4>1. sending' # <<>> /\ sending'[1] = meter /\ ~sending'[2]
        BY <3>2
      <4> QED  BY <2>2, <3>1, <4>1 DEF Outgoing
    <3>3. CASE sending' = <<>> /\ gone' = gone \cup meter
      BY <2>2, <3>1, <3>3 DEF Outgoing
    <3> QED  BY <1>12, <3>2, <3>3 DEF DrainAndSend
  <2>4. RequestsIn({}) = 0
    BY ServedNone DEF RequestsIn
  <2>5. Unfiled' = Unfiled
    <3>1. Unfiled' = RequestsIn({}) + RequestsIn(M)
      BY <1>6, <2>1, <2>3 DEF Unfiled
    <3>2. Unfiled = RequestsIn(M) + RequestsIn({})
      BY <2>2, <2>3 DEF Unfiled
    <3> QED  BY <1>4, <2>2, <2>4, <3>1, <3>2
  <2>6. RequestsIn(DOMAIN ended)' = RequestsIn(DOMAIN ended) /\ OnChart' = OnChart
    BY <1>6, <1>7, <2>1
  <2> QED  BY <1>3, <2>5, <2>6
<1>13. CASE SendFails
  <2>1. PICK W : W = sending[1]
    OBVIOUS
  <2>2. PICK M : M = meter
    OBVIOUS
  <2>3. sending # <<>> /\ Outgoing' = {} /\ meter' = M \cup W /\ UNCHANGED <<ended, reports, hour>>
    BY <1>13, <2>1, <2>2 DEF SendFails, Restored, Outgoing
  <2>4. W \subseteq 1..n
    BY <1>1, <2>1, <2>3 DEF UsageTypes
  <2>5. RequestsIn({}) = 0
    BY ServedNone DEF RequestsIn
  <2>6. Outgoing = W
    <3>1. CASE sending[2]
      <4>1. W = {}
        BY <1>13, <2>1, <3>1 DEF SendFails
      <4> QED  BY <3>1, <4>1 DEF Outgoing
    <3>2. CASE ~sending[2]
      BY <2>1, <2>3, <3>2 DEF Outgoing
    <3> QED  BY <3>1, <3>2
  <2>7. M \cap W = {}
    BY <1>1, <1>2, <2>2, <2>6 DEF PlacesInv
  <2>8. RequestsIn(M \cup W) = RequestsIn(M) + RequestsIn(W)
    <3> HIDE DEF n
    <3>1. IsFiniteSet(M) /\ IsFiniteSet(W)
      BY <1>1, <2>2, <2>4, FiniteParts
    <3>2. Served(ended, M \cup W) = Served(ended, M) + Served(ended, W)
      BY <2>7, <3>1, ServedJoin
    <3> QED  BY <3>2 DEF RequestsIn
  <2>9. Unfiled' = RequestsIn(M \cup W) + RequestsIn({})
    BY <1>6, <2>3 DEF Unfiled
  <2>10. Unfiled' = Unfiled
    BY <1>4, <1>5, <2>2, <2>5, <2>6, <2>8, <2>9
  <2>11. RequestsIn(DOMAIN ended)' = RequestsIn(DOMAIN ended) /\ OnChart' = OnChart
    BY <1>6, <1>7, <2>3
  <2> QED  BY <1>3, <2>10, <2>11
<1>14. CASE SendOk
  <2>1. meter' = meter /\ Outgoing' = Outgoing /\ UNCHANGED <<ended, reports, hour>>
    BY <1>14 DEF SendOk, Outgoing
  <2>2. Unfiled' = Unfiled /\ RequestsIn(DOMAIN ended)' = RequestsIn(DOMAIN ended) /\ OnChart' = OnChart
    BY <1>6, <1>7, <2>1 DEF Unfiled
  <2> QED  BY <1>3, <2>2
<1>15. CASE LoopRestart
  <2>1. meter = {} /\ meter' = {} /\ Outgoing' = {} /\ UNCHANGED <<ended, reports, hour>>
    BY <1>15 DEF LoopRestart, Outgoing
  <2>2. Outgoing = {}
    BY <1>15 DEF LoopRestart, Outgoing
  <2>3. Unfiled' = Unfiled /\ RequestsIn(DOMAIN ended)' = RequestsIn(DOMAIN ended) /\ OnChart' = OnChart
    BY <1>6, <1>7, <2>1, <2>2 DEF Unfiled
  <2> QED  BY <1>3, <2>3
<1>16. CASE Collect
  <2>1. PICK W : W = sending[1]
    OBVIOUS
  <2>2. sending # <<>> /\ ~sending[2] /\ sending' = <<W, TRUE>> /\ UNCHANGED <<ended, meter, hour, Today>>
    BY <1>16, <2>1 DEF Collect, Today
  <2>3. Outgoing = W /\ Outgoing' = {}
    BY <2>1, <2>2 DEF Outgoing
  <2>4. PICK g : g = Filed'
    OBVIOUS
  <2>5. OnChart' = Total(0..Today, g)
    BY <2>2, <2>4 DEF OnChart
  <2>6. \A d \in 0..Today : g[d] = Filed[d] + IF d = Today THEN RequestsIn(W) ELSE 0
    <3> SUFFICES ASSUME NEW d \in 0..Today PROVE g[d] = Filed[d] + IF d = Today THEN RequestsIn(W) ELSE 0
      OBVIOUS
    <3>1. g[d] = Charted(d)'
      BY <2>2, <2>4 DEF Filed
    <3>2. Charted(d)' = Charted(d) + IF d = Today THEN RequestsIn(W) ELSE 0
      BY <1>16, <2>1, BarGrows
    <3> QED  BY <1>8, <3>1, <3>2
  <2>7. RequestsIn(W) \in Nat
    BY <1>4, <2>3
  <2>8. Total(0..Today, g) = Total(0..Today, Filed) + g[Today] - Filed[Today] /\ Filed[Today] \in Nat
    <3>1. IsFiniteSet(0..Today) /\ Today \in 0..Today
      BY <1>8, FS_Interval
    <3>2. g[Today] \in Nat /\ Filed[Today] \in Nat
      BY <1>8, <2>6, <2>7, <3>1
    <3>3. \A d \in (0..Today) \ {Today} : g[d] = Filed[d]
      BY <1>8, <2>6
    <3>4. PICK F : F = Filed
      OBVIOUS
    <3>5. PICK D : D = 0..Today
      OBVIOUS
    <3>6. IsFiniteSet(D) /\ Today \in D /\ \A d \in D : F[d] \in Nat
      BY <1>8, <3>1, <3>4, <3>5
    <3>7. \A d \in D \ {Today} : g[d] = F[d]
      BY <3>3, <3>4, <3>5
    <3>8. Total(D, g) = Total(D, F) + g[Today] - F[Today]
      BY <3>2, <3>6, <3>7, TotalChange
    <3> QED  BY <3>2, <3>4, <3>5, <3>8
  <2>9. g[Today] = Filed[Today] + RequestsIn(W)
    BY <1>8, <2>6
  <2>10. OnChart' = OnChart + RequestsIn(W)
    <3>1. Total(0..Today, Filed) \in Nat /\ OnChart = Total(0..Today, Filed)
      BY <1>9 DEF OnChart
    <3> QED  BY <2>5, <2>7, <2>8, <2>9, <3>1
  <2>11. RequestsIn({}) = 0
    BY ServedNone DEF RequestsIn
  <2>12. Unfiled' = RequestsIn(meter) + RequestsIn({}) /\ RequestsIn(DOMAIN ended)' = RequestsIn(DOMAIN ended)
    BY <1>6, <2>2, <2>3 DEF Unfiled
  <2>13. Unfiled' = RequestsIn(meter)
    BY <1>4, <2>11, <2>12
  <2>14. Unfiled = RequestsIn(meter) + RequestsIn(W)
    BY <1>5, <2>3
  <2> QED  BY <1>3, <1>4, <1>9, <2>7, <2>10, <2>12, <2>13, <2>14
<1>17. CASE HourPasses
  <2>1. hour' = hour + 1 /\ UNCHANGED <<ended, meter, sending, reports>>
    BY <1>17 DEF HourPasses
  <2>2. Today' \in Nat /\ Today <= Today'
    <3>1. hour \in Nat /\ hour' \in Nat
      BY <2>1 DEF UsageTypes
    <3> QED  BY <2>1, <3>1, DaysGoUp DEF Today
  <2>3. PICK g : g = Filed'
    OBVIOUS
  <2>4. PICK t \in Nat : t = Today'
    BY <2>2
  <2>5. OnChart' = Total(0..t, g)
    BY <2>3, <2>4 DEF OnChart
  <2>6. \A d \in 0..t : g[d] = Charted(d)
    <3> SUFFICES ASSUME NEW d \in 0..t PROVE g[d] = Charted(d)
      OBVIOUS
    <3>1. g[d] = Charted(d)'
      BY <2>3, <2>4 DEF Filed
    <3> QED  BY <2>1, <3>1, BarStays
  <2>7. 0..Today \subseteq 0..t /\ \A d \in 0..Today : g[d] = Filed[d]
    BY <1>8, <2>2, <2>4, <2>6
  <2>8. \A d \in (0..t) \ (0..Today) : g[d] = 0
    <3> SUFFICES ASSUME NEW d \in 0..t, ~(d \in 0..Today) PROVE g[d] = 0
      OBVIOUS
    <3>1. d > Today
      BY <1>8
    <3>2. {i \in DOMAIN reports : reports[i].day = d} = {}
      BY <1>8, <3>1 DEF UsageTypes
    <3>3. Charted(d) = 0
      BY <3>2, TotalZero DEF Charted
    <3> QED  BY <2>6, <3>3
  <2>9. OnChart' = OnChart
    <3>1. PICK F : F = Filed
      OBVIOUS
    <3>2. PICK S, T : S = 0..Today /\ T = 0..t
      OBVIOUS
    <3>3. S \subseteq T /\ (\A d \in S : g[d] = F[d]) /\ \A d \in T \ S : g[d] = 0
      BY <2>7, <2>8, <3>1, <3>2
    <3>4. Total(T, g) = Total(S, F)
      BY <3>3, TotalMore
    <3> QED  BY <2>5, <3>1, <3>2, <3>4 DEF OnChart
  <2>10. Unfiled' = Unfiled /\ RequestsIn(DOMAIN ended)' = RequestsIn(DOMAIN ended)
    BY <1>6, <2>1 DEF Unfiled, Outgoing
  <2> QED  BY <1>3, <2>9, <2>10
<1>18. CASE (\E id \in Installs : Heartbeat(id)) \/ Snapshot \/ GitHubCounts \/ UNCHANGED statsVars
  <2>1. UNCHANGED <<ended, meter, sending, reports, hour>>
    BY <1>18 DEF statsVars, Heartbeat, Snapshot, GitHubCounts
  <2> QED  BY <1>10, <2>1
<1> QED
  BY <1>11, <1>12, <1>13, <1>14, <1>15, <1>16, <1>17, <1>18 DEF StatsNext, UsageNext, GrowthNext

\* No job has ended.
LEMMA UsageStarts == StatsInit => UsageInv
<1> SUFFICES ASSUME StatsInit PROVE UsageInv
  OBVIOUS
<1>1. ended = <<>> /\ meter = {} /\ sending = <<>> /\ reports = <<>> /\ hour = 0 /\ Outgoing = {}
  BY DEF StatsInit, Outgoing
<1>2. UsageTypes
  BY <1>1 DEF UsageTypes
<1>3. PlacesInv
  BY <1>1 DEF PlacesInv
<1>4. SumInv
  <2>1. RequestsIn({}) = 0 /\ DOMAIN ended = {}
    BY <1>1, ServedNone DEF RequestsIn
  <2>2. Unfiled = 0
    BY <1>1, <2>1 DEF Unfiled
  <2>3. \A d \in 0..Today : Filed[d] = 0
    <3> SUFFICES ASSUME NEW d \in 0..Today PROVE Charted(d) = 0
      BY DEF Filed
    <3>1. {i \in DOMAIN reports : reports[i].day = d} = {}
      BY <1>1
    <3> QED  BY <3>1, TotalZero DEF Charted
  <2>4. OnChart = 0
    <3>1. PICK S : S = 0..Today
      OBVIOUS
    <3>2. Total(S, Filed) = 0
      BY <2>3, <3>1, TotalZero
    <3> QED  BY <3>1, <3>2 DEF OnChart
  <2> QED  BY <2>1, <2>2, <2>4 DEF SumInv
<1> QED  BY <1>2, <1>3, <1>4 DEF UsageInv

\* A set whose elements are all the same.
LEMMA AtMostOne ==
    ASSUME NEW S, IsFiniteSet(S), \A i, k \in S : i = k
    PROVE  Cardinality(S) <= 1 /\ Cardinality(S) \in Nat /\ (S # {} => Cardinality(S) = 1)
<1>1. CASE S = {}
  BY <1>1, FS_EmptySet
<1>2. ASSUME NEW x \in S PROVE Cardinality(S) = 1
  <2>1. S = {x}
    OBVIOUS
  <2> QED  BY <2>1, FS_Singleton
<1> QED  BY <1>1, <1>2

\* The invariant is what the chart has to show.
LEMMA UsageShows == UsageInv => NoHoleInChart
<1> SUFFICES ASSUME UsageInv PROVE NoHoleInChart
  OBVIOUS
<1>0. UsageTypes /\ PlacesInv /\ SumInv
  BY DEF UsageInv
<1>1. ASSUME gone \cup unsure = {}
      PROVE  Total(0..Today, [d \in 0..Today |-> Charted(d)]) + Counters(meter).requests
                + (IF sending = <<>> \/ sending[2] THEN 0 ELSE Counters(sending[1]).requests)
             = Counters(DOMAIN ended).requests
  <2>1. OnChart + (RequestsIn(meter) + RequestsIn(Outgoing)) = RequestsIn(DOMAIN ended)
    BY <1>0, <1>1 DEF SumInv, Unfiled
  <2>2. Counters(meter).requests = RequestsIn(meter) /\ RequestsIn(meter) \in Nat
    <3>1. meter \subseteq DOMAIN ended
      BY <1>0 DEF UsageTypes
    <3> QED  BY <1>0, <3>1, RequestsAre
  <2>3. Counters(DOMAIN ended).requests = RequestsIn(DOMAIN ended) /\ RequestsIn(DOMAIN ended) \in Nat
    BY <1>0, RequestsAre
  <2>4. (IF sending = <<>> \/ sending[2] THEN 0 ELSE Counters(sending[1]).requests) = RequestsIn(Outgoing)
    <3>1. CASE sending = <<>> \/ sending[2]
      <4>1. Outgoing = {}
        BY <3>1 DEF Outgoing
      <4> QED  BY <3>1, <4>1, ServedNone DEF RequestsIn
    <3>2. CASE ~(sending = <<>> \/ sending[2])
      <4>1. Outgoing = sending[1] /\ sending[1] \subseteq DOMAIN ended
        BY <1>0, <3>2 DEF Outgoing, UsageTypes
      <4>2. Counters(sending[1]).requests = RequestsIn(sending[1])
        BY <1>0, <4>1, RequestsAre
      <4> QED  BY <3>2, <4>1, <4>2
    <3> QED  BY <3>1, <3>2
  <2>5. OnChart = Total(0..Today, [d \in 0..Today |-> Charted(d)])
    BY DEF OnChart, Filed
  <2>6. RequestsIn(Outgoing) \in Nat /\ OnChart \in Nat
    <3>1. Outgoing \subseteq DOMAIN ended
      BY <1>0 DEF Outgoing, UsageTypes
    <3>2. Today \in Nat /\ \A d \in 0..Today : Filed[d] \in Nat
      BY <1>0, DaysGoUp, BarsAreNumbers DEF UsageTypes, Today, Filed
    <3>3. IsFiniteSet(0..Today)
      BY <3>2, FS_Interval
    <3>4. OnChart \in Nat
      BY <3>2, <3>3, CoinsFinite DEF OnChart
    <3> QED  BY <1>0, <3>1, <3>4, RequestsAre
  <2>7. PICK a \in Nat, b \in Nat, c \in Nat : a = OnChart /\ b = RequestsIn(meter) /\ c = RequestsIn(Outgoing)
    BY <2>2, <2>6
  <2> QED  BY <2>1, <2>2, <2>3, <2>4, <2>5, <2>7, SMTT(30)
<1>2. ASSUME NEW j \in DOMAIN ended
      PROVE  (j \notin gone => Places(j) >= 1) /\ (j \notin unsure => Places(j) <= 1)
  <2> DEFINE rows == {i \in DOMAIN reports : j \in reports[i].jobs}
  <2>1. PICK m \in {0, 1} : m = IF j \in meter THEN 1 ELSE 0
    OBVIOUS
  <2>2. PICK o \in {0, 1} : o = IF sending # <<>> /\ ~sending[2] /\ j \in sending[1] THEN 1 ELSE 0
    OBVIOUS
  <2>3. (m = 1 <=> j \in meter) /\ (o = 1 <=> j \in Outgoing) /\ (rows # {} <=> Reported(j))
    BY <2>1, <2>2 DEF Outgoing, Reported
  <2>4. Places(j) = m + o + Cardinality(rows)
    BY <2>1, <2>2 DEF Places
  <2>5. IsFiniteSet(rows)
    <3>1. DOMAIN reports = 1..Len(reports) /\ Len(reports) \in Nat
      BY <1>0 DEF UsageTypes
    <3>2. rows \subseteq DOMAIN reports
      OBVIOUS
    <3> QED  BY <3>1, <3>2, FiniteParts
  <2>6. Cardinality(rows) \in Nat /\ (rows = {} <=> Cardinality(rows) = 0)
    BY <2>5, FS_CardinalityType, FS_EmptySet
  <2>7. j \notin gone => m = 1 \/ o = 1 \/ rows # {}
    BY <1>0, <2>3 DEF PlacesInv
  <2>8. ASSUME j \notin unsure PROVE m + o + Cardinality(rows) <= 1
    <3>1. \A i, k \in rows : i = k
      BY <1>0, <2>8 DEF PlacesInv
    <3>2. (m = 1 => o = 0 /\ rows = {}) /\ (o = 1 => rows = {})
      BY <1>0, <2>3, <2>8 DEF PlacesInv
    <3> HIDE DEF rows
    <3>3. Cardinality(rows) <= 1
      BY <2>5, <3>1, AtMostOne
    <3> QED  BY <2>6, <3>2, <3>3
  <2> HIDE DEF rows
  <2> QED  BY <2>4, <2>6, <2>7, <2>8
<1> QED  BY <1>1, <1>2 DEF NoHoleInChart

\* The chart and the meters.
THEOREM NothingLostOrTwice == StatsSpec => []ChartsAddUp
<1>1. StatsInit => GrowthInv /\ UsageInv
  BY GrowthStarts, UsageStarts
<1>2. GrowthInv /\ UsageInv /\ [StatsNext]_statsVars => (GrowthInv /\ UsageInv)'
  BY GrowthStep, UsageTypesStep, PlacesStep, SumStep DEF UsageInv
<1>3. GrowthInv /\ UsageInv => ChartsAddUp
  BY GrowthShows, UsageShows DEF ChartsAddUp
<1> QED  BY <1>1, <1>2, <1>3, PTL DEF StatsSpec

-----------------------------------------------------------------------------
(* Conversations: every text arrives once, in the order it was written *)

\* Where a text was written: its turn, its block.
Place == Nat \X Nat
WordSeq == Seq(Place)
CallSeq == Seq(Nat)
\* A message of a job.
Msg == [role : {"system", "user", "assistant", "tool"}, words : WordSeq, calls : CallSeq,
        answers : Nat, images : Nat, name : Nat]

\* The texts of messages are texts.
LEMMA WordsOf ==
    ASSUME NEW ms \in Seq(Msg)
    PROVE  /\ [k \in DOMAIN ms |-> ms[k].words] \in Seq(Seq(Place))
           /\ Texts(ms) \in Seq(Place)
<1>1. \A k \in 1..Len(ms) : ms[k].words \in Seq(Place)
  <2> SUFFICES ASSUME NEW k \in 1..Len(ms) PROVE ms[k].words \in Seq(Place)
    OBVIOUS
  <2>1. PICK m \in Msg : m = ms[k]
    OBVIOUS
  <2> QED  BY <2>1 DEF Msg, WordSeq
<1>2. DOMAIN ms = 1..Len(ms) /\ Len(ms) \in Nat
  OBVIOUS
<1>3. PICK W : W = Seq(Place)
  OBVIOUS
<1>4. [k \in DOMAIN ms |-> ms[k].words] \in Seq(W)
  <2>1. \A k \in 1..Len(ms) : ms[k].words \in W
    BY <1>1, <1>3
  <2> QED  BY <1>2, <2>1
<1>5. [k \in DOMAIN ms |-> ms[k].words] \in Seq(Seq(Place))
  BY <1>3, <1>4
<1> HIDE <1>3
<1> QED  BY <1>5, FlattenType DEF Texts

\* No message says nothing.
LEMMA TextsNone == Texts(<<>>) = <<>>
<1>1. [k \in DOMAIN <<>> |-> <<>>[k].words] = <<>>
  <2>1. DOMAIN <<>> = {}
    OBVIOUS
  <2> QED  BY <2>1
<1> QED  BY <1>1, FlattenNone DEF Texts

\* One message says its own.
LEMMA TextsOne ==
    ASSUME NEW m \in Msg
    PROVE  Texts(<<m>>) = m.words
<1>1. PICK x \in Seq(Place) : x = m.words
  BY DEF Msg, WordSeq
<1>2. [k \in DOMAIN <<m>> |-> <<m>>[k].words] = <<x>>
  <2>1. DOMAIN <<m>> = 1..1 /\ <<m>>[1] = m
    OBVIOUS
  <2>2. <<x>> = [k \in 1..1 |-> x]
    OBVIOUS
  <2> QED  BY <1>1, <2>1, <2>2
<1> QED  BY <1>1, <1>2, FlattenOne DEF Texts

\* The texts of two conversations are those of the first and then of the second.
LEMMA TextsBoth ==
    ASSUME NEW a \in Seq(Msg), NEW b \in Seq(Msg)
    PROVE  Texts(a \o b) = Texts(a) \o Texts(b)
<1> DEFINE W(ms) == [k \in DOMAIN ms |-> ms[k].words]
<1>1. PICK c \in Seq(Msg) : c = a \o b
  <2>1. a \o b \in Seq(Msg)
    OBVIOUS
  <2> QED  BY <2>1
<1>2. /\ DOMAIN a = 1..Len(a) /\ DOMAIN b = 1..Len(b) /\ DOMAIN c = 1..Len(c)
      /\ Len(a) \in Nat /\ Len(b) \in Nat /\ Len(c) = Len(a) + Len(b)
      /\ \A k \in 1..(Len(a) + Len(b)) : c[k] = IF k <= Len(a) THEN a[k] ELSE b[k - Len(a)]
  BY <1>1, ConcatProperties
<1>3. PICK u \in Seq(Seq(Place)), v \in Seq(Seq(Place)), w \in Seq(Seq(Place)) : u = W(a) /\ v = W(b) /\ w = W(c)
  BY WordsOf
<1>4. Len(u) = Len(a) /\ Len(v) = Len(b) /\ Len(w) = Len(c)
  <2>1. DOMAIN u = 1..Len(a) /\ DOMAIN v = 1..Len(b) /\ DOMAIN w = 1..Len(c)
    BY <1>2, <1>3
  <2> QED  BY <1>2, <2>1
<1>5. /\ u \o v \in Seq(Seq(Place)) /\ Len(u \o v) = Len(u) + Len(v)
      /\ \A k \in 1..(Len(u) + Len(v)) : (u \o v)[k] = IF k <= Len(u) THEN u[k] ELSE v[k - Len(u)]
  BY ConcatProperties
<1>6. \A k \in 1..Len(w) : w[k] = (u \o v)[k]
  <2> SUFFICES ASSUME NEW k \in 1..Len(w) PROVE w[k] = (u \o v)[k]
    OBVIOUS
  <2>1. k \in 1..(Len(a) + Len(b)) /\ w[k] = c[k].words
    BY <1>2, <1>3, <1>4
  <2>2. CASE k <= Len(a)
    <3>1. u[k] = a[k].words
      BY <1>2, <1>3, <2>1, <2>2
    <3> QED  BY <1>2, <1>4, <1>5, <2>1, <2>2, <3>1
  <2>3. CASE ~(k <= Len(a))
    <3>1. k - Len(a) \in 1..Len(b)
      BY <1>2, <2>1, <2>3
    <3>2. v[k - Len(a)] = b[k - Len(a)].words
      BY <1>2, <1>3, <3>1
    <3> QED  BY <1>2, <1>4, <1>5, <2>1, <2>3, <3>2
  <2> QED  BY <2>2, <2>3
<1>7. w = u \o v
  <2>1. Len(w) = Len(u \o v)
    BY <1>2, <1>4, <1>5
  <2> QED  BY <1>5, <1>6, <2>1, SeqEqual
<1>8. FlattenSeq(u \o v) = FlattenSeq(u) \o FlattenSeq(v)
  BY FlattenBoth
<1> QED  BY <1>1, <1>3, <1>7, <1>8 DEF Texts

\* The texts of parts joined are the texts of each part, joined.
LEMMA TextsParts ==
    ASSUME NEW ps \in Seq(Seq(Msg))
    PROVE  /\ FlattenSeq(ps) \in Seq(Msg)
           /\ Texts(FlattenSeq(ps)) = FlattenSeq([k \in DOMAIN ps |-> Texts(ps[k])])
<1> DEFINE To(k) == SubSeq(ps, 1, k)
           q(k) == [j \in 1..k |-> Texts(ps[j])]
           good == {k \in Nat : k <= Len(ps) => Texts(FlattenSeq(To(k))) = FlattenSeq(q(k))}
<1>1. \A j \in 1..Len(ps) : ps[j] \in Seq(Msg) /\ Texts(ps[j]) \in Seq(Place)
  <2> TAKE j \in 1..Len(ps)
  <2>1. PICK m \in Seq(Msg) : m = ps[j]
    OBVIOUS
  <2>2. Texts(m) \in Seq(Place)
    BY WordsOf
  <2> QED  BY <2>1, <2>2
<1>2. 0 \in good
  <2>1. To(0) = <<>> /\ q(0) = <<>>
    OBVIOUS
  <2> QED  BY <2>1, FlattenNone, TextsNone
<1>3. ASSUME NEW k \in Nat, k \in good PROVE k + 1 \in good
  <2> SUFFICES ASSUME k + 1 <= Len(ps)
               PROVE  Texts(FlattenSeq(To(k + 1))) = FlattenSeq(q(k + 1))
    OBVIOUS
  <2>1. PICK x \in Seq(Msg) : x = ps[k + 1]
    BY <1>1
  <2>2. PICK f \in Seq(Seq(Msg)) : f = To(k) /\ To(k + 1) = Append(f, x)
    <3>1. To(k) \in Seq(Seq(Msg)) /\ To(k + 1) = Append(To(k), x)
      BY <2>1
    <3> QED  BY <3>1
  <2>3. FlattenSeq(Append(f, x)) = FlattenSeq(f) \o x /\ FlattenSeq(f) \in Seq(Msg)
    BY FlattenMore, FlattenType
  <2>4. Texts(FlattenSeq(f) \o x) = Texts(FlattenSeq(f)) \o Texts(x)
    BY <2>3, TextsBoth
  <2>5. PICK w \in Seq(Place) : w = Texts(x)
    BY WordsOf
  <2>6. q(k) \in Seq(Seq(Place)) /\ q(k + 1) = Append(q(k), w)
    <3>1. PICK S : S = Seq(Place)
      OBVIOUS
    <3>2. PICK g : g = [j \in 1..Len(ps) |-> Texts(ps[j])]
      OBVIOUS
    <3>3. q(k) = [j \in 1..k |-> g[j]] /\ q(k + 1) = [j \in 1..(k + 1) |-> g[j]] /\ g[k + 1] = w
      BY <2>1, <2>5, <3>2
    <3>4. \A j \in 1..k : g[j] \in S
      BY <1>1, <3>1, <3>2
    <3>5. w \in S
      BY <3>1
    <3> HIDE DEF q
    <3>6. q(k) \in Seq(S)
      BY <3>3, <3>4
    <3>7. Len(q(k)) = k
      BY <3>3
    <3>8. q(k + 1) = Append(q(k), w)
      BY <3>3, <3>5, <3>6, <3>7
    <3> QED  BY <3>1, <3>6, <3>8
  <2>7. Texts(FlattenSeq(f)) = FlattenSeq(q(k))
    BY <1>3, <2>2
  <2> HIDE DEF q, To
  <2>8. FlattenSeq(Append(q(k), w)) = FlattenSeq(q(k)) \o w
    BY <2>6, FlattenMore
  <2> QED  BY <2>2, <2>3, <2>4, <2>5, <2>6, <2>7, <2>8
<1>4. \A k \in Nat : k \in good
  <2> HIDE DEF good
  <2> QED  BY <1>2, <1>3, EveryNumber
<1>5. To(Len(ps)) = ps /\ Len(ps) \in Nat /\ Len(ps) <= Len(ps) /\ DOMAIN ps = 1..Len(ps)
  OBVIOUS
<1>6. Texts(FlattenSeq(ps)) = FlattenSeq(q(Len(ps)))
  <2> HIDE DEF q, To
  <2> QED  BY <1>4, <1>5
<1> QED  BY <1>5, <1>6, FlattenType

\* The number of a call.
LEMMA NumberedType ==
    ASSUME NEW s \in Seq(Turns), NEW t \in DOMAIN s, NEW b, NEW kinds
    PROVE  Numbered(s, t, b, kinds) \in Nat
<1> DEFINE rows == {{x} \X DOMAIN s[x].blocks : x \in 1..t}
           row == [x \in 1..t |-> {x} \X DOMAIN s[x].blocks]
           some == {p \in UNION rows : s[p[1]].blocks[p[2]] \in kinds /\ (p[1] < t \/ p[2] <= b)}
<1>1. t \in 1..Len(s) /\ t \in Nat /\ Len(s) \in Nat
  OBVIOUS
<1>2. IsFiniteSet(1..t)
  BY <1>1, FS_Interval
<1>3. IsFiniteSet(rows)
  <2>1. row \in Surjection(1..t, rows)
    BY DEF Surjection
  <2> QED  BY <1>2, <2>1, FS_Surjection
<1>4. ASSUME NEW r \in rows PROVE IsFiniteSet(r)
  <2>1. PICK x \in 1..t : r = {x} \X DOMAIN s[x].blocks
    OBVIOUS
  <2>2. s[x] \in Turns
    BY <1>1
  <2>3. PICK bs \in Seq(Blocks) : bs = s[x].blocks
    BY <2>2, TurnsAssumption
  <2>4. DOMAIN bs = 1..Len(bs) /\ Len(bs) \in Nat
    OBVIOUS
  <2>5. IsFiniteSet(1..Len(bs)) /\ IsFiniteSet({x})
    <3>1. 1 \in Int /\ Len(bs) \in Int
      BY <2>4
    <3> QED  BY <3>1, FS_Interval, FS_Singleton
  <2>6. IsFiniteSet({x} \X (1..Len(bs)))
    BY <2>5, FS_Product
  <2> QED  BY <2>1, <2>3, <2>4, <2>6
<1>5. IsFiniteSet(UNION rows)
  <2> HIDE DEF rows
  <2> QED  BY <1>3, <1>4, FS_UNION
<1>6. some \subseteq UNION rows
  OBVIOUS
<1>7. IsFiniteSet(some)
  <2> HIDE DEF rows, some
  <2> QED  BY <1>5, <1>6, FS_Subset
<1>8. Cardinality(some) \in Nat
  <2> HIDE DEF some
  <2> QED  BY <1>7, FS_CardinalityType
<1> QED  BY <1>8 DEF Numbered

\* The blocks of some kinds.
LEMMA SpotsType ==
    ASSUME NEW s \in Seq(Turns), NEW t \in DOMAIN s, NEW kinds
    PROVE  Spots(s, t, kinds) \in Seq(Nat)
<1>1. s[t] \in Turns
  OBVIOUS
<1>2. PICK bs \in Seq(Blocks) : bs = s[t].blocks
  BY <1>1, TurnsAssumption
<1>3. PICK S : S = Seq(Nat)
  OBVIOUS
<1>4. \A b \in 1..Len(bs) : (IF bs[b] \in kinds THEN <<b>> ELSE <<>>) \in S
  <2>1. \A b \in Nat : <<b>> \in Seq(Nat)
    OBVIOUS
  <2>2. <<>> \in Seq(Nat)
    OBVIOUS
  <2> QED  BY <1>3, <2>1, <2>2
<1>5. DOMAIN bs = 1..Len(bs) /\ Len(bs) \in Nat
  OBVIOUS
<1>6. [b \in DOMAIN bs |-> IF bs[b] \in kinds THEN <<b>> ELSE <<>>] \in Seq(S)
  BY <1>4, <1>5
<1> QED  BY <1>2, <1>3, <1>6, FlattenType DEF Spots

\* A sequence made from another, element by element.
LEMMA EachType ==
    ASSUME NEW T, NEW n \in Nat, NEW f, \A k \in 1..n : f[k] \in T
    PROVE  [k \in 1..n |-> f[k]] \in Seq(T)
OBVIOUS

\* A message with nothing in it.
LEMMA MessageType ==
    ASSUME NEW role \in {"system", "user", "assistant", "tool"}
    PROVE  Message(role) \in Msg
<1>1. <<>> \in WordSeq /\ <<>> \in CallSeq
  <2>1. <<>> \in WordSeq
    BY DEF WordSeq
  <2>2. <<>> \in CallSeq
    BY DEF CallSeq
  <2> QED  BY <2>1, <2>2
<1> QED  BY <1>1 DEF Message, Msg

\* A turn says its texts.
LEMMA SaidType ==
    ASSUME NEW s \in Seq(Turns), NEW t \in DOMAIN s
    PROVE  /\ Words(s, t) \in Seq(Place) /\ Said(s, t) \in Msg
           /\ Said(s, t).words = Words(s, t) /\ Said(s, t).role # "tool"
<1>0. t \in Nat /\ s[t] \in Turns /\ s[t].role \in {"system", "user", "assistant"}
  <2>1. t \in Nat /\ s[t] \in Turns
    OBVIOUS
  <2> QED  BY <2>1, TurnsAssumption
<1>1. Words(s, t) \in Seq(Place)
  <2>1. PICK at \in Seq(Nat) : at = Spots(s, t, {"text"})
    BY SpotsType
  <2>2. PICK f : f = [k \in 1..Len(at) |-> <<t, at[k]>>]
    OBVIOUS
  <2>3. \A k \in 1..Len(at) : f[k] \in Place
    BY <1>0, <2>2 DEF Place
  <2>4. Words(s, t) = [k \in 1..Len(at) |-> f[k]] /\ Len(at) \in Nat
    BY <2>1, <2>2 DEF Words
  <2> QED  BY <2>3, <2>4, EachType
<1>2. Calls(s, t) \in Seq(Nat)
  <2>1. PICK at \in Seq(Nat) : at = Spots(s, t, {"call"})
    BY SpotsType
  <2>2. PICK f : f = [k \in 1..Len(at) |-> Numbered(s, t, at[k], {"call"})]
    OBVIOUS
  <2>3. \A k \in 1..Len(at) : f[k] \in Nat
    BY <2>2, NumberedType
  <2>4. Calls(s, t) = [k \in 1..Len(at) |-> f[k]] /\ Len(at) \in Nat
    BY <2>1, <2>2 DEF Calls
  <2> QED  BY <2>3, <2>4, EachType
<1>3. PICK w \in WordSeq, c \in CallSeq, n \in Nat : w = Words(s, t) /\ c = Calls(s, t) /\ n = Len(Spots(s, t, {"image"}))
  <2>1. Len(Spots(s, t, {"image"})) \in Nat
    <3>1. PICK at \in Seq(Nat) : at = Spots(s, t, {"image"})
      BY SpotsType
    <3> QED  BY <3>1
  <2> QED  BY <1>1, <1>2, <2>1 DEF WordSeq, CallSeq
<1>4. PICK m \in Msg : m = Message(s[t].role) /\ m.role = s[t].role
  BY <1>0, MessageType DEF Message
<1>5. Said(s, t) = [m EXCEPT !.words = w, !.calls = c, !.images = n]
  BY <1>3, <1>4 DEF Said
<1> QED  BY <1>0, <1>1, <1>3, <1>4, <1>5 DEF Msg

\* The results of a turn.
LEMMA ResultsType ==
    ASSUME NEW s \in Seq(Turns), NEW t \in DOMAIN s
    PROVE  Results(s, t) \in Seq(Msg)
<1>1. PICK at \in Seq(Nat) : at = Spots(s, t, {"result", "mute"})
  BY SpotsType
<1>2. ASSUME NEW b \in Nat PROVE Result(s, t, b) \in Msg
  <2>1. PICK n \in Nat : n = Numbered(s, t, b, {"result", "mute"})
    BY NumberedType
  <2>2. PICK w \in WordSeq : w = IF s[t].blocks[b] = "result" THEN <<<<t, b>>>> ELSE <<>>
    <3>0. <<t, b>> \in Place
      <4>1. t \in Nat
        OBVIOUS
      <4> QED  BY <4>1 DEF Place
    <3>1. PICK x \in Place : x = <<t, b>>
      BY <3>0
    <3>2. <<x>> \in Seq(Place) /\ <<>> \in Seq(Place)
      OBVIOUS
    <3> QED  BY <3>1, <3>2 DEF WordSeq
  <2>3. PICK m \in Msg : m = Message("tool")
    BY MessageType
  <2>4. Result(s, t, b) = [m EXCEPT !.answers = n, !.words = w]
    BY <2>1, <2>2, <2>3 DEF Result
  <2> QED  BY <2>3, <2>4 DEF Msg
<1>3. PICK f : f = [k \in 1..Len(at) |-> Result(s, t, at[k])]
  OBVIOUS
<1>4. \A k \in 1..Len(at) : f[k] \in Msg
  BY <1>2, <1>3
<1>5. Results(s, t) = [k \in 1..Len(at) |-> f[k]] /\ Len(at) \in Nat
  BY <1>1, <1>3 DEF Results
<1> QED  BY <1>4, <1>5, EachType

\* What a turn says, in the order its dialect defines.
TurnWritten(s, t) ==
    LET results == Texts(Results(s, t)) IN
    IF dialect = "responses" THEN Words(s, t) \o results ELSE results \o Words(s, t)

\* push_anthropic_turn keeps every text: the results, then the rest.
LEMMA AnthropicTexts ==
    ASSUME NEW s \in Seq(Turns), NEW t \in DOMAIN s
    PROVE  AnthropicTurn(s, t) \in Seq(Msg) /\ Texts(AnthropicTurn(s, t)) = Texts(Results(s, t)) \o Words(s, t)
<1>1. PICK rs \in Seq(Msg) : rs = Results(s, t)
  BY ResultsType
<1>2. PICK m \in Msg, w \in Seq(Place) : m = Said(s, t) /\ w = Words(s, t) /\ m.words = w
  BY SaidType
<1>3. PICK own \in Seq(Msg) : own = (IF Speaks(m) \/ m.images > 0 THEN <<m>> ELSE <<>>) /\ Texts(own) = w
  <2>1. <<m>> \in Seq(Msg) /\ <<>> \in Seq(Msg)
    OBVIOUS
  <2>2. Texts(<<m>>) = w
    BY <1>2, TextsOne
  <2>3. ~Speaks(m) => w = <<>>
    BY <1>2 DEF Speaks
  <2> QED  BY <2>1, <2>2, <2>3, TextsNone
<1>4. AnthropicTurn(s, t) = rs \o own
  BY <1>1, <1>2, <1>3 DEF AnthropicTurn
<1>5. rs \o own \in Seq(Msg)
  OBVIOUS
<1>6. Texts(rs \o own) = Texts(rs) \o Texts(own)
  BY TextsBoth
<1> QED  BY <1>1, <1>2, <1>3, <1>4, <1>5, <1>6

\* An OpenAI message that is dropped had no text.
LEMMA OpenAiTexts ==
    ASSUME NEW s \in Seq(Turns), NEW t \in DOMAIN s
    PROVE  OpenAiTurn(s, t) \in Seq(Msg) /\ Texts(OpenAiTurn(s, t)) = Texts(Results(s, t)) \o Words(s, t)
<1>1. PICK rs \in Seq(Msg) : rs = Results(s, t)
  BY ResultsType
<1>2. PICK m \in Msg, w \in Seq(Place) : m = Said(s, t) /\ w = Words(s, t) /\ m.words = w
  BY SaidType
<1>3. PICK all \in Seq(Msg) : all = rs \o <<m>> /\ Texts(all) = Texts(rs) \o w
  <2>0. <<m>> \in Seq(Msg)
    OBVIOUS
  <2>1. PICK own \in Seq(Msg) : own = <<m>>
    BY <2>0
  <2>2. Texts(own) = w
    BY <1>2, <2>1, TextsOne
  <2>3. Texts(rs \o own) = Texts(rs) \o Texts(own)
    BY TextsBoth
  <2>4. rs \o own \in Seq(Msg)
    OBVIOUS
  <2> QED  BY <2>1, <2>2, <2>3, <2>4
<1>4. PICK f : f = [k \in 1..Len(all) |-> IF Speaks(all[k]) THEN <<all[k]>> ELSE <<>>]
  OBVIOUS
<1>5. OpenAiTurn(s, t) = FlattenSeq(f)
  <2>1. DOMAIN all = 1..Len(all)
    OBVIOUS
  <2> QED  BY <1>1, <1>2, <1>3, <1>4, <2>1 DEF OpenAiTurn
<1>6. ASSUME NEW k \in 1..Len(all) PROVE f[k] \in Seq(Msg) /\ Texts(f[k]) = all[k].words
  <2>1. PICK x \in Msg : x = all[k]
    OBVIOUS
  <2>2. <<x>> \in Seq(Msg) /\ <<>> \in Seq(Msg)
    OBVIOUS
  <2>3. Texts(<<x>>) = x.words
    BY TextsOne
  <2>4. f[k] = IF Speaks(x) THEN <<x>> ELSE <<>>
    BY <1>4, <2>1
  <2>5. ~Speaks(x) => x.words = <<>>
    BY DEF Speaks
  <2> QED  BY <2>1, <2>2, <2>3, <2>4, <2>5, TextsNone
<1>7. f \in Seq(Seq(Msg)) /\ DOMAIN f = DOMAIN all
  <2>1. PICK S : S = Seq(Msg)
    OBVIOUS
  <2>2. f = [k \in 1..Len(all) |-> f[k]] /\ Len(all) \in Nat /\ DOMAIN all = 1..Len(all)
    BY <1>4
  <2>3. \A k \in 1..Len(all) : f[k] \in S
    BY <1>6, <2>1
  <2>4. f \in Seq(S)
    BY <2>2, <2>3, EachType
  <2> QED  BY <2>1, <2>2, <2>4
<1>8. [k \in DOMAIN f |-> Texts(f[k])] = [k \in DOMAIN all |-> all[k].words]
  <2>1. DOMAIN all = 1..Len(all)
    OBVIOUS
  <2> QED  BY <1>6, <1>7, <2>1
<1>9. FlattenSeq(f) \in Seq(Msg) /\ Texts(FlattenSeq(f)) = FlattenSeq([k \in DOMAIN f |-> Texts(f[k])])
  BY <1>7, TextsParts
<1>10. Texts(FlattenSeq(f)) = Texts(all)
  BY <1>8, <1>9 DEF Texts
<1> QED  BY <1>1, <1>2, <1>3, <1>5, <1>9, <1>10

\* push_responses_item keeps every text: the message, then the results.
LEMMA ResponsesTexts ==
    ASSUME NEW s \in Seq(Turns), NEW t \in DOMAIN s
    PROVE  ResponsesTurn(s, t) \in Seq(Msg) /\ Texts(ResponsesTurn(s, t)) = Words(s, t) \o Texts(Results(s, t))
<1>1. PICK rs \in Seq(Msg) : rs = Results(s, t)
  BY ResultsType
<1>2. PICK m \in Msg, w \in Seq(Place) : m = Said(s, t) /\ w = Words(s, t) /\ m.words = w
  BY SaidType
<1>3. PICK c \in Seq(Nat) : c = m.calls
  BY DEF Msg, CallSeq
<1>4. PICK one \in Msg : one = [m EXCEPT !.calls = <<>>] /\ one.words = w
  <2>0. <<>> \in Seq(Nat)
    OBVIOUS
  <2>1. PICK none \in CallSeq : none = <<>>
    BY <2>0 DEF CallSeq
  <2>2. [m EXCEPT !.calls = none] \in Msg /\ [m EXCEPT !.calls = none].words = m.words
    BY DEF Msg
  <2> QED  BY <1>2, <2>1, <2>2
<1>5. PICK own \in Seq(Msg) : own = (IF m.words # <<>> \/ m.images > 0 THEN <<one>> ELSE <<>>) /\ Texts(own) = w
  <2>1. <<one>> \in Seq(Msg) /\ <<>> \in Seq(Msg)
    OBVIOUS
  <2>2. Texts(<<one>>) = w
    BY <1>4, TextsOne
  <2> QED  BY <1>2, <2>1, <2>2, TextsNone
<1>6. PICK calls : calls = [k \in 1..Len(c) |-> [Message("assistant") EXCEPT !.calls = <<c[k]>>]]
  OBVIOUS
<1>7. ASSUME NEW k \in 1..Len(c) PROVE calls[k] \in Msg /\ calls[k].words = <<>>
  <2>1. PICK x \in CallSeq : x = <<c[k]>>
    <3>1. PICK n \in Nat : n = c[k]
      OBVIOUS
    <3>2. <<n>> \in Seq(Nat)
      OBVIOUS
    <3> QED  BY <3>1, <3>2 DEF CallSeq
  <2>2. PICK a \in Msg : a = Message("assistant") /\ a.words = <<>>
    BY MessageType DEF Message
  <2>3. calls[k] = [a EXCEPT !.calls = x]
    BY <1>6, <2>1, <2>2
  <2> QED  BY <2>2, <2>3 DEF Msg
<1>8. calls \in Seq(Msg) /\ Len(c) \in Nat /\ Len(calls) = Len(c) /\ DOMAIN calls = 1..Len(c)
  <2>1. calls = [k \in 1..Len(c) |-> calls[k]] /\ Len(c) \in Nat
    BY <1>6
  <2>2. calls \in Seq(Msg)
    BY <1>7, <2>1, EachType
  <2> QED  BY <2>1, <2>2
<1>9. Texts(calls) = <<>>
  <2> DEFINE good == {k \in Nat : k <= Len(calls) => Texts(SubSeq(calls, 1, k)) = <<>>}
  <2>1. 0 \in good
    <3>1. SubSeq(calls, 1, 0) = <<>>
      OBVIOUS
    <3> QED  BY <3>1, TextsNone
  <2>2. ASSUME NEW k \in Nat, k \in good PROVE k + 1 \in good
    <3> SUFFICES ASSUME k + 1 <= Len(calls) PROVE Texts(SubSeq(calls, 1, k + 1)) = <<>>
      OBVIOUS
    <3>1. PICK f \in Seq(Msg), x \in Msg : f = SubSeq(calls, 1, k) /\ x = calls[k + 1] /\ SubSeq(calls, 1, k + 1) = f \o <<x>>
      <4>1. SubSeq(calls, 1, k) \in Seq(Msg) /\ calls[k + 1] \in Msg
        BY <1>8
      <4>2. SubSeq(calls, 1, k + 1) = SubSeq(calls, 1, k) \o <<calls[k + 1]>>
        BY <1>8
      <4> QED  BY <4>1, <4>2
    <3>2. x.words = <<>>
      BY <1>7, <1>8, <3>1
    <3>3. <<x>> \in Seq(Msg) /\ Texts(<<x>>) = <<>>
      BY <3>2, TextsOne
    <3>4. Texts(f \o <<x>>) = Texts(f) \o Texts(<<x>>)
      BY <3>3, TextsBoth
    <3>5. Texts(f) = <<>> /\ <<>> \o <<>> = <<>>
      BY <2>2, <3>1
    <3> QED  BY <3>1, <3>3, <3>4, <3>5
  <2>3. \A k \in Nat : k \in good
    <3> HIDE DEF good
    <3> QED  BY <2>1, <2>2, EveryNumber
  <2>4. SubSeq(calls, 1, Len(calls)) = calls /\ Len(calls) \in Nat /\ Len(calls) <= Len(calls)
    BY <1>8
  <2>5. Texts(SubSeq(calls, 1, Len(calls))) = <<>>
    BY <2>3, <2>4
  <2> QED  BY <2>4, <2>5
<1>10. ResponsesTurn(s, t) = (own \o calls) \o rs
  <2>1. DOMAIN c = 1..Len(c)
    OBVIOUS
  <2> QED  BY <1>1, <1>2, <1>3, <1>4, <1>5, <1>6, <2>1 DEF ResponsesTurn
<1>11. PICK u \in Seq(Msg) : u = own \o calls /\ Texts(u) = w
  <2>1. own \o calls \in Seq(Msg)
    BY <1>8
  <2>2. Texts(own \o calls) = Texts(own) \o Texts(calls)
    BY <1>8, TextsBoth
  <2>3. w \o <<>> = w
    OBVIOUS
  <2> QED  BY <1>5, <1>9, <2>1, <2>2, <2>3
<1>12. u \o rs \in Seq(Msg) /\ Texts(u \o rs) = Texts(u) \o Texts(rs)
  <2>1. u \o rs \in Seq(Msg)
    OBVIOUS
  <2> QED  BY <2>1, TextsBoth
<1> QED  BY <1>1, <1>2, <1>10, <1>11, <1>12

\* The three dialects into_chat reads.
Dialects == {"anthropic", "openai", "responses"}

\* So do all of the dialects.
LEMMA TurnTexts ==
    ASSUME NEW s \in Seq(Turns), NEW t \in DOMAIN s, dialect \in Dialects
    PROVE  TurnOf(s, t) \in Seq(Msg) /\ Texts(TurnOf(s, t)) = TurnWritten(s, t)
<1>1. CASE dialect = "anthropic"
  BY <1>1, AnthropicTexts DEF TurnOf, TurnWritten
<1>2. CASE dialect = "openai"
  BY <1>2, OpenAiTexts DEF TurnOf, TurnWritten
<1>3. CASE dialect = "responses"
  BY <1>3, ResponsesTexts DEF TurnOf, TurnWritten
<1> QED  BY <1>1, <1>2, <1>3 DEF Dialects

\* And so does a whole conversation.
LEMMA MessagesTexts ==
    ASSUME NEW s \in Seq(Turns), dialect \in Dialects
    PROVE  /\ Messages(s) \in Seq(Msg)
           /\ Texts(Messages(s)) = FlattenSeq([t \in DOMAIN s |-> TurnWritten(s, t)])
<1>1. PICK S : S = Seq(Msg)
  OBVIOUS
<1>2. PICK f : f = [t \in 1..Len(s) |-> TurnOf(s, t)]
  OBVIOUS
<1>3. DOMAIN s = 1..Len(s) /\ Len(s) \in Nat
  OBVIOUS
<1>4. \A t \in 1..Len(s) : f[t] \in S /\ Texts(f[t]) = TurnWritten(s, t)
  BY <1>1, <1>2, <1>3, TurnTexts
<1>5. f = [t \in 1..Len(s) |-> f[t]]
  BY <1>2
<1>6. f \in Seq(S)
  BY <1>3, <1>4, <1>5, EachType
<1>7. Messages(s) = FlattenSeq(f)
  BY <1>2, <1>3 DEF Messages
<1>8. [t \in DOMAIN f |-> Texts(f[t])] = [t \in DOMAIN s |-> TurnWritten(s, t)]
  <2>1. DOMAIN f = DOMAIN s
    BY <1>2, <1>3
  <2> QED  BY <1>3, <1>4, <2>1
<1>9. f \in Seq(Seq(Msg))
  BY <1>1, <1>6
<1> HIDE <1>6
<1> QED  BY <1>7, <1>8, <1>9, TextsParts

\* The opening instructions are those before the first other message.
LEMMA OpeningIs ==
    ASSUME NEW ms \in Seq(Msg)
    PROVE  /\ Opening(ms) \in 0..Len(ms)
           /\ \A i \in 1..Opening(ms) : ms[i].role = "system"
           /\ Opening(ms) < Len(ms) => ms[Opening(ms) + 1].role # "system"
<1>1. PICK n \in Nat : n = Len(ms)
  OBVIOUS
<1> DEFINE runs == {k \in DOMAIN ms : \A i \in 1..k : ms[i].role = "system"}
<1>2. PICK S : S = {0} \cup runs
  OBVIOUS
<1>3. DOMAIN ms = 1..n
  BY <1>1
<1>4. S \in SUBSET (0..n) /\ S # {} /\ 0 \in Int /\ n \in Int
  BY <1>2, <1>3
<1>5. Max(S) \in S /\ \A y \in S : y <= Max(S)
  BY <1>4, GreatestOf
<1>6. PICK p \in 0..n : p = Max(S)
  BY <1>4, <1>5
<1>7. Opening(ms) = p
  BY <1>2, <1>6 DEF Opening
<1>8. \A i \in 1..p : ms[i].role = "system"
  BY <1>2, <1>5, <1>6
<1>9. ASSUME p < n, ms[p + 1].role = "system" PROVE FALSE
  <2>1. \A i \in 1..(p + 1) : ms[i].role = "system"
    <3> TAKE i \in 1..(p + 1)
    <3>1. i \in 1..p \/ i = p + 1
      BY <1>6
    <3> QED  BY <1>8, <1>9, <3>1
  <2>2. p + 1 \in 1..n
    BY <1>9
  <2>3. p + 1 \in S
    BY <1>2, <1>3, <2>1, <2>2
  <2> QED  BY <1>5, <1>6, <2>3
<1> QED  BY <1>1, <1>7, <1>8, <1>9

\* Joining texts is associative.
LEMMA WordsJoin ==
    ASSUME NEW a \in Seq(Place), NEW b \in Seq(Place), NEW c \in Seq(Place)
    PROVE  (a \o b) \o c = a \o (b \o c)
BY ConcatAssociative

\* A sequence and the same with another last element have one start.
LEMMA LastSplit ==
    ASSUME NEW T, NEW s \in Seq(T), NEW n \in Nat, n = Len(s), n > 0, NEW l \in T,
           NEW z \in Seq(T), Len(z) = n, z[n] = l, \A j \in 1..(n - 1) : z[j] = s[j]
    PROVE  z = SubSeq(s, 1, n - 1) \o <<l>>
OBVIOUS

\* Words more in the last message are words more at the end.
LEMMA TextsLast ==
    ASSUME NEW f \in Seq(Msg), NEW m \in Msg, NEW l \in Msg, NEW w \in Seq(Place), l.words = m.words \o w
    PROVE  Texts(f \o <<l>>) = Texts(f \o <<m>>) \o w
<1>1. PICK o \in Seq(Place) : o = m.words
  BY DEF Msg, WordSeq
<1>2. <<m>> \in Seq(Msg) /\ <<l>> \in Seq(Msg)
  OBVIOUS
<1>3. Texts(<<m>>) = o /\ Texts(<<l>>) = o \o w
  BY <1>1, TextsOne
<1>4. Texts(f \o <<m>>) = Texts(f) \o o /\ Texts(f \o <<l>>) = Texts(f) \o (o \o w)
  BY <1>2, <1>3, TextsBoth
<1>5. PICK g \in Seq(Place) : g = Texts(f)
  BY WordsOf
<1>6. g \o (o \o w) = (g \o o) \o w
  BY WordsJoin
<1> QED  BY <1>4, <1>5, <1>6

\* What folding has done with the first k messages.
FoldInv(acc, ms, k) ==
    /\ acc \in [out : Seq(Msg), held : Seq(Place)]
    /\ Opening(ms) <= Len(acc.out)
    /\ \A j \in (Opening(ms) + 1)..Len(acc.out) : acc.out[j].role # "system"
    /\ Texts(acc.out) \o acc.held = Texts(SubSeq(ms, 1, k))
    /\ acc.held # <<>> => k < Len(ms) /\ ms[k + 1].role # "system"

\* fold_late_system_messages: an instruction joins the user turn before it, waits
\* for the one after it or becomes one, and its text keeps its place.
LEMMA FoldsOn ==
    ASSUME NEW ms \in Seq(Msg), NEW k \in 1..Len(ms), NEW acc, FoldInv(acc, ms, k - 1)
    PROVE  FoldInv(Folded(acc, ms, k), ms, k)
<1>1. PICK out \in Seq(Msg), held \in Seq(Place) : out = acc.out /\ held = acc.held /\ acc = [out |-> out, held |-> held]
  BY DEF FoldInv
<1>2. PICK m \in Msg : m = ms[k]
  OBVIOUS
<1>3. PICK w \in Seq(Place) : w = m.words
  BY DEF Msg, WordSeq
<1>4. PICK n \in Nat, p \in Nat : n = Len(out) /\ p = Opening(ms)
  BY OpeningIs
<1>5. p <= n /\ \A j \in (p + 1)..n : out[j].role # "system"
  BY <1>1, <1>4 DEF FoldInv
<1>6. held # <<>> => m.role # "system"
  <2>1. k - 1 + 1 = k
    OBVIOUS
  <2> QED  BY <1>1, <1>2, <2>1 DEF FoldInv
<1>7. PICK so \in Seq(Msg) : so = SubSeq(ms, 1, k - 1) /\ SubSeq(ms, 1, k) = so \o <<m>>
  <2>1. SubSeq(ms, 1, k - 1) \in Seq(Msg) /\ SubSeq(ms, 1, k) = SubSeq(ms, 1, k - 1) \o <<m>>
    BY <1>2
  <2> QED  BY <2>1
<1>8. PICK u \in Seq(Place) : u = Texts(out)
  BY WordsOf
<1>9. Texts(SubSeq(ms, 1, k)) = (u \o held) \o w
  <2>1. <<m>> \in Seq(Msg) /\ Texts(<<m>>) = w
    BY <1>3, TextsOne
  <2>2. Texts(so \o <<m>>) = Texts(so) \o w
    BY <2>1, TextsBoth
  <2>3. Texts(so) = u \o held
    BY <1>1, <1>7, <1>8 DEF FoldInv
  <2> QED  BY <1>7, <2>2, <2>3
<1>10. \A v \in Seq(Place) : v \o <<>> = v
  OBVIOUS
<1>11. (u \o held) \o w = u \o (held \o w)
  BY WordsJoin
<1> DEFINE next == Folded(acc, ms, k)
<1>12. CASE m.role # "system"
  <2>1. next = [out |-> Append(out, Led(held, m)), held |-> <<>>]
    BY <1>1, <1>2, <1>12 DEF Folded
  <2>2. PICK x \in Seq(Place) : x = held \o w
    <3>1. held \o w \in Seq(Place)
      OBVIOUS
    <3> QED  BY <3>1
  <2>3. PICK l \in Msg : l = Led(held, m) /\ l.words = x /\ l.role = m.role
    <3>1. x \in WordSeq
      BY DEF WordSeq
    <3>2. Led(held, m) = [m EXCEPT !.words = x]
      BY <1>3, <2>2 DEF Led
    <3>3. [m EXCEPT !.words = x] \in Msg /\ [m EXCEPT !.words = x].words = x /\ [m EXCEPT !.words = x].role = m.role
      BY <3>1 DEF Msg
    <3> QED  BY <3>2, <3>3
  <2>4. PICK o \in Seq(Msg) : o = Append(out, l) /\ Len(o) = n + 1 /\ o[n + 1] = l /\ \A j \in 1..n : o[j] = out[j]
    <3>1. /\ Append(out, l) \in Seq(Msg) /\ Len(Append(out, l)) = n + 1 /\ Append(out, l)[n + 1] = l
          /\ \A j \in 1..n : Append(out, l)[j] = out[j]
      BY <1>4
    <3> QED  BY <3>1
  <2>5. Texts(o) = u \o x
    <3>1. <<l>> \in Seq(Msg) /\ Texts(<<l>>) = x
      BY <2>3, TextsOne
    <3>2. Texts(out \o <<l>>) = Texts(out) \o x
      BY <3>1, TextsBoth
    <3>3. Append(out, l) = out \o <<l>>
      OBVIOUS
    <3> QED  BY <1>8, <2>4, <3>2, <3>3
  <2>6. next.out = o /\ next.held = <<>> /\ next = [out |-> o, held |-> <<>>]
    BY <2>1, <2>3, <2>4
  <2>7. <<>> \in Seq(Place)
    OBVIOUS
  <2>8. next \in [out : Seq(Msg), held : Seq(Place)]
    BY <2>6, <2>7
  <2>9. Texts(next.out) \o next.held = Texts(SubSeq(ms, 1, k))
    <3>1. PICK y \in Seq(Place) : y = u \o x
      <4>1. u \o x \in Seq(Place)
        OBVIOUS
      <4> QED  BY <4>1
    <3> QED  BY <1>9, <1>10, <2>2, <2>5, <1>11, <2>6, <3>1
  <2>10. \A j \in (p + 1)..(n + 1) : o[j].role # "system"
    <3> TAKE j \in (p + 1)..(n + 1)
    <3>1. j = n + 1 \/ (j \in 1..n /\ j \in (p + 1)..n)
      BY <1>5
    <3> QED  BY <1>5, <1>12, <2>3, <2>4, <3>1
  <2>11. p <= Len(o)
    BY <1>5, <2>4
  <2> HIDE DEF next
  <2>12. FoldInv(next, ms, k)
    BY <1>4, <2>4, <2>6, <2>8, <2>9, <2>10, <2>11 DEF FoldInv
  <2> QED  BY <2>12 DEF next
<1>13. CASE m.role = "system"
  <2>1. held = <<>> /\ Texts(SubSeq(ms, 1, k)) = u \o w
    BY <1>6, <1>9, <1>10, <1>13
  <2>2. CASE n > p /\ out[n].role = "user"
    <3>1. next = [acc EXCEPT !.out[n].words = @ \o w]
      BY <1>1, <1>2, <1>3, <1>4, <1>13, <2>2 DEF Folded
    <3>2. PICK a \in Msg, l \in Msg : a = out[n] /\ l = [a EXCEPT !.words = @ \o w]
                                      /\ l.words = a.words \o w /\ l.role = a.role
      <4>1. PICK a \in Msg : a = out[n]
        BY <1>4, <2>2
      <4>2. PICK x \in WordSeq : x = a.words \o w
        <5>1. PICK c \in Seq(Place) : c = a.words
          BY DEF Msg, WordSeq
        <5>2. c \o w \in Seq(Place)
          OBVIOUS
        <5> QED  BY <5>1, <5>2 DEF WordSeq
      <4>3. [a EXCEPT !.words = x] \in Msg /\ [a EXCEPT !.words = x].words = x /\ [a EXCEPT !.words = x].role = a.role
        BY DEF Msg
      <4> QED  BY <4>1, <4>2, <4>3
    <3>3. PICK o : o = [out EXCEPT ![n] = l]
      OBVIOUS
    <3>4. next = [out |-> o, held |-> held]
      BY <1>1, <3>2, <3>1, <3>3
    <3>5. o \in Seq(Msg) /\ Len(o) = n /\ (\A j \in 1..n : o[j].role = out[j].role) /\ Texts(o) = Texts(out) \o w
      <4>1. n > 0 /\ n \in 1..Len(out)
        BY <1>4, <2>2
      <4>2. /\ [out EXCEPT ![n] = l] \in Seq(Msg) /\ Len([out EXCEPT ![n] = l]) = Len(out)
            /\ \A j \in 1 .. Len(out) : [out EXCEPT ![n] = l][j] = IF j = n THEN l ELSE out[j]
        BY <4>1, ExceptSeq
      <4>3. o \in Seq(Msg) /\ Len(o) = n /\ \A j \in 1..n : o[j] = IF j = n THEN l ELSE out[j]
        BY <1>4, <3>3, <4>2
      <4>4. l.words = out[n].words \o w /\ l.role = out[n].role
        BY <3>2
      <4>5. n = Len(out)
        BY <1>4
      <4>6. Texts(o) = Texts(out) \o w
        <5>1. PICK f \in Seq(Msg) : out = f \o <<out[n]>> /\ o = f \o <<l>>
          <6>1. PICK z \in Seq(Msg) : z = o
            BY <4>3
          <6>2. Len(z) = n /\ z[n] = l /\ \A j \in 1..(n - 1) : z[j] = out[j]
            BY <4>1, <4>3, <6>1
          <6>3. n > 0
            BY <4>1
          <6>4. /\ SubSeq(out, 1, n - 1) \in Seq(Msg)
                /\ out = SubSeq(out, 1, n - 1) \o <<out[n]>>
                /\ z = SubSeq(out, 1, n - 1) \o <<l>>
            <7>1. SubSeq(out, 1, n - 1) \in Seq(Msg) /\ out = SubSeq(out, 1, n - 1) \o <<out[n]>>
              BY <4>5, <6>3
            <7>2. z = SubSeq(out, 1, n - 1) \o <<l>>
              BY <4>5, <6>2, <6>3, LastSplit
            <7> QED  BY <7>1, <7>2
          <6> QED  BY <6>1, <6>4
        <5>2. l.words = a.words \o w /\ a = out[n]
          BY <3>2
        <5>3. Texts(f \o <<l>>) = Texts(f \o <<a>>) \o w
          BY <5>2, TextsLast, ZenonT(30)
        <5> QED  BY <3>3, <5>1, <5>2, <5>3
      <4>7. \A j \in 1..n : o[j].role = out[j].role
        BY <4>4, <4>3
      <4> QED  BY <4>3, <4>6, <4>7
    <3>6. next.out = o /\ next.held = <<>> /\ next \in [out : Seq(Msg), held : Seq(Place)]
      BY <2>1, <3>4, <3>5
    <3>7. Texts(next.out) \o next.held = Texts(SubSeq(ms, 1, k))
      <4>1. PICK y \in Seq(Place) : y = u \o w
        <5>1. u \o w \in Seq(Place)
          OBVIOUS
        <5> QED  BY <5>1
      <4> QED  BY <1>8, <1>10, <2>1, <3>5, <3>6, <4>1
    <3>8. \A j \in (p + 1)..n : o[j].role # "system"
      <4> TAKE j \in (p + 1)..n
      <4>1. j \in 1..n
        OBVIOUS
      <4> QED  BY <1>5, <3>5, <4>1
    <3> HIDE DEF next
    <3>9. FoldInv(next, ms, k)
      BY <1>4, <1>5, <3>5, <3>6, <3>7, <3>8 DEF FoldInv
    <3> QED  BY <3>9 DEF next
  <2>3. CASE ~(n > p /\ out[n].role = "user") /\ k < Len(ms) /\ ms[k + 1].role = "user"
    <3>1. next = [acc EXCEPT !.held = w]
      BY <1>1, <1>2, <1>3, <1>4, <1>13, <2>3 DEF Folded
    <3>2. next = [out |-> out, held |-> w]
      BY <1>1, <3>1
    <3>3. next.out = out /\ next.held = w /\ next \in [out : Seq(Msg), held : Seq(Place)]
      BY <3>2
    <3>4. Texts(next.out) \o next.held = Texts(SubSeq(ms, 1, k))
      BY <1>8, <2>1, <3>3
    <3> HIDE DEF next
    <3>5. FoldInv(next, ms, k)
      BY <1>4, <1>5, <2>3, <3>3, <3>4 DEF FoldInv
    <3> QED  BY <3>5 DEF next
  <2>4. CASE ~(n > p /\ out[n].role = "user") /\ ~(k < Len(ms) /\ ms[k + 1].role = "user")
    <3>1. PICK l \in Msg : l = [Message("user") EXCEPT !.words = w] /\ l.words = w /\ l.role = "user"
      <4>1. PICK c \in Msg : c = Message("user") /\ c.role = "user"
        BY MessageType DEF Message
      <4>2. w \in WordSeq
        BY DEF WordSeq
      <4>3. [c EXCEPT !.words = w] \in Msg /\ [c EXCEPT !.words = w].words = w /\ [c EXCEPT !.words = w].role = c.role
        BY <4>2 DEF Msg
      <4> QED  BY <4>1, <4>3
    <3>2. next = [acc EXCEPT !.out = Append(@, l)]
      BY <1>1, <1>2, <1>3, <1>4, <1>13, <2>4, <3>1 DEF Folded
    <3>3. PICK o \in Seq(Msg) : o = Append(out, l) /\ Len(o) = n + 1 /\ o[n + 1] = l /\ \A j \in 1..n : o[j] = out[j]
      <4>1. /\ Append(out, l) \in Seq(Msg) /\ Len(Append(out, l)) = n + 1 /\ Append(out, l)[n + 1] = l
            /\ \A j \in 1..n : Append(out, l)[j] = out[j]
        BY <1>4
      <4> QED  BY <4>1
    <3>4. next = [out |-> o, held |-> held]
      BY <1>1, <3>2, <3>3
    <3>5. next.out = o /\ next.held = <<>> /\ next \in [out : Seq(Msg), held : Seq(Place)]
      BY <2>1, <3>4
    <3>6. Texts(o) = u \o w
      <4>1. <<l>> \in Seq(Msg)
        OBVIOUS
      <4>2. <<l>> \in Seq(Msg) /\ Texts(<<l>>) = w
        BY <3>1, <4>1, TextsOne
      <4>3. Texts(out \o <<l>>) = Texts(out) \o w
        BY <4>2, TextsBoth
      <4>4. Append(out, l) = out \o <<l>>
        OBVIOUS
      <4> QED  BY <1>8, <3>3, <4>3, <4>4
    <3>7. Texts(next.out) \o next.held = Texts(SubSeq(ms, 1, k))
      <4>1. PICK y \in Seq(Place) : y = u \o w
        <5>1. u \o w \in Seq(Place)
          OBVIOUS
        <5> QED  BY <5>1
      <4> QED  BY <1>10, <2>1, <3>5, <3>6, <4>1
    <3>8. \A j \in (p + 1)..(n + 1) : o[j].role # "system"
      <4> TAKE j \in (p + 1)..(n + 1)
      <4>1. CASE j = n + 1
        BY <3>1, <3>3, <4>1
      <4>2. CASE j # n + 1
        <5>1. j \in (p + 1)..n /\ j \in 1..n
          BY <4>2
        <5> QED  BY <1>5, <3>3, <5>1
      <4> QED  BY <4>1, <4>2
    <3>9. p <= Len(o)
      BY <1>5, <3>3
    <3> HIDE DEF next
    <3>10. FoldInv(next, ms, k)
      BY <1>4, <3>3, <3>5, <3>7, <3>8, <3>9 DEF FoldInv
    <3> QED  BY <3>10 DEF next
  <2> QED  BY <2>2, <2>3, <2>4
<1> QED  BY <1>12, <1>13

\* Folding, message after message, up to the m-th.
Folds(g, ms, m) ==
    g = [k \in Opening(ms)..m |-> IF k = Opening(ms) THEN [out |-> SubSeq(ms, 1, Opening(ms)), held |-> <<>>]
                                  ELSE Folded(g[k - 1], ms, k)]

\* Folding ends for every conversation.
LEMMA FoldsExist ==
    ASSUME NEW ms \in Seq(Msg)
    PROVE  \E g : Folds(g, ms, Len(ms))
<1>1. PICK n \in Nat, e \in Nat : n = Opening(ms) /\ e = Len(ms) /\ n <= e
  BY OpeningIs
<1>2. PICK start : start = [out |-> SubSeq(ms, 1, n), held |-> <<>>]
  OBVIOUS
<1> DEFINE good == {d \in Nat : \E g : Folds(g, ms, n + d)}
<1>3. 0 \in good
  <2> DEFINE g == [k \in n..(n + 0) |-> start]
  <2>1. g = [k \in n..(n + 0) |-> IF k = n THEN start ELSE Folded(g[k - 1], ms, k)]
    OBVIOUS
  <2> HIDE DEF g
  <2>2. Folds(g, ms, n + 0)
    BY <1>1, <1>2, <2>1 DEF Folds
  <2> QED  BY <2>2
<1>4. ASSUME NEW d \in Nat, d \in good PROVE d + 1 \in good
  <2>1. PICK m \in Nat : m = n + d /\ m >= n
    <3>1. n + d \in Nat /\ n + d >= n
      OBVIOUS
    <3> QED  BY <3>1
  <2>2. PICK g : Folds(g, ms, m)
    BY <1>4, <2>1
  <2>3. \A i \in n..m : g[i] = IF i = n THEN start ELSE Folded(g[i - 1], ms, i)
    BY <1>1, <1>2, <2>2 DEF Folds
  <2> DEFINE h == [i \in n..(m + 1) |-> IF i = m + 1 THEN Folded(g[m], ms, m + 1) ELSE g[i]]
  <2>4. ASSUME NEW i \in n..(m + 1) PROVE h[i] = IF i = n THEN start ELSE Folded(h[i - 1], ms, i)
    <3>1. CASE i = m + 1
      <4>1. i # n /\ i - 1 = m /\ i - 1 \in n..(m + 1) /\ i - 1 # m + 1
        BY <2>1, <3>1
      <4>2. h[i - 1] = g[m] /\ h[i] = Folded(g[m], ms, m + 1)
        BY <3>1, <4>1
      <4> HIDE DEF h
      <4> QED  BY <3>1, <4>1, <4>2
    <3>2. CASE i # m + 1
      <4>1. i \in n..m /\ (i # n => i - 1 \in n..(m + 1) /\ i - 1 # m + 1)
        BY <2>1, <3>2
      <4>2. h[i] = g[i] /\ (i # n => h[i - 1] = g[i - 1])
        BY <3>2, <4>1
      <4> HIDE DEF h
      <4> QED  BY <2>3, <4>1, <4>2
    <3> QED  BY <3>1, <3>2
  <2>5. h = [i \in n..(m + 1) |-> h[i]]
    OBVIOUS
  <2> HIDE DEF h
  <2>6. Folds(h, ms, m + 1)
    BY <1>1, <1>2, <2>4, <2>5 DEF Folds
  <2>7. m + 1 = n + (d + 1)
    BY <2>1
  <2> QED  BY <2>6, <2>7
<1>5. \A d \in Nat : d \in good
  <2> HIDE DEF good
  <2> QED  BY <1>3, <1>4, EveryNumber
<1>6. e - n \in Nat /\ n + (e - n) = e
  BY <1>1
<1>7. \E g : Folds(g, ms, n + (e - n))
  BY <1>5, <1>6
<1> QED  BY <1>1, <1>6, <1>7

\* Folding keeps every text where it stands and leaves no instruction after
\* the opening ones.
LEMMA FoldKeeps ==
    ASSUME NEW ms \in Seq(Msg)
    PROVE  /\ Fold(ms) \in Seq(Msg) /\ Texts(Fold(ms)) = Texts(ms)
           /\ \A j \in (Opening(ms) + 1)..Len(Fold(ms)) : Fold(ms)[j].role # "system"
<1>1. PICK n \in Nat, e \in Nat : n = Opening(ms) /\ e = Len(ms) /\ n <= e
  BY OpeningIs
<1> DEFINE g == CHOOSE g : Folds(g, ms, Len(ms))
<1>2. Folds(g, ms, Len(ms))
  BY FoldsExist
<1>3. Fold(ms) = g[e].out
  BY <1>1 DEF Fold, Folds
<1> HIDE DEF g
<1>4. \A k \in n..e : g[k] = IF k = n THEN [out |-> SubSeq(ms, 1, n), held |-> <<>>] ELSE Folded(g[k - 1], ms, k)
  BY <1>1, <1>2 DEF Folds
<1> DEFINE good == {d \in Nat : n + d <= e => FoldInv(g[n + d], ms, n + d)}
<1>5. 0 \in good
  <2>1. PICK so \in Seq(Msg) : so = SubSeq(ms, 1, n) /\ Len(so) = n
    <3>1. SubSeq(ms, 1, n) \in Seq(Msg) /\ Len(SubSeq(ms, 1, n)) = n
      BY <1>1
    <3> QED  BY <3>1
  <2>2. g[n] = [out |-> so, held |-> <<>>]
    <3>1. n \in n..e
      BY <1>1
    <3> QED  BY <1>4, <2>1, <3>1
  <2>3. <<>> \in Seq(Place)
    OBVIOUS
  <2>4. g[n].out = so /\ g[n].held = <<>> /\ g[n] \in [out : Seq(Msg), held : Seq(Place)]
    BY <2>2, <2>3
  <2>5. PICK v \in Seq(Place) : v = Texts(so)
    BY WordsOf
  <2>6. v \o <<>> = v
    OBVIOUS
  <2>7. FoldInv(g[n], ms, n)
    BY <1>1, <2>1, <2>4, <2>5, <2>6 DEF FoldInv
  <2>8. n + 0 = n
    OBVIOUS
  <2> QED  BY <2>7, <2>8
<1>6. ASSUME NEW d \in Nat, d \in good PROVE d + 1 \in good
  <2> SUFFICES ASSUME n + (d + 1) <= e PROVE FoldInv(g[n + (d + 1)], ms, n + (d + 1))
    OBVIOUS
  <2>1. PICK k \in 1..Len(ms) : k = n + (d + 1) /\ k - 1 = n + d /\ k \in n..e /\ k # n
    BY <1>1
  <2>2. FoldInv(g[k - 1], ms, k - 1)
    BY <1>6, <2>1
  <2>3. g[k] = Folded(g[k - 1], ms, k)
    BY <1>4, <2>1
  <2>4. FoldInv(g[k], ms, k)
    BY <2>2, <2>3, FoldsOn
  <2> QED  BY <2>1, <2>4
<1>7. \A d \in Nat : d \in good
  <2> HIDE DEF good
  <2> QED  BY <1>5, <1>6, EveryNumber
<1>8. FoldInv(g[e], ms, e)
  <2>1. PICK d \in Nat : n + d = e
    <3>1. e - n \in Nat /\ n + (e - n) = e
      BY <1>1
    <3> QED  BY <3>1
  <2>2. d \in good
    <3> HIDE DEF good
    <3> QED  BY <1>7
  <2> QED  BY <2>1, <2>2, <1>1
<1>9. PICK out \in Seq(Msg), held \in Seq(Place) : out = g[e].out /\ held = g[e].held
  BY <1>8 DEF FoldInv
<1>10. held = <<>> /\ Texts(out) \o held = Texts(SubSeq(ms, 1, e))
       /\ \A j \in (n + 1)..Len(out) : out[j].role # "system"
  <2>1. held = <<>>
    <3>1. held # <<>> => e < Len(ms)
      BY <1>8, <1>9 DEF FoldInv
    <3> QED  BY <1>1, <3>1
  <2>2. Texts(out) \o held = Texts(SubSeq(ms, 1, e))
    BY <1>8, <1>9 DEF FoldInv
  <2>3. \A j \in (n + 1)..Len(out) : out[j].role # "system"
    BY <1>1, <1>8, <1>9 DEF FoldInv
  <2> QED  BY <2>1, <2>2, <2>3
<1>11. SubSeq(ms, 1, e) = ms
  BY <1>1, SubSeqFull
<1>12. PICK v \in Seq(Place) : v = Texts(out)
  BY WordsOf
<1>13. v \o <<>> = v
  OBVIOUS
<1>14. Texts(out) = Texts(ms)
  BY <1>10, <1>11, <1>12, <1>13
<1> QED  BY <1>1, <1>3, <1>9, <1>10, <1>14

\* Joining the opening instructions keeps their texts; at most one message is
\* an opening one then.
LEMMA MergeKeeps ==
    ASSUME NEW ms \in Seq(Msg)
    PROVE  Merge(ms) \in Seq(Msg) /\ Texts(Merge(ms)) = Texts(ms) /\ Opening(Merge(ms)) <= 1
<1>1. PICK n \in Nat, e \in Nat : n = Opening(ms) /\ e = Len(ms) /\ n <= e
  BY OpeningIs
<1>2. CASE n <= 1
  BY <1>1, <1>2 DEF Merge
<1>3. CASE n > 1
  <2>1. PICK so \in Seq(Msg), rest \in Seq(Msg) :
             so = SubSeq(ms, 1, n) /\ rest = SubSeq(ms, n + 1, e) /\ ms = so \o rest
    <3>1. n + 1 \in 1..(Len(ms) + 1) /\ n + 1 - 1 = n
      BY <1>1
    <3>2. PICK q \in 1..(Len(ms) + 1) : q = n + 1 /\ q - 1 = n
      BY <3>1
    <3>3. ms = SubSeq(ms, 1, q - 1) \o SubSeq(ms, q, Len(ms))
      BY SplitAt
    <3>4. SubSeq(ms, 1, n) \in Seq(Msg) /\ SubSeq(ms, n + 1, e) \in Seq(Msg)
      BY <1>1
    <3>5. ms = SubSeq(ms, 1, n) \o SubSeq(ms, n + 1, e)
      BY <1>1, <3>2, <3>3
    <3> QED  BY <3>4, <3>5
  <2>2. Len(so) = n /\ Len(rest) = e - n /\ \A k \in 1..n : so[k] = ms[k]
    <3>1. Len(so) = n /\ \A k \in 1..n : so[k] = ms[k]
      <4>1. so = SubSeq(ms, 1, n)
        BY <2>1
      <4>2. Len(SubSeq(ms, 1, n)) = n /\ \A k \in 1..n : SubSeq(ms, 1, n)[k] = ms[k]
        BY <1>1
      <4> QED  BY <4>1, <4>2
    <3>2. Len(rest) = e - n
      <4>1. rest = SubSeq(ms, n + 1, e)
        BY <2>1
      <4>2. Len(SubSeq(ms, n + 1, e)) = e - n
        BY <1>1
      <4> QED  BY <4>1, <4>2
    <3> QED  BY <3>1, <3>2
  <2>3. PICK m \in Msg : m = ms[1]
    BY <1>1, <1>3
  <2>4. [k \in 1..n |-> ms[k].words] = [k \in DOMAIN so |-> so[k].words]
    <3>1. DOMAIN so = 1..n
      BY <2>2
    <3> QED  BY <2>2, <3>1
  <2>5. PICK w \in Seq(Place) : w = Texts(so) /\ w = FlattenSeq([k \in 1..n |-> ms[k].words])
    BY <2>4, WordsOf DEF Texts
  <2>6. PICK first \in Msg : first = [m EXCEPT !.words = w] /\ first.words = w /\ first.role = m.role
    <3>1. w \in WordSeq
      BY DEF WordSeq
    <3>2. [m EXCEPT !.words = w] \in Msg /\ [m EXCEPT !.words = w].words = w /\ [m EXCEPT !.words = w].role = m.role
      BY <3>1 DEF Msg
    <3> QED  BY <3>2
  <2>7. Merge(ms) = <<first>> \o rest
    <3>1. ~(Opening(ms) <= 1)
      BY <1>1, <1>3
    <3>2. Merge(ms) = <<[ms[1] EXCEPT !.words = FlattenSeq([k \in 1..n |-> ms[k].words])]>> \o SubSeq(ms, n + 1, e)
      BY <1>1, <3>1 DEF Merge
    <3>3. [ms[1] EXCEPT !.words = FlattenSeq([k \in 1..n |-> ms[k].words])] = first
      BY <2>3, <2>5, <2>6
    <3>4. SubSeq(ms, n + 1, e) = rest
      BY <2>1
    <3> QED  BY <3>2, <3>3, <3>4
  <2>8. <<first>> \in Seq(Msg)
    OBVIOUS
  <2>9. PICK z \in Seq(Msg) : z = <<first>> \o rest
    <3>1. <<first>> \o rest \in Seq(Msg)
      OBVIOUS
    <3> QED  BY <3>1
  <2>10. Texts(z) = Texts(ms)
    <3>1. Texts(<<first>>) = w
      BY <2>6, TextsOne
    <3>2. Texts(<<first>> \o rest) = Texts(<<first>>) \o Texts(rest)
      BY <2>8, TextsBoth
    <3>3. Texts(so \o rest) = Texts(so) \o Texts(rest)
      BY TextsBoth
    <3> QED  BY <2>1, <2>5, <2>9, <3>1, <3>2, <3>3
  <2>11. Opening(z) <= 1
    <3> SUFFICES ASSUME Opening(z) > 1 PROVE FALSE
      BY OpeningIs
    <3>1. PICK p \in Nat : p = Opening(z) /\ p <= Len(z) /\ p >= 2
      BY OpeningIs
    <3>2. z[2].role = "system"
      BY <3>1, OpeningIs
    <3>3. Len(rest) >= 1 /\ z[2] = rest[1]
      <4>1. Len(z) >= 2
        BY <3>1
      <4> QED  BY <2>9, <4>1
    <3>4. n < e /\ rest[1] = ms[n + 1]
      <4>1. n < e
        BY <1>1, <2>2, <3>3
      <4>2. SubSeq(ms, n + 1, e)[1] = ms[n + 1]
        BY <1>1, <4>1
      <4>3. rest = SubSeq(ms, n + 1, e)
        BY <2>1
      <4> QED  BY <4>1, <4>2, <4>3
    <3> QED  BY <1>1, <3>2, <3>3, <3>4, OpeningIs
  <2> QED  BY <2>7, <2>9, <2>10, <2>11
<1> QED  BY <1>2, <1>3

\* Naming the results changes neither the roles nor the texts.
LEMMA NamedKeeps ==
    ASSUME NEW ms \in Seq(Msg)
    PROVE  /\ Texts(Named(ms)) = Texts(ms) /\ DOMAIN Named(ms) = DOMAIN ms
           /\ \A k \in DOMAIN ms : Named(ms)[k].role = ms[k].role
<1> DEFINE z == Named(ms)
<1>1. DOMAIN z = DOMAIN ms
  BY DEF Named
<1>2. ASSUME NEW k \in DOMAIN ms PROVE z[k].words = ms[k].words /\ z[k].role = ms[k].role
  <2>1. PICK m \in Msg : m = ms[k]
    OBVIOUS
  <2>2. z[k] = [m EXCEPT !.name = m.answers] \/ z[k] = m
    BY <2>1 DEF Named
  <2>3. [m EXCEPT !.name = m.answers].words = m.words /\ [m EXCEPT !.name = m.answers].role = m.role
    BY DEF Msg
  <2> QED  BY <2>1, <2>2, <2>3
<1> HIDE DEF z
<1>3. [k \in DOMAIN z |-> z[k].words] = [k \in DOMAIN ms |-> ms[k].words]
  BY <1>1, <1>2
<1> QED  BY <1>1, <1>2, <1>3 DEF Texts, z

\* A job's messages carry what was written, in the order it was.
TurnsInv ==
    /\ dialect \in Dialects /\ said \in Seq(Turns)
    /\ turnsAt \in {"typing", "job", "refused", "posted"}
    /\ turnsAt = "job" => chat \in Seq(Msg) /\ Texts(chat) = AsWritten
    /\ WordsInOrder /\ OneSystemFirst

\* into_chat (translate.rs).
LEMMA IntoChatKeeps ==
    ASSUME TurnsInv, IntoChat
    PROVE  TurnsInv'
<1>1. said \in Seq(Turns) /\ dialect \in Dialects /\ UNCHANGED <<dialect, said, posted>> /\ turnsAt' \in {"job", "refused"}
  BY DEF TurnsInv, IntoChat
<1>2. PICK ms \in Seq(Msg) : ms = Messages(said) /\ Texts(ms) = FlattenSeq([t \in DOMAIN said |-> TurnWritten(said, t)])
  BY <1>1, MessagesTexts
<1>3. AsWritten = FlattenSeq([t \in DOMAIN said |-> TurnWritten(said, t)])
  BY DEF AsWritten, TurnWritten
<1>4. AsWritten' = AsWritten
  BY <1>1 DEF AsWritten, Results, Result, Words, Spots, Numbered, Texts, Message
<1>5. turnsAt' = "job" => chat' = Fold(ms)
  BY <1>2 DEF IntoChat
<1>6. turnsAt' = "job" => chat' \in Seq(Msg) /\ (Texts(chat))' = AsWritten'
  <2>1. Fold(ms) \in Seq(Msg) /\ Texts(Fold(ms)) = AsWritten
    BY <1>2, <1>3, FoldKeeps
  <2>2. chat' = Fold(ms) => (Texts(chat))' = Texts(Fold(ms))
    BY DEF Texts
  <2> QED  BY <1>4, <1>5, <2>1, <2>2
<1> QED  BY <1>1, <1>6 DEF TurnsInv, WordsInOrder, OneSystemFirst

\* prepare_messages and openai_messages (vllm.rs): the opening instructions are
\* merged, the late ones folded.
LEMMA PostKeeps ==
    ASSUME TurnsInv, Post
    PROVE  TurnsInv'
<1>1. UNCHANGED <<dialect, said, chat>> /\ turnsAt = "job" /\ turnsAt' = "posted" /\ posted' = Named(Fold(Merge(chat)))
  BY DEF Post
<1>2. PICK ms \in Seq(Msg) : ms = chat /\ Texts(ms) = AsWritten
  BY <1>1 DEF TurnsInv
<1>3. PICK merged \in Seq(Msg) : merged = Merge(ms) /\ Texts(merged) = Texts(ms) /\ Opening(merged) <= 1
  BY MergeKeeps
<1>4. PICK folded \in Seq(Msg) : /\ folded = Fold(merged) /\ Texts(folded) = Texts(merged)
                                 /\ \A j \in (Opening(merged) + 1)..Len(folded) : folded[j].role # "system"
  BY FoldKeeps
<1>5. PICK all : all = Named(folded)
  OBVIOUS
<1>6. Texts(all) = AsWritten
  BY <1>2, <1>3, <1>4, <1>5, NamedKeeps
<1>7. \A k \in DOMAIN all : all[k].role = "system" => k = 1
  <2> SUFFICES ASSUME NEW k \in DOMAIN folded, folded[k].role = "system" PROVE k = 1
    BY <1>5, NamedKeeps
  <2>1. k \in 1..Len(folded)
    OBVIOUS
  <2>2. PICK p \in Nat : p = Opening(merged) /\ p <= 1
    BY <1>3, OpeningIs
  <2>3. ~(k \in (p + 1)..Len(folded))
    BY <1>4, <2>2
  <2> QED  BY <2>1, <2>2, <2>3
<1>8. posted' = all
  BY <1>1, <1>2, <1>3, <1>4, <1>5
<1>9. AsWritten' = AsWritten
  BY <1>1 DEF AsWritten, Results, Result, Words, Spots, Numbered, Texts, Message
<1>10. (Texts(posted))' = AsWritten'
  <2>1. (Texts(posted))' = Texts(all)
    BY <1>8 DEF Texts
  <2> QED  BY <1>6, <1>9, <2>1
<1>11. OneSystemFirst'
  BY <1>7, <1>8 DEF OneSystemFirst
<1>12. WordsInOrder'
  BY <1>10 DEF WordsInOrder
<1>13. said' \in Seq(Turns) /\ dialect' \in Dialects
  BY <1>1 DEF TurnsInv
<1> QED  BY <1>1, <1>11, <1>12, <1>13 DEF TurnsInv

\* The invariant of a conversation, for every dialect and every turns.
THEOREM TurnsAlways == TurnsSpec => []TurnsInv
<1>1. TurnsInit => TurnsInv
  <2> SUFFICES ASSUME TurnsInit PROVE TurnsInv
    OBVIOUS
  <2>1. <<>> \in Seq(Turns)
    OBVIOUS
  <2> QED  BY <2>1 DEF TurnsInit, TurnsInv, Dialects, WordsInOrder, OneSystemFirst
<1>2. TurnsInv /\ [TurnsNext]_turnVars => TurnsInv'
  <2> SUFFICES ASSUME TurnsInv, [TurnsNext]_turnVars PROVE TurnsInv'
    OBVIOUS
  <2>1. CASE Type
    <3>1. PICK t \in Turns : said' = Append(said, t)
      BY <2>1 DEF Type
    <3>2. said' \in Seq(Turns)
      BY <3>1 DEF TurnsInv
    <3> QED  BY <2>1, <3>2 DEF Type, TurnsInv, WordsInOrder, OneSystemFirst
  <2>2. CASE IntoChat
    BY <2>2, IntoChatKeeps
  <2>3. CASE Post
    BY <2>3, PostKeeps
  <2>4. CASE UNCHANGED turnVars
    <3>1. UNCHANGED <<dialect, said, chat, posted, turnsAt>>
      BY <2>4 DEF turnVars
    <3>2. AsWritten' = AsWritten /\ (Texts(chat))' = Texts(chat) /\ (Texts(posted))' = Texts(posted)
      BY <3>1 DEF AsWritten, Results, Result, Words, Spots, Numbered, Texts, Message
    <3> QED  BY <3>1, <3>2 DEF TurnsInv, WordsInOrder, OneSystemFirst
  <2> QED  BY <2>1, <2>2, <2>3, <2>4 DEF TurnsNext
<1> QED  BY <1>1, <1>2, PTL DEF TurnsSpec

\* "The text is kept": every text a tool wrote reaches the inference server once,
\* in the order it was written.
THEOREM WordsArriveInOrder == TurnsSpec => []WordsInOrder
<1>1. TurnsInv => WordsInOrder
  BY DEF TurnsInv
<1> QED  BY <1>1, TurnsAlways, PTL

\* "Only one of them": a posted conversation has at most one instruction, its first
\* message.
THEOREM InstructionsFirst == TurnsSpec => []OneSystemFirst
<1>1. TurnsInv => OneSystemFirst
  BY DEF TurnsInv
<1> QED  BY <1>1, TurnsAlways, PTL
=============================================================================
