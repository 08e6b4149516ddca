-------------------------- MODULE SettlementProofs --------------------------
(***************************************************************************)
(* What the nodes of one payout mark, keep and lose, for every number of   *)
(* nodes and jobs, every lock, bill and threshold.                         *)
(***************************************************************************)
EXTENDS Settlement, TLAPS

----------------------------------------------------------------------------
(* The part of the contract's state the ledgers depend on.                  *)

Keys == {Key, NoKey}
AccountShape == [balance : Nat, maxPerJob : Nat, maxPerDay : Nat,
                 spentToday : Nat, dayStart : Nat, appKey : Keys]
ChannelShape == [reserved : Nat, paid : Nat, deadline : Nat, closeAt : Nat,
                 appKey : Keys, earned : Nat, maxPerJob : Nat, maxPerDay : Nat]

ChainShape ==
    /\ now \in Nat
    /\ accounts \in [{Client} -> AccountShape]
    /\ channels \in [{Pair} -> ChannelShape]
    /\ Channel.earned <= Channel.reserved

\* What every transaction leaves true: earnings only rise, time stands still,
\* and a close is only ever requested with the whole grace ahead.
Onward ==
    /\ ChainShape'
    /\ now' = now
    /\ Channel.earned <= Channel'.earned
    /\ Channel'.closeAt \in {0, Channel.closeAt, now + Grace}

LEMMA ChainTyped ==
    ASSUME ChainShape
    PROVE  /\ Channel \in ChannelShape /\ Channel.earned \in Nat /\ Channel.reserved \in Nat
           /\ Channel.earned <= Channel.reserved
           /\ Channel.closeAt \in Nat /\ now \in Nat
           /\ accounts[Client] \in AccountShape
BY DEF ChainShape, Channel, ChannelShape

LEMMA WalletNat == Wallet \in Nat
BY NumberAssumption DEF Wallet

LEMMA InitChain == Chain!Init => ChainShape /\ Channel.earned = 0
BY DEF Chain!Init, Chain!Pairs, Chain!NoAccount, Chain!NoChannel, ChainShape, Channel, Pair,
       AccountShape, ChannelShape, Keys

\* The account after a deposit of this client.
LEMMA DepositOnward ==
    ASSUME ChainShape, Chain!Deposit(Client, Wallet, JobCap, DayCap, Key)
    PROVE  Onward
<1> DEFINE a == accounts[Client]
           r == Chain!Credited(a, Wallet, JobCap, DayCap, Key)
           j1 == Chain!Given(JobCap, a.maxPerJob)
           d1 == Chain!Given(DayCap, a.maxPerDay)
           k1 == Chain!GivenKey(Key, a.appKey)
<1>1. a \in AccountShape /\ JobCap \in Nat /\ DayCap \in Nat /\ Wallet \in Nat
  BY ChainTyped, WalletNat, NumberAssumption
<1>2. j1 \in Nat /\ d1 \in Nat /\ k1 \in Keys /\ a.balance + Wallet \in Nat
  BY <1>1 DEF Chain!Given, Chain!GivenKey, AccountShape, Keys
<1>3. r = [a EXCEPT !.balance = @ + Wallet, !.maxPerJob = j1, !.maxPerDay = d1, !.appKey = k1]
  BY DEF Chain!Credited
<1> HIDE DEF a, j1, d1, k1
<1>4. r \in AccountShape
  BY <1>1, <1>2, <1>3 DEF AccountShape
<1>5. accounts' = [accounts EXCEPT ![Client] = r]
  BY DEF Chain!Deposit, a
<1> HIDE DEF r
<1>6. channels' = channels /\ now' = now
  BY DEF Chain!Deposit
<1>7. Channel' = Channel
  BY <1>6 DEF Channel
<1>8. ChainShape'
  BY <1>4, <1>5, <1>6, <1>7 DEF ChainShape
<1>9. QED
  BY <1>6, <1>7, <1>8, ChainTyped DEF Onward

LEMMA NoticeOnward ==
    ASSUME ChainShape, Chain!RequestClose(Client, Payout)
    PROVE  Onward /\ Channel'.closeAt = now + Grace
<1>1. /\ channels' = [channels EXCEPT ![Pair].closeAt = now + Grace]
      /\ now' = now /\ accounts' = accounts
  BY DEF Chain!RequestClose, Pair
<1>2. now + Grace \in Nat
  BY NumberAssumption DEF ChainShape
<1>3. /\ ChainShape' /\ Channel'.earned = Channel.earned
      /\ Channel'.closeAt = now + Grace
  <2>1. /\ channels' \in [{Pair} -> ChannelShape]
        /\ Channel'.earned = Channel.earned /\ Channel'.reserved = Channel.reserved
        /\ Channel'.closeAt = now + Grace
    BY <1>1, <1>2 DEF ChainShape, ChannelShape, Channel
  <2>2. QED
    BY <1>1, <2>1 DEF ChainShape
<1>4. QED
  BY <1>1, <1>3, ChainTyped DEF Onward

LEMMA CloseOnward ==
    ASSUME ChainShape, Chain!Close(Client, Payout)
    PROVE  Onward /\ Channel'.earned = Channel.earned
<1>1. /\ channels' = [channels EXCEPT ![Pair] =
              [@ EXCEPT !.reserved = Channel.earned, !.closeAt = 0,
                        !.maxPerJob = 0, !.maxPerDay = 0]]
      /\ accounts' = [accounts EXCEPT ![Client].balance =
                         @ + (Channel.reserved - Channel.earned)]
      /\ now' = now
  BY DEF Chain!Close, Channel, Pair
<1>2. Channel.earned \in Nat /\ Channel.reserved - Channel.earned \in Nat
  BY ChainTyped
<1>3. ChainShape' /\ Channel'.earned = Channel.earned /\ Channel'.closeAt = 0
  <2> DEFINE ch == Channel
             r == [ch EXCEPT !.reserved = ch.earned, !.closeAt = 0,
                             !.maxPerJob = 0, !.maxPerDay = 0]
  <2>0. ch \in ChannelShape
    BY ChainTyped
  <2>1. channels' = [channels EXCEPT ![Pair] = r]
    BY <1>1 DEF Channel
  <2>3. Channel' = r /\ (r \in ChannelShape => channels' \in [{Pair} -> ChannelShape])
    <3> HIDE DEF r
    <3> QED
      BY <2>1 DEF ChainShape, Channel
  <2>4. r \in ChannelShape /\ r.earned = ch.earned /\ r.reserved = ch.earned /\ r.closeAt = 0
    <3> HIDE DEF ch
    <3> QED
      BY <2>0 DEF ChannelShape
  <2>2. accounts' \in [{Client} -> AccountShape]
    BY <1>1, <1>2 DEF ChainShape, AccountShape
  <2>5. Channel'.earned <= Channel'.reserved /\ ch.earned = Channel.earned
    <3> HIDE DEF r
    <3> QED
      BY <1>2, <2>3, <2>4
  <2> HIDE DEF r
  <2>6. QED
    BY <1>1, <1>2, <2>2, <2>3, <2>4, <2>5 DEF ChainShape
<1>4. QED
  BY <1>1, <1>3, ChainTyped DEF Onward

LEMMA ReserveOnward ==
    ASSUME ChainShape, NEW lock \in Locks, Chain!Reserve(Client, Payout, lock, now + Ttl, Key)
    PROVE  Onward
<1> DEFINE a == accounts[Client]
           ch == Channel
           r == Chain!Reserved(ch, a, lock, now + Ttl)
           j1 == Chain!RaisedCap(ch.maxPerJob, a.maxPerJob)
           d1 == Chain!RaisedCap(ch.maxPerDay, a.maxPerDay)
           t1 == IF now + Ttl > ch.deadline THEN now + Ttl ELSE ch.deadline
<1>1. /\ ch \in ChannelShape /\ a \in AccountShape /\ lock \in Nat
      /\ now + Ttl \in Nat
  BY ChainTyped, NumberAssumption
<1>2. j1 \in Nat /\ d1 \in Nat /\ t1 \in Nat /\ a.appKey \in Keys
  BY <1>1 DEF Chain!RaisedCap, AccountShape, ChannelShape
<1>3. r = [ch EXCEPT !.appKey = a.appKey, !.maxPerJob = j1, !.maxPerDay = d1,
                     !.reserved = lock, !.deadline = t1, !.closeAt = 0]
  BY DEF Chain!Reserved
<1> HIDE DEF a, j1, d1, t1, ch, r
<1>4. r \in ChannelShape /\ r.earned = ch.earned /\ r.reserved = lock /\ r.closeAt = 0
  BY <1>1, <1>2, <1>3 DEF ChannelShape
<1>5. /\ channels' = [channels EXCEPT ![Pair] = r]
      /\ accounts' = [accounts EXCEPT ![Client].balance = @ - (lock - Channel.reserved)]
      /\ now' = now
  BY DEF Chain!Reserve, a, ch, r, Channel, Pair
<1>6. channels' \in [{Pair} -> ChannelShape] /\ Channel' = r
  BY <1>4, <1>5 DEF ChainShape, Channel
<1>7. /\ lock >= Channel.reserved
      /\ accounts[Client].balance - (lock - Channel.reserved) \in Nat
  <2>1. lock > Channel.reserved /\ accounts[Client].balance >= lock - Channel.reserved
    BY DEF Chain!Reserve, Channel, Pair
  <2>2. lock \in Nat /\ Channel.reserved \in Nat /\ accounts[Client].balance \in Nat
    BY <1>1, ChainTyped DEF AccountShape
  <2>3. QED
    BY <2>1, <2>2
<1>8. accounts' \in [{Client} -> AccountShape]
  BY <1>5, <1>7 DEF ChainShape, AccountShape
<1>9. QED
  BY <1>1, <1>4, <1>5, <1>6, <1>7, <1>8, ChainTyped DEF Onward, ChainShape, ch

\* A settle that is accepted makes its total the channel's earnings.
LEMMA SettleOnward ==
    ASSUME ChainShape, NEW cum \in Nat, NEW deadline,
           Chain!Settle(Client, Payout, cum, deadline, Key)
    PROVE  Onward /\ Channel'.earned = cum
<1> DEFINE delta == cum - Channel.earned
           a == accounts[Client]
           r == Chain!Counted(a, delta)
           d == Chain!Rolled(a)
<1>1. Channel \in ChannelShape /\ a \in AccountShape /\ delta \in Nat /\ now \in Nat
  BY ChainTyped DEF Chain!Settle, Chain!Recognizable, Channel, Pair
<1>2. d \in AccountShape
  <2>1. [a EXCEPT !.dayStart = now, !.spentToday = 0] \in AccountShape
    <3> HIDE DEF a
    <3> QED
      BY <1>1 DEF AccountShape
  <2>2. QED
    BY <1>1, <2>1 DEF Chain!Rolled
<1>3. r = [d EXCEPT !.spentToday = @ + delta]
  BY DEF Chain!Counted
<1> HIDE DEF a, d, delta
<1>4. r \in AccountShape
  BY <1>1, <1>2, <1>3 DEF AccountShape
<1>5. /\ channels' = [channels EXCEPT ![Pair].earned = cum, ![Pair].paid = cum]
      /\ accounts' = [accounts EXCEPT ![Client] = r]
      /\ now' = now
      /\ cum > Channel.earned /\ cum <= Channel.reserved
  BY DEF Chain!Settle, Chain!Recognizable, Channel, Pair, a, delta
<1> HIDE DEF r
<1>6. /\ channels' \in [{Pair} -> ChannelShape]
      /\ Channel'.earned = cum /\ Channel'.closeAt = Channel.closeAt
      /\ Channel'.reserved = Channel.reserved
  <2> DEFINE ch == Channel
             s == [ch EXCEPT !.earned = cum, !.paid = cum]
  <2>1. channels' = [channels EXCEPT ![Pair] = s]
    BY <1>5 DEF Channel, ChainShape
  <2>2. Channel' = s /\ (s \in ChannelShape => channels' \in [{Pair} -> ChannelShape])
    <3> HIDE DEF s
    <3> QED
      BY <2>1 DEF ChainShape, Channel
  <2>3. ch \in ChannelShape
    BY <1>1
  <2>4. s \in ChannelShape /\ s.earned = cum /\ s.closeAt = ch.closeAt
        /\ s.reserved = ch.reserved
    <3> HIDE DEF ch
    <3> QED
      BY <2>3 DEF ChannelShape
  <2>5. QED
    BY <2>2, <2>4
<1>7. accounts' \in [{Client} -> AccountShape]
  BY <1>4, <1>5 DEF ChainShape
<1>8. Channel'.earned <= Channel'.reserved /\ Channel.earned <= Channel'.earned
  BY <1>1, <1>5, <1>6, ChainTyped
<1>9. now' = now /\ ChainShape'
  BY <1>1, <1>5, <1>6, <1>7, <1>8 DEF ChainShape
<1>10. QED
  BY <1>6, <1>8, <1>9 DEF Onward

\* A step that leaves the contract alone.
LEMMA StillOnward ==
    ASSUME ChainShape, UNCHANGED chain
    PROVE  Onward /\ Channel' = Channel
BY ChainTyped DEF chain, Onward, ChainShape, Channel

----------------------------------------------------------------------------
(* The inductive invariant.                                                 *)

Entry == [authorised : Nat, settled : Nat, deadline : Nat]
JobShape == [at : {"new", "running", "signed", "over"}, node : Nodes \cup {NoKey},
             cum : Nat, amount : Nat, deadline : Nat]
CallShape == [at : {"idle", "weigh", "check", "post", "wait"},
              node : Nodes \cup {NoKey}, cum : Nat, deadline : Nat, fresh : BOOLEAN]
Posted == [cum : Nat, deadline : Nat]

Shapes ==
    /\ signed \in Nat /\ faulted \in BOOLEAN /\ swept \subseteq Nodes
    /\ job \in [Jobs -> JobShape] /\ call \in [Callers -> CallShape]
    /\ ledger \in [Nodes -> Entry] /\ file \in [Nodes -> Entry]
    /\ banked \in [Nodes -> Nat]
    /\ mempool \subseteq Posted

\* A job that runs has a node.
JobsPlaced == \A j \in Jobs : job[j].at \in {"running", "signed"} => job[j].node \in Nodes

\* A call carries a ticket its node holds or held, and the newest one only with
\* its own deadline; the sweeper's call is its node's.
CallPlaced(c) ==
    call[c].at # "idle" =>
        /\ call[c].node \in Nodes
        /\ c \in Nodes => call[c].node = c
        /\ call[c].cum <= ledger[call[c].node].authorised
        /\ call[c].cum = ledger[call[c].node].authorised =>
               call[c].deadline = ledger[call[c].node].deadline
CallsPlaced == \A c \in Callers : CallPlaced(c)

\* A mark is at most the newest ticket and at most what the chain earned.
Marks ==
    \A n \in Nodes : /\ ledger[n].settled <= ledger[n].authorised
                     /\ file[n].settled <= file[n].authorised
                     /\ ledger[n].settled <= Channel.earned
                     /\ file[n].settled <= Channel.earned

IInv == ChainShape /\ Shapes /\ JobsPlaced /\ CallsPlaced /\ Marks

\* While nothing has failed: what is on disk is what is in memory and the
\* newest ticket is what was banked; a swept node has nothing to collect, or a
\* ticket with time left, and nothing where a notice of an earlier unit stands;
\* what is not collected has not expired.
Faultless ==
    ~faulted => \A n \in Nodes :
        /\ file[n] = ledger[n] /\ banked[n] = ledger[n].authorised
        /\ n \in swept /\ ledger[n].authorised > Channel.earned =>
               /\ ledger[n].deadline >= now + DueSoon
               /\ ~(Closing /\ Channel.closeAt < now + Grace)
        /\ ledger[n].authorised > Channel.earned => now <= ledger[n].deadline

\* What a step may do to the ledgers' marks and tickets without breaking the
\* second invariant.
LEMMA FaultlessKept ==
    ASSUME IInv, IInv', Faultless, Onward,
           ~faulted' => /\ ~faulted /\ swept' \subseteq swept
                        /\ \A n \in Nodes :
                              /\ ledger'[n].authorised = ledger[n].authorised
                              /\ ledger'[n].deadline = ledger[n].deadline
                              /\ file'[n] = ledger'[n] /\ banked'[n] = banked[n]
    PROVE  Faultless'
<1> SUFFICES ASSUME ~faulted', NEW n \in Nodes
             PROVE  /\ file'[n] = ledger'[n] /\ banked'[n] = ledger'[n].authorised
                    /\ n \in swept' /\ ledger'[n].authorised > Channel'.earned =>
                           /\ ledger'[n].deadline >= now' + DueSoon
                           /\ ~(Closing' /\ Channel'.closeAt < now' + Grace)
                    /\ ledger'[n].authorised > Channel'.earned => now' <= ledger'[n].deadline
  BY DEF Faultless
<1>1. /\ Channel.earned \in Nat /\ Channel'.earned \in Nat
      /\ Channel.closeAt \in Nat /\ Channel'.closeAt \in Nat
      /\ now \in Nat /\ Grace \in Nat
  BY ChainTyped, NumberAssumption DEF IInv, ChainShape, Channel, ChannelShape
<1>2. ledger[n].authorised \in Nat
  BY DEF IInv, Shapes, Entry
<1>3. ledger'[n].authorised > Channel'.earned => ledger[n].authorised > Channel.earned
  BY <1>1, <1>2 DEF Onward
<1>4. Closing' /\ Channel'.closeAt < now + Grace => Closing /\ Channel.closeAt < now + Grace
  BY <1>1 DEF Onward, Closing
<1>5. QED
  BY <1>3, <1>4 DEF Faultless, Onward

LEMMA InitInv == Init => IInv /\ Faultless
<1> SUFFICES ASSUME Init PROVE IInv /\ Faultless
  OBVIOUS
<1>1. ChainShape /\ Channel.earned = 0
  BY InitChain DEF Init
<1>2. NewJob \in JobShape /\ NoCall \in CallShape /\ NoEntry \in Entry
  BY DEF NewJob, NoCall, NoEntry, JobShape, CallShape, Entry
<1>3. Shapes
  BY <1>2 DEF Init, Shapes
<1>4. JobsPlaced /\ CallsPlaced
  BY DEF Init, JobsPlaced, CallsPlaced, CallPlaced, NewJob, NoCall
<1>5. \A n \in Nodes : /\ ledger[n] = NoEntry /\ file[n] = NoEntry /\ banked[n] = 0
  BY DEF Init
<1>6. Marks
  BY <1>1, <1>5 DEF Marks, NoEntry
<1>7. Faultless
  BY <1>1, <1>5 DEF Faultless, NoEntry
<1>8. QED
  BY <1>1, <1>3, <1>4, <1>6, <1>7 DEF IInv

----------------------------------------------------------------------------
(* The steps.                                                               *)

Goal == IInv' /\ Faultless'

\* Transactions of the client, of a node's raise, and those mined late.
LEMMA ChainStepKeeps ==
    ASSUME IInv, Faultless, Onward, mempool' \subseteq mempool,
           UNCHANGED <<signed, job, Ledgers, call, swept, faulted>>
    PROVE  Goal
<1>1. ChainShape' /\ Shapes' /\ JobsPlaced'
  BY DEF IInv, Onward, Shapes, JobsPlaced, Ledgers
<1>2. CallsPlaced'
  BY DEF IInv, CallsPlaced, CallPlaced, Ledgers
<1>3. Marks'
  <2>1. Channel.earned \in Nat /\ Channel'.earned \in Nat
    BY <1>1, ChainTyped DEF IInv, ChainShape, Channel, ChannelShape
  <2>2. \A n \in Nodes : ledger[n].settled \in Nat /\ file[n].settled \in Nat
    BY DEF IInv, Shapes, Entry
  <2>3. ledger' = ledger /\ file' = file
    BY DEF Ledgers
  <2>4. QED
    BY <2>1, <2>2, <2>3 DEF IInv, Marks, Onward
<1>4. IInv'
  BY <1>1, <1>2, <1>3 DEF IInv
<1>5. \A n \in Nodes : ~faulted => file'[n] = ledger'[n]
  BY DEF Faultless, Ledgers
<1>6. Faultless'
  BY <1>4, <1>5, FaultlessKept DEF Ledgers
<1>7. QED
  BY <1>4, <1>6 DEF Goal

\* Steps of the jobs and the calls that touch no ledger.
LEMMA QuietStepKeeps ==
    ASSUME IInv, Faultless, UNCHANGED <<chain, Ledgers>>,
           Shapes', JobsPlaced', CallsPlaced', swept' \subseteq swept,
           faulted' = faulted \/ faulted'
    PROVE  Goal
<1>1. Onward /\ Channel' = Channel
  BY StillOnward DEF IInv
<1>2. Marks'
  BY <1>1 DEF IInv, Marks, Ledgers
<1>3. IInv'
  BY <1>1, <1>2 DEF IInv, Onward
<1>4. ~faulted' => ~faulted
  BY DEF IInv, Shapes
<1>5. \A n \in Nodes : ~faulted => file'[n] = ledger'[n]
  BY DEF Faultless, Ledgers
<1>6. Faultless'
  BY <1>1, <1>3, <1>4, <1>5, FaultlessKept DEF Ledgers
<1>7. QED
  BY <1>3, <1>6 DEF Goal

LEMMA ClientSteps ==
    ASSUME IInv, Faultless, Fund \/ RequestClose \/ Close \/ MinedLate
    PROVE  Goal
<1>0. ChainShape
  BY DEF IInv
<1>1. CASE Fund
  BY <1>0, <1>1, DepositOnward, ChainStepKeeps DEF Fund
<1>2. CASE RequestClose
  BY <1>0, <1>2, NoticeOnward, ChainStepKeeps DEF RequestClose
<1>3. CASE Close
  BY <1>0, <1>3, CloseOnward, ChainStepKeeps DEF Close
<1>4. CASE MinedLate
  <2>1. PICK t \in mempool : /\ \/ Chain!Settle(Client, Payout, t.cum, t.deadline, Key)
                                \/ UNCHANGED chain
                             /\ mempool' = mempool \ {t}
    BY <1>4 DEF MinedLate
  <2>2. t.cum \in Nat
    BY DEF IInv, Shapes, Posted
  <2>3. Onward
    BY <1>0, <2>1, <2>2, SettleOnward, StillOnward
  <2>4. UNCHANGED <<signed, job, Ledgers, call, swept, faulted>>
    BY <1>4 DEF MinedLate
  <2>5. QED
    BY <2>1, <2>3, <2>4, ChainStepKeeps
<1>5. QED
  BY <1>1, <1>2, <1>3, <1>4

LEMMA JobSteps ==
    ASSUME IInv, Faultless, NEW j \in Jobs,
           PostReserve(j) \/ SignBill(j) \/ Refuse(j) \/ \E n \in Nodes : Admit(j, n)
    PROVE  Goal
<1>0. ChainShape /\ Shapes /\ JobsPlaced /\ CallsPlaced
  BY DEF IInv
<1>1. CASE PostReserve(j)
  <2>1. PICK lock \in Locks : Chain!Reserve(Client, Payout, lock, now + Ttl, Key)
    BY <1>1 DEF PostReserve
  <2>2. QED
    BY <1>0, <1>1, <2>1, ReserveOnward, ChainStepKeeps DEF PostReserve
<1>2. CASE SignBill(j)
  <2>1. PICK amount \in Bills :
          LET cum == Higher(signed, Channel.earned) + amount IN
          /\ signed' = cum
          /\ job' = [job EXCEPT ![j].at = "signed", ![j].cum = cum,
                                ![j].amount = amount, ![j].deadline = now + Ttl]
    BY <1>2 DEF SignBill
  <2>2. amount \in Nat
    BY BillAssumption
  <2>3. Higher(signed, Channel.earned) + amount \in Nat /\ now + Ttl \in Nat
    BY <1>0, <2>2, ChainTyped, NumberAssumption DEF Higher, Shapes
  <2>4. signed' \in Nat /\ job' \in [Jobs -> JobShape]
    <3> DEFINE cum == Higher(signed, Channel.earned) + amount
               s == [job[j] EXCEPT !.at = "signed", !.cum = cum,
                                   !.amount = amount, !.deadline = now + Ttl]
    <3>1. job' = [job EXCEPT ![j] = s] /\ cum \in Nat /\ signed' = cum
      BY <1>0, <2>1, <2>3 DEF Shapes
    <3> HIDE DEF cum
    <3>2. job[j] \in JobShape
      BY <1>0 DEF Shapes
    <3>3. s \in JobShape
      BY <2>2, <2>3, <3>1, <3>2 DEF JobShape
    <3>4. QED
      BY <1>0, <3>1, <3>3 DEF Shapes
  <2>5. UNCHANGED <<chain, Ledgers, call, swept, faulted, mempool>>
    BY <1>2 DEF SignBill
  <2>6. Shapes' /\ CallsPlaced'
    BY <1>0, <2>4, <2>5 DEF Shapes, CallsPlaced, CallPlaced, Ledgers
  <2>7. JobsPlaced'
    <3>1. job[j].at = "running"
      BY <1>2 DEF SignBill
    <3>2. \A k \in Jobs : job'[k].node = job[k].node /\ (k # j => job'[k] = job[k])
      BY <1>0, <2>1 DEF Shapes, JobShape
    <3>3. QED
      BY <1>0, <3>1, <3>2 DEF JobsPlaced
  <2>8. QED
    BY <2>5, <2>6, <2>7, QuietStepKeeps
<1>3. CASE Refuse(j)
  <2>1. /\ job' = [job EXCEPT ![j] = [NewJob EXCEPT !.at = "over"]]
        /\ faulted' = TRUE
        /\ UNCHANGED <<chain, signed, Ledgers, call, swept, mempool>>
    BY <1>3 DEF Refuse
  <2>2. /\ [NewJob EXCEPT !.at = "over"] \in JobShape
        /\ [NewJob EXCEPT !.at = "over"].at = "over"
    BY DEF NewJob, JobShape
  <2>3. Shapes' /\ CallsPlaced' /\ JobsPlaced'
    BY <1>0, <2>1, <2>2 DEF Shapes, CallsPlaced, CallPlaced, Ledgers, JobsPlaced
  <2>4. QED
    BY <2>1, <2>3, QuietStepKeeps
<1>4. ASSUME NEW n \in Nodes, Admit(j, n)
      PROVE  Goal
  <2>1. /\ job' = [job EXCEPT ![j].at = "running", ![j].node = n]
        /\ UNCHANGED <<chain, signed, Ledgers, call, swept, faulted, mempool>>
    BY <1>4 DEF Admit
  <2>2. job' \in [Jobs -> JobShape] /\ JobsPlaced'
    <3>1. job' \in [Jobs -> JobShape]
      BY <1>0, <2>1 DEF Shapes, JobShape
    <3>2. JobsPlaced'
      BY <1>0, <2>1 DEF Shapes, JobsPlaced
    <3> QED  BY <3>1, <3>2
  <2>3. Shapes' /\ CallsPlaced'
    BY <1>0, <2>1, <2>2 DEF Shapes, CallsPlaced, CallPlaced, Ledgers
  <2>4. QED
    BY <2>1, <2>2, <2>3, QuietStepKeeps
<1>5. QED
  BY <1>1, <1>2, <1>3, <1>4

\* What Write does: the entry is in memory, and on disk unless the write failed.
LEMMA WriteEffect ==
    ASSUME Shapes, NEW n \in Nodes, NEW entry \in Entry, Write(n, entry)
    PROVE  /\ ledger' \in [Nodes -> Entry] /\ file' \in [Nodes -> Entry]
           /\ ledger'[n] = entry
           /\ \A m \in Nodes \ {n} : ledger'[m] = ledger[m] /\ file'[m] = file[m]
           /\ file'[n] \in {file[n], entry}
           /\ faulted' \in BOOLEAN
           /\ ~faulted' => ~faulted /\ file'[n] = entry
BY DEF Write, Fault, Shapes

\* A ticket above every earlier one becomes the newest of its node, with the
\* time it was signed for.
LEMMA BankStep ==
    ASSUME IInv, Faultless, NEW j \in Jobs, Bank(j)
    PROVE  Goal
<1> DEFINE n == job[j].node
           entry == [ledger[n] EXCEPT !.authorised = job[j].cum, !.deadline = job[j].deadline]
           new == [at |-> "weigh", node |-> n, cum |-> job[j].cum,
                   deadline |-> job[j].deadline, fresh |-> FALSE]
<1>0. ChainShape /\ Shapes /\ JobsPlaced /\ CallsPlaced /\ Marks
  BY DEF IInv
<1>1. /\ job[j].at = "signed" /\ Bankable(n, job[j])
      /\ Write(n, entry)
      /\ banked' = [banked EXCEPT ![n] = job[j].cum]
      /\ job' = [job EXCEPT ![j] = [NewJob EXCEPT !.at = "over"]]
      /\ call' = [call EXCEPT ![j] = new]
      /\ swept' = swept \ {n}
      /\ UNCHANGED <<chain, signed, mempool>>
  BY DEF Bank
<1>2. /\ n \in Nodes /\ job[j] \in JobShape /\ ledger[n] \in Entry
      /\ job[j].cum \in Nat /\ job[j].deadline \in Nat
  BY <1>0, <1>1 DEF JobsPlaced, Shapes, JobShape
<1>3. job[j].cum > ledger[n].authorised /\ now <= job[j].deadline
  BY <1>1 DEF Bankable
<1>4. /\ entry \in Entry /\ entry.authorised = job[j].cum /\ entry.deadline = job[j].deadline
      /\ entry.settled = ledger[n].settled
  BY <1>2 DEF Entry
<1>5. new \in CallShape /\ [NewJob EXCEPT !.at = "over"] \in JobShape
  BY <1>2 DEF CallShape, NewJob, JobShape
<1>6. j \in Callers /\ j \notin Nodes
  BY CallerAssumption DEF Callers
<1> HIDE DEF n, entry
<1>7. /\ ledger' \in [Nodes -> Entry] /\ file' \in [Nodes -> Entry]
      /\ ledger'[n] = entry
      /\ \A m \in Nodes \ {n} : ledger'[m] = ledger[m] /\ file'[m] = file[m]
      /\ file'[n] \in {file[n], entry}
      /\ faulted' \in BOOLEAN
      /\ ~faulted' => ~faulted /\ file'[n] = entry
  BY <1>0, <1>1, <1>2, <1>4, WriteEffect
<1>8. Shapes'
  BY <1>0, <1>1, <1>2, <1>5, <1>7 DEF Shapes
<1>9. JobsPlaced'
  BY <1>0, <1>1 DEF JobsPlaced, NewJob, Shapes
<1>10. CallsPlaced'
  <2> SUFFICES ASSUME NEW c \in Callers, call'[c].at # "idle"
               PROVE  /\ call'[c].node \in Nodes
                      /\ c \in Nodes => call'[c].node = c
                      /\ call'[c].cum <= ledger'[call'[c].node].authorised
                      /\ call'[c].cum = ledger'[call'[c].node].authorised =>
                             call'[c].deadline = ledger'[call'[c].node].deadline
    BY DEF CallsPlaced, CallPlaced
  <2>1. CASE c = j
    <3>1. call'[c] = new
      BY <1>0, <1>1, <1>6, <2>1 DEF Shapes
    <3>2. QED
      BY <1>2, <1>4, <1>6, <1>7, <2>1, <3>1
  <2>2. CASE c # j
    <3>1. call'[c] = call[c]
      BY <1>0, <1>1, <2>2 DEF Shapes
    <3>2. CallPlaced(c) /\ call[c].node \in Nodes
      BY <1>0, <3>1 DEF CallsPlaced, CallPlaced
    <3>3. CASE call[c].node = n
      <4>1. call[c].cum \in Nat /\ ledger[n].authorised \in Nat
        BY <1>0, <1>2 DEF Shapes, CallShape, Entry
      <4>2. call[c].cum < ledger'[n].authorised
        BY <1>2, <1>3, <1>4, <1>7, <3>1, <3>2, <3>3, <4>1 DEF CallPlaced
      <4>3. QED
        BY <1>2, <1>4, <1>7, <3>1, <3>2, <3>3, <4>1, <4>2 DEF CallPlaced
    <3>4. CASE call[c].node # n
      BY <1>7, <3>1, <3>2, <3>4 DEF CallPlaced
    <3>5. QED
      BY <3>3, <3>4
  <2>3. QED
    BY <2>1, <2>2
<1>11. Onward /\ Channel' = Channel
  BY <1>0, <1>1, StillOnward
<1>12. Marks'
  <2> SUFFICES ASSUME NEW m \in Nodes
               PROVE  /\ ledger'[m].settled <= ledger'[m].authorised
                      /\ file'[m].settled <= file'[m].authorised
                      /\ ledger'[m].settled <= Channel.earned
                      /\ file'[m].settled <= Channel.earned
    BY <1>11 DEF Marks
  <2>1. CASE m = n
    <3>1. /\ ledger[n].settled \in Nat /\ ledger[n].authorised \in Nat
          /\ ledger[n].settled <= ledger[n].authorised
          /\ ledger[n].settled <= Channel.earned
          /\ file[n].settled <= file[n].authorised /\ file[n].settled <= Channel.earned
      BY <1>0, <1>2 DEF Entry, Marks
    <3>2. entry.settled <= entry.authorised /\ entry.settled <= Channel.earned
      BY <1>2, <1>3, <1>4, <3>1
    <3>3. QED
      BY <1>7, <2>1, <3>1, <3>2
  <2>2. CASE m # n
    BY <1>0, <1>7, <2>2 DEF Marks
  <2>3. QED
    BY <2>1, <2>2
<1>13. IInv'
  BY <1>8, <1>9, <1>10, <1>11, <1>12 DEF IInv, Onward
<1>14. Faultless'
  <2> SUFFICES ASSUME ~faulted', NEW m \in Nodes
               PROVE  /\ file'[m] = ledger'[m] /\ banked'[m] = ledger'[m].authorised
                      /\ m \in swept' /\ ledger'[m].authorised > Channel.earned =>
                             /\ ledger'[m].deadline >= now + DueSoon
                             /\ ~(Closing /\ Channel.closeAt < now + Grace)
                      /\ ledger'[m].authorised > Channel.earned => now <= ledger'[m].deadline
    BY <1>1, <1>11 DEF Faultless, Closing, chain
  <2>1. CASE m = n
    BY <1>0, <1>1, <1>2, <1>3, <1>4, <1>7, <2>1 DEF Shapes
  <2>2. CASE m # n
    <3>1. ledger'[m] = ledger[m] /\ file'[m] = file[m] /\ banked'[m] = banked[m] /\ ~faulted
      BY <1>0, <1>1, <1>7, <2>2 DEF Shapes
    <3>2. m \in swept' => m \in swept
      BY <1>1
    <3>3. QED
      BY <3>1, <3>2 DEF Faultless
  <2>3. QED
    BY <2>1, <2>2
<1>15. QED
  BY <1>13, <1>14 DEF Goal

\* Calls end, or go on with the ticket they have.
SameTickets ==
    /\ call' \in [Callers -> CallShape]
    /\ \A c \in Callers :
          call'[c].at # "idle" => /\ call[c].at # "idle"
                                  /\ call'[c].node = call[c].node
                                  /\ call'[c].cum = call[c].cum
                                  /\ call'[c].deadline = call[c].deadline

LEMMA TicketsPlaced ==
    ASSUME CallsPlaced, SameTickets,
           \A n \in Nodes : /\ ledger'[n].authorised = ledger[n].authorised
                            /\ ledger'[n].deadline = ledger[n].deadline
    PROVE  CallsPlaced'
BY DEF CallsPlaced, CallPlaced, SameTickets

LEMMA EndsOrMoves ==
    ASSUME Shapes, NEW c \in Callers, call[c].at # "idle",
           Ends(c) \/ Moves(c, "check") \/ Moves(c, "post")
    PROVE  SameTickets /\ swept' = swept
<1>1. call[c] \in CallShape /\ NoCall \in CallShape /\ NoCall.at = "idle"
  BY DEF Shapes, CallShape, NoCall
<1>2. CASE Ends(c)
  BY <1>1, <1>2 DEF Ends, SameTickets, Shapes
<1>3. ASSUME NEW phase \in {"check", "post"}, Moves(c, phase)
      PROVE  SameTickets /\ swept' = swept
  <2> DEFINE s == [call[c] EXCEPT !.at = phase, !.fresh = (phase = "post")]
  <2>1. call' = [call EXCEPT ![c] = s] /\ swept' = swept
    BY <1>3 DEF Moves, Shapes
  <2>2. /\ s \in CallShape /\ s.node = call[c].node /\ s.cum = call[c].cum
        /\ s.deadline = call[c].deadline
    BY <1>1 DEF CallShape
  <2> HIDE DEF s
  <2>3. QED
    BY <1>1, <2>1, <2>2 DEF SameTickets, Shapes
<1>4. QED
  BY <1>2, <1>3

\* A mark is written for a total the chain has earned.
LEMMA MarkKeeps ==
    ASSUME IInv, Faultless, Onward, SameTickets, NEW n \in Nodes, NEW upto \in Nat,
           Marked(n, upto), upto <= ledger[n].authorised, upto <= Channel'.earned,
           swept' = swept, UNCHANGED <<signed, job, mempool>>
    PROVE  Goal
<1> DEFINE entry == [ledger[n] EXCEPT !.settled = Higher(@, upto)]
<1>0. ChainShape /\ Shapes /\ JobsPlaced /\ CallsPlaced /\ Marks
  BY DEF IInv
<1>1. Write(n, entry) /\ banked' = banked
  BY DEF Marked
<1>2. /\ ledger[n] \in Entry /\ ledger[n].settled \in Nat /\ ledger[n].authorised \in Nat
      /\ file[n].settled \in Nat
  BY <1>0 DEF Shapes, Entry
<1>3. /\ Higher(ledger[n].settled, upto) \in Nat
      /\ Higher(ledger[n].settled, upto) \in {ledger[n].settled, upto}
  BY <1>2 DEF Higher
<1>4. /\ entry \in Entry /\ entry.authorised = ledger[n].authorised
      /\ entry.deadline = ledger[n].deadline
      /\ entry.settled \in {ledger[n].settled, upto}
  BY <1>2, <1>3 DEF Entry
<1> HIDE DEF entry
<1>5. /\ ledger' \in [Nodes -> Entry] /\ file' \in [Nodes -> Entry]
      /\ ledger'[n] = entry
      /\ \A m \in Nodes \ {n} : ledger'[m] = ledger[m] /\ file'[m] = file[m]
      /\ file'[n] \in {file[n], entry}
      /\ faulted' \in BOOLEAN
      /\ ~faulted' => ~faulted /\ file'[n] = entry
  BY <1>0, <1>1, <1>4, WriteEffect
<1>6. \A m \in Nodes : /\ ledger'[m].authorised = ledger[m].authorised
                       /\ ledger'[m].deadline = ledger[m].deadline
  BY <1>4, <1>5
<1>7. Shapes' /\ JobsPlaced' /\ CallsPlaced' /\ ChainShape'
  BY <1>0, <1>1, <1>5, <1>6, TicketsPlaced DEF Shapes, JobsPlaced, SameTickets, Onward
<1>8. Marks'
  <2>1. Channel.earned \in Nat /\ Channel'.earned \in Nat /\ Channel.earned <= Channel'.earned
    BY <1>0, <1>7, ChainTyped DEF ChainShape, Channel, ChannelShape, Onward
  <2>2. \A m \in Nodes : /\ ledger[m].settled \in Nat /\ file[m].settled \in Nat
                         /\ ledger[m].settled <= Channel'.earned
                         /\ file[m].settled <= Channel'.earned
    BY <1>0, <2>1 DEF Shapes, Entry, Marks
  <2>3. /\ entry.settled <= entry.authorised /\ entry.settled <= Channel'.earned
    BY <1>0, <1>4, <2>2 DEF Marks
  <2>4. QED
    BY <1>0, <1>5, <2>2, <2>3 DEF Marks
<1>9. IInv'
  BY <1>7, <1>8 DEF IInv
<1>10. \A m \in Nodes : ~faulted' => file'[m] = ledger'[m]
  BY <1>5 DEF Faultless
<1>11. Faultless'
  BY <1>1, <1>5, <1>6, <1>9, <1>10, FaultlessKept
<1>12. QED
  BY <1>9, <1>11 DEF Goal

LEMMA CallSteps ==
    ASSUME IInv, Faultless, NEW c \in Callers,
           Check(c) \/ Post(c) \/ PostFails(c) \/ Mined(c) \/ GivesUp(c)
    PROVE  Goal
<1>0. ChainShape /\ Shapes /\ JobsPlaced /\ CallsPlaced /\ Marks
  BY DEF IInv
<1>1. /\ call[c].at # "idle" /\ call[c].node \in Nodes /\ call[c] \in CallShape
      /\ call[c].cum \in Nat /\ call[c].cum <= ledger[call[c].node].authorised
      /\ call[c].deadline \in Nat
  <2>1. call[c].at # "idle"
    BY DEF Check, Post, PostFails, Mined, GivesUp
  <2>2. QED
    BY <1>0, <2>1 DEF CallsPlaced, CallPlaced, Shapes, CallShape
<1>2. ASSUME UNCHANGED <<chain, signed, job, Ledgers>>, SameTickets, swept' = swept,
             mempool' \subseteq Posted, faulted' \in BOOLEAN, faulted => faulted'
      PROVE  Goal
  <2>1. \A n \in Nodes : /\ ledger'[n].authorised = ledger[n].authorised
                         /\ ledger'[n].deadline = ledger[n].deadline
    BY <1>2 DEF Ledgers
  <2>2. Shapes' /\ JobsPlaced' /\ CallsPlaced'
    BY <1>0, <1>2, <2>1, TicketsPlaced DEF Shapes, JobsPlaced, Ledgers, SameTickets
  <2>3. faulted' = faulted \/ faulted'
    BY <1>0, <1>2 DEF Shapes
  <2>4. QED
    BY <1>2, <2>2, <2>3, QuietStepKeeps
<1>3. CASE Check(c)
  <2>1. CASE call[c].cum <= Channel.earned /\ Ends(c) /\ Marked(call[c].node, call[c].cum)
    <3>1. Onward /\ Channel' = Channel
      BY <1>0, <1>3, StillOnward DEF Check
    <3>2. SameTickets /\ swept' = swept
      BY <1>0, <1>1, <2>1, EndsOrMoves
    <3>3. QED
      BY <1>1, <1>3, <2>1, <3>1, <3>2, MarkKeeps DEF Check
  <2>2. CASE Moves(c, "post") /\ UNCHANGED <<Ledgers, faulted>>
    BY <1>0, <1>1, <1>2, <1>3, <2>2, EndsOrMoves DEF Check, Shapes
  <2>3. QED
    BY <1>3, <2>1, <2>2 DEF Check
<1>4. CASE Post(c)
  <2>1. SameTickets
    <3> DEFINE s == [call[c] EXCEPT !.at = "wait", !.fresh = FALSE]
               t(d) == [call[d] EXCEPT !.fresh = FALSE]
    <3>1. \A d \in Callers : call[d] \in CallShape
      BY <1>0 DEF Shapes
    <3>2. \A d \in Callers : /\ t(d) \in CallShape /\ t(d).at = call[d].at
                             /\ t(d).node = call[d].node
                             /\ t(d).cum = call[d].cum /\ t(d).deadline = call[d].deadline
      BY <3>1 DEF CallShape
    <3>3. /\ s \in CallShape /\ s.node = call[c].node /\ s.cum = call[c].cum
          /\ s.deadline = call[c].deadline
      BY <1>1 DEF CallShape
    <3>4. call' = [d \in Callers |-> IF d = c THEN s
                                     ELSE IF call[d].node = call[c].node THEN t(d) ELSE call[d]]
      BY <1>4 DEF Post
    <3> HIDE DEF s, t
    <3>5. QED
      BY <1>1, <3>1, <3>2, <3>3, <3>4 DEF SameTickets
  <2>2. QED
    BY <1>0, <1>2, <1>4, <2>1 DEF Post, Shapes
<1>5. CASE PostFails(c)
  BY <1>0, <1>1, <1>2, <1>5, EndsOrMoves DEF PostFails, Fault, Shapes
<1>6. CASE Mined(c)
  <2>1. SameTickets /\ swept' = swept
    BY <1>0, <1>1, <1>6, EndsOrMoves DEF Mined
  <2>2. CASE Accepted(c) /\ Marked(call[c].node, call[c].cum)
    <3>1. Onward /\ Channel'.earned = call[c].cum
      BY <1>0, <1>1, <2>2, SettleOnward DEF Accepted
    <3>2. QED
      BY <1>1, <1>6, <2>1, <2>2, <3>1, MarkKeeps DEF Mined
  <2>3. CASE faulted' = TRUE /\ UNCHANGED <<chain, Ledgers>>
    BY <1>0, <1>2, <1>6, <2>1, <2>3 DEF Mined, Shapes
  <2>4. QED
    BY <1>6, <2>2, <2>3 DEF Mined
<1>7. CASE GivesUp(c)
  <2>1. [cum |-> call[c].cum, deadline |-> call[c].deadline] \in Posted
    BY <1>1 DEF Posted
  <2>2. mempool' \subseteq Posted
    BY <1>0, <1>7, <2>1 DEF GivesUp, Shapes
  <2>3. QED
    BY <1>0, <1>1, <1>2, <1>7, <2>2, EndsOrMoves DEF GivesUp, Fault
<1>8. QED
  BY <1>3, <1>4, <1>5, <1>6, <1>7

\* A node counts as swept once what it holds is collected, or need not be yet.
LEMMA SweptKeeps ==
    ASSUME IInv, Faultless, SameTickets, UNCHANGED <<chain, signed, job, Ledgers, faulted, mempool>>,
           NEW n \in Nodes, swept' \subseteq swept \cup {n},
           n \in swept' \ swept => \/ ledger[n].authorised <= Channel.earned
                                   \/ ledger[n].deadline >= now + DueSoon /\ ~Closing
    PROVE  Goal
<1>0. ChainShape /\ Shapes /\ JobsPlaced /\ CallsPlaced /\ Marks
  BY DEF IInv
<1>1. Onward /\ Channel' = Channel
  BY <1>0, StillOnward
<1>2. swept' \subseteq Nodes
  BY <1>0 DEF Shapes
<1>3. Shapes' /\ JobsPlaced' /\ CallsPlaced' /\ Marks'
  <2>1. \A m \in Nodes : /\ ledger'[m].authorised = ledger[m].authorised
                         /\ ledger'[m].deadline = ledger[m].deadline
    BY DEF Ledgers
  <2>2. CallsPlaced'
    BY <1>0, <2>1, TicketsPlaced
  <2>3. Marks'
    BY <1>0, <1>1 DEF Marks, Ledgers
  <2>4. QED
    BY <1>0, <1>2, <2>2, <2>3 DEF Shapes, JobsPlaced, Ledgers, SameTickets
<1>4. IInv'
  BY <1>1, <1>3 DEF IInv, Onward
<1>5. /\ Channel.earned \in Nat
      /\ \A m \in Nodes : ledger[m].authorised \in Nat
  BY <1>0, ChainTyped DEF Shapes, Entry
<1>6. Faultless'
  <2> SUFFICES ASSUME ~faulted, NEW m \in Nodes
               PROVE  /\ file[m] = ledger[m] /\ banked[m] = ledger[m].authorised
                      /\ m \in swept' /\ ledger[m].authorised > Channel.earned =>
                             /\ ledger[m].deadline >= now + DueSoon
                             /\ ~(Closing /\ Channel.closeAt < now + Grace)
                      /\ ledger[m].authorised > Channel.earned => now <= ledger[m].deadline
    BY <1>1 DEF Faultless, Closing, Ledgers, chain
  <2>1. m \in swept' => m \in swept \/ (m = n /\ n \in swept' \ swept)
    OBVIOUS
  <2>2. QED
    BY <1>5, <2>1 DEF Faultless
<1>7. QED
  BY <1>4, <1>6 DEF Goal

LEMMA SweepSteps ==
    ASSUME IInv, Faultless, (\E n \in Nodes : Sweep(n)) \/ (\E c \in Callers : Weigh(c))
    PROVE  Goal
<1>0. ChainShape /\ Shapes /\ JobsPlaced /\ CallsPlaced /\ Marks
  BY DEF IInv
<1>1. ASSUME NEW n \in Nodes, Sweep(n)
      PROVE  Goal
  <2> DEFINE new == [at |-> "weigh", node |-> n, cum |-> ledger[n].authorised,
                     deadline |-> ledger[n].deadline, fresh |-> FALSE]
  <2>1. UNCHANGED <<chain, signed, job, Ledgers, faulted, mempool>>
    BY <1>1 DEF Sweep
  <2>2. CASE call' = [call EXCEPT ![n] = new] /\ UNCHANGED swept
    <3>1. n \in Callers /\ ledger[n] \in Entry
      BY <1>0 DEF Callers, Shapes
    <3>2. new \in CallShape
      BY <3>1 DEF CallShape, Entry
    <3>3. ledger[n].authorised \in Nat
      BY <3>1 DEF Entry
    <3>4. CallsPlaced'
      BY <1>0, <2>1, <2>2, <3>1, <3>3 DEF CallsPlaced, CallPlaced, Shapes, Ledgers
    <3>5. Shapes' /\ JobsPlaced'
      BY <1>0, <2>1, <2>2, <3>2 DEF Shapes, JobsPlaced, Ledgers
    <3>6. QED
      BY <2>1, <2>2, <3>4, <3>5, QuietStepKeeps
  <2>3. CASE /\ ~(ledger[n].authorised > ledger[n].settled)
             /\ UNCHANGED call /\ swept' = swept \cup {n}
    <3>1. SameTickets
      BY <1>0, <2>3 DEF SameTickets, Shapes
    <3>2. ledger[n].authorised <= Channel.earned
      <4>1. ledger[n].authorised \in Nat /\ ledger[n].settled \in Nat /\ Channel.earned \in Nat
        BY <1>0, ChainTyped DEF Shapes, Entry
      <4>2. QED
        BY <1>0, <2>3, <4>1 DEF Marks
    <3>3. QED
      BY <2>1, <2>3, <3>1, <3>2, SweptKeeps
  <2>4. QED
    BY <1>1, <2>2, <2>3 DEF Sweep
<1>2. ASSUME NEW c \in Callers, Weigh(c)
      PROVE  Goal
  <2>1. call[c].at # "idle" /\ UNCHANGED <<chain, signed, job, Ledgers, faulted, mempool>>
    BY <1>2 DEF Weigh
  <2>2. CASE Moves(c, "check")
    <3>1. SameTickets /\ swept' = swept
      BY <1>0, <2>1, <2>2, EndsOrMoves
    <3>2. call[c].node \in Nodes
      BY <1>0, <2>1 DEF CallsPlaced, CallPlaced
    <3>3. QED
      BY <2>1, <3>1, <3>2, SweptKeeps
  <2>3. CASE /\ ~Worth(c) /\ call' = [call EXCEPT ![c] = NoCall]
             /\ swept' = IF c \in Nodes /\ call[c].cum = ledger[c].authorised
                           THEN swept \cup {c} ELSE swept
    <3> DEFINE n == call[c].node
    <3>1. SameTickets
      BY <1>0, <2>3 DEF SameTickets, Shapes, NoCall, CallShape
    <3>2. n \in Nodes /\ (c \in Nodes => n = c) /\ CallPlaced(c)
      BY <1>0, <2>1 DEF CallsPlaced, CallPlaced
    <3>3. ~(call[c].deadline - now < DueSoon) /\ ~Closing
      BY <2>3 DEF Worth
    <3>4. call[c].deadline \in Nat /\ now \in Nat /\ DueSoon \in Nat
      BY <1>0, NumberAssumption DEF Shapes, CallShape, ChainShape
    <3>5. call[c].deadline >= now + DueSoon
      BY <3>3, <3>4
    <3>6. c \in Nodes /\ call[c].cum = ledger[c].authorised =>
              ledger[n].deadline >= now + DueSoon
      BY <2>1, <3>2, <3>5 DEF CallPlaced
    <3>7. swept' \subseteq swept \cup {n}
      BY <2>3, <3>2
    <3>8. n \in swept' \ swept => ledger[n].deadline >= now + DueSoon /\ ~Closing
      BY <2>3, <3>2, <3>3, <3>6
    <3> HIDE DEF n
    <3>9. QED
      BY <2>1, <3>1, <3>2, <3>7, <3>8, SweptKeeps
  <2>4. QED
    BY <1>2, <2>2, <2>3 DEF Weigh
<1>3. QED
  BY <1>1, <1>2

\* A restart reads the file, and the calls and jobs of the node are gone.
LEMMA RestartStep ==
    ASSUME IInv, Faultless, NEW n \in Nodes, Restart(n)
    PROVE  Goal
<1>0. ChainShape /\ Shapes /\ JobsPlaced /\ CallsPlaced /\ Marks
  BY DEF IInv
<1>1. /\ ledger' = [ledger EXCEPT ![n] = file[n]]
      /\ job' = [j \in Jobs |-> IF job[j].node = n THEN [NewJob EXCEPT !.at = "over"] ELSE job[j]]
      /\ mempool' = mempool \cup
           {[cum |-> call[c].cum, deadline |-> call[c].deadline] :
               c \in {d \in Callers : call[d].node = n /\ call[d].at = "wait"}}
      /\ call' = [c \in Callers |-> IF call[c].node = n THEN NoCall ELSE call[c]]
      /\ UNCHANGED <<chain, signed, file, swept, banked>>
  BY DEF Restart
<1>2. faulted' \in BOOLEAN /\ (faulted => faulted')
  BY <1>0 DEF Restart, Fault, Shapes
<1>3. [NewJob EXCEPT !.at = "over"] \in JobShape /\ NoCall \in CallShape
  BY DEF NewJob, JobShape, NoCall, CallShape
<1>4. job' \in [Jobs -> JobShape] /\ call' \in [Callers -> CallShape]
  BY <1>0, <1>1, <1>3 DEF Shapes
<1>5. mempool' \subseteq Posted
  <2>1. \A c \in Callers : [cum |-> call[c].cum, deadline |-> call[c].deadline] \in Posted
    BY <1>0 DEF Shapes, CallShape, Posted
  <2>2. QED
    BY <1>0, <1>1, <2>1 DEF Shapes
<1>6. Shapes'
  BY <1>0, <1>1, <1>2, <1>4, <1>5 DEF Shapes
<1>7. JobsPlaced'
  BY <1>0, <1>1 DEF JobsPlaced, NewJob
<1>8. CallsPlaced'
  <2> SUFFICES ASSUME NEW c \in Callers, call'[c].at # "idle"
               PROVE  CallPlaced(c)'
    BY DEF CallsPlaced, CallPlaced
  <2>1. call[c].node # n /\ call'[c] = call[c]
    BY <1>1 DEF NoCall
  <2>2. \A m \in Nodes \ {n} : ledger'[m] = ledger[m]
    BY <1>0, <1>1 DEF Shapes
  <2>3. CallPlaced(c)
    BY <1>0 DEF CallsPlaced
  <2>4. QED
    BY <2>1, <2>2, <2>3 DEF CallPlaced
<1>9. Onward /\ Channel' = Channel
  BY <1>0, <1>1, StillOnward
<1>10. Marks'
  BY <1>0, <1>1, <1>9 DEF Marks, Shapes
<1>11. IInv'
  BY <1>6, <1>7, <1>8, <1>9, <1>10 DEF IInv, Onward
<1>12. ~faulted' => /\ ~faulted /\ swept' \subseteq swept
                    /\ \A m \in Nodes : ledger'[m] = ledger[m] /\ file'[m] = ledger'[m]
                                        /\ banked'[m] = banked[m]
  BY <1>0, <1>1, <1>2 DEF Faultless, Shapes
<1>13. Faultless'
  BY <1>9, <1>11, <1>12, FaultlessKept
<1>14. QED
  BY <1>11, <1>13 DEF Goal

\* Time passes: while nothing has failed every node was swept, so what is not
\* collected has more than a unit left.
LEMMA TickStep ==
    ASSUME IInv, Faultless, Tick
    PROVE  Goal
<1>0. ChainShape /\ Shapes /\ JobsPlaced /\ CallsPlaced /\ Marks
  BY DEF IInv
<1>1. /\ swept = Nodes \/ faulted
      /\ now' = now + 1 /\ UNCHANGED <<accounts, channels, usdc>>
      /\ swept' = {}
      /\ UNCHANGED <<signed, job, Ledgers, call, faulted, mempool>>
  BY DEF Tick, Chain!Tick
<1>2. Channel' = Channel
  BY <1>1 DEF Channel
<1>3. ChainShape'
  BY <1>0, <1>1, <1>2 DEF ChainShape
<1>4. IInv'
  BY <1>0, <1>1, <1>2, <1>3
     DEF IInv, Shapes, JobsPlaced, CallsPlaced, CallPlaced, Marks, Ledgers
<1>5. Faultless'
  <2> SUFFICES ASSUME ~faulted, NEW n \in Nodes
               PROVE  /\ file[n] = ledger[n] /\ banked[n] = ledger[n].authorised
                      /\ ledger[n].authorised > Channel.earned => now + 1 <= ledger[n].deadline
    BY <1>1, <1>2 DEF Faultless, Ledgers
  <2>1. file[n] = ledger[n] /\ banked[n] = ledger[n].authorised
    BY DEF Faultless
  <2>2. ASSUME ledger[n].authorised > Channel.earned
        PROVE  now + 1 <= ledger[n].deadline
    <3>1. ledger[n].deadline >= now + DueSoon
      BY <1>1, <2>2 DEF Faultless
    <3>2. DueSoon >= 1 /\ DueSoon \in Nat /\ now \in Nat /\ ledger[n].deadline \in Nat
      BY <1>0, NumberAssumption DEF Shapes, Entry, ChainShape
    <3>3. QED
      BY <3>1, <3>2
  <2>3. QED
    BY <2>1, <2>2
<1>6. QED
  BY <1>4, <1>5 DEF Goal

LEMMA NextInv == IInv /\ Faultless /\ [Next]_vars => IInv' /\ Faultless'
<1> SUFFICES ASSUME IInv, Faultless, [Next]_vars
             PROVE  Goal
  BY DEF Goal
<1>1. CASE UNCHANGED vars
  BY <1>1, QuietStepKeeps DEF vars, IInv, Shapes, JobsPlaced, CallsPlaced, CallPlaced, Ledgers
<1>2. ASSUME NEW j \in Jobs, JobStep(j)
      PROVE  Goal
  BY <1>2, JobSteps, BankStep DEF JobStep
<1>3. ASSUME NEW c \in Callers, CallStep(c)
      PROVE  Goal
  BY <1>3, CallSteps, SweepSteps DEF CallStep
<1>4. QED
  BY <1>1, <1>2, <1>3, ClientSteps, TickStep, SweepSteps, RestartStep DEF Next

THEOREM SettlementInvariance == Spec => [](IInv /\ Faultless)
BY InitInv, NextInv, PTL DEF Spec

\* Types of the ledgers, the calls and the jobs.
THEOREM SettlementTypeCorrect == Spec => []TypeOK
<1>1. IInv => TypeOK
  BY DEF IInv, Shapes, Marks, TypeOK, Entry, JobShape, CallShape
<1>2. QED
  BY <1>1, SettlementInvariance, PTL

\* No node, in memory or on disk, marks as redeemed what the contract has not
\* recognised: not for a receipt that never came, a transaction of a sibling,
\* a second caller with the same ticket, or a restart from an older file.
THEOREM MarksAreEarned == Spec => []SettledIsEarned
<1>1. IInv => SettledIsEarned
  BY DEF IInv, Marks, SettledIsEarned
<1>2. QED
  BY <1>1, SettlementInvariance, PTL

\* A ticket above the chain's earnings is never left to expire while nothing
\* has failed, whatever the threshold that defers small settles.
THEOREM DeferralIsSafe == Spec => []NothingExpires
<1>1. Faultless => NothingExpires
  BY DEF Faultless, NothingExpires, Uncollected
<1>2. QED
  BY <1>1, SettlementInvariance, PTL

\* Where a notice lasts at least one unit of time, a client that closes after
\* it cannot take back anything a node had banked.
THEOREM NoticeIsEnough == Grace > 0 => (Spec => NoticeLeavesBanked)
<1> SUFFICES ASSUME Grace > 0
             PROVE  Spec => NoticeLeavesBanked
  OBVIOUS
<1>1. IInv /\ Faultless /\ [Next]_vars =>
        [Close /\ ~faulted /\ ~InFlight /\ swept = Nodes
               /\ Chain!TimedOut(Channel) /\ ~Chain!Lapsed(Channel) =>
           \A n \in Nodes : banked[n] <= Channel.earned]_vars
  <2> SUFFICES ASSUME IInv, Faultless, ~faulted, swept = Nodes, Chain!TimedOut(Channel),
                      NEW n \in Nodes
               PROVE  banked[n] <= Channel.earned
    OBVIOUS
  <2>1. /\ now \in Nat /\ Grace \in Nat /\ Channel.closeAt \in Nat /\ Channel.earned \in Nat
        /\ ledger[n].authorised \in Nat
    BY ChainTyped, NumberAssumption DEF IInv, Shapes, Entry
  <2>2. Closing /\ Channel.closeAt < now + Grace
    BY <2>1 DEF Chain!TimedOut, Closing
  <2>3. QED
    BY <2>1, <2>2 DEF Faultless
<1>2. QED
  BY <1>1, SettlementInvariance, PTL DEF Spec, NoticeLeavesBanked
=============================================================================
