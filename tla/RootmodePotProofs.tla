------------------------- MODULE RootmodePotProofs -------------------------
(***************************************************************************)
(* Safety of the pot contract for every set of clients, workers, keys,     *)
(* amounts, caps and deadlines.                                            *)
(***************************************************************************)
EXTENDS RootmodePot, CoinTheorems

----------------------------------------------------------------------------
(* Facts about the operators.                                               *)

\* The fee is a whole number of micro-USDC and never more than the payment.
LEMMA FeeBound ==
    ASSUME NEW amount \in Nat
    PROVE  Fee(amount) \in 0 .. amount
<1>1. FeeBps \in Nat /\ FeeBps <= 10000
  BY FeeAssumption
<1>2. amount * FeeBps \in Nat /\ amount * FeeBps <= amount * 10000
  BY <1>1
<1>3. \A n \in Nat : n <= amount * 10000 => n \div 10000 \in 0 .. amount
  OBVIOUS
<1>4. QED
  BY <1>2, <1>3 DEF Fee

\* Moving USDC a holder has keeps every holding a natural number.
LEMMA MovedType ==
    ASSUME NEW u \in [Holders -> Nat], NEW from \in Holders, NEW to \in Holders,
           NEW amount \in Nat, amount <= u[from]
    PROVE  /\ Moved(u, from, to, amount) \in [Holders -> Nat]
           /\ from # to => Moved(u, from, to, amount)[from] = u[from] - amount
           /\ from # to => Moved(u, from, to, amount)[to] = u[to] + amount
BY DEF Moved

\* A payment leaves the pot in full, whatever part of it is the fee.
LEMMA PaidOutType ==
    ASSUME NEW u \in [Holders -> Nat], NEW w \in Workers,
           NEW amount \in Nat, amount <= u[Pot]
    PROVE  /\ PaidOut(u, w, amount) \in [Holders -> Nat]
           /\ PaidOut(u, w, amount)[Pot] = u[Pot] - amount
<1> DEFINE fee == Fee(amount)
<1> DEFINE v == Moved(u, Pot, w, amount - fee)
<1>1. fee \in Nat /\ amount - fee \in Nat
  BY FeeBound
<1>2. Pot \in Holders /\ w \in Holders /\ FeeVault \in Holders
  BY DEF Holders
<1>3. Pot # w /\ Pot # FeeVault
  BY HolderAssumption
<1> HIDE DEF fee
<1>4. v \in [Holders -> Nat] /\ v[Pot] = u[Pot] - (amount - fee)
  BY <1>1, <1>2, <1>3, MovedType
<1> HIDE DEF v
<1>5. fee <= v[Pot]
  BY <1>1, <1>2, <1>4
<1>6. /\ Moved(v, Pot, FeeVault, fee) \in [Holders -> Nat]
      /\ Moved(v, Pot, FeeVault, fee)[Pot] = v[Pot] - fee
  BY <1>1, <1>2, <1>3, <1>4, <1>5, MovedType
<1>7. QED
  BY <1>1, <1>2, <1>4, <1>6 DEF PaidOut, v, fee

\* Rolling the day and counting a spend leave an account an account, and its
\* balance alone.
LEMMA CountedType ==
    ASSUME NEW a \in Account, NEW delta \in Nat, now \in Nat
    PROVE  /\ Rolled(a) \in Account
           /\ Counted(a, delta) \in Account
           /\ Counted(a, delta).balance = a.balance
<1> USE DEF Account
<1>1. [a EXCEPT !.dayStart = now, !.spentToday = 0] \in Account /\ [a EXCEPT !.dayStart = now, !.spentToday = 0].balance = a.balance
  OBVIOUS
<1>2. Rolled(a) \in Account /\ Rolled(a).balance = a.balance
  BY <1>1 DEF Rolled
<1>3. \A b \in Account : /\ [b EXCEPT !.spentToday = @ + delta] \in Account
                         /\ [b EXCEPT !.spentToday = @ + delta].balance = b.balance
  OBVIOUS
<1>4. QED
  BY <1>2, <1>3 DEF Counted

\* A deposit credits its amount and keeps an account an account.
LEMMA CreditedType ==
    ASSUME NEW a \in Account, NEW amount \in Nat, NEW j \in Nat, NEW d \in Nat,
           NEW k \in AppKeys \cup {NoKey}
    PROVE  /\ Credited(a, amount, j, d, k) \in Account
           /\ Credited(a, amount, j, d, k).balance = a.balance + amount
<1> DEFINE j1 == Given(j, a.maxPerJob)
           d1 == Given(d, a.maxPerDay)
           k1 == GivenKey(k, a.appKey)
<1>1. j1 \in Nat /\ d1 \in Nat /\ k1 \in AppKeys \cup {NoKey}
  BY DEF Account, Given, GivenKey
<1> HIDE DEF j1, d1, k1
<1> DEFINE r == [a EXCEPT !.balance = @ + amount, !.maxPerJob = j1,
                          !.maxPerDay = d1, !.appKey = k1]
<1>2. a.balance + amount \in Nat
  BY DEF Account
<1>3. r \in Account
  BY <1>1, <1>2 DEF Account
<1>4. r.balance = a.balance + amount
  BY DEF Account
<1>5. QED
  BY <1>3, <1>4 DEF Credited, j1, d1, k1

\* Setting the limits keeps an account an account, and its balance.
LEMMA LimitsType ==
    ASSUME NEW a \in Account, NEW j \in Nat, NEW d \in Nat,
           NEW k \in AppKeys \cup {NoKey}
    PROVE  Limited(a, j, d, k) \in Account /\ Limited(a, j, d, k).balance = a.balance
<1> DEFINE k1 == GivenKey(k, a.appKey)
<1>1. k1 \in AppKeys \cup {NoKey}
  BY DEF Account, GivenKey
<1> HIDE DEF k1
<1> DEFINE r == [a EXCEPT !.maxPerJob = j, !.maxPerDay = d, !.appKey = k1]
<1>2. r \in Account /\ r.balance = a.balance
  BY <1>1 DEF Account
<1>3. QED
  BY <1>2 DEF Limited, k1

\* A reserve keeps a channel a channel and touches neither earned nor paid.
LEMMA ReservedType ==
    ASSUME NEW ch \in Channel, NEW a \in Account, NEW m \in Nat, NEW d \in Nat
    PROVE  /\ Reserved(ch, a, m, d) \in Channel
           /\ Reserved(ch, a, m, d).reserved = m
           /\ Reserved(ch, a, m, d).earned = ch.earned
           /\ Reserved(ch, a, m, d).paid = ch.paid
           /\ Reserved(ch, a, m, d).appKey = a.appKey
           /\ Reserved(ch, a, m, d).closeAt = 0
           /\ Reserved(ch, a, m, d).deadline >= d
           /\ Reserved(ch, a, m, d).deadline >= ch.deadline
<1> DEFINE j1 == RaisedCap(ch.maxPerJob, a.maxPerJob)
           d1 == RaisedCap(ch.maxPerDay, a.maxPerDay)
           t1 == IF d > ch.deadline THEN d ELSE ch.deadline
<1>1. /\ j1 \in Nat /\ d1 \in Nat /\ t1 \in Nat /\ t1 >= d /\ t1 >= ch.deadline
      /\ t1 \in {d, ch.deadline}
  BY DEF Account, Channel, RaisedCap
<1>2. a.appKey \in AppKeys \cup {NoKey}
  BY DEF Account
<1> HIDE DEF j1, d1, t1
<1> DEFINE s == [ch EXCEPT !.appKey = a.appKey, !.maxPerJob = j1, !.maxPerDay = d1,
                           !.reserved = m, !.deadline = t1, !.closeAt = 0]
<1>3. /\ s \in Channel
      /\ s.reserved = m /\ s.earned = ch.earned /\ s.paid = ch.paid
      /\ s.appKey = a.appKey /\ s.closeAt = 0 /\ s.deadline = t1
  BY <1>1, <1>2 DEF Channel
<1>4. Reserved(ch, a, m, d) = s
  BY DEF Reserved, j1, d1, t1
<1>5. QED
  BY <1>1, <1>3, <1>4

----------------------------------------------------------------------------
(* Type correctness.                                                        *)

LEMMA InitType == Init => TypeOK
BY TimeAssumption, InputAssumption
   DEF Init, TypeOK, NoAccount, NoChannel, Account, Channel, Pairs, Holders

\* Every step of the contract keeps every variable in its declared type; the
\* ledger order is what keeps the two subtractions natural.
LEMMA NextType ==
    ASSUME TypeOK, LedgerOrder, [Next]_vars
    PROVE  TypeOK'
<1> USE InputAssumption, TimeAssumption DEF TypeOK
<1>1. ASSUME NEW c \in Clients, WalletStep(c)
      PROVE  TypeOK'
  <2>1. CASE \E amount \in Deposits, j \in JobLimits, d \in DayLimits,
               k \in AppKeys \cup {NoKey} : Deposit(c, amount, j, d, k)
    <3>1. PICK amount \in Deposits, j \in JobLimits, d \in DayLimits,
               k \in AppKeys \cup {NoKey} : Deposit(c, amount, j, d, k)
      BY <2>1
    <3>2. c \in Holders /\ Pot \in Holders
      BY DEF Holders
    <3>3. usdc' \in [Holders -> Nat]
      BY <3>1, <3>2, MovedType DEF Deposit, CanMove
    <3>4. Credited(accounts[c], amount, j, d, k) \in Account
      BY CreditedType
    <3>5. QED
      BY <3>1, <3>3, <3>4 DEF Deposit
  <2>2. CASE WithdrawAll(c)
    <3>1. c \in Holders /\ Pot \in Holders /\ accounts[c].balance \in Nat
      BY DEF Holders, Account
    <3>2. usdc' \in [Holders -> Nat]
      BY <2>2, <3>1, MovedType DEF WithdrawAll, CanMove
    <3>3. accounts' \in [Clients -> Account]
      BY <2>2 DEF WithdrawAll, Account
    <3>4. QED
      BY <2>2, <3>2, <3>3 DEF WithdrawAll
  <2>3. CASE \E j \in JobLimits, d \in DayLimits, k \in AppKeys \cup {NoKey} :
                SetLimits(c, j, d, k)
    <3>1. PICK j \in JobLimits, d \in DayLimits, k \in AppKeys \cup {NoKey} :
              SetLimits(c, j, d, k)
      BY <2>3
    <3>2. accounts' \in [Clients -> Account]
      BY <3>1, LimitsType DEF SetLimits
    <3>3. QED
      BY <3>1, <3>2 DEF SetLimits
  <2>4. CASE \E w \in Workers : RequestClose(c, w)
    BY <2>4 DEF RequestClose, Channel, Pairs
  <2>5. QED
    BY <1>1, <2>1, <2>2, <2>3, <2>4 DEF WalletStep
<1>2. ASSUME NEW c \in Clients, NEW w \in Workers, ReserveStep(c, w)
      PROVE  TypeOK'
  <2>1. PICK m \in Cumulatives, d \in Deadlines, k \in AppKeys : Reserve(c, w, m, d, k)
    BY <1>2 DEF ReserveStep
  <2>2. accounts[c] \in Account /\ channels[<<c, w>>] \in Channel
    BY DEF Pairs
  <2>3. accounts' \in [Clients -> Account]
    BY <2>1, <2>2 DEF Reserve, Account, Channel
  <2>4. channels' \in [Pairs -> Channel]
    <3>1. Reserved(channels[<<c, w>>], accounts[c], m, d) \in Channel
      BY <2>2, ReservedType
    <3>2. QED
      BY <2>1, <3>1 DEF Reserve
  <2>5. QED
    BY <2>1, <2>3, <2>4 DEF Reserve
<1>3. ASSUME NEW c \in Clients, NEW w \in Workers, SpendStep(c, w)
      PROVE  TypeOK'
  <2>1. PICK m \in Cumulatives, d \in Deadlines, k \in AppKeys :
            Commit(c, w, m, d, k) \/ Settle(c, w, m, d, k)
    BY <1>3 DEF SpendStep
  <2>2. accounts[c] \in Account /\ channels[<<c, w>>] \in Channel
    BY DEF Pairs
  <2>3. m > channels[<<c, w>>].earned
    BY <2>1 DEF Commit, Settle, Recognizable
  <2>4. m - channels[<<c, w>>].earned \in Nat /\ m - channels[<<c, w>>].paid \in Nat
    BY <2>2, <2>3 DEF Channel, LedgerOrder, Pairs
  <2>5. Counted(accounts[c], m - channels[<<c, w>>].earned) \in Account
    BY <2>2, <2>4, CountedType
  <2>6. accounts' \in [Clients -> Account]
    BY <2>1, <2>5 DEF Commit, Settle
  <2>7. channels' \in [Pairs -> Channel]
    BY <2>1 DEF Commit, Settle, Channel, Pairs
  <2>8. usdc' \in [Holders -> Nat]
    <3>1. CASE Commit(c, w, m, d, k)
      BY <3>1 DEF Commit
    <3>2. CASE Settle(c, w, m, d, k)
      BY <2>4, <3>2, PaidOutType DEF Settle, CanMove
    <3>3. QED
      BY <2>1, <3>1, <3>2
  <2>9. QED
    BY <2>1, <2>6, <2>7, <2>8 DEF Commit, Settle
<1>4. ASSUME NEW c \in Clients, NEW w \in Workers, Collect(c, w)
      PROVE  TypeOK'
  <2>1. channels[<<c, w>>] \in Channel
    BY DEF Pairs
  <2>2. channels[<<c, w>>].earned - channels[<<c, w>>].paid \in Nat
    BY <1>4, <2>1 DEF Collect, Channel
  <2>3. usdc' \in [Holders -> Nat]
    BY <1>4, <2>2, PaidOutType DEF Collect, CanMove
  <2>4. channels' \in [Pairs -> Channel]
    BY <1>4, SMTT(30) DEF Collect, Channel, Pairs
  <2>5. QED
    BY <1>4, <2>3, <2>4 DEF Collect
<1>5. ASSUME NEW c \in Clients, NEW w \in Workers, Close(c, w)
      PROVE  TypeOK'
  <2>1. accounts[c] \in Account /\ channels[<<c, w>>] \in Channel
    BY DEF Pairs
  <2>2. channels[<<c, w>>].reserved - channels[<<c, w>>].earned \in Nat
    BY <2>1 DEF Channel, LedgerOrder, Pairs
  <2>3. accounts' \in [Clients -> Account]
    BY <1>5, <2>1, <2>2 DEF Close, Account
  <2>4. channels' \in [Pairs -> Channel]
    BY <1>5, <2>1 DEF Close, Channel, Pairs
  <2>5. QED
    BY <1>5, <2>3, <2>4 DEF Close
<1>6. CASE Tick
  BY <1>6 DEF Tick
<1>7. CASE UNCHANGED vars
  BY <1>7 DEF vars
<1>8. QED
  BY <1>1, <1>2, <1>3, <1>4, <1>5, <1>6, <1>7 DEF Next

----------------------------------------------------------------------------
(* What each step does to the money.                                        *)

\* Only p's channel may change.
OnlyChannel(p) == \A q \in Pairs : q # p => channels'[q] = channels[q]
\* Only c's balance changes, to v.
OnlyBalance(c, v) ==
    \A d \in Clients : accounts'[d].balance = IF d = c THEN v ELSE accounts[d].balance
SameBalances == \A d \in Clients : accounts'[d].balance = accounts[d].balance
\* All but the money of p's channel that a step keeps.
SameTerms(p) == /\ channels'[p].deadline = channels[p].deadline
                /\ channels'[p].appKey = channels[p].appKey

LEMMA DepositEffect ==
    ASSUME TypeOK, NEW c \in Clients, NEW amount \in Deposits, NEW j \in JobLimits,
           NEW d \in DayLimits, NEW k \in AppKeys \cup {NoKey},
           Deposit(c, amount, j, d, k)
    PROVE  /\ channels' = channels /\ now' = now
           /\ OnlyBalance(c, accounts[c].balance + amount)
           /\ usdc'[Pot] = usdc[Pot] + amount
<1>1. Credited(accounts[c], amount, j, d, k).balance = accounts[c].balance + amount
  BY CreditedType, InputAssumption DEF TypeOK
<1>2. OnlyBalance(c, accounts[c].balance + amount)
  BY <1>1 DEF Deposit, OnlyBalance, TypeOK
<1>3. usdc'[Pot] = usdc[Pot] + amount
  <2>1. c \in Holders /\ Pot \in Holders /\ c # Pot
    BY HolderAssumption DEF Holders
  <2>2. amount \in Nat /\ amount <= usdc[c] /\ usdc \in [Holders -> Nat]
    BY <2>1, InputAssumption DEF Deposit, CanMove, TypeOK
  <2>3. QED
    BY <2>1, <2>2, MovedType DEF Deposit
<1>4. QED
  BY <1>2, <1>3 DEF Deposit

LEMMA WithdrawEffect ==
    ASSUME TypeOK, NEW c \in Clients, WithdrawAll(c)
    PROVE  /\ channels' = channels /\ now' = now
           /\ OnlyBalance(c, 0)
           /\ usdc'[Pot] = usdc[Pot] - accounts[c].balance
<1>1. OnlyBalance(c, 0)
  BY DEF WithdrawAll, OnlyBalance, TypeOK, Account
<1>2. usdc'[Pot] = usdc[Pot] - accounts[c].balance
  <2>1. c \in Holders /\ Pot \in Holders /\ c # Pot
    BY HolderAssumption DEF Holders
  <2>2. accounts[c].balance \in Nat /\ usdc \in [Holders -> Nat]
    BY DEF TypeOK, Account
  <2>3. accounts[c].balance <= usdc[Pot]
    BY <2>1, <2>2 DEF WithdrawAll, CanMove
  <2>4. QED
    BY <2>1, <2>2, <2>3, MovedType DEF WithdrawAll
<1>3. QED
  BY <1>1, <1>2 DEF WithdrawAll

LEMMA LimitsEffect ==
    ASSUME TypeOK, NEW c \in Clients, NEW j \in JobLimits, NEW d \in DayLimits,
           NEW k \in AppKeys \cup {NoKey}, SetLimits(c, j, d, k)
    PROVE  channels' = channels /\ usdc' = usdc /\ SameBalances /\ now' = now
<1>1. j \in Nat /\ d \in Nat
  BY InputAssumption
<1>2. accounts'[c].balance = accounts[c].balance
  <2> DEFINE r == Limited(accounts[c], j, d, k)
  <2>1. r.balance = accounts[c].balance
    BY <1>1, LimitsType DEF TypeOK
  <2>2. accounts'[c] = r
    BY DEF SetLimits, TypeOK
  <2>3. QED
    BY <2>1, <2>2
<1>3. \A x \in Clients : x # c => accounts'[x] = accounts[x]
  BY DEF SetLimits, TypeOK
<1>4. QED
  BY <1>2, <1>3 DEF SetLimits, SameBalances

LEMMA NoticeEffect ==
    ASSUME TypeOK, NEW c \in Clients, NEW w \in Workers, RequestClose(c, w), NEW p, p = <<c, w>>
    PROVE  /\ p \in Pairs /\ OnlyChannel(p) /\ SameTerms(p)
           /\ channels[p].reserved > channels[p].earned
           /\ channels'[p].reserved = channels[p].reserved
           /\ channels'[p].earned = channels[p].earned
           /\ channels'[p].paid = channels[p].paid
           /\ channels'[p].closeAt = now + Grace
           /\ accounts' = accounts /\ usdc' = usdc /\ now' = now
BY DEF RequestClose, OnlyChannel, SameTerms, TypeOK, Channel, Pairs

LEMMA ReserveEffect ==
    ASSUME TypeOK, NEW c \in Clients, NEW w \in Workers, ReserveStep(c, w),
           NEW p, p = <<c, w>>, NEW extra, extra = channels'[p].reserved - channels[p].reserved
    PROVE  /\ p \in Pairs /\ OnlyChannel(p)
           /\ extra \in Nat \ {0} /\ extra <= accounts[c].balance
           /\ channels'[p].earned = channels[p].earned
           /\ channels'[p].paid = channels[p].paid
           /\ channels'[p].closeAt = 0
           /\ channels'[p].appKey # NoKey
           /\ channels'[p].deadline > now
           /\ channels'[p].deadline >= channels[p].deadline
           /\ OnlyBalance(c, accounts[c].balance - extra)
           /\ usdc' = usdc /\ now' = now
<1>1. PICK m \in Cumulatives, d \in Deadlines, k \in AppKeys : Reserve(c, w, m, d, k)
  BY DEF ReserveStep
<1>2. m \in Nat /\ d \in Nat
  BY InputAssumption
<1>3. p \in Pairs /\ accounts[c] \in Account /\ channels[p] \in Channel
  BY DEF Pairs, TypeOK
<1>4. channels' = [channels EXCEPT ![p] = Reserved(channels[p], accounts[c], m, d)]
  BY <1>1 DEF Reserve
<1>5. channels'[p] = Reserved(channels[p], accounts[c], m, d) /\ OnlyChannel(p)
  BY <1>3, <1>4 DEF OnlyChannel, TypeOK
<1>6. /\ channels'[p].reserved = m
      /\ channels'[p].earned = channels[p].earned
      /\ channels'[p].paid = channels[p].paid
      /\ channels'[p].closeAt = 0
      /\ channels'[p].appKey = accounts[c].appKey
      /\ channels'[p].deadline \in Nat
      /\ channels'[p].deadline >= d
      /\ channels'[p].deadline >= channels[p].deadline
  <2> DEFINE ch == channels[p]
             a == accounts[c]
             r == Reserved(ch, a, m, d)
  <2>1. channels'[p] = r
    BY <1>5
  <2>2. ch \in Channel /\ a \in Account
    BY <1>3
  <2> HIDE DEF ch, a
  <2>3. r \in Channel
    BY <1>2, <2>2, ReservedType
  <2>4. /\ r.reserved = m /\ r.earned = ch.earned /\ r.paid = ch.paid
        /\ r.appKey = a.appKey /\ r.closeAt = 0
        /\ r.deadline >= d /\ r.deadline >= ch.deadline
    BY <1>2, <2>2, ReservedType
  <2> HIDE DEF r
  <2>5. r.deadline \in Nat
    BY <2>3 DEF Channel
  <2>6. QED
    BY <2>1, <2>4, <2>5 DEF ch, a
<1>7. /\ m > channels[p].reserved
      /\ accounts[c].balance >= m - channels[p].reserved
      /\ accounts[c].appKey # NoKey
      /\ d > now
      /\ accounts' = [accounts EXCEPT ![c].balance = @ - (m - channels[p].reserved)]
      /\ usdc' = usdc /\ now' = now
  BY <1>1 DEF Reserve
<1>8. OnlyBalance(c, accounts[c].balance - (m - channels[p].reserved))
  BY <1>3, <1>7 DEF OnlyBalance, TypeOK, Account
<1>9. now \in Nat /\ channels[p].reserved \in Nat /\ channels[p].deadline \in Nat
  BY <1>3 DEF TypeOK, Channel
<1>10. QED
  BY <1>2, <1>3, <1>5, <1>6, <1>7, <1>8, <1>9

LEMMA SpendEffect ==
    ASSUME TypeOK, LedgerOrder, NEW c \in Clients, NEW w \in Workers, SpendStep(c, w), NEW p, p = <<c, w>>
    PROVE  /\ p \in Pairs /\ OnlyChannel(p) /\ SameTerms(p)
           /\ channels'[p].closeAt = channels[p].closeAt
           /\ channels'[p].reserved = channels[p].reserved
           /\ channels'[p].earned \in Nat
           /\ channels'[p].earned > channels[p].earned
           /\ channels'[p].earned <= channels[p].reserved
           /\ channels'[p].paid \in {channels[p].paid, channels'[p].earned}
           /\ SameBalances /\ now' = now
           /\ usdc'[Pot] = usdc[Pot] - (channels'[p].paid - channels[p].paid)
<1>1. PICK m \in Cumulatives, d \in Deadlines, k \in AppKeys :
          Commit(c, w, m, d, k) \/ Settle(c, w, m, d, k)
  BY DEF SpendStep
<1>2. p \in Pairs /\ accounts[c] \in Account /\ channels[p] \in Channel /\ m \in Nat
  BY InputAssumption DEF Pairs, TypeOK
<1>3. m > channels[p].earned /\ m <= channels[p].reserved
  BY <1>1 DEF Commit, Settle, Recognizable
<1>4. m - channels[p].earned \in Nat /\ m - channels[p].paid \in Nat
  BY <1>2, <1>3 DEF Channel, LedgerOrder
<1>5. SameBalances
  <2>1. Counted(accounts[c], m - channels[p].earned).balance = accounts[c].balance
    BY <1>2, <1>4, CountedType DEF TypeOK
  <2>2. accounts' = [accounts EXCEPT ![c] = Counted(accounts[c], m - channels[p].earned)]
    BY <1>1 DEF Commit, Settle
  <2>3. QED
    BY <2>1, <2>2 DEF SameBalances, TypeOK
<1>6. CASE Commit(c, w, m, d, k)
  <2>1. /\ OnlyChannel(p) /\ SameTerms(p)
        /\ channels'[p].closeAt = channels[p].closeAt
        /\ channels'[p].reserved = channels[p].reserved
        /\ channels'[p].earned = m
        /\ channels'[p].paid = channels[p].paid
    BY <1>2, <1>6 DEF Commit, OnlyChannel, SameTerms, TypeOK, Channel
  <2>2. usdc[Pot] \in Nat /\ channels[p].paid \in Nat
    BY <1>2 DEF TypeOK, Holders, Channel
  <2>3. usdc' = usdc /\ now' = now
    BY <1>6 DEF Commit
  <2>4. QED
    BY <1>2, <1>3, <1>5, <2>1, <2>2, <2>3
<1>7. CASE Settle(c, w, m, d, k)
  <2>1. /\ OnlyChannel(p) /\ SameTerms(p)
        /\ channels'[p].closeAt = channels[p].closeAt
        /\ channels'[p].reserved = channels[p].reserved
        /\ channels'[p].earned = m
        /\ channels'[p].paid = m
    BY <1>2, <1>7 DEF Settle, OnlyChannel, SameTerms, TypeOK, Channel
  <2>2. usdc'[Pot] = usdc[Pot] - (m - channels[p].paid)
    BY <1>4, <1>7, PaidOutType DEF Settle, CanMove, TypeOK
  <2>3. now' = now
    BY <1>7 DEF Settle
  <2>4. QED
    BY <1>2, <1>3, <1>5, <2>1, <2>2, <2>3
<1>8. QED
  BY <1>1, <1>6, <1>7

LEMMA CollectEffect ==
    ASSUME TypeOK, LedgerOrder, NEW c \in Clients, NEW w \in Workers, Collect(c, w), NEW p, p = <<c, w>>
    PROVE  /\ p \in Pairs /\ OnlyChannel(p) /\ SameTerms(p)
           /\ channels'[p].closeAt = channels[p].closeAt
           /\ channels'[p].reserved = channels[p].reserved
           /\ channels'[p].earned = channels[p].earned
           /\ channels'[p].paid = channels[p].earned
           /\ channels[p].earned > channels[p].paid
           /\ accounts' = accounts /\ now' = now
           /\ usdc'[Pot] = usdc[Pot] - (channels'[p].paid - channels[p].paid)
<1>1. p \in Pairs /\ channels[p] \in Channel
  BY DEF Pairs, TypeOK
<1>2. /\ OnlyChannel(p) /\ SameTerms(p)
      /\ channels'[p].closeAt = channels[p].closeAt
      /\ channels'[p].reserved = channels[p].reserved
      /\ channels'[p].earned = channels[p].earned
      /\ channels'[p].paid = channels[p].earned
  BY <1>1 DEF Collect, OnlyChannel, SameTerms, TypeOK, Channel
<1>3. channels[p].earned > channels[p].paid /\ accounts' = accounts /\ now' = now
  BY DEF Collect
<1>4. channels[p].earned - channels[p].paid \in Nat
  BY <1>1, <1>3 DEF Channel
<1>5. usdc'[Pot] = usdc[Pot] - (channels[p].earned - channels[p].paid)
  BY <1>4, PaidOutType DEF Collect, CanMove, TypeOK
<1>6. QED
  BY <1>1, <1>2, <1>3, <1>5

LEMMA CloseEffect ==
    ASSUME TypeOK, NEW c \in Clients, NEW w \in Workers, Close(c, w), NEW p, p = <<c, w>>
    PROVE  /\ p \in Pairs /\ OnlyChannel(p) /\ SameTerms(p)
           /\ TimedOut(channels[p]) \/ Lapsed(channels[p])
           /\ channels'[p].closeAt = 0
           /\ channels'[p].reserved = channels[p].earned
           /\ channels'[p].earned = channels[p].earned
           /\ channels'[p].paid = channels[p].paid
           /\ OnlyBalance(c, accounts[c].balance
                                   + (channels[p].reserved - channels[p].earned))
           /\ usdc' = usdc /\ now' = now
<1>1. p \in Pairs /\ channels[p] \in Channel /\ accounts[c] \in Account
  BY DEF Pairs, TypeOK
<1>2. /\ OnlyChannel(p) /\ SameTerms(p)
      /\ channels'[p].closeAt = 0
      /\ channels'[p].reserved = channels[p].earned
      /\ channels'[p].earned = channels[p].earned
      /\ channels'[p].paid = channels[p].paid
  BY <1>1 DEF Close, OnlyChannel, SameTerms, TypeOK, Channel
<1>3. OnlyBalance(c, accounts[c].balance
                       + (channels[p].reserved - channels[p].earned))
  BY <1>1 DEF Close, OnlyBalance, TypeOK, Account
<1>4. QED
  BY <1>1, <1>2, <1>3 DEF Close

----------------------------------------------------------------------------
(* The totals.                                                              *)

\* The total of the free balances changes by what one balance changes.
LEMMA BalanceTotal ==
    ASSUME TypeOK, TypeOK', NEW c \in Clients, OnlyBalance(c, accounts'[c].balance)
    PROVE  /\ Total(Clients, Balances)' =
                 Total(Clients, Balances) + accounts'[c].balance - accounts[c].balance
           /\ Total(Clients, Balances) \in Nat
           /\ accounts[c].balance <= Total(Clients, Balances)
<1> DEFINE f == Balances
           g == Balances'
<1>1. IsFiniteSet(Clients)
  BY FiniteAssumption
<1>2. \A d \in Clients : f[d] = accounts[d].balance /\ f[d] \in Nat
  BY DEF Balances, TypeOK, Account
<1>3. \A d \in Clients : g[d] = accounts'[d].balance
  BY DEF Balances
<1>4. g[c] \in Nat
  BY <1>3 DEF TypeOK, Account
<1>5. \A d \in Clients \ {c} : g[d] = f[d]
  BY <1>2, <1>3 DEF OnlyBalance
<1> HIDE DEF f, g
<1>6. /\ Total(Clients, g) = Total(Clients, f) + g[c] - f[c]
      /\ Total(Clients, f) \in Nat
      /\ f[c] <= Total(Clients, f)
  BY <1>1, <1>2, <1>4, <1>5, TotalChange
<1>7. QED
  BY <1>2, <1>3, <1>6 DEF f, g

\* The total locked changes by what one channel's lock changes.
LEMMA LockTotal ==
    ASSUME TypeOK, TypeOK', LedgerOrder, NEW p \in Pairs, OnlyChannel(p),
           channels'[p].reserved - channels'[p].paid \in Nat
    PROVE  /\ Total(Pairs, Locked)' = Total(Pairs, Locked)
                 + (channels'[p].reserved - channels'[p].paid)
                 - (channels[p].reserved - channels[p].paid)
           /\ Total(Pairs, Locked) \in Nat
           /\ channels[p].reserved - channels[p].paid <= Total(Pairs, Locked)
<1> DEFINE f == Locked
           g == Locked'
<1>1. IsFiniteSet(Pairs)
  BY FiniteAssumption, FS_Product DEF Pairs
<1>2. \A q \in Pairs : f[q] = channels[q].reserved - channels[q].paid /\ f[q] \in Nat
  BY DEF Locked, TypeOK, Channel, LedgerOrder
<1>3. \A q \in Pairs : g[q] = channels'[q].reserved - channels'[q].paid
  BY DEF Locked
<1>4. g[p] \in Nat
  BY <1>3
<1>5. \A q \in Pairs \ {p} : g[q] = f[q]
  BY <1>2, <1>3 DEF OnlyChannel
<1> HIDE DEF f, g
<1>6. /\ Total(Pairs, g) = Total(Pairs, f) + g[p] - f[p]
      /\ Total(Pairs, f) \in Nat
      /\ f[p] <= Total(Pairs, f)
  BY <1>1, <1>2, <1>4, <1>5, TotalChange
<1>7. QED
  BY <1>2, <1>3, <1>6 DEF f, g

\* Both totals are natural numbers.
LEMMA TotalsNat ==
    ASSUME TypeOK, LedgerOrder
    PROVE  Total(Clients, Balances) \in Nat /\ Total(Pairs, Locked) \in Nat
<1>1. \A c \in Clients : Balances[c] \in Nat
  BY DEF Balances, TypeOK, Account
<1>2. \A p \in Pairs : Locked[p] \in Nat
  BY DEF Locked, TypeOK, Channel, LedgerOrder
<1>3. IsFiniteSet(Clients) /\ IsFiniteSet(Pairs)
  BY FiniteAssumption, FS_Product DEF Pairs
<1>4. QED
  BY <1>1, <1>2, <1>3, CoinsFinite

\* Steps that change no balance, or no channel, keep that total.
LEMMA SameTotals ==
    /\ SameBalances => Total(Clients, Balances)' = Total(Clients, Balances)
    /\ channels' = channels => Total(Pairs, Locked)' = Total(Pairs, Locked)
<1>1. ASSUME SameBalances
      PROVE  Total(Clients, Balances)' = Total(Clients, Balances)
  BY <1>1 DEF SameBalances, Balances
<1>2. ASSUME channels' = channels
      PROVE  Total(Pairs, Locked)' = Total(Pairs, Locked)
  BY <1>2 DEF Locked
<1>3. QED
  BY <1>1, <1>2

----------------------------------------------------------------------------
(* The inductive invariant.                                                 *)

\* Solvent needs the ledger order for the locks to be natural numbers; the
\* ledger order is inductive with the types, and NoTrappedLock beside it.
IInv == TypeOK /\ LedgerOrder /\ NoTrappedLock /\ Solvent

LEMMA InitIInv == Init => IInv
<1> SUFFICES ASSUME Init PROVE IInv
  OBVIOUS
<1>1. TypeOK
  BY InitType
<1>2. LedgerOrder /\ NoTrappedLock
  BY DEF Init, LedgerOrder, NoTrappedLock, NoChannel
<1>3. Solvent
  <2>1. usdc[Pot] = 0
    BY HolderAssumption DEF Init, Holders
  <2>2. Total(Clients, Balances) = 0
    <3>1. \A c \in Clients : Balances[c] = 0
      BY DEF Init, Balances, NoAccount
    <3>2. QED
      BY <3>1, TotalZero
  <2>3. Total(Pairs, Locked) = 0
    <3>1. \A p \in Pairs : Locked[p] = 0
      BY DEF Init, Locked, NoChannel
    <3>2. QED
      BY <3>1, TotalZero
  <2>4. QED
    BY <2>1, <2>2, <2>3 DEF Solvent
<1>4. QED
  BY <1>1, <1>2, <1>3 DEF IInv

\* A step on one channel keeps the order and the way back of every channel.
LEMMA ChannelOrder ==
    ASSUME LedgerOrder, NoTrappedLock, NEW p \in Pairs, OnlyChannel(p),
           channels'[p].paid <= channels'[p].earned,
           channels'[p].earned <= channels'[p].reserved,
           channels'[p].reserved > channels'[p].earned =>
               channels'[p].appKey # NoKey /\ channels'[p].deadline # 0
    PROVE  LedgerOrder' /\ NoTrappedLock'
BY DEF LedgerOrder, NoTrappedLock, OnlyChannel

LEMMA NextIInv == IInv /\ [Next]_vars => IInv'
<1> SUFFICES ASSUME IInv, [Next]_vars PROVE IInv'
  OBVIOUS
<1>1. TypeOK /\ LedgerOrder /\ NoTrappedLock /\ Solvent
  BY DEF IInv
<1>2. TypeOK'
  BY <1>1, NextType
<1>3. usdc[Pot] \in Nat
  BY <1>1 DEF TypeOK, Holders
<1> DEFINE Goal == LedgerOrder' /\ NoTrappedLock' /\ Solvent'
<1>4. ASSUME NEW c \in Clients, WalletStep(c)
      PROVE  Goal
  <2>0. accounts[c].balance \in Nat
    BY <1>1 DEF TypeOK, Account
  <2>1. ASSUME NEW amount \in Deposits, NEW j \in JobLimits, NEW d \in DayLimits,
               NEW k \in AppKeys \cup {NoKey}, Deposit(c, amount, j, d, k)
        PROVE  Goal
    <3>1. /\ channels' = channels
          /\ OnlyBalance(c, accounts[c].balance + amount)
          /\ usdc'[Pot] = usdc[Pot] + amount
      BY <1>1, <2>1, DepositEffect
    <3>2. accounts'[c].balance = accounts[c].balance + amount
      BY <3>1 DEF OnlyBalance
    <3>3. OnlyBalance(c, accounts'[c].balance)
      BY <3>1, <3>2
    <3>4. Total(Clients, Balances)' = Total(Clients, Balances) + amount
      <4>1. amount \in Nat
        BY InputAssumption
      <4>2. QED
        BY <1>1, <1>2, <2>0, <3>2, <3>3, <4>1, BalanceTotal
    <3>5. Solvent'
      <4>1. Total(Pairs, Locked)' = Total(Pairs, Locked)
        BY <3>1, SameTotals
      <4>2. Total(Clients, Balances) \in Nat /\ amount \in Nat
        BY <1>1, <1>2, <3>3, BalanceTotal, InputAssumption
      <4>3. QED
        BY <1>1, <1>3, <3>1, <3>4, <4>1, <4>2, TotalsNat DEF Solvent
    <3>6. LedgerOrder' /\ NoTrappedLock'
      BY <1>1, <3>1 DEF LedgerOrder, NoTrappedLock
    <3>7. QED
      BY <3>5, <3>6
  <2>2. CASE WithdrawAll(c)
    <3>1. /\ channels' = channels
          /\ OnlyBalance(c, 0)
          /\ usdc'[Pot] = usdc[Pot] - accounts[c].balance
      BY <1>1, <2>2, WithdrawEffect
    <3>2. accounts'[c].balance = 0
      BY <3>1 DEF OnlyBalance
    <3>3. OnlyBalance(c, accounts'[c].balance)
      BY <3>1, <3>2
    <3>4. /\ Total(Clients, Balances)' = Total(Clients, Balances) - accounts[c].balance
          /\ Total(Clients, Balances) \in Nat
      BY <1>1, <1>2, <2>0, <3>2, <3>3, BalanceTotal
    <3>5. Total(Pairs, Locked)' = Total(Pairs, Locked)
      BY <3>1, SameTotals
    <3>6. Solvent'
      BY <1>1, <1>3, <2>0, <3>1, <3>4, <3>5, TotalsNat DEF Solvent
    <3>7. LedgerOrder' /\ NoTrappedLock'
      BY <1>1, <3>1 DEF LedgerOrder, NoTrappedLock
    <3>8. QED
      BY <3>6, <3>7
  <2>3. ASSUME NEW j \in JobLimits, NEW d \in DayLimits,
               NEW k \in AppKeys \cup {NoKey}, SetLimits(c, j, d, k)
        PROVE  Goal
    <3>1. channels' = channels /\ usdc' = usdc /\ SameBalances
      BY <1>1, <2>3, LimitsEffect
    <3>2. Solvent'
      BY <1>1, <3>1, SameTotals DEF Solvent
    <3>3. QED
      BY <1>1, <3>1, <3>2 DEF LedgerOrder, NoTrappedLock
  <2>4. ASSUME NEW w \in Workers, RequestClose(c, w)
        PROVE  Goal
    <3> DEFINE p == <<c, w>>
    <3>1. /\ p \in Pairs /\ OnlyChannel(p) /\ SameTerms(p)
          /\ channels'[p].reserved = channels[p].reserved
          /\ channels'[p].earned = channels[p].earned
          /\ channels'[p].paid = channels[p].paid
          /\ accounts' = accounts /\ usdc' = usdc
      BY <1>1, <2>4, NoticeEffect
    <3> HIDE DEF p
    <3>2. LedgerOrder' /\ NoTrappedLock'
      BY <1>1, <3>1 DEF LedgerOrder, NoTrappedLock, OnlyChannel, SameTerms
    <3>3. Locked' = Locked
      BY <3>1 DEF Locked, OnlyChannel
    <3>4. Solvent'
      BY <1>1, <3>1, <3>3 DEF Solvent, Balances
    <3>5. QED
      BY <3>2, <3>4
  <2>5. QED
    BY <1>4, <2>1, <2>2, <2>3, <2>4 DEF WalletStep
<1>5. ASSUME NEW c \in Clients, NEW w \in Workers, ReserveStep(c, w)
      PROVE  Goal
  <2> DEFINE p == <<c, w>>
             extra == channels'[p].reserved - channels[p].reserved
  <2>1. /\ p \in Pairs /\ OnlyChannel(p)
        /\ extra \in Nat \ {0} /\ extra <= accounts[c].balance
        /\ channels'[p].earned = channels[p].earned
        /\ channels'[p].paid = channels[p].paid
        /\ channels'[p].appKey # NoKey
        /\ channels'[p].deadline > now
        /\ OnlyBalance(c, accounts[c].balance - extra)
        /\ usdc' = usdc
    BY <1>1, <1>5, ReserveEffect
  <2> HIDE DEF p, extra
  <2>2. /\ now \in Nat
        /\ channels[p].reserved \in Nat /\ channels'[p].reserved \in Nat
        /\ channels[p].earned \in Nat /\ channels[p].paid \in Nat
        /\ accounts[c].balance \in Nat
    BY <1>1, <1>2, <2>1 DEF TypeOK, Channel, Account
  <2>3. channels'[p].reserved = channels[p].reserved + extra
    BY <2>1, <2>2 DEF extra
  <2>4. channels[p].paid <= channels[p].earned /\ channels[p].earned <= channels[p].reserved
    BY <1>1, <2>1 DEF LedgerOrder
  <2>5. LedgerOrder' /\ NoTrappedLock'
    <3>1. /\ channels'[p].paid <= channels'[p].earned
          /\ channels'[p].earned <= channels'[p].reserved
          /\ channels'[p].appKey # NoKey /\ channels'[p].deadline # 0
      BY <2>1, <2>2, <2>3, <2>4
    <3>2. QED
      BY <1>1, <2>1, <3>1, ChannelOrder
  <2>6. Solvent'
    <3>1. accounts'[c].balance = accounts[c].balance - extra
      BY <2>1 DEF OnlyBalance
    <3>2. OnlyBalance(c, accounts'[c].balance)
      BY <2>1, <3>1
    <3>3. /\ Total(Clients, Balances)' = Total(Clients, Balances) - extra
          /\ Total(Clients, Balances) \in Nat
      BY <1>1, <1>2, <2>1, <2>2, <3>1, <3>2, BalanceTotal
    <3>4. channels'[p].reserved - channels'[p].paid \in Nat
      BY <2>1, <2>2, <2>3, <2>4
    <3>5. /\ Total(Pairs, Locked)' = Total(Pairs, Locked) + extra
          /\ Total(Pairs, Locked) \in Nat
      BY <1>1, <1>2, <2>1, <2>2, <2>3, <3>4, LockTotal
    <3>6. QED
      BY <1>1, <2>1, <3>3, <3>5 DEF Solvent
  <2>7. QED
    BY <2>5, <2>6
<1>6. ASSUME NEW c \in Clients, NEW w \in Workers, SpendStep(c, w) \/ Collect(c, w)
      PROVE  Goal
  <2> DEFINE p == <<c, w>>
  <2>1. /\ p \in Pairs /\ OnlyChannel(p) /\ SameTerms(p)
        /\ channels'[p].reserved = channels[p].reserved
        /\ channels'[p].earned >= channels[p].earned
        /\ channels'[p].earned <= channels[p].reserved
        /\ channels'[p].paid \in {channels[p].paid, channels'[p].earned}
        /\ SameBalances
        /\ usdc'[Pot] = usdc[Pot] - (channels'[p].paid - channels[p].paid)
    <3>1. CASE SpendStep(c, w)
      <4>1. channels[p].earned \in Nat
        BY <1>1 DEF TypeOK, Channel, Pairs
      <4>2. QED
        BY <1>1, <3>1, <4>1, SpendEffect
    <3>2. CASE Collect(c, w)
      <4>1. p \in Pairs
        BY DEF Pairs
      <4>2. channels[p].earned \in Nat /\ channels[p].earned <= channels[p].reserved
        BY <1>1, <4>1 DEF LedgerOrder, TypeOK, Channel
      <4>3. accounts' = accounts => SameBalances
        BY DEF SameBalances
      <4>4. QED
        BY <1>1, <3>2, <4>2, <4>3, CollectEffect
    <3>3. QED
      BY <1>6, <3>1, <3>2
  <2> HIDE DEF p
  <2>2. /\ channels[p].reserved \in Nat /\ channels[p].earned \in Nat
        /\ channels[p].paid \in Nat
        /\ channels'[p].earned \in Nat /\ channels'[p].paid \in Nat
    BY <1>1, <1>2, <2>1 DEF TypeOK, Channel
  <2>3. channels[p].paid <= channels[p].earned
    BY <1>1, <2>1 DEF LedgerOrder
  <2>4. channels'[p].paid <= channels'[p].earned /\ channels'[p].paid <= channels'[p].reserved
    BY <2>1, <2>2, <2>3
  <2>5. LedgerOrder' /\ NoTrappedLock'
    <3>1. channels'[p].reserved > channels'[p].earned =>
              channels'[p].appKey # NoKey /\ channels'[p].deadline # 0
      BY <1>1, <2>1, <2>2 DEF NoTrappedLock, SameTerms
    <3>2. channels'[p].earned <= channels'[p].reserved
      BY <2>1
    <3>3. QED
      BY <1>1, <2>1, <2>4, <3>1, <3>2, ChannelOrder
  <2>6. Solvent'
    <3>1. channels'[p].reserved - channels'[p].paid \in Nat
      BY <2>1, <2>2, <2>4
    <3>2. /\ Total(Pairs, Locked)' = Total(Pairs, Locked)
                - (channels'[p].paid - channels[p].paid)
          /\ Total(Pairs, Locked) \in Nat
      BY <1>1, <1>2, <2>1, <2>2, <3>1, LockTotal
    <3>3. Total(Clients, Balances)' = Total(Clients, Balances)
      BY <2>1, SameTotals
    <3>4. Total(Clients, Balances) \in Nat
      BY <1>1, TotalsNat
    <3>5. QED
      BY <1>1, <1>3, <2>1, <2>2, <3>2, <3>3, <3>4 DEF Solvent
  <2>7. QED
    BY <2>5, <2>6
<1>7. ASSUME NEW c \in Clients, NEW w \in Workers, Close(c, w)
      PROVE  Goal
  <2> DEFINE p == <<c, w>>
             unspent == channels[p].reserved - channels[p].earned
  <2>1. /\ p \in Pairs /\ OnlyChannel(p) /\ SameTerms(p)
        /\ channels'[p].reserved = channels[p].earned
        /\ channels'[p].earned = channels[p].earned
        /\ channels'[p].paid = channels[p].paid
        /\ OnlyBalance(c, accounts[c].balance + unspent)
        /\ usdc' = usdc
    BY <1>1, <1>7, CloseEffect
  <2> HIDE DEF p, unspent
  <2>2. /\ channels[p].reserved \in Nat /\ channels[p].earned \in Nat
        /\ channels[p].paid \in Nat /\ accounts[c].balance \in Nat
    BY <1>1, <2>1 DEF TypeOK, Channel, Account
  <2>3. channels[p].paid <= channels[p].earned /\ channels[p].earned <= channels[p].reserved
    BY <1>1, <2>1 DEF LedgerOrder
  <2>4. unspent \in Nat /\ unspent = channels[p].reserved - channels[p].earned
    BY <2>2, <2>3 DEF unspent
  <2>5. LedgerOrder' /\ NoTrappedLock'
    <3>1. /\ channels'[p].paid <= channels'[p].earned
          /\ channels'[p].earned <= channels'[p].reserved
          /\ ~(channels'[p].reserved > channels'[p].earned)
      BY <2>1, <2>2, <2>3
    <3>2. QED
      BY <1>1, <2>1, <3>1, ChannelOrder
  <2>6. Solvent'
    <3>1. accounts'[c].balance = accounts[c].balance + unspent
      BY <2>1 DEF OnlyBalance
    <3>2. OnlyBalance(c, accounts'[c].balance)
      BY <2>1, <3>1
    <3>3. /\ Total(Clients, Balances)' = Total(Clients, Balances) + unspent
          /\ Total(Clients, Balances) \in Nat
      BY <1>1, <1>2, <2>2, <2>4, <3>1, <3>2, BalanceTotal
    <3>4. channels'[p].reserved - channels'[p].paid \in Nat
      BY <2>1, <2>2, <2>3
    <3>5. /\ Total(Pairs, Locked)' = Total(Pairs, Locked) - unspent
          /\ Total(Pairs, Locked) \in Nat
      BY <1>1, <1>2, <2>1, <2>2, <2>4, <3>4, LockTotal
    <3>6. QED
      BY <1>1, <2>1, <2>4, <3>3, <3>5 DEF Solvent
  <2>7. QED
    BY <2>5, <2>6
<1>8. ASSUME Tick \/ UNCHANGED vars
      PROVE  Goal
  <2>1. accounts' = accounts /\ channels' = channels /\ usdc' = usdc
    BY <1>8 DEF Tick, vars
  <2>2. SameBalances
    BY <2>1 DEF SameBalances
  <2>3. Solvent'
    BY <1>1, <2>1, <2>2, SameTotals DEF Solvent
  <2>4. LedgerOrder' /\ NoTrappedLock'
    BY <1>1, <2>1 DEF LedgerOrder, NoTrappedLock
  <2>5. QED
    BY <2>3, <2>4
<1> HIDE DEF Goal
<1>9. Goal
  BY <1>4, <1>5, <1>6, <1>7, <1>8 DEF Next
<1>10. QED
  BY <1>2, <1>9 DEF IInv, Goal

\* The whole invariant holds of every behaviour of the contract.
THEOREM Invariance == Spec => []IInv
<1>1. Init => IInv
  BY InitIInv
<1>2. IInv /\ [Next]_vars => IInv'
  BY NextIInv
<1>3. QED
  BY <1>1, <1>2, PTL DEF Spec

\* The types of the contract's state, for every client, worker and ticket.
THEOREM TypeCorrect == Spec => []TypeOK
<1>1. IInv => TypeOK
  BY DEF IInv
<1>2. QED
  BY <1>1, Invariance, PTL

\* paid <= earned <= reserved in every channel, so that the checked
\* subtractions of close, _recognize and _pay never revert.
THEOREM LedgerOrdered == Spec => []LedgerOrder
<1>1. IInv => LedgerOrder
  BY DEF IInv
<1>2. QED
  BY <1>1, Invariance, PTL

\* The pot's USDC is exactly the free balances and the locks: _push never
\* lacks the money that withdrawAll, settle and collect have accounted for.
THEOREM PotSolvent == Spec => []Solvent
<1>1. IInv => Solvent
  BY DEF IInv
<1>2. QED
  BY <1>1, Invariance, PTL

\* Every lock that is not earned has the key and the deadline that close asks.
THEOREM LocksReturn == Spec => []NoTrappedLock
<1>1. IInv => NoTrappedLock
  BY DEF IInv
<1>2. QED
  BY <1>1, Invariance, PTL

----------------------------------------------------------------------------
(* The client's wallet and the worker's tickets.                            *)

\* What _recognize reads, in every channel and account.
TermsKept ==
    /\ now' = now
    /\ \A p \in Pairs :
          /\ channels'[p].appKey = channels[p].appKey
          /\ channels'[p].earned = channels[p].earned
          /\ channels'[p].reserved = channels[p].reserved
          /\ channels'[p].maxPerJob = channels[p].maxPerJob
          /\ channels'[p].maxPerDay = channels[p].maxPerDay
    /\ \A c \in Clients :
          /\ accounts'[c].spentToday = accounts[c].spentToday
          /\ accounts'[c].dayStart = accounts[c].dayStart

\* Where nothing _recognize reads has changed, it accepts what it accepted.
LEMMA KeptTermsKeepTickets ==
    ASSUME TypeOK, TypeOK', TermsKept
    PROVE  TicketsSurvive
<1> SUFFICES ASSUME NEW c \in Clients, NEW w \in Workers, NEW m \in Cumulatives,
                    NEW d \in Deadlines, NEW k \in AppKeys, Recognizable(c, w, m, d, k)
             PROVE  Recognizable(c, w, m, d, k)'
  BY DEF TicketsSurvive
<1> DEFINE p == <<c, w>>
<1>1. p \in Pairs
  BY DEF Pairs
<1>2. \A a, b \in Account : a.spentToday = b.spentToday /\ a.dayStart = b.dayStart
          => Rolled(a).spentToday = Rolled(b).spentToday
  BY DEF Rolled, Account
<1>3. \A a \in Account : Rolled(a)' = Rolled(a)
  BY DEF TermsKept, Rolled
<1>4. accounts[c] \in Account /\ accounts'[c] \in Account
  BY DEF TypeOK
<1>5. Rolled(accounts[c])'.spentToday = Rolled(accounts[c]).spentToday
  <2>1. Rolled(accounts'[c]).spentToday = Rolled(accounts[c]).spentToday
    BY <1>2, <1>4 DEF TermsKept
  <2>2. Rolled(accounts[c])' = Rolled(accounts'[c])
    BY DEF TermsKept, Rolled
  <2>3. QED
    BY <2>1, <2>2
<1>6. \A n : WithinCaps(c, channels[p], n) => WithinCaps(c, channels[p], n)'
  BY <1>1, <1>5 DEF TermsKept, WithinCaps
<1>7. channels'[p].earned = channels[p].earned
  BY <1>1 DEF TermsKept
<1>8. WithinCaps(c, channels[p], m - channels[p].earned)'
  BY <1>6, <1>7 DEF Recognizable
<1>9. QED
  BY <1>1, <1>8 DEF Recognizable, TermsKept

\* Deposits, withdrawals, new limits and notices change none of it: limits
\* reach a channel only through a reserve ticket.
LEMMA WalletKeepsTerms ==
    ASSUME TypeOK, NEW c \in Clients, WalletStep(c)
    PROVE  TermsKept
<1> USE InputAssumption DEF TypeOK, Account
<1>1. ASSUME NEW amount \in Deposits, NEW j \in JobLimits, NEW d \in DayLimits,
             NEW k \in AppKeys \cup {NoKey}, Deposit(c, amount, j, d, k)
      PROVE  TermsKept
  BY <1>1 DEF Deposit, Credited, TermsKept
<1>2. CASE WithdrawAll(c)
  BY <1>2 DEF WithdrawAll, TermsKept
<1>3. ASSUME NEW j \in JobLimits, NEW d \in DayLimits, NEW k \in AppKeys \cup {NoKey},
             SetLimits(c, j, d, k)
      PROVE  TermsKept
  BY <1>3 DEF SetLimits, Limited, TermsKept
<1>4. ASSUME NEW w \in Workers, RequestClose(c, w)
      PROVE  TermsKept
  BY <1>4 DEF RequestClose, TermsKept, Channel, Pairs
<1>5. QED
  BY <1>1, <1>2, <1>3, <1>4 DEF WalletStep

\* No step of the client's wallet makes _recognize refuse a ticket it would
\* accept, in any channel of any client.
THEOREM TicketsOutliveTheWallet == Spec => WalletKeepsTickets
<1>1. IInv /\ IInv' /\ [Next]_vars
        => [(\E c \in Clients : WalletStep(c)) => TicketsSurvive]_vars
  <2> SUFFICES ASSUME IInv, IInv', NEW c \in Clients, WalletStep(c)
               PROVE  TicketsSurvive
    OBVIOUS
  <2>1. TypeOK /\ TypeOK'
    BY DEF IInv
  <2>2. QED
    BY <2>1, WalletKeepsTerms, KeptTermsKeepTickets
<1>2. QED
  BY <1>1, Invariance, PTL DEF Spec, WalletKeepsTickets

----------------------------------------------------------------------------
(* The day cap.                                                             *)

\* Where every limit a client sets caps the day, a key comes with a cap and so
\* does every lock that can still be spent: close zeroes a channel's cap only
\* together with its lock.
CapsSet ==
    0 \notin DayLimits =>
        /\ \A c \in Clients :
              /\ accounts[c].maxPerDay \in DayLimits \cup {0}
              /\ accounts[c].appKey # NoKey => accounts[c].maxPerDay \in DayLimits
        /\ \A p \in Pairs :
              channels[p].reserved > channels[p].earned =>
                  channels[p].maxPerDay \in DayLimits
        /\ \A p \in Pairs : channels[p].maxPerDay \in DayLimits \cup {0}

CapInv == CapsSet /\ DayCapBinds

LEMMA InitCapInv == Init => CapInv
BY DEF Init, CapInv, CapsSet, DayCapBinds, NoAccount, NoChannel

LEMMA WalletCapInv ==
    ASSUME TypeOK, CapInv, NEW c \in Clients, WalletStep(c)
    PROVE  CapInv'
<1> SUFFICES ASSUME 0 \notin DayLimits
             PROVE  CapInv'
  BY DEF CapInv, CapsSet, DayCapBinds
<1>1. TermsKept
  BY WalletKeepsTerms
<1>2. DayCapBinds'
  BY <1>1 DEF TermsKept, DayCapBinds, CapInv
<1> DEFINE AccountCapped(a) == /\ a.maxPerDay \in DayLimits \cup {0}
                               /\ a.appKey # NoKey => a.maxPerDay \in DayLimits
<1>3. \A x \in Clients : AccountCapped(accounts[x]) /\ accounts[x] \in Account
  BY DEF CapInv, CapsSet, TypeOK
<1>4. \A x \in Clients : AccountCapped(accounts'[x])
  <2> USE InputAssumption DEF TypeOK, Account
  <2>1. ASSUME NEW amount \in Deposits, NEW j \in JobLimits, NEW d \in DayLimits,
               NEW k \in AppKeys \cup {NoKey}, Deposit(c, amount, j, d, k)
        PROVE  AccountCapped(accounts'[c]) /\ \A x \in Clients \ {c} : accounts'[x] = accounts[x]
    <3>1. d > 0 /\ d \in Nat
      OBVIOUS
    <3>2. accounts'[c].maxPerDay = d
      BY <2>1, <3>1 DEF Deposit, Credited, Given
    <3>3. QED
      BY <2>1, <3>2 DEF Deposit
  <2>2. CASE WithdrawAll(c)
    <3>1. /\ accounts'[c].maxPerDay = accounts[c].maxPerDay /\ accounts'[c].appKey = NoKey
          /\ \A x \in Clients \ {c} : accounts'[x] = accounts[x]
      BY <2>2 DEF WithdrawAll
    <3>2. QED
      BY <1>3, <3>1
  <2>3. ASSUME NEW j \in JobLimits, NEW d \in DayLimits, NEW k \in AppKeys \cup {NoKey},
               SetLimits(c, j, d, k)
        PROVE  AccountCapped(accounts'[c]) /\ \A x \in Clients \ {c} : accounts'[x] = accounts[x]
    BY <2>3 DEF SetLimits, Limited
  <2>4. ASSUME NEW w \in Workers, RequestClose(c, w)
        PROVE  accounts' = accounts
    BY <2>4 DEF RequestClose
  <2> HIDE DEF AccountCapped
  <2>5. QED
    BY <1>3, <2>1, <2>2, <2>3, <2>4 DEF WalletStep
<1>5. CapsSet'
  BY <1>1, <1>4 DEF TermsKept, CapsSet, CapInv
<1>6. QED
  BY <1>2, <1>5 DEF CapInv

LEMMA ReserveCapInv ==
    ASSUME TypeOK, CapInv, NEW c \in Clients, NEW w \in Workers, ReserveStep(c, w)
    PROVE  CapInv'
<1> SUFFICES ASSUME 0 \notin DayLimits
             PROVE  CapInv'
  BY DEF CapInv, CapsSet, DayCapBinds
<1> DEFINE p == <<c, w>>
<1>1. PICK m \in Cumulatives, d \in Deadlines, k \in AppKeys : Reserve(c, w, m, d, k)
  BY DEF ReserveStep
<1>2. p \in Pairs /\ accounts[c] \in Account /\ channels[p] \in Channel
  BY DEF Pairs, TypeOK
<1>3. \A x \in Clients : /\ accounts'[x].maxPerDay = accounts[x].maxPerDay
                         /\ accounts'[x].appKey = accounts[x].appKey
                         /\ accounts'[x].spentToday = accounts[x].spentToday
  BY <1>1 DEF Reserve, TypeOK, Account
<1>4. accounts[c].maxPerDay \in DayLimits
  BY <1>1 DEF Reserve, CapInv, CapsSet
<1>5. RaisedCap(channels[p].maxPerDay, accounts[c].maxPerDay) \in DayLimits
  BY <1>2, <1>4 DEF RaisedCap, CapInv, CapsSet
<1>6. channels' = [channels EXCEPT ![p] = Reserved(@, accounts[c], m, d)]
  BY <1>1 DEF Reserve
<1>7. Reserved(channels[p], accounts[c], m, d).maxPerDay =
          RaisedCap(channels[p].maxPerDay, accounts[c].maxPerDay)
  BY <1>2 DEF Reserved, Channel
<1>8. /\ channels'[p].maxPerDay \in DayLimits
      /\ \A q \in Pairs \ {p} : channels'[q] = channels[q]
  BY <1>2, <1>5, <1>6, <1>7 DEF TypeOK
<1> HIDE DEF p
<1>9. CapsSet'
  BY <1>3, <1>8 DEF CapsSet, CapInv
<1>10. DayCapBinds'
  BY <1>3 DEF DayCapBinds, CapInv
<1>11. QED
  BY <1>9, <1>10 DEF CapInv

\* The cap is the channel's, the day is the account's, and an unearned lock
\* always has a cap: what is counted stays under one the client did set.
LEMMA SpendCapInv ==
    ASSUME TypeOK, LedgerOrder, CapInv, NEW c \in Clients, NEW w \in Workers, SpendStep(c, w)
    PROVE  CapInv'
<1> SUFFICES ASSUME 0 \notin DayLimits
             PROVE  CapInv'
  BY DEF CapInv, CapsSet, DayCapBinds
<1> DEFINE p == <<c, w>>
<1>1. PICK m \in Cumulatives, d \in Deadlines, k \in AppKeys :
          Commit(c, w, m, d, k) \/ Settle(c, w, m, d, k)
  BY DEF SpendStep
<1>2. p \in Pairs /\ accounts[c] \in Account /\ channels[p] \in Channel /\ m \in Nat
  BY InputAssumption DEF Pairs, TypeOK
<1> DEFINE delta == m - channels[p].earned
           a == accounts[c]
<1>3. delta \in Nat /\ channels[p].reserved > channels[p].earned
  BY <1>1, <1>2 DEF Commit, Settle, Recognizable, Channel
<1>4. channels[p].maxPerDay \in DayLimits
  BY <1>2, <1>3 DEF CapsSet, CapInv
<1>5. Rolled(a).spentToday + delta <= channels[p].maxPerDay
  <2>1. \A x \in DayLimits : x > 0
    BY InputAssumption
  <2>2. QED
    BY <1>1, <1>4, <2>1 DEF Commit, Settle, Recognizable, WithinCaps
<1>6. accounts' = [accounts EXCEPT ![c] = Counted(@, delta)]
  BY <1>1 DEF Commit, Settle
<1>7. Rolled(a) \in Account /\ Rolled(a).maxPerDay = a.maxPerDay /\ Rolled(a).appKey = a.appKey
  BY <1>2, CountedType DEF Rolled, Account, TypeOK
<1>8. /\ Counted(a, delta).spentToday = Rolled(a).spentToday + delta
      /\ Counted(a, delta).maxPerDay = a.maxPerDay
      /\ Counted(a, delta).appKey = a.appKey
  BY <1>7 DEF Counted, Account
<1>9. /\ accounts'[c] = Counted(a, delta)
      /\ \A x \in Clients \ {c} : accounts'[x] = accounts[x]
  BY <1>6 DEF TypeOK
<1>10. DayCapBinds'
  BY <1>4, <1>5, <1>8, <1>9 DEF DayCapBinds, CapInv
<1>11. \A q \in Pairs : /\ channels'[q].maxPerDay = channels[q].maxPerDay
                        /\ channels'[q].reserved = channels[q].reserved
                        /\ channels'[q].earned >= channels[q].earned
  BY <1>1, <1>2, <1>3 DEF Commit, Settle, TypeOK, Channel
<1>12. CapsSet'
  <2>1. \A q \in Pairs : channels'[q].reserved > channels'[q].earned =>
            channels[q].reserved > channels[q].earned
    <3> SUFFICES ASSUME NEW q \in Pairs, channels'[q].reserved > channels'[q].earned
                 PROVE  channels[q].reserved > channels[q].earned
      OBVIOUS
    <3>1. channels'[q].earned \in Nat
      <4>1. channels'[q].earned \in {channels[q].earned, m}
        BY <1>1, <1>2, SMTT(30) DEF Commit, Settle, TypeOK, Channel
      <4>2. QED
        BY <1>2, <4>1 DEF TypeOK, Channel
    <3>2. QED
      BY <1>11, <3>1 DEF TypeOK, Channel
  <2>2. QED
    BY <1>8, <1>9, <1>11, <2>1 DEF CapsSet, CapInv
<1>13. QED
  BY <1>10, <1>12 DEF CapInv

LEMMA CloseCapInv ==
    ASSUME TypeOK, LedgerOrder, CapInv, NEW c \in Clients, NEW w \in Workers,
           Close(c, w) \/ Collect(c, w)
    PROVE  CapInv'
<1> SUFFICES ASSUME 0 \notin DayLimits
             PROVE  CapInv'
  BY DEF CapInv, CapsSet, DayCapBinds
<1>1. \A x \in Clients : /\ accounts'[x].maxPerDay = accounts[x].maxPerDay
                         /\ accounts'[x].appKey = accounts[x].appKey
                         /\ accounts'[x].spentToday = accounts[x].spentToday
  BY DEF Close, Collect, TypeOK, Account
<1> DEFINE Same(q) == /\ channels'[q].maxPerDay = channels[q].maxPerDay
                      /\ channels'[q].reserved = channels[q].reserved
                      /\ channels'[q].earned = channels[q].earned
           Shut(q) == /\ channels'[q].maxPerDay = 0
                      /\ channels'[q].reserved = channels[q].earned
                      /\ channels'[q].earned = channels[q].earned
<1>2. \A q \in Pairs : Same(q) \/ Shut(q)
  <2>1. CASE Close(c, w)
    <3>1. Shut(<<c, w>>)
      BY <2>1 DEF Close, TypeOK, Channel, Pairs
    <3>2. \A q \in Pairs \ {<<c, w>>} : Same(q)
      BY <2>1 DEF Close, TypeOK
    <3>3. QED
      BY <3>1, <3>2
  <2>2. CASE Collect(c, w)
    BY <2>2 DEF Collect, TypeOK, Channel, Pairs
  <2>3. QED
    BY <2>1, <2>2
<1>3. CapsSet'
  <2>1. \A q \in Pairs : channels[q].earned \in Nat
    BY DEF TypeOK, Channel
  <2>2. QED
    BY <1>1, <1>2, <2>1 DEF CapsSet, CapInv
<1>4. DayCapBinds'
  BY <1>1 DEF DayCapBinds, CapInv
<1>5. QED
  BY <1>3, <1>4 DEF CapInv

LEMMA NextCapInv == IInv /\ CapInv /\ [Next]_vars => CapInv'
<1> SUFFICES ASSUME IInv, CapInv, [Next]_vars
             PROVE  CapInv'
  OBVIOUS
<1>1. TypeOK /\ LedgerOrder
  BY DEF IInv
<1>2. CASE Tick \/ UNCHANGED vars
  BY <1>2 DEF Tick, vars, CapInv, CapsSet, DayCapBinds
<1>3. QED
  BY <1>1, <1>2, WalletCapInv, ReserveCapInv, SpendCapInv, CloseCapInv DEF Next

\* A client that always sets a day cap is never billed more in one accounting
\* day than a cap it did set, over all workers and whatever is closed between.
THEOREM DayCapsBind == Spec => []DayCapBinds
<1>1. Init => CapInv
  BY InitCapInv
<1>2. IInv /\ CapInv /\ [Next]_vars => CapInv'
  BY NextCapInv
<1>3. CapInv => DayCapBinds
  BY DEF CapInv
<1>4. QED
  BY <1>1, <1>2, <1>3, Invariance, PTL DEF Spec

----------------------------------------------------------------------------
(* A reserve and the worker's tickets.                                      *)

\* A reserve on a channel whose unearned lock has both caps raises them, and
\* the lock: a ticket within them stays within them.
LEMMA ReserveTickets ==
    ASSUME TypeOK, TypeOK', CapInv, 0 \notin DayLimits,
           NEW b \in Clients, NEW v \in Workers, ReserveStep(b, v)
    PROVE  TicketsSurvive
<1> SUFFICES ASSUME NEW c \in Clients, NEW w \in Workers, NEW m \in Cumulatives,
                    NEW d \in Deadlines, NEW k \in AppKeys, Recognizable(c, w, m, d, k)
             PROVE  Recognizable(c, w, m, d, k)'
  BY DEF TicketsSurvive
<1>1. PICK max \in Cumulatives, until \in Deadlines, key \in AppKeys :
          Reserve(b, v, max, until, key)
  BY DEF ReserveStep
<1> DEFINE p == <<c, w>>
           q == <<b, v>>
           ch == channels[p]
           s == channels'[p]
<1>2. /\ p \in Pairs /\ q \in Pairs
      /\ ch \in Channel /\ s \in Channel /\ accounts[b] \in Account
      /\ m \in Nat /\ max \in Nat /\ until \in Nat
  BY InputAssumption DEF Pairs, TypeOK
<1>3. ch.appKey # NoKey /\ m > ch.earned /\ m <= ch.reserved
  BY DEF Recognizable
<1>4. ch.maxPerDay \in DayLimits /\ ch.maxPerDay > 0
  <2>1. ch.reserved > ch.earned
    BY <1>2, <1>3 DEF Channel
  <2>2. ch.maxPerDay \in DayLimits
    BY <1>2, <2>1 DEF CapInv, CapsSet
  <2>3. QED
    BY <1>2, <2>2, InputAssumption DEF Channel
<1>5. ch.maxPerJob # 0
  BY DEF Recognizable, WithinCaps
<1>6. /\ s.appKey = ch.appKey
      /\ s.earned = ch.earned
      /\ s.reserved >= ch.reserved
      /\ s.maxPerJob >= ch.maxPerJob
      /\ s.maxPerDay >= ch.maxPerDay
  <2>1. CASE p = q
    <3> DEFINE r == Reserved(ch, accounts[b], max, until)
    <3>1. s = r
      BY <1>1, <1>2, <2>1 DEF Reserve, TypeOK
    <3>2. /\ r.appKey = accounts[b].appKey /\ r.earned = ch.earned /\ r.reserved = max
      BY <1>2 DEF Reserved, Channel
    <3>3. /\ r.maxPerJob = RaisedCap(ch.maxPerJob, accounts[b].maxPerJob)
          /\ r.maxPerDay = RaisedCap(ch.maxPerDay, accounts[b].maxPerDay)
      BY <1>2 DEF Reserved, Channel
    <3>4. ch.appKey = accounts[b].appKey /\ max > ch.reserved
      BY <1>1, <1>3, <2>1 DEF Reserve
    <3>5. \A cap, limit \in Nat : cap # 0 => RaisedCap(cap, limit) >= cap
      BY DEF RaisedCap
    <3>6. /\ ch.maxPerJob \in Nat /\ ch.maxPerDay \in Nat /\ ch.reserved \in Nat
          /\ accounts[b].maxPerJob \in Nat /\ accounts[b].maxPerDay \in Nat
      BY <1>2 DEF Channel, Account
    <3> HIDE DEF r, ch, s
    <3>7. QED
      BY <1>2, <1>4, <1>5, <3>1, <3>2, <3>3, <3>4, <3>5, <3>6
  <2>2. CASE p # q
    <3>1. s = ch
      BY <1>1, <1>2, <2>2 DEF Reserve, TypeOK
    <3>2. QED
      BY <1>2, <3>1 DEF Channel
  <2>3. QED
    BY <2>1, <2>2
<1>7. Rolled(accounts[c])'.spentToday = Rolled(accounts[c]).spentToday
  <2>1. /\ accounts'[c].spentToday = accounts[c].spentToday
        /\ accounts'[c].dayStart = accounts[c].dayStart
    BY <1>1 DEF Reserve, TypeOK, Account
  <2>2. \A x, y \in Account : x.spentToday = y.spentToday /\ x.dayStart = y.dayStart
            => Rolled(x).spentToday = Rolled(y).spentToday
    BY DEF Rolled, Account
  <2>3. accounts[c] \in Account /\ accounts'[c] \in Account
    BY DEF TypeOK
  <2>4. Rolled(accounts[c])' = Rolled(accounts'[c])
    BY <1>1 DEF Reserve, Rolled
  <2>5. QED
    BY <2>1, <2>2, <2>3, <2>4
<1>8. WithinCaps(c, ch, m - ch.earned)'
  <2>1. /\ m - ch.earned \in Nat /\ s.maxPerJob \in Nat /\ s.maxPerDay \in Nat
        /\ ch.maxPerJob \in Nat /\ ch.maxPerDay \in Nat
    BY <1>2, <1>3 DEF Channel
  <2>2. Rolled(accounts[c]).spentToday \in Nat
    <3>1. now \in Nat /\ accounts[c] \in Account
      BY DEF TypeOK
    <3>2. QED
      BY <3>1, CountedType DEF Account
  <2>3. /\ m - ch.earned <= ch.maxPerJob
        /\ Rolled(accounts[c]).spentToday + (m - ch.earned) <= ch.maxPerDay
    BY <1>4 DEF Recognizable, WithinCaps
  <2>4. /\ m - s.earned <= s.maxPerJob /\ s.maxPerJob # 0
        /\ Rolled(accounts[c])'.spentToday + (m - s.earned) <= s.maxPerDay
    <3> HIDE DEF ch, s
    <3> QED
      BY <1>5, <1>6, <1>7, <2>1, <2>2, <2>3
  <2>5. QED
    BY <2>4 DEF WithinCaps
<1>9. s.reserved >= m /\ m > s.earned /\ s.appKey # NoKey
  <2>1. s.reserved \in Nat /\ ch.reserved \in Nat
    BY <1>2 DEF Channel
  <2>2. QED
    BY <1>2, <1>3, <1>6, <2>1
<1>10. k = s.appKey /\ now' <= d
  BY <1>1, <1>6 DEF Recognizable, Reserve
<1>11. QED
  BY <1>8, <1>9, <1>10 DEF Recognizable

\* For clients that always set a day cap, "between closes a channel's caps only
\* rise" holds of what the caps mean: no reserve makes a good ticket refused.
\* With an uncapped day it does not: zero is "no cap" to a ticket and "unset"
\* to a reserve.
THEOREM CappedReservesKeepTickets ==
    0 \notin DayLimits => (Spec => ReserveKeepsTickets)
<1> SUFFICES ASSUME 0 \notin DayLimits
             PROVE  Spec => ReserveKeepsTickets
  OBVIOUS
<1>1. Init => CapInv
  BY InitCapInv
<1>2. IInv /\ CapInv /\ [Next]_vars => CapInv'
  BY NextCapInv
<1>3. IInv /\ IInv' /\ CapInv /\ [Next]_vars
        => [(\E c \in Clients, w \in Workers : ReserveStep(c, w)) => TicketsSurvive]_vars
  <2> SUFFICES ASSUME IInv, IInv', CapInv, NEW c \in Clients, NEW w \in Workers,
                      ReserveStep(c, w)
               PROVE  TicketsSurvive
    OBVIOUS
  <2>1. TypeOK /\ TypeOK'
    BY DEF IInv
  <2>2. QED
    BY <2>1, ReserveTickets
<1>4. QED
  BY <1>1, <1>2, <1>3, Invariance, PTL DEF Spec, ReserveKeepsTickets

----------------------------------------------------------------------------
(* The worker's share.                                                      *)

\* Workers that are paid nothing else: not a client's wallet, not the vault.
PureWorkers == Workers \ (Clients \cup {FeeVault})

ShareOf(w) == 10000 * usdc[w] >= (10000 - FeeBps) * Total(Clients, PaidTo(w))

\* Whatever is lost to the division is lost by the vault.
LEMMA NetOfFee ==
    ASSUME NEW amount \in Nat
    PROVE  10000 * (amount - Fee(amount)) >= (10000 - FeeBps) * amount
<1>1. FeeBps \in Nat /\ Fee(amount) \in Nat
  BY FeeAssumption, FeeBound
<1> DEFINE gross == amount * FeeBps
<1>2. gross \in Nat
  BY <1>1
<1>3. \A n \in Nat : 10000 * (n \div 10000) <= n
  OBVIOUS
<1>4. 10000 * Fee(amount) <= gross
  BY <1>2, <1>3 DEF Fee
<1>5. (10000 - FeeBps) * amount = 10000 * amount - gross
  BY <1>1
<1> HIDE DEF gross
<1>6. QED
  BY <1>1, <1>2, <1>4, <1>5

\* A payment reaches the worker it names, net of the fee, and no other.
LEMMA PaidOutTo ==
    ASSUME NEW u \in [Holders -> Nat], NEW v \in Workers, NEW w \in PureWorkers,
           NEW amount \in Nat, amount <= u[Pot]
    PROVE  PaidOut(u, v, amount)[w] = IF w = v THEN u[w] + (amount - Fee(amount)) ELSE u[w]
<1> DEFINE fee == Fee(amount)
<1>1. fee \in Nat /\ amount - fee \in Nat
  BY FeeBound
<1>2. Pot \in Holders /\ v \in Holders /\ w \in Holders /\ FeeVault \in Holders
  BY DEF Holders, PureWorkers
<1>3. w # Pot /\ w # FeeVault /\ v # Pot
  BY HolderAssumption DEF PureWorkers
<1> HIDE DEF fee
<1>4. /\ Moved(u, Pot, v, amount - fee) \in [Holders -> Nat]
      /\ Moved(u, Pot, v, amount - fee)[w] = IF w = v THEN u[w] + (amount - fee) ELSE u[w]
  BY <1>1, <1>2, <1>3 DEF Moved
<1>5. \A x \in [Holders -> Nat] : Moved(x, Pot, FeeVault, fee)[w] = x[w]
  BY <1>2, <1>3 DEF Moved
<1>6. QED
  BY <1>4, <1>5 DEF PaidOut, fee

\* What was paid to w is a sum over its channels, and changes with one of them.
LEMMA PaidTotal ==
    ASSUME TypeOK, TypeOK', NEW c \in Clients, NEW w \in Workers, OnlyChannel(<<c, w>>)
    PROVE  /\ Total(Clients, PaidTo(w))' = Total(Clients, PaidTo(w))
                 + channels'[<<c, w>>].paid - channels[<<c, w>>].paid
           /\ Total(Clients, PaidTo(w)) \in Nat
<1> DEFINE f == PaidTo(w)
           g == PaidTo(w)'
<1>1. IsFiniteSet(Clients)
  BY FiniteAssumption
<1>2. \A d \in Clients : <<d, w>> \in Pairs
  BY DEF Pairs
<1>3. \A d \in Clients : f[d] = channels[<<d, w>>].paid
  BY DEF PaidTo
<1>4. \A d \in Clients : f[d] \in Nat
  BY <1>2, <1>3 DEF TypeOK, Channel
<1>5. \A d \in Clients : g[d] = channels'[<<d, w>>].paid
  BY DEF PaidTo
<1>6. g[c] \in Nat
  BY <1>2, <1>5 DEF TypeOK, Channel
<1>7. \A d \in Clients \ {c} : g[d] = f[d]
  BY <1>2, <1>3, <1>5 DEF OnlyChannel
<1> HIDE DEF f, g
<1>8. /\ Total(Clients, g) = Total(Clients, f) + g[c] - f[c]
      /\ Total(Clients, f) \in Nat
  BY <1>1, <1>4, <1>6, <1>7, TotalChange
<1>9. QED
  BY <1>3, <1>5, <1>8 DEF f, g

\* A step that pays no worker keeps every share.
LEMMA SharesKept ==
    ASSUME WorkerShare, NEW w \in PureWorkers, usdc'[w] = usdc[w],
           \A c \in Clients : channels'[<<c, w>>].paid = channels[<<c, w>>].paid
    PROVE  ShareOf(w)'
<1>1. PaidTo(w)' = PaidTo(w)
  BY DEF PaidTo
<1>2. ShareOf(w)
  BY DEF WorkerShare, ShareOf, PureWorkers
<1>3. QED
  BY <1>1, <1>2 DEF ShareOf

\* settle and collect pay out what the channel's paid grows by.
LEMMA PayoutEffect ==
    ASSUME TypeOK, LedgerOrder, NEW c \in Clients, NEW w \in Workers,
           SpendStep(c, w) \/ Collect(c, w), NEW p, p = <<c, w>>
    PROVE  /\ p \in Pairs /\ OnlyChannel(p)
           /\ \/ usdc' = usdc /\ channels'[p].paid = channels[p].paid
              \/ \E amount \in Nat : /\ amount <= usdc[Pot]
                                     /\ usdc' = PaidOut(usdc, w, amount)
                                     /\ channels'[p].paid = channels[p].paid + amount
<1>1. p \in Pairs /\ channels[p] \in Channel
  BY DEF Pairs, TypeOK
<1>2. CASE Collect(c, w)
  <2> DEFINE amount == channels[p].earned - channels[p].paid
  <2>1. amount \in Nat /\ amount <= usdc[Pot] /\ usdc' = PaidOut(usdc, w, amount)
    <3>1. usdc[Pot] \in Nat
      BY DEF TypeOK, Holders
    <3>2. QED
      BY <1>1, <1>2, <3>1 DEF Collect, CanMove, Channel
  <2>2. channels'[p].paid = channels[p].paid + amount
    BY <1>1, <1>2 DEF Collect, TypeOK, Channel
  <2>3. OnlyChannel(p)
    BY <1>2, CollectEffect
  <2> HIDE DEF amount
  <2>4. QED
    BY <1>1, <2>1, <2>2, <2>3
<1>3. ASSUME NEW m \in Cumulatives, NEW d \in Deadlines, NEW k \in AppKeys, Settle(c, w, m, d, k)
      PROVE  \E amount \in Nat : /\ amount <= usdc[Pot]
                                 /\ usdc' = PaidOut(usdc, w, amount)
                                 /\ channels'[p].paid = channels[p].paid + amount
  <2> DEFINE amount == m - channels[p].paid
  <2>1. amount \in Nat /\ amount <= usdc[Pot] /\ usdc' = PaidOut(usdc, w, amount)
    <3>1. usdc[Pot] \in Nat /\ m \in Nat
      BY InputAssumption DEF TypeOK, Holders
    <3>2. QED
      BY <1>1, <1>3, <3>1 DEF Settle, CanMove, Channel
  <2>2. m \in Nat /\ channels'[p].paid = m
    BY <1>1, <1>3, InputAssumption DEF Settle, TypeOK, Channel
  <2>3. channels'[p].paid = channels[p].paid + amount
    BY <1>1, <2>2 DEF Channel
  <2> HIDE DEF amount
  <2>4. QED
    BY <2>1, <2>3
<1>4. ASSUME NEW m \in Cumulatives, NEW d \in Deadlines, NEW k \in AppKeys, Commit(c, w, m, d, k)
      PROVE  usdc' = usdc /\ channels'[p].paid = channels[p].paid
  BY <1>1, <1>4 DEF Commit, TypeOK, Channel
<1>5. CASE SpendStep(c, w)
  <2>1. OnlyChannel(p)
    BY <1>5, SpendEffect
  <2>2. QED
    BY <1>1, <1>3, <1>4, <1>5, <2>1 DEF SpendStep
<1>6. QED
  BY <1>2, <1>5

LEMMA NextShare == IInv /\ IInv' /\ WorkerShare /\ [Next]_vars => WorkerShare'
<1> SUFFICES ASSUME IInv, IInv', WorkerShare, [Next]_vars, NEW w \in PureWorkers
             PROVE  ShareOf(w)'
  BY DEF WorkerShare, ShareOf, PureWorkers
<1>1. TypeOK /\ TypeOK' /\ LedgerOrder
  BY DEF IInv
<1>2. w \in Workers /\ w \notin Clients /\ w # Pot /\ w # FeeVault
  BY HolderAssumption DEF PureWorkers
<1>3. ASSUME NEW c \in Clients, WalletStep(c)
      PROVE  ShareOf(w)'
  <2>1. \A a : /\ Moved(usdc, c, Pot, a)[w] = usdc[w]
               /\ Moved(usdc, Pot, c, a)[w] = usdc[w]
    BY <1>1, <1>2 DEF Moved, TypeOK, Holders
  <2>2. usdc'[w] = usdc[w]
    <3>1. \/ usdc' = usdc
          \/ \E a : usdc' = Moved(usdc, c, Pot, a)
          \/ usdc' = Moved(usdc, Pot, c, accounts[c].balance)
      BY <1>3 DEF WalletStep, Deposit, WithdrawAll, SetLimits, RequestClose
    <3>2. QED
      BY <2>1, <3>1
  <2>3. \A p \in Pairs : channels'[p].paid = channels[p].paid
    <3>1. CASE channels' = channels
      BY <3>1
    <3>2. ASSUME NEW v \in Workers, RequestClose(c, v)
          PROVE  \A p \in Pairs : channels'[p].paid = channels[p].paid
      BY <1>1, <3>2 DEF RequestClose, TypeOK, Channel, Pairs
    <3>3. QED
      BY <1>3, <3>1, <3>2 DEF WalletStep, Deposit, WithdrawAll, SetLimits
  <2>4. QED
    BY <1>2, <2>2, <2>3, SharesKept DEF Pairs
<1>4. ASSUME NEW c \in Clients, NEW v \in Workers, ReserveStep(c, v) \/ Close(c, v)
      PROVE  ShareOf(w)'
  <2>1. OnlyChannel(<<c, v>>) /\ channels'[<<c, v>>].paid = channels[<<c, v>>].paid
        /\ usdc' = usdc
    BY <1>1, <1>4, ReserveEffect, CloseEffect
  <2>2. \A p \in Pairs : channels'[p].paid = channels[p].paid
    BY <2>1 DEF OnlyChannel
  <2>3. QED
    BY <1>2, <2>1, <2>2, SharesKept DEF Pairs
<1>5. ASSUME NEW c \in Clients, NEW v \in Workers, SpendStep(c, v) \/ Collect(c, v)
      PROVE  ShareOf(w)'
  <2> DEFINE p == <<c, v>>
  <2>1. /\ p \in Pairs /\ OnlyChannel(p)
        /\ \/ usdc' = usdc /\ channels'[p].paid = channels[p].paid
           \/ \E amount \in Nat : /\ amount <= usdc[Pot]
                                  /\ usdc' = PaidOut(usdc, v, amount)
                                  /\ channels'[p].paid = channels[p].paid + amount
    BY <1>1, <1>5, PayoutEffect
  <2>2. CASE usdc' = usdc /\ channels'[p].paid = channels[p].paid
    <3>1. \A q \in Pairs : channels'[q].paid = channels[q].paid
      BY <2>1, <2>2 DEF OnlyChannel
    <3>2. QED
      BY <1>2, <2>2, <3>1, SharesKept DEF Pairs
  <2>3. ASSUME NEW amount \in Nat, amount <= usdc[Pot],
               usdc' = PaidOut(usdc, v, amount),
               channels'[p].paid = channels[p].paid + amount
        PROVE  ShareOf(w)'
    <3>1. usdc \in [Holders -> Nat] /\ w \in Holders
      BY <1>1, <1>2 DEF TypeOK, Holders
    <3>2. CASE w # v
      <4>1. usdc'[w] = usdc[w]
        BY <2>3, <3>1, <3>2, PaidOutTo
      <4>2. \A d \in Clients : channels'[<<d, w>>].paid = channels[<<d, w>>].paid
        BY <1>2, <2>1, <3>2 DEF OnlyChannel, Pairs
      <4>3. QED
        BY <4>1, <4>2, SharesKept
    <3>3. CASE w = v
      <4> DEFINE paid == Total(Clients, PaidTo(w))
                 net == amount - Fee(amount)
      <4>1. usdc'[w] = usdc[w] + net
        BY <2>3, <3>1, <3>3, PaidOutTo
      <4>2. /\ Total(Clients, PaidTo(w))' = paid + channels'[p].paid - channels[p].paid
            /\ paid \in Nat
        BY <1>1, <2>1, <3>3, PaidTotal
      <4>3. channels[p].paid \in Nat
        BY <1>1, <2>1 DEF TypeOK, Channel
      <4>4. Total(Clients, PaidTo(w))' = paid + amount
        BY <2>3, <4>2, <4>3
      <4>5. 10000 * usdc[w] >= (10000 - FeeBps) * paid
        BY DEF WorkerShare, PureWorkers
      <4>6. 10000 * net >= (10000 - FeeBps) * amount
        BY NetOfFee
      <4>7. net \in Nat /\ usdc[w] \in Nat /\ 10000 - FeeBps \in Nat
        BY <3>1, FeeBound, FeeAssumption
      <4> HIDE DEF net, paid
      <4>8. 10000 * (usdc[w] + net) >= (10000 - FeeBps) * (paid + amount)
        <5>1. \A x, a, b \in Nat : x * (a + b) = x * a + x * b
          OBVIOUS
        <5>2. (10000 - FeeBps) * (paid + amount)
                 = (10000 - FeeBps) * paid + (10000 - FeeBps) * amount
          BY <4>2, <4>7, <5>1
        <5>3. 10000 * (usdc[w] + net) = 10000 * usdc[w] + 10000 * net
          BY <4>7
        <5>4. \A x, a, b \in Nat : x * a \in Nat /\ x * b \in Nat
          OBVIOUS
        <5>5. (10000 - FeeBps) * paid \in Nat /\ (10000 - FeeBps) * amount \in Nat
          BY <4>2, <4>7, <5>4
        <5> DEFINE l == (10000 - FeeBps) * paid
                   r == (10000 - FeeBps) * amount
        <5> HIDE DEF l, r
        <5>6. 10000 * usdc[w] + 10000 * net >= l + r
          BY <4>5, <4>6, <4>7, <5>5 DEF l, r
        <5>7. QED
          BY <5>2, <5>3, <5>6 DEF l, r
      <4>9. QED
        BY <4>1, <4>4, <4>8 DEF ShareOf
    <3>4. QED
      BY <3>2, <3>3
  <2>4. QED
    BY <2>1, <2>2, <2>3
<1>6. CASE Tick \/ UNCHANGED vars
  BY <1>2, <1>6, SharesKept DEF Tick, vars
<1>7. QED
  BY <1>3, <1>4, <1>5, <1>6 DEF Next

LEMMA InitShare == Init => WorkerShare
<1> SUFFICES ASSUME Init, NEW w \in PureWorkers
             PROVE  10000 * usdc[w] >= (10000 - FeeBps) * Total(Clients, PaidTo(w))
  BY DEF WorkerShare, PureWorkers
<1>1. \A c \in Clients : PaidTo(w)[c] = 0
  BY DEF Init, PaidTo, NoChannel, Pairs, PureWorkers
<1>2. Total(Clients, PaidTo(w)) = 0
  BY <1>1, TotalZero
<1>3. usdc[w] = 0
  BY DEF Init, Holders, PureWorkers
<1>4. QED
  BY <1>2, <1>3, FeeAssumption

\* A worker's wallet holds at least its share of all that left its channels:
\* however many payments it was split into, rounding is at the vault's cost.
THEOREM WorkersGetTheirShare == Spec => []WorkerShare
<1>1. Init => WorkerShare
  BY InitShare
<1>2. IInv /\ IInv' /\ WorkerShare /\ [Next]_vars => WorkerShare'
  BY NextShare
<1>3. QED
  BY <1>1, <1>2, Invariance, PTL DEF Spec

----------------------------------------------------------------------------
(* The contract implements the escrow.                                      *)

\* The escrow's view of the contract's state.
Free == Balances
Unspent == [p \in Pairs |-> channels[p].reserved - channels[p].earned]
Owed == [p \in Pairs |-> channels[p].earned - channels[p].paid]
Delivered == [p \in Pairs |-> channels[p].paid]
Held == [p \in Pairs |-> HeldUntil(channels[p])]

\* An untouched contract is an untouched escrow.
LEMMA InitMaps == Init => E!EInit
<1> SUFFICES ASSUME Init PROVE E!EInit
  OBVIOUS
<1>1. now \in Nat
  BY TimeAssumption DEF Init
<1>2. Balances = [c \in Clients |-> 0]
  BY DEF Init, Balances, NoAccount
<1>3. \A p \in Pairs : channels[p] = NoChannel
  BY DEF Init
<1>4. /\ Unspent = [p \in Pairs |-> 0]
      /\ Owed = [p \in Pairs |-> 0]
      /\ Delivered = [p \in Pairs |-> 0]
      /\ Held = [p \in Pairs |-> 0]
  BY <1>3 DEF NoChannel, HeldUntil, Unspent, Owed, Delivered, Held
<1>5. QED
  BY <1>1, <1>2, <1>4
     DEF E!EInit, E!Nothing, E!Pair, Pairs, Unspent, Owed, Delivered, Held

\* A step on p's channel changes the escrow's view of p only.
LEMMA ViewChange ==
    ASSUME NEW p \in Pairs, OnlyChannel(p)
    PROVE  /\ Unspent' = [Unspent EXCEPT ![p] = channels'[p].reserved - channels'[p].earned]
           /\ Owed' = [Owed EXCEPT ![p] = channels'[p].earned - channels'[p].paid]
           /\ Delivered' = [Delivered EXCEPT ![p] = channels'[p].paid]
           /\ Held' = [Held EXCEPT ![p] = HeldUntil(channels'[p])]
BY DEF OnlyChannel, Unspent, Owed, Delivered, Held

LEMMA FreeChange ==
    ASSUME NEW c \in Clients, NEW v, OnlyBalance(c, v)
    PROVE  Free' = [Free EXCEPT ![c] = v]
BY DEF OnlyBalance, Free, Balances

\* The hold never lasts past the deadline.
LEMMA HeldBound ==
    ASSUME NEW ch \in Channel
    PROVE  /\ HeldUntil(ch) \in Nat
           /\ HeldUntil(ch) <= ch.deadline + 1
           /\ ch.closeAt = 0 /\ ch.deadline # 0 => HeldUntil(ch) = ch.deadline + 1
           /\ now \in Nat /\ (TimedOut(ch) \/ Lapsed(ch)) => now >= HeldUntil(ch)
BY DEF Channel, HeldUntil, TimedOut, Lapsed

\* Every step of the contract is a step of the escrow, or none.
LEMMA NextMaps == IInv /\ IInv' /\ [Next]_vars => [E!ENext]_(E!evars)
<1> SUFFICES ASSUME IInv, IInv', [Next]_vars PROVE [E!ENext]_(E!evars)
  OBVIOUS
<1>1. TypeOK /\ LedgerOrder /\ NoTrappedLock /\ TypeOK' /\ LedgerOrder'
  BY DEF IInv
<1>2. now \in Nat /\ now > 0 /\ Grace \in Nat
  BY <1>1, TimeAssumption DEF TypeOK
<1> DEFINE Goal == [E!ENext]_(E!evars)
<1>3. ASSUME NEW c \in Clients, WalletStep(c)
      PROVE  Goal
  <2>0. accounts[c].balance \in Nat /\ Free[c] = accounts[c].balance
    BY <1>1 DEF TypeOK, Account, Free, Balances
  <2>1. ASSUME NEW amount \in Deposits, NEW j \in JobLimits, NEW d \in DayLimits,
               NEW k \in AppKeys \cup {NoKey}, Deposit(c, amount, j, d, k)
        PROVE  E!Fund(c)
    <3>1. /\ channels' = channels /\ now' = now
          /\ OnlyBalance(c, accounts[c].balance + amount)
      BY <1>1, <2>1, DepositEffect
    <3>2. Free' = [Free EXCEPT ![c] = accounts[c].balance + amount]
      BY <3>1, FreeChange
    <3>3. Free'[c] = accounts[c].balance + amount
      BY <3>2 DEF Free, Balances
    <3>4. amount \in Nat
      BY InputAssumption
    <3>5. Balances'[c] >= Balances[c]
      BY <2>0, <3>3, <3>4 DEF Free
    <3>6. Balances' = [Balances EXCEPT ![c] = Balances'[c]]
      BY <3>2, <3>3 DEF Free
    <3>7. QED
      BY <3>1, <3>5, <3>6 DEF E!Fund
  <2>2. ASSUME WithdrawAll(c)
        PROVE  E!Drain(c)
    <3>1. channels' = channels /\ now' = now /\ OnlyBalance(c, 0)
      BY <1>1, <2>2, WithdrawEffect
    <3>2. Balances' = [Balances EXCEPT ![c] = 0]
      BY <3>1, FreeChange DEF Free
    <3>3. QED
      BY <3>1, <3>2 DEF E!Drain
  <2>3. ASSUME NEW j \in JobLimits, NEW d \in DayLimits,
               NEW k \in AppKeys \cup {NoKey}, SetLimits(c, j, d, k)
        PROVE  UNCHANGED E!evars
    <3>1. channels' = channels /\ SameBalances /\ now' = now
      BY <1>1, <2>3, LimitsEffect
    <3>2. Balances' = Balances
      BY <3>1 DEF SameBalances, Balances
    <3>3. QED
      BY <3>1, <3>2 DEF E!evars
  <2>4. ASSUME NEW w \in Workers, RequestClose(c, w)
        PROVE  E!GiveNotice(<<c, w>>)
    <3> DEFINE p == <<c, w>>
    <3>1. /\ p \in Pairs /\ OnlyChannel(p) /\ SameTerms(p)
          /\ channels[p].reserved > channels[p].earned
          /\ channels'[p].reserved = channels[p].reserved
          /\ channels'[p].earned = channels[p].earned
          /\ channels'[p].paid = channels[p].paid
          /\ channels'[p].closeAt = now + Grace
          /\ accounts' = accounts /\ now' = now
      BY <1>1, <2>4, NoticeEffect
    <3> HIDE DEF p
    <3>2. channels[p] \in Channel /\ channels'[p] \in Channel /\ channels[p].deadline # 0
      BY <1>1, <3>1 DEF TypeOK, NoTrappedLock
    <3>3. /\ Unspent' = Unspent /\ Owed' = Owed /\ Delivered' = Delivered
          /\ Held' = [Held EXCEPT ![p] = HeldUntil(channels'[p])]
      BY <3>1 DEF OnlyChannel, Unspent, Owed, Delivered, Held
    <3>4. Held[p] = HeldUntil(channels[p]) /\ Held'[p] = HeldUntil(channels'[p])
      BY <3>1 DEF Held
    <3>5. HeldUntil(channels'[p]) >= HeldUntil(channels[p])
            \/ HeldUntil(channels'[p]) >= now + Grace
      <4>1. CASE now + Grace <= channels[p].deadline
        BY <1>2, <3>1, <3>2, <4>1 DEF HeldUntil, SameTerms
      <4>2. CASE ~(now + Grace <= channels[p].deadline)
        <5>1. HeldUntil(channels'[p]) = channels[p].deadline + 1
          BY <3>1, <3>2, <4>2 DEF HeldUntil, SameTerms
        <5>2. QED
          BY <3>2, <5>1, HeldBound
      <4>3. QED
        BY <4>1, <4>2
    <3>6. Balances' = Balances
      BY <3>1 DEF Balances
    <3>7. E!GiveNotice(p)
      BY <3>1, <3>3, <3>4, <3>5, <3>6 DEF E!GiveNotice, Unspent, Owed, Delivered, Held
    <3>8. QED
      BY <3>7 DEF p
  <2>5. QED
    BY <1>3, <2>1, <2>2, <2>3, <2>4 DEF WalletStep, E!ENext, E!Pair
<1>4. ASSUME NEW c \in Clients, NEW w \in Workers, ReserveStep(c, w)
      PROVE  E!Lock(<<c, w>>)
  <2> DEFINE p == <<c, w>>
             extra == channels'[p].reserved - channels[p].reserved
  <2>1. /\ p \in Pairs /\ OnlyChannel(p)
        /\ extra \in Nat \ {0} /\ extra <= accounts[c].balance
        /\ channels'[p].earned = channels[p].earned
        /\ channels'[p].paid = channels[p].paid
        /\ channels'[p].closeAt = 0
        /\ channels'[p].deadline > now
        /\ channels'[p].deadline >= channels[p].deadline
        /\ OnlyBalance(c, accounts[c].balance - extra)
        /\ now' = now
    BY <1>1, <1>4, ReserveEffect
  <2>2. p[1] = c
    OBVIOUS
  <2> HIDE DEF p, extra
  <2>3. channels[p] \in Channel /\ channels'[p] \in Channel /\ accounts[c].balance \in Nat
    BY <1>1, <2>1 DEF TypeOK, Account
  <2>4. /\ channels[p].reserved \in Nat /\ channels'[p].reserved \in Nat
        /\ channels[p].earned \in Nat
    BY <2>3 DEF Channel
  <2>5. /\ Unspent' = [Unspent EXCEPT ![p] = channels'[p].reserved - channels[p].earned]
        /\ Owed' = Owed /\ Delivered' = Delivered
        /\ Held' = [Held EXCEPT ![p] = HeldUntil(channels'[p])]
    BY <2>1 DEF OnlyChannel, Unspent, Owed, Delivered, Held
  <2>6. channels'[p].reserved - channels[p].earned = Unspent[p] + extra
    BY <2>1, <2>4 DEF Unspent, extra
  <2>7. Balances' = [Balances EXCEPT ![c] = Balances[c] - extra] /\ extra \in 1 .. Balances[c]
    <3>1. Balances[c] = accounts[c].balance
      BY DEF Balances
    <3>2. QED
      BY <2>1, <2>3, <3>1, FreeChange DEF Free
  <2>8. Held'[p] >= Held[p] /\ Held'[p] > now /\ Held' = [Held EXCEPT ![p] = Held'[p]]
    <3>1. Held[p] = HeldUntil(channels[p]) /\ Held'[p] = HeldUntil(channels'[p])
      BY <2>1 DEF Held
    <3>2. channels[p].deadline \in Nat /\ channels'[p].deadline \in Nat
      BY <2>3 DEF Channel
    <3>3. HeldUntil(channels'[p]) = channels'[p].deadline + 1
      BY <1>2, <2>1, <2>3, <3>2, HeldBound
    <3>4. HeldUntil(channels[p]) \in Nat /\ HeldUntil(channels[p]) <= channels[p].deadline + 1
      BY <2>3, HeldBound
    <3>5. Held'[p] >= Held[p] /\ Held'[p] > now
      BY <1>2, <2>1, <3>1, <3>2, <3>3, <3>4
    <3>6. Held' = [Held EXCEPT ![p] = Held'[p]]
      BY <2>5, <3>1
    <3>7. QED
      BY <3>5, <3>6
  <2>9. E!Lock(p)
    BY <2>1, <2>2, <2>5, <2>6, <2>7, <2>8
       DEF E!Lock, Unspent, Owed, Delivered, Held
  <2>10. QED
    BY <2>9 DEF p
<1>5. ASSUME NEW c \in Clients, NEW w \in Workers, SpendStep(c, w)
      PROVE  E!Bill(<<c, w>>) \/ E!BillAndPay(<<c, w>>)
  <2> DEFINE p == <<c, w>>
             a == channels'[p].earned - channels[p].earned
  <2>1. /\ p \in Pairs /\ OnlyChannel(p) /\ SameTerms(p)
        /\ channels'[p].closeAt = channels[p].closeAt
        /\ channels'[p].reserved = channels[p].reserved
        /\ channels'[p].earned \in Nat
        /\ channels'[p].earned > channels[p].earned
        /\ channels'[p].earned <= channels[p].reserved
        /\ channels'[p].paid \in {channels[p].paid, channels'[p].earned}
        /\ SameBalances /\ now' = now
    BY <1>1, <1>5, SpendEffect
  <2> HIDE DEF p, a
  <2>2. /\ channels[p].reserved \in Nat /\ channels[p].earned \in Nat
        /\ channels[p].paid \in Nat
    BY <1>1, <2>1 DEF TypeOK, Channel
  <2>3. Unspent[p] = channels[p].reserved - channels[p].earned
        /\ Owed[p] = channels[p].earned - channels[p].paid
        /\ Delivered[p] = channels[p].paid
    BY <2>1 DEF Unspent, Owed, Delivered
  <2>4. a \in 1 .. Unspent[p] /\ channels'[p].earned = channels[p].earned + a
    BY <2>1, <2>2, <2>3 DEF a
  <2>5. Unspent' = [Unspent EXCEPT ![p] = Unspent[p] - a]
    BY <2>1, <2>2, <2>3, <2>4, ViewChange
  <2>6. Held' = Held
    BY <2>1 DEF OnlyChannel, SameTerms, Held, HeldUntil
  <2>7. Balances' = Balances
    BY <2>1 DEF SameBalances, Balances
  <2>8. CASE channels'[p].paid = channels[p].paid
    <3>1. Owed' = [Owed EXCEPT ![p] = Owed[p] + a]
      <4>1. channels'[p].earned - channels'[p].paid = Owed[p] + a
        BY <2>2, <2>3, <2>4, <2>8
      <4>2. QED
        BY <2>1, <4>1, ViewChange
    <3>2. Delivered' = Delivered
      BY <2>1, <2>8 DEF OnlyChannel, Delivered
    <3>3. E!Bill(p)
      BY <2>1, <2>4, <2>5, <2>6, <2>7, <3>1, <3>2 DEF E!Bill, Unspent, Owed, Delivered, Held
    <3>4. QED
      BY <3>3 DEF p
  <2>9. CASE channels'[p].paid = channels'[p].earned
    <3>1. /\ Owed' = [Owed EXCEPT ![p] = 0]
          /\ Delivered' = [Delivered EXCEPT ![p] = Delivered[p] + Owed[p] + a]
      <4>1. Delivered[p] + Owed[p] + a = channels'[p].earned
        BY <2>2, <2>3, <2>4
      <4>2. QED
        BY <2>1, <2>2, <2>9, <4>1, ViewChange
    <3>2. E!BillAndPay(p)
      BY <2>1, <2>4, <2>5, <2>6, <2>7, <3>1
         DEF E!BillAndPay, Unspent, Owed, Delivered, Held
    <3>3. QED
      BY <3>2 DEF p
  <2>10. QED
    BY <2>1, <2>8, <2>9
<1>6. ASSUME NEW c \in Clients, NEW w \in Workers, Collect(c, w)
      PROVE  E!PayOwed(<<c, w>>)
  <2> DEFINE p == <<c, w>>
  <2>1. /\ p \in Pairs /\ OnlyChannel(p) /\ SameTerms(p)
        /\ channels'[p].closeAt = channels[p].closeAt
        /\ channels'[p].reserved = channels[p].reserved
        /\ channels'[p].earned = channels[p].earned
        /\ channels'[p].paid = channels[p].earned
        /\ channels[p].earned > channels[p].paid
        /\ accounts' = accounts /\ now' = now
    BY <1>1, <1>6, CollectEffect
  <2> HIDE DEF p
  <2>2. channels[p].earned \in Nat /\ channels[p].paid \in Nat
    BY <1>1, <2>1 DEF TypeOK, Channel
  <2>3. Owed[p] = channels[p].earned - channels[p].paid /\ Delivered[p] = channels[p].paid
    BY <2>1 DEF Owed, Delivered
  <2>4. Owed[p] > 0 /\ Delivered[p] + Owed[p] = channels[p].earned
    BY <2>1, <2>2, <2>3
  <2>5. /\ Owed' = [Owed EXCEPT ![p] = 0]
        /\ Delivered' = [Delivered EXCEPT ![p] = Delivered[p] + Owed[p]]
    BY <2>1, <2>2, <2>4, ViewChange
  <2>6. Unspent' = Unspent /\ Held' = Held
    BY <2>1 DEF OnlyChannel, SameTerms, Unspent, Held, HeldUntil
  <2>7. Balances' = Balances
    BY <2>1 DEF Balances
  <2>8. E!PayOwed(p)
    BY <2>1, <2>4, <2>5, <2>6, <2>7 DEF E!PayOwed, Unspent, Owed, Delivered, Held
  <2>9. QED
    BY <2>8 DEF p
<1>7. ASSUME NEW c \in Clients, NEW w \in Workers, Close(c, w)
      PROVE  E!Release(<<c, w>>)
  <2> DEFINE p == <<c, w>>
             unspent == channels[p].reserved - channels[p].earned
  <2>1. /\ p \in Pairs /\ OnlyChannel(p) /\ SameTerms(p)
        /\ TimedOut(channels[p]) \/ Lapsed(channels[p])
        /\ channels'[p].reserved = channels[p].earned
        /\ channels'[p].earned = channels[p].earned
        /\ channels'[p].paid = channels[p].paid
        /\ OnlyBalance(c, accounts[c].balance + unspent)
        /\ now' = now
    BY <1>1, <1>7, CloseEffect
  <2>2. p[1] = c
    OBVIOUS
  <2> HIDE DEF p, unspent
  <2>3. channels[p] \in Channel /\ channels[p].earned \in Nat
    BY <1>1, <2>1 DEF TypeOK, Channel
  <2>4. Held[p] = HeldUntil(channels[p]) /\ now >= Held[p]
    BY <1>2, <2>1, <2>3, HeldBound DEF Held
  <2>5. Unspent' = [Unspent EXCEPT ![p] = 0] /\ Unspent[p] = unspent
    BY <2>1, <2>3, ViewChange DEF Unspent, unspent
  <2>6. Owed' = Owed /\ Delivered' = Delivered
    BY <2>1 DEF OnlyChannel, Owed, Delivered
  <2>7. Held' = [Held EXCEPT ![p] = Held'[p]]
    BY <2>1 DEF OnlyChannel, Held
  <2>8. Balances' = [Balances EXCEPT ![c] = Balances[c] + Unspent[p]]
    <3>1. Balances[c] = accounts[c].balance
      BY DEF Balances
    <3>2. QED
      BY <2>1, <2>5, <3>1, FreeChange DEF Free
  <2>9. E!Release(p)
    BY <2>1, <2>2, <2>4, <2>5, <2>6, <2>7, <2>8
       DEF E!Release, Unspent, Owed, Delivered, Held
  <2>10. QED
    BY <2>9 DEF p
<1>8. ASSUME Tick
      PROVE  E!Pass
  BY <1>2, <1>8 DEF Tick, E!Pass, Balances
<1>9. ASSUME UNCHANGED vars
      PROVE  UNCHANGED E!evars
  BY <1>9 DEF vars, E!evars, Balances
<1>10. ASSUME NEW c \in Clients, NEW w \in Workers,
              ReserveStep(c, w) \/ SpendStep(c, w) \/ Collect(c, w) \/ Close(c, w)
       PROVE  E!ENext
  <2>1. <<c, w>> \in E!Pair
    BY DEF E!Pair
  <2>2. QED
    BY <1>4, <1>5, <1>6, <1>7, <1>10, <2>1 DEF E!ENext
<1>11. Tick => E!ENext
  BY <1>8 DEF E!ENext
<1> HIDE DEF Goal
<1>12. E!ENext \/ UNCHANGED E!evars => Goal
  BY DEF Goal
<1>13. Goal
  BY <1>3, <1>9, <1>10, <1>11, <1>12 DEF Next
<1>14. QED
  BY <1>13 DEF Goal

\* The contract keeps the promise of its docstring: a lock turns into the
\* worker's earnings or returns after its hold, never otherwise.
THEOREM PotImplementsEscrow == Spec => ImplementsEscrow
<1>1. Init => E!EInit
  BY InitMaps
<1>2. IInv /\ IInv' /\ [Next]_vars => [E!ENext]_(E!evars)
  BY NextMaps
<1>3. QED
  BY <1>1, <1>2, Invariance, PTL DEF Spec, ImplementsEscrow, E!ESpec
============================================================================
