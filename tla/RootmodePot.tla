---------------------------- MODULE RootmodePot ----------------------------
(***************************************************************************)
(* The pot contract: contracts/src/RootmodePot.vy.                         *)
(*                                                                         *)
(* A client deposits USDC into a free balance.  A reserve ticket moves     *)
(* part of it into a channel with one worker; a spend ticket turns part of *)
(* the lock into earnings; pay moves earnings out to the worker and the    *)
(* fee vault; close returns what was never earned.                         *)
(*                                                                         *)
(* One action per external function.  A ticket is its fields plus the key  *)
(* that signed it: every ticket an app key could sign is an input, so what *)
(* holds here holds whatever the two ends sign and in whatever order the   *)
(* tickets are posted, replays included.                                   *)
(***************************************************************************)
EXTENDS Integers, Coins

CONSTANTS
    Clients,        \* wallets that deposit
    Workers,        \* payout addresses
    AppKeys,        \* addresses of app keys
    NoKey,          \* empty(address)
    Pot,            \* the contract itself, as a USDC holder
    FeeVault,       \* the vault address given at deployment
    FeeBps,         \* FEE_BPS
    Day,            \* DAY
    Grace,          \* grace, given at deployment
    Deposits,       \* the amounts a deposit may carry
    Cumulatives,    \* the amounts a ticket may carry
    JobLimits,      \* the values maxPerJob may be set to
    DayLimits,      \* the values maxPerDay may be set to
    Deadlines,      \* the deadlines a ticket may carry
    Start,          \* block.timestamp when the contract is deployed
    Horizon,        \* the last block.timestamp explored
    Wallet          \* USDC each client starts with

Holders == Clients \cup Workers \cup {Pot, FeeVault}
Pairs == Clients \X Workers

ASSUME KeyAssumption == NoKey \notin AppKeys
ASSUME HolderAssumption == Pot \notin Clients \cup Workers \cup {FeeVault}
ASSUME FiniteAssumption == IsFiniteSet(Clients) /\ IsFiniteSet(Workers)
ASSUME FeeAssumption == FeeBps \in 0 .. 10000
ASSUME InputAssumption ==
    /\ Deposits \subseteq Nat
    /\ Cumulatives \subseteq Nat
    /\ JobLimits \subseteq Nat
    /\ DayLimits \subseteq Nat
    /\ Deadlines \subseteq Nat
    /\ Wallet \in Nat
ASSUME TimeAssumption ==
    /\ Day \in Nat \ {0}
    /\ Grace \in Nat
    /\ Start \in Nat \ {0}
    /\ Horizon \in Nat

VARIABLES
    now,            \* block.timestamp
    accounts,       \* client -> Account
    channels,       \* <<client, worker>> -> Channel
    usdc            \* holder -> USDC held, in the token contract

vars == <<now, accounts, channels, usdc>>

Account == [balance : Nat, maxPerJob : Nat, maxPerDay : Nat,
            spentToday : Nat, dayStart : Nat, appKey : AppKeys \cup {NoKey}]

Channel == [reserved : Nat, paid : Nat, deadline : Nat, closeAt : Nat,
            appKey : AppKeys \cup {NoKey}, earned : Nat,
            maxPerJob : Nat, maxPerDay : Nat]

NoAccount == [balance |-> 0, maxPerJob |-> 0, maxPerDay |-> 0,
              spentToday |-> 0, dayStart |-> 0, appKey |-> NoKey]

NoChannel == [reserved |-> 0, paid |-> 0, deadline |-> 0, closeAt |-> 0,
              appKey |-> NoKey, earned |-> 0, maxPerJob |-> 0, maxPerDay |-> 0]

Init ==
    /\ now = Start
    /\ accounts = [c \in Clients |-> NoAccount]
    /\ channels = [p \in Pairs |-> NoChannel]
    /\ usdc = [h \in Holders |-> IF h \in Clients THEN Wallet ELSE 0]

----------------------------------------------------------------------------
(* Internal functions.                                                      *)

\* A uint256 argument of zero, or an empty key, leaves the stored value.
Given(new, old) == IF new > 0 THEN new ELSE old
GivenKey(new, old) == IF new # NoKey THEN new ELSE old

\* _credit
Credited(a, amount, maxPerJob, maxPerDay, key) ==
    [a EXCEPT !.balance   = @ + amount,
              !.maxPerJob = Given(maxPerJob, @),
              !.maxPerDay = Given(maxPerDay, @),
              !.appKey    = GivenKey(key, @)]

\* setLimits overwrites both caps, zero included.
Limited(a, maxPerJob, maxPerDay, key) ==
    [a EXCEPT !.maxPerJob = maxPerJob, !.maxPerDay = maxPerDay,
              !.appKey = GivenKey(key, @)]

\* _rollDay: the account's counters as of this block.
Rolled(a) ==
    IF a.dayStart = 0 \/ now >= a.dayStart + Day
      THEN [a EXCEPT !.dayStart = now, !.spentToday = 0]
      ELSE a

FeeRoundedUp(amount) == (amount * FeeBps + 9999) \div 10000     \* mutant
Fee(amount) == (amount * FeeBps) \div 10000

\* transferFrom then transfer: the token refuses more than the holder has.
CanMove(from, amount) == usdc[from] >= amount
Moved(u, from, to, amount) ==
    [[u EXCEPT ![from] = @ - amount] EXCEPT ![to] = @ + amount]

\* The channel's cap for a reserve: zero is "unset", otherwise it only rises.
RaisedCap(cap, limit) == IF cap = 0 \/ limit > cap THEN limit ELSE cap

ReservedKeyless(ch, a, maxAmount, deadline) ==                   \* mutant
    [ch EXCEPT !.maxPerJob = RaisedCap(@, a.maxPerJob),
               !.maxPerDay = RaisedCap(@, a.maxPerDay),
               !.reserved = maxAmount, !.deadline = deadline, !.closeAt = 0]

\* What reserve writes into the channel of an account.
Reserved(ch, a, maxAmount, deadline) ==
    [ch EXCEPT !.appKey    = a.appKey,
               !.maxPerJob = RaisedCap(@, a.maxPerJob),
               !.maxPerDay = RaisedCap(@, a.maxPerDay),
               !.reserved  = maxAmount,
               !.deadline  = IF deadline > @ THEN deadline ELSE @,
               !.closeAt   = 0]

CappedByAccount(client, ch, delta) ==                            \* mutant
    delta <= accounts[client].maxPerJob

\* The caps a ticket is held to are the channel's; the day is the account's,
\* shared by all its channels.  A job cap of zero admits nothing, a day cap of
\* zero everything.
WithinCaps(client, ch, delta) ==
    /\ ch.maxPerJob # 0 /\ delta <= ch.maxPerJob
    /\ ch.maxPerDay > 0 =>
          Rolled(accounts[client]).spentToday + delta <= ch.maxPerDay

\* Every refusal of _recognize, for a spend ticket signed by key.
Recognizable(client, worker, cumulative, deadline, key) ==
    LET ch == channels[<<client, worker>>]
    IN  /\ ch.appKey # NoKey
        /\ now <= deadline
        /\ cumulative > ch.earned
        /\ cumulative <= ch.reserved
        /\ WithinCaps(client, ch, cumulative - ch.earned)
        /\ key = ch.appKey

CountedUnrolled(a, delta) == [a EXCEPT !.spentToday = @ + delta]  \* mutant

\* The account after _recognize counts delta into the (rolled) day.
Counted(a, delta) == [Rolled(a) EXCEPT !.spentToday = @ + delta]

PaidOutOnTop(u, worker, amount) ==                               \* mutant
    Moved(Moved(u, Pot, worker, amount), Pot, FeeVault, Fee(amount))

\* _pay's token transfers, for the amount earned - paid.
PaidOut(u, worker, amount) ==
    Moved(Moved(u, Pot, worker, amount - Fee(amount)),
          Pot, FeeVault, Fee(amount))

----------------------------------------------------------------------------
(* External functions.                                                      *)

\* deposit and depositWithPermit.  Approvals live in the token and are given.
Deposit(client, amount, maxPerJob, maxPerDay, key) ==
    /\ amount # 0
    /\ CanMove(client, amount)
    /\ usdc' = Moved(usdc, client, Pot, amount)
    /\ accounts' = [accounts EXCEPT ![client] =
                       Credited(@, amount, maxPerJob, maxPerDay, key)]
    /\ UNCHANGED <<now, channels>>

WithdrawAll(client) ==
    LET amount == accounts[client].balance
    IN  /\ CanMove(Pot, amount)
        /\ usdc' = Moved(usdc, Pot, client, amount)
        /\ accounts' = [accounts EXCEPT ![client].balance = 0,
                                        ![client].appKey = NoKey]
        /\ UNCHANGED <<now, channels>>

SetLimits(client, maxPerJob, maxPerDay, key) ==
    /\ accounts' = [accounts EXCEPT ![client] = Limited(@, maxPerJob, maxPerDay, key)]
    /\ UNCHANGED <<now, channels, usdc>>

\* reserve, posted by anyone with a reserve ticket signed by key.
Reserve(client, worker, maxAmount, deadline, key) ==
    LET a     == accounts[client]
        ch    == channels[<<client, worker>>]
        extra == maxAmount - ch.reserved
    IN  /\ deadline > now
        /\ a.appKey # NoKey
        /\ key = a.appKey
        /\ ch.appKey \in {NoKey, a.appKey}
        /\ maxAmount > ch.reserved
        /\ a.balance >= extra
        /\ accounts' = [accounts EXCEPT ![client].balance = @ - extra]
        /\ channels' = [channels EXCEPT ![<<client, worker>>] =
                           Reserved(@, a, maxAmount, deadline)]
        /\ UNCHANGED <<now, usdc>>

\* commit: record a spend ticket as earned, without paying.
Commit(client, worker, cumulative, deadline, key) ==
    LET delta == cumulative - channels[<<client, worker>>].earned
    IN  /\ Recognizable(client, worker, cumulative, deadline, key)
        /\ accounts' = [accounts EXCEPT ![client] = Counted(@, delta)]
        /\ channels' = [channels EXCEPT ![<<client, worker>>].earned = cumulative]
        /\ UNCHANGED <<now, usdc>>

\* settle: _recognize, then _pay everything earned and not yet paid.
Settle(client, worker, cumulative, deadline, key) ==
    LET ch     == channels[<<client, worker>>]
        amount == cumulative - ch.paid
    IN  /\ Recognizable(client, worker, cumulative, deadline, key)
        /\ cumulative > ch.paid
        /\ CanMove(Pot, amount)
        /\ accounts' = [accounts EXCEPT ![client] =
                           Counted(@, cumulative - ch.earned)]
        /\ channels' = [channels EXCEPT ![<<client, worker>>].earned = cumulative,
                                        ![<<client, worker>>].paid = cumulative]
        /\ usdc' = PaidOut(usdc, worker, amount)
        /\ now' = now

Collect(client, worker) ==
    LET ch     == channels[<<client, worker>>]
        amount == ch.earned - ch.paid
    IN  /\ ch.earned > ch.paid
        /\ CanMove(Pot, amount)
        /\ channels' = [channels EXCEPT ![<<client, worker>>].paid = ch.earned]
        /\ usdc' = PaidOut(usdc, worker, amount)
        /\ UNCHANGED <<now, accounts>>

RequestClose(client, worker) ==
    LET ch == channels[<<client, worker>>]
    IN  /\ ch.appKey # NoKey
        /\ ch.reserved > ch.earned
        /\ channels' = [channels EXCEPT ![<<client, worker>>].closeAt = now + Grace]
        /\ UNCHANGED <<now, accounts, usdc>>

Requested(ch) == ch.closeAt # 0                                  \* mutant
TimedOut(ch) == ch.closeAt # 0 /\ now >= ch.closeAt
Lapsed(ch) == ch.deadline # 0 /\ now > ch.deadline

CloseForgetsOwed(client, worker) ==                              \* mutant
    LET ch == channels[<<client, worker>>]
    IN  /\ ch.appKey # NoKey
        /\ TimedOut(ch) \/ Lapsed(ch)
        /\ accounts' = [accounts EXCEPT ![client].balance =
                           @ + (ch.reserved - ch.paid)]
        /\ channels' = [channels EXCEPT ![<<client, worker>>].reserved = ch.paid]
        /\ UNCHANGED <<now, usdc>>

\* close, callable by anyone.
Close(client, worker) ==
    LET ch == channels[<<client, worker>>]
    IN  /\ ch.appKey # NoKey
        /\ TimedOut(ch) \/ Lapsed(ch)
        /\ accounts' = [accounts EXCEPT ![client].balance =
                           @ + (ch.reserved - ch.earned)]
        /\ channels' = [channels EXCEPT ![<<client, worker>>] =
              [@ EXCEPT !.reserved = ch.earned, !.closeAt = 0,
                        !.maxPerJob = 0, !.maxPerDay = 0]]
        /\ UNCHANGED <<now, usdc>>

Tick == /\ now < Horizon
        /\ now' = now + 1
        /\ UNCHANGED <<accounts, channels, usdc>>

----------------------------------------------------------------------------
\* Steps only the client's wallet can take.
WalletStep(c) ==
    \/ \E amount \in Deposits, j \in JobLimits, d \in DayLimits, k \in AppKeys \cup {NoKey} :
          Deposit(c, amount, j, d, k)
    \/ WithdrawAll(c)
    \/ \E j \in JobLimits, d \in DayLimits, k \in AppKeys \cup {NoKey} :
          SetLimits(c, j, d, k)
    \/ \E w \in Workers : RequestClose(c, w)

\* Steps anyone can take, with a ticket or without.
ReserveStep(c, w) ==
    \E m \in Cumulatives, d \in Deadlines, k \in AppKeys : Reserve(c, w, m, d, k)

SpendStep(c, w) ==
    \E m \in Cumulatives, d \in Deadlines, k \in AppKeys :
        Commit(c, w, m, d, k) \/ Settle(c, w, m, d, k)

Next ==
    \/ \E c \in Clients : WalletStep(c)
    \/ \E c \in Clients, w \in Workers :
          \/ ReserveStep(c, w)
          \/ SpendStep(c, w)
          \/ Collect(c, w)
          \/ Close(c, w)
    \/ Tick

Spec == Init /\ [][Next]_vars

----------------------------------------------------------------------------
(* Properties.                                                              *)

Balances == [c \in Clients |-> accounts[c].balance]
\* locked(): what still sits in the pot for each pair.
Locked == [p \in Pairs |-> channels[p].reserved - channels[p].paid]
\* What the pot ever paid out of each client's channel with w, fee included.
PaidTo(w) == [c \in Clients |-> channels[<<c, w>>].paid]

\* Every variable has the shape of its declaration in the contract.
TypeOK ==
    /\ now \in Nat \ {0}
    /\ accounts \in [Clients -> Account]
    /\ channels \in [Pairs -> Channel]
    /\ usdc \in [Holders -> Nat]

\* What was paid was earned and what is earned was locked, in every channel
\* and through every order of reserve, commit, settle, collect and close: the
\* checked subtractions of close, _recognize and _pay can never revert.
LedgerOrder ==
    \A p \in Pairs : /\ channels[p].paid <= channels[p].earned
                     /\ channels[p].earned <= channels[p].reserved

\* The pot holds exactly the free balances and the locks: no _push can fail,
\* and withdrawAll of one client never spends what is locked for a worker or
\* what belongs to another client.
Solvent == usdc[Pot] = Total(Clients, Balances) + Total(Pairs, Locked)

\* A lock that is not earned yet can come back to its client: its channel has
\* a key, which requestClose and close demand, and a deadline that passes.
NoTrappedLock ==
    \A p \in Pairs :
        channels[p].reserved > channels[p].earned =>
            channels[p].appKey # NoKey /\ channels[p].deadline # 0

\* A worker that is paid nothing else has received at least its 90 % of all
\* that was ever paid from its channels, however the payments were split.
WorkerShare ==
    \A w \in Workers \ (Clients \cup {FeeVault}) :
        10000 * usdc[w] >= (10000 - FeeBps) * Total(Clients, PaidTo(w))

\* A client that always set a per-day cap is never billed more than the
\* highest it set within one accounting day, over all its workers and through
\* closes, which zero the channel's cap (zero is "no cap" in _recognize).
DayCapBinds ==
    0 \notin DayLimits =>
        \A c \in Clients : accounts[c].spentToday = 0
            \/ \E d \in DayLimits : accounts[c].spentToday <= d

\* Nothing the client's wallet does alone takes a good ticket from a worker:
\* no deposit, withdrawal, limit change or close request makes a ticket that
\* would settle now be refused.
TicketsSurvive ==
    \A c \in Clients, w \in Workers, m \in Cumulatives, d \in Deadlines, k \in AppKeys :
        Recognizable(c, w, m, d, k) => Recognizable(c, w, m, d, k)'

WalletKeepsTickets == [][(\E c \in Clients : WalletStep(c)) => TicketsSurvive]_vars

\* The caps comment of reserve: between closes a channel's caps only rise, so
\* posting a reserve ticket cannot make a ticket that would settle be refused.
ReserveKeepsTickets ==
    [][(\E c \in Clients, w \in Workers : ReserveStep(c, w)) => TicketsSurvive]_vars

----------------------------------------------------------------------------
(* The pot implements the escrow it promises.                               *)

\* The first moment close would be accepted; zero when nothing is locked yet.
HeldUntil(ch) ==
    IF ch.closeAt # 0 /\ ch.closeAt <= ch.deadline THEN ch.closeAt
    ELSE IF ch.deadline # 0 THEN ch.deadline + 1 ELSE 0

E == INSTANCE Escrow WITH
        Notice    <- Grace,
        clock     <- now,
        free      <- Balances,
        unspent   <- [p \in Pairs |-> channels[p].reserved - channels[p].earned],
        owed      <- [p \in Pairs |-> channels[p].earned - channels[p].paid],
        delivered <- [p \in Pairs |-> channels[p].paid],
        heldUntil <- [p \in Pairs |-> HeldUntil(channels[p])]

\* The pot is an escrow: whatever is signed, posted, replayed or withdrawn,
\* a lock only turns into the worker's earnings or returns after its hold, a
\* client's notice never cuts the hold below grace, and earnings only ever
\* turn into payment.
ImplementsEscrow == E!ESpec
============================================================================
