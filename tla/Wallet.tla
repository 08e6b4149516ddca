------------------------------- MODULE Wallet -------------------------------
(***************************************************************************)
(* The desktop's view of its pot (pot.rs): whose balance the wallet screen *)
(* shows while reads fail and the deposit page switches wallets, and the   *)
(* scan that copies the pot's Settled events into the local ledger slice   *)
(* by slice.  A figure is known by the wallet it was read for.             *)
(***************************************************************************)
EXTENDS Integers, Sequences, FiniteSets, FiniteSetsExt

CONSTANTS Wallets, Payouts, Screens, Scanners,
          Bonds,        \* totals of the bonds of stopped replies
          MaxBlock,     \* blocks mined
          Span,         \* blocks asked for at once (SPAN)
          MaxSwitches,  \* wallets picked and deposits noted
          MaxReads      \* status calls begun

ASSUME WalletAssumption == Span \in Nat \ {0}

VARIABLES
    picked,     \* pot-selected-client: <<>> or <<wallet>>
    deposits,   \* the deposits table: [client, block]
    memo,       \* status_memo: <<>> or <<a status, and whether it is fresh>>
    calls,      \* status() calls under way, by screen; <<>> when none
    shown,      \* shown[s]: the last status a screen was given
    switches, reads,
    block,      \* the chain's head
    mined,      \* Settled events: [client, payout, total, block]
    cursor,     \* settle_scan_block: <<>> or <<block>>
    scans,      \* sync_settlements calls under way, by scanner; <<>> when none
    ledger,     \* the settlements table: indices of mined
    spends,     \* replies stopped before their bill: [client, payout, total, charged]
    scanned     \* history: the wallets scanned for, the block the first scan began at

showVars == <<memo, calls, shown, reads>>
scanVars == <<block, mined, cursor, scans, ledger, spends, scanned>>
walletVars == <<picked, deposits, switches, showVars, scanVars>>

Nobody == <<>>
NoStatus == [client |-> Nobody, balance |-> Nobody, reserved |-> Nobody]

(************************* which wallet is shown ***************************)
\* set_selected_client: naming the wallet already selected changes nothing.
PickWallet(w) ==
    /\ switches < MaxSwitches
    /\ picked # <<w>>
    /\ picked' = <<w>> /\ memo' = <<>>
    /\ switches' = switches + 1
    /\ UNCHANGED <<deposits, calls, shown, reads, scanVars>>

\* save_deposit, record_deposit: the deposit page saw a deposit confirmed.
NoteDeposit(w) ==
    /\ switches < MaxSwitches
    /\ deposits' = Append(deposits, [client |-> w, block |-> block])
    /\ switches' = switches + 1
    /\ UNCHANGED <<picked, showVars, scanVars>>

LastDepositClient == IF deposits = <<>> THEN Nobody ELSE <<deposits[Len(deposits)].client>>
SelectionMoved(client) == picked # Nobody /\ picked # client

\* find_client: the newest Deposited event with this app's key, if it can be read.
Found == {Nobody} \cup {<<w>> : w \in Wallets}

\* The deposit page's wallet, else the last deposit's, else the last one shown,
\* else whatever the pot's own events name (find_client).
Resolved(last) ==
    IF picked # Nobody THEN {picked}
    ELSE IF LastDepositClient # Nobody THEN {LastDepositClient}
    ELSE IF last # <<>> /\ last[1].client # Nobody THEN {last[1].client}
    ELSE Found

\* status begins: a fresh memo of the wallet in force is the answer.
StatusMemo(s) ==
    /\ calls[s] = <<>> /\ memo # <<>>
    /\ memo[1].fresh /\ ~SelectionMoved(memo[1].client)
    /\ shown' = [shown EXCEPT ![s] = [client |-> memo[1].client, balance |-> memo[1].balance,
                                      reserved |-> memo[1].reserved]]
    /\ UNCHANGED <<picked, deposits, switches, memo, calls, reads, scanVars>>

StatusBegin(s) ==
    /\ calls[s] = <<>> /\ reads < MaxReads
    /\ ~(memo # <<>> /\ memo[1].fresh /\ ~SelectionMoved(memo[1].client))
    /\ \E c \in Resolved(memo) :
           calls' = [calls EXCEPT ![s] = <<[client |-> c, last |-> memo, balance |-> <<>>]>>]
    /\ reads' = reads + 1
    /\ UNCHANGED <<picked, deposits, switches, memo, shown, scanVars>>

\* A failed read carries the last figure, if it was the same wallet's.
CarriedAnyway(call, figure) == \* mutant: the filter on the wallet is gone
    IF call.last # <<>> THEN call.last[1][figure] ELSE Nobody
Carried(call, figure) ==
    IF call.last # <<>> /\ call.last[1].client = call.client
    THEN call.last[1][figure] ELSE Nobody

\* account: read for the wallet resolved, nothing when the answer is short, or
\* carried; sum_locked: one failed channel makes the sum fail, and it is carried.
Readings(call) ==
    IF call.client = Nobody THEN {Nobody}
    ELSE {call.client, Nobody, Carried(call, "balance")}
LockReadings(call) ==
    IF call.client = Nobody THEN {Nobody} ELSE {call.client, Carried(call, "reserved")}

StatusBalance(s) ==
    /\ calls[s] # <<>> /\ calls[s][1].balance = <<>>
    /\ \E b \in Readings(calls[s][1]) :
           calls' = [calls EXCEPT ![s] = <<[calls[s][1] EXCEPT !.balance = <<b>>]>>]
    /\ UNCHANGED <<picked, deposits, switches, memo, shown, reads, scanVars>>

\* The answer is kept for the next three seconds if the chain was reached and
\* the deposit page has not moved on meanwhile.
StatusEnd(s) ==
    /\ calls[s] # <<>> /\ calls[s][1].balance # <<>>
    /\ \E r \in LockReadings(calls[s][1]), reachable \in BOOLEAN :
           LET call == calls[s][1]
               st == [client |-> call.client, balance |-> call.balance[1], reserved |-> r]
           IN  /\ shown' = [shown EXCEPT ![s] = st]
               /\ memo' = IF reachable /\ ~SelectionMoved(st.client)
                          THEN <<[client |-> st.client, balance |-> st.balance,
                                  reserved |-> r, fresh |-> TRUE]>>
                          ELSE memo
    /\ calls' = [calls EXCEPT ![s] = <<>>]
    /\ UNCHANGED <<picked, deposits, switches, reads, scanVars>>

MemoAges ==
    /\ memo # <<>> /\ memo[1].fresh
    /\ memo' = <<[memo[1] EXCEPT !.fresh = FALSE]>>
    /\ UNCHANGED <<picked, deposits, switches, calls, shown, reads, scanVars>>

(**************************** the settle scan ******************************)
\* The chain: a worker collects a total from one wallet's channel.
Mine ==
    /\ block < MaxBlock
    /\ block' = block + 1
    /\ \/ mined' = mined
       \/ \E w \in Wallets, p \in Payouts :
              mined' = Append(mined, [client |-> w, payout |-> p,
                                      total |-> Len(mined) + 1, block |-> block'])
    /\ UNCHANGED <<picked, deposits, switches, showVars, cursor, scans, ledger, spends, scanned>>

\* settlement_scan_from: where the last scan stopped, else the first deposit.
ScanFrom ==
    IF cursor # <<>> THEN cursor[1]
    ELSE LET known == {deposits[i].block : i \in DOMAIN deposits} \ {0}
         IN  IF known = {} THEN 1 ELSE Min(known)

\* status() inside the scan: the selected wallet, else the last deposit's.
Client == IF picked # Nobody THEN picked ELSE LastDepositClient

ScanStarts(s) ==
    /\ scans[s] = <<>> /\ Client # Nobody /\ ScanFrom <= block
    /\ scans' = [scans EXCEPT ![s] =
                     <<[from |-> ScanFrom, head |-> block, client |-> Client[1], found |-> 0]>>]
    /\ scanned' = [wallets |-> scanned.wallets \cup {Client[1]},
                   origin |-> IF cursor = <<>> THEN Max({ScanFrom, scanned.origin})
                             ELSE scanned.origin]
    /\ UNCHANGED <<picked, deposits, switches, showVars, block, mined, cursor, ledger, spends>>

Matching(scan, to) ==
    {i \in DOMAIN mined : /\ mined[i].client = scan.client
                          /\ mined[i].block \in scan.from..to}
\* record_settlement, keyed by the transaction: storing it again changes nothing.
WithEvents(events) == ledger \cup events

SliceEnd(scan) == Min({scan.from + Span - 1, scan.head})
NextFromHead(scan) == scan.head + 1 \* mutant: the cursor is set once, at the first slice
NextFrom(scan) == SliceEnd(scan) + 1

\* One slice: its events are stored one by one, then the cursor moves.
ScanSlice(s) ==
    /\ scans[s] # <<>> /\ scans[s][1].from <= scans[s][1].head
    /\ LET scan == scans[s][1]
           hits == Matching(scan, SliceEnd(scan))
       IN  /\ ledger' = WithEvents(hits)
           /\ cursor' = <<NextFrom(scan)>>
           /\ scans' = [scans EXCEPT ![s] = <<[scan EXCEPT !.from = SliceEnd(scan) + 1,
                                                          !.found = @ + Cardinality(hits)]>>]
    /\ UNCHANGED <<picked, deposits, switches, showVars, block, mined, spends, scanned>>

\* A read or a write of the slice fails, or the app ends: some events are stored.
ScanBreaks(s) ==
    /\ scans[s] # <<>> /\ scans[s][1].from <= scans[s][1].head
    /\ \E kept \in SUBSET Matching(scans[s][1], SliceEnd(scans[s][1])) :
           ledger' = WithEvents(kept)
    /\ scans' = [scans EXCEPT ![s] = <<>>]
    /\ UNCHANGED <<picked, deposits, switches, showVars, block, mined, cursor, spends, scanned>>

\* resolve_abandoned, when the scan found anything: a settle of exactly the
\* bond's total on that payout is what the stopped reply cost.
Resolve(x) ==
    [x EXCEPT !.charged = @ \/ \E i \in ledger : /\ mined[i].payout = x.payout
                                                  /\ mined[i].total = x.total]
ScanEnds(s) ==
    /\ scans[s] # <<>> /\ scans[s][1].from > scans[s][1].head
    /\ spends' = IF scans[s][1].found > 0 THEN {Resolve(x) : x \in spends} ELSE spends
    /\ scans' = [scans EXCEPT ![s] = <<>>]
    /\ UNCHANGED <<picked, deposits, switches, showVars, block, mined, cursor, ledger, scanned>>

WalletInit ==
    /\ picked = Nobody /\ deposits = <<>> /\ memo = <<>>
    /\ calls = [s \in Screens |-> <<>>] /\ shown = [s \in Screens |-> NoStatus]
    /\ switches = 0 /\ reads = 0 /\ block = 0 /\ mined = <<>> /\ cursor = <<>>
    /\ scans = [s \in Scanners |-> <<>>] /\ ledger = {}
    /\ spends \in {{}} \cup {{[client |-> w, payout |-> p, total |-> t, charged |-> FALSE]} :
                              w \in Wallets, p \in Payouts, t \in Bonds}
    /\ scanned = [wallets |-> {}, origin |-> 0]

\* The screens and the scan meet in the wallet that is selected.
ShowNext ==
    \/ \E w \in Wallets : PickWallet(w) \/ NoteDeposit(w)
    \/ \E s \in Screens : StatusMemo(s) \/ StatusBegin(s) \/ StatusBalance(s) \/ StatusEnd(s)
    \/ MemoAges

ScanNext ==
    \/ \E w \in Wallets : PickWallet(w) \/ NoteDeposit(w)
    \/ Mine
    \/ \E s \in Scanners : ScanStarts(s) \/ ScanSlice(s) \/ ScanBreaks(s) \/ ScanEnds(s)

WalletNext == ShowNext \/ ScanNext
WalletSpec == WalletInit /\ [][WalletNext]_walletVars

(****************************** properties *********************************)
\* Whatever reads fail and however the deposit page switches wallets under them,
\* a figure on a screen, read, carried or remembered, is that of the wallet named
\* beside it: never another's balance, never another's lock.
ShownIsTheWallets ==
    \A s \in Screens : /\ shown[s].balance \in {Nobody, shown[s].client}
                       /\ shown[s].reserved \in {Nobody, shown[s].client}

\* As long as one wallet has been scanned for, no settle of it below the cursor is
\* missing from the ledger, whatever scan broke off, overlapped or ran late.
ScanMissesNothing ==
    \A i \in DOMAIN mined :
        (/\ cursor # <<>> /\ mined[i].block \in scanned.origin..(cursor[1] - 1)
         /\ scanned.wallets = {mined[i].client}) => i \in ledger

\* The same with no proviso.  TLC refutes it: the cursor is one for all wallets,
\* so a wallet selected after another is scanned from where that one's scan was.
EveryWalletScanned ==
    \A i \in DOMAIN mined :
        (cursor # <<>> /\ mined[i].block < cursor[1] /\ mined[i].block >= scanned.origin
            /\ mined[i].client \in scanned.wallets) => i \in ledger

\* store.rs:1030: "a settle of exactly a reply's bond ticket means the worker kept
\* the prepaid chunk".  TLC refutes it: the ledger does not say whose channel it is.
ChargedByItsChannel ==
    \A x \in spends : x.charged =>
        \E i \in ledger : mined[i].payout = x.payout /\ mined[i].total = x.total
                          /\ mined[i].client = x.client
=============================================================================
