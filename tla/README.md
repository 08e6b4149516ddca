# A TLA+ model of Rootmode

Rootmode is a market for GPU work. A desktop app sends jobs to workers over a
peer-to-peer link; the app's owner deposits USDC in a contract, the *pot*, and
pays workers with signed cumulative tickets. These modules model what moves money,
what holds a job's life at both ends, what carries words and pictures between an
outside tool and a model, and how a worker is found. TLC checks them on small
instances, and TLAPS proves for every value of the constants the safety properties
that the passing runs check. All paths below are relative to the repository's root.

## 1. The system

### Components

| Component | Source | State it keeps | Operations |
|---|---|---|---|
| Pot contract | `contracts/src/RootmodePot.vy` | account per client (free balance, caps, day counter, app key); channel per client and worker (reserved, earned, paid, deadline, closeAt, key, caps); the USDC it holds | deposit, withdrawAll, setLimits, reserve, commit, settle, collect, requestClose, close |
| Worker jobs | `crates/rootmode-worker/src/server.rs` | in-flight and GPU permits; per job: cancellation, bond, awaited pay; per task: budget, channels between run and forwarder | job.submit, job.pay, job.cancel; admission, run, forwarding, top-up, capture |
| Worker ledger | `crates/rootmode-worker/src/channels.rs` | per channel: authorised, settled, newest ticket; a JSON file | accept_spend, accept, redeemable, mark_settled, load, save |
| Worker settlement | `server.rs`, `chain.rs` | none of its own | settle after a job, settle_due, worth_settling |
| Chat backend | `backends/vllm.rs` | the completion being read: text, calls, what was streamed | prepare messages, post, read frames, salvage calls from markup |
| Picture backend | `backends/comfyui.rs` | what ComfyUI lists; per checkpoint: how it renders, and whether it does | discover, route, render and retry, retire |
| Model registry, reselling | `backends/{mod,openrouter}.rs` | the models announced; the upstream catalogue | refresh, announce, price, bill |
| Statistics | `stats.rs`, `services/stats` | a meter; the collector's tables | drain, report, restore; collect, heartbeat, snapshot, chart |
| Payments and protocol | `crates/rootmode-core/src/{payments,protocol,job,tokens}.rs` | none | prices, charges, budgets, ticket digests, message shapes |
| Identity, encoding | `crates/rootmode-core/src/{identity,canonical,keyfile,hash}.rs` | a key file | sign, verify, canonical JSON |
| Desktop pot ledger | `apps/desktop/src-tauri/src/pot.rs` | newest ticket per channel (`latest`, on disk), pending jobs, a gate | issue_ticket, pay_invoice, settle_job, adopt_authorised, abandon_job, persist, restore |
| Desktop job manager | `jobs.rs`, `net.rs`, `store.rs` | jobs and their status, a stop set, connections | submit with fallbacks, attempt, stop, fail_orphaned_jobs |
| Desktop wallet | `pot.rs`, `store.rs` | selected wallet, deposits, a remembered status; copied settlements with a cursor | status, sync_settlements, resolve_abandoned |
| Desktop routing | `routing.rs`, `store.rs`, `commands.rs` | the table of peers | sweep, probe, prune; choice of a provider and its fallbacks |
| Desktop gateway | `gateway/*.rs` | open HTTP requests, a live stream each | translate a conversation, submit with fallbacks, stream the answer |
| Connected tools | `connected_tools.rs` | the tools' own config files, copies of them | connect, disconnect, rotate the token |
| Peer-to-peer node | `crates/rootmode-p2p/src` | relay slots, told addresses, announced keys, local peers | dial, listen, announce, republish, watch, restart |
| Other contracts | `RootmodeChannels.vy`, `FeeVault.vy`, `MockUSDC.vy` | sessions; vault settings; token balances | legacy; buyback; transfer |
| UI, site, deployment | `apps/desktop/src`, `apps/web`, `deploy`, `docker` | none that matters here | presentation, packaging |

### How they interact

    wallet --deposit, setLimits, withdrawAll, requestClose--> pot contract
    desktop pot ledger --ReserveTicket--> anyone --reserve--> pot contract
    desktop job manager --job.submit{payer, bond}--> worker jobs
    worker jobs --reserved, earned?--> pot contract     (ensure_lock)
    worker jobs <--tokens-- backend;  --job.delta--> desktop
    worker jobs --job.invoice{top_up?}--> desktop pot ledger --job.pay--> worker jobs
    worker jobs --accept_spend--> worker ledger --settle--> pot contract
    desktop wallet --Settled events, balances--> pot contract
    outside tool --HTTP--> desktop gateway --job.submit--> worker jobs
    routing --reads--> table of peers <--writes-- sweeps, probes
    worker --listens, provides--> relays, DHT <--finds-- desktop
    worker --report--> statistics collector

Three ledgers count the same cumulative: the client's (`latest`), the worker's
(`authorised`) and the contract's (`earned`). A ticket says only a cumulative
total, a deadline and the channel: what it is *for* is the difference to
somebody's ledger at the moment somebody looks. Most of what is hard in this
system comes from that.

### What is hard, and what makes each part correct

- **Pot contract.** Anyone may post any ticket, late, twice or out of order, while
  the wallet changes keys and caps and withdraws. Correct: every channel keeps
  paid <= earned <= reserved; the USDC held is balances plus locks; a ticket that
  is good stays good against everything the wallet does; a lock always returns or
  is earned; the worker's share and the day cap hold over any split.
- **Worker jobs.** A run and its forwarder are two tasks that meet over four
  channels; a cancel, a pay, a timeout and the backend race; several jobs of one
  client share one ledger. Correct: every submitted job ends, with one terminal
  status that comes last; nothing unpaid is streamed; a stop stops; a signature
  pays for one job; a silent client still pays the bond.
- **Worker ledger and settlement.** A restart between two steps; a settle that
  waits to be worth its gas while the deadline runs. Correct: the ledger survives
  with every banked ticket; a banked ticket is settled before it expires.
- **Desktop pot ledger.** Reads of the chain before a lock and used after it, one
  cache written by issue, pay, settle and adopt. Correct: the app never signs a
  cumulative that is lower than one it signed, never signs more than the job's
  ceilings, and does not lose a signature to a crash.
- **Desktop job manager.** Fallbacks, stop, delete, restart, and messages of a
  provider that was given up. Correct: the user hears one provider, every row gets
  a verdict, every lock belongs to a stream that runs.
- **Gateway.** Deltas cut inside a thinking tag, a tool that hangs up, a provider
  that fails after it answered. Correct: frames nest, the words are the answer, the
  bill of a finished job is paid, a tool that waits is answered.
- **Chat backend.** Frames cut anywhere, calls interleaved by index or written as
  markup. Correct: every text and call of the request reaches the server once, and
  every one of the answer reaches the client.
- **Picture backend.** Files that move while jobs run, and shapes learnt from
  errors. Correct: a picture is made with the weights and the VAE that were asked.
- **Prices.** One price worked out on three machines, with their own rounding.
  Correct: an honest node's bill is accepted.
- **Statistics, wallet screens, connected tools.** A window in flight, reads that
  fail while the wallet changes, files others edit. Correct: charts add up, a figure
  is that of the wallet named beside it, a disconnect undoes a connect.
- **Routing and the table of peers.** Sweeps and probes write what they read earlier,
  between the tries of a request. Correct: a retry is not dearer than the offer.
- **Peer-to-peer node.** Connections, reservations and the end of listeners are told
  in any order. Correct: a connected relay is asked, addresses told follow the ones
  bound, records of what is no longer served age out.

`PROJECT.json` lists 40 hazards of this code, each at its line, with the
properties that cover it.

## 2. The modules

| Module | Kind | Content |
|---|---|---|
| `Coins` | helper | a total over a finite set, as the size of a set of coins, so that theorems can use it |
| `RootmodePot` | component | the contract, every external function |
| `Escrow` | abstract | what a pot promises a client and a worker |
| `WorkerJob` | component | the jobs of a worker and the ledger channel they are paid on |
| `ClientPot` | component | the desktop app's ledger of one channel, with its file and its spend rows |
| `Settlement` | composition | the workers of one payout, their ledgers, files, sweeps and transactions, over `RootmodePot` |
| `DesktopJob` | component | a job of the app, its transports, rows and files |
| `Gateway` | component | a request of an outside tool, from routing to its last frame |
| `ChatTurns` | component | a conversation from a tool's dialect to the server's messages |
| `ChatBackend` | component | a completion from frames to a result |
| `Market` | component | a price from an upstream catalogue to a bill |
| `ImageBackend` | component | a node's picture models on a ComfyUI whose files change |
| `Statistics` | component | finished jobs, downloads and installs from counters to charts |
| `ConnectedTools` | component | the config files of coding tools |
| `Wallet` | component | the wallet screens and the settlement scan |
| `PeerBook` | component | the table of peers and the requests routed by it |
| `Node` | component | a worker's relays, addresses, DHT records and local peers |
| `MCRootmodePot`, `MCWorkerJob`, `MCClientPot`, `MCSettlement`, `MCDesktopJob`, `MCGateway` | TLC | symmetry sets and inputs |
| `MCParts` | TLC | the nine modules from `ChatTurns` to `Node`, side by side: each behaviour is about one |
| `CoinTheorems` | proofs | totals change by what one term changes; least and greatest numbers; sequences joined |
| `RootmodePotProofs` | proofs | the pot's inductive invariant and safety; the pot implements the escrow |
| `WorkerProofs` | proofs | `WorkerJob`, `ChatBackend`, `ChatTurns` and `Statistics`, a section each |
| `ClientPotProofs` | proofs | the app's inductive invariant: disjoint bills, what may lower the cache, what an adopted total ensures |
| `SettlementProofs` | proofs | what the nodes of a payout mark, keep and lose |
| `DesktopJobProofs` | proofs | one provider heard, one lock per stream |
| `GatewayProofs` | proofs | bills that outlive the tool that hung up, frames that nest, words told as they were promised |
| `PartsProofs` | proofs | `Node`, `Market`, `Wallet`, `PeerBook`, `ConnectedTools` and `ImageBackend`, a section each |

### RootmodePot

Variables: `now` (block.timestamp), `accounts`, `channels` (the contract's two
maps, field by field) and `usdc` (the token's balances). One action per external
function: Deposit (both entries), WithdrawAll, SetLimits, Reserve, Commit, Settle,
Collect, RequestClose, Close, and Tick for time. Internal functions are operators:
`_credit` is Credited, `_rollDay` Rolled, `_recognize` Recognizable and Counted,
`_pay` PaidOut. A ticket is its fields and the key that signed it, and every
ticket any app key could sign is an input of every step. So replays, reordering,
tickets signed for an old limit and tickets nobody honest would sign are all
included, and what is shown needs nothing from the two ends. Not in the model:
uint256 overflow (the contract's arithmetic reverts), the recovery of a signature,
events.

### Escrow

What a reader needs to know of the pot: free money, money on hold for a worker,
money owed and money delivered, a clock and the moment until which a hold stands.
A hold grows from free money, turns into a debt only before its end, returns to
free only after it, and a notice cannot cut it shorter than the notice period.
`RootmodePot` maps onto it with `free <- balances`, `unspent <- reserved - earned`,
`owed <- earned - paid`, `delivered <- paid`, `heldUntil <-` the first moment
`close` would be accepted. `ImplementsEscrow` is that refinement.

### WorkerJob

`job[j]` is one record per job: `pc` names the await its task is at; the other
fields are what the worker, its forwarder and the maps of `Worker` hold of the
job. `ledger` is the channel's `authorised`. A step is the code between two
awaits, so every interleaving tokio may choose is explored, the two biased selects
excepted, which are modelled with their bias.

| `pc` | Code | Awaits |
|---|---|---|
| admit, lock | handle_submit_cancellable up to the permit, take_bond, ensure_lock | the chain |
| queued | `permits.acquire` against `stop` | a permit |
| running | the run's select: stop, a need, the backend | any |
| topup | request_top_up | stop, job.pay, 5 s |
| drain | `forwarder.await` | the forwarder |
| capture | capture_chunk | job.pay, 30 s |
| settle | settle_if_configured | the chain |

Details kept because properties depend on them: `notify_waiters` reaches only who
waits (Listening); the stop of request_top_up is consumed by it; pays nobody waits
for are dropped; a bond's delta is taken against the ledger at admission and used
after the run; a bond's entry leaves `pending_bonds` only at the end of a
successful run or when the lock is refused; the forwarder's select ends on
whichever channel is seen closed first; the backend may produce and finish in
one poll, before a stop or a need that came meanwhile is looked at.

Abstractions: a token costs one micro and the prompt `Prompt` micros, so a budget
in tokens and in micros is one number (`AuthorizedTokens`); a job is priced or
free; a signature that does not verify is a refused job; the chain is one
nondeterministic answer per question (`ChainEarned`); all jobs pay from one
channel, where the interference is; job ids are distinct; the backend sets no
price floor; deltas are one token each.

### ClientPot

Variables: `latest` (the cached cumulative), `file` (what pot-pending.json
restores, or Torn while it is being written), `job` (each job's call: where it is,
the total it read, the amount it signs, its bond), `spends` (the table of
store.rs), outside the app `given` (the tickets nodes hold) and `earned` (the
channel on the chain), and `lowered`, a history variable: whether a lower ticket
ever replaced the cached one.

| Code | Actions | Where another call may come between |
|---|---|---|
| issue_ticket | Issue, IssueFails, Bond, Bonded | between the read of the channel and the gate |
| pay_invoice | Pay, PayFails, SignBill, BillSaved | nowhere: the gate is held from the read on; the chain moves |
| settle_job | SettleJob, SettleNothing, SettleFails, SignCharge, ChargeSaved | as pay_invoice |
| adopt_authorised | Adopt, AdoptSign, Adopted | between the comparison and the gate |
| abandon_job | Abandon | |
| restore, boot | Restart | anywhere, between the start of a write and its end included |

The gate is not a variable: a call holds it in the phases of `Holding`. A node may
post any ticket it was given that is above the chain's total (SettleTicket), and a
refusal names the total of a ticket that can make this bond too small (Ahead).
Abstractions: every job's cap and bond are `Need`; the reserve a job is issued
with, and whether the pot covers it, are the choice between Bond and IssueFails;
amounts are chosen within the bounds the code checks; one payer, payout and pot;
flush_worker does nothing in the code and is left out; a top-up is always refused
because the ceiling of a job is its cap from the start, so it is no step. A node is
free to settle a bond whose job was billed, more than a worker of this repository
does; the theorems hold even then. `Metered`, `Refused` and `Retried` say which
jobs the environment surprises. sync_settlements and resolve_abandoned, which
read the chain's settlements into the table, are in `Wallet`.

### Settlement

Instantiates the contract as `Chain`, so that a settle succeeds or reverts by the
contract's own code. Each node keeps `ledger` (in memory) and `file`; a job ends
with a ticket on top of all the client signed before (SignBill), which its node
banks (Bank) or refuses because a later one came first (Refuse). A settle is one
`call`, of the job that ended or of the node's sweeper, through worth_settling
(Weigh), the second look at the chain (Check), the nonce and the send (Post,
PostFails), and the receipt (Mined, GivesUp, MinedLate). Restart reads the file.
Around them a client that reserves, gives notice and closes. Time passes when
every node has swept and nothing is in flight, which is the sweep's minute against
deadlines of days; a fault of the environment (a send, a receipt given up, a write)
lifts that. A read of the channel may fail at any time: the code then settles.

### DesktopJob

| Part | Variable | Code | Actions |
|---|---|---|---|
| job task | `task`, `row` | jobs.rs submit, attempt and its message loop | Submit, Attempt, Take*, EndStream, Retry |
| transport | `wire`, `sink` | net.rs, p2p.rs run_job | Connect, Select, Relay, HangUp, TimesOut |
| wallet | `lock` | issue, pay, abandon as jobs.rs calls them | in the above |
| user | `stopAsked`, `chat` | stop, delete, start | Stop, Erase, DeleteRows, Restart |

The transport may be `MaxQueue` messages ahead of its task, so a stop, a result and
a hang-up cross. The provider does what an honest worker may (`WorkerJob`), and may
fall silent anywhere. A transport that writes (the submit, a cancel, a payment) is at
`writes` until the peer has accepted the frame, which it need not.

### Gateway

`loop` is submit's task, `wire` the transport, `worker` the provider's job, `live`
the LiveState of the stream and `frames` what the tool was sent, in the order of
its dialect. A text is a sequence of pieces in which half an opening tag is a piece
of its own, so that a delta may end inside one; `Peel` is peel_thinking. A provider
streams none, a part or all of its text before the result that has all of it: an older
worker sends no deltas, a refused top-up cuts them short (`server.rs:1130`; the app
refuses every one), and text after a block of markup is in the result only. Actions are
the code between two awaits of the loop (Route, Drive, LoopTakes, StreamEnds,
NextProvider), of the stream (StreamDelta, StreamResult, StreamFailed, Skips,
ChannelEnds), of the transport (Connect, Cancel, SendPay, Lost) and of the others
(WorkerSpeaks, Forfeits, HangUp).

### ChatTurns and ChatBackend

`ChatTurns` follows each text, call and result of a request, named by where it was
written, through into_chat of its dialect and prepare_messages and openai_messages
of the worker. An output with nothing in it is dropped by the OpenAI dialect only;
ToolsTravel says so. `ChatBackend` follows the frames of one completion, cut
anywhere, through the loop of run: fragments of calls by index, the tail of a frame
kept in the buffer, markup withheld from the stream, a call salvaged from it, and
the second request, with the limit under its other name.

### Market

Edit changes the upstream catalogue, Refresh and Announce carry it to the node and the
app at times of their own, Lock quotes and bonds, Admit, RunChat and RunClip work and
bill, Check is pay_invoice. A clip dearer than the cap of its channel is refused; on a
channel not yet opened (`fresh`) its bond is cut to the cap. `CeilTo`, `Charge` and the
clip SKUs keep the code's rounding. BillsAreAccepted excepts bills where the two ends
price the model differently, disagree on the bond, or upstream charged more than half
above its list; and those of a price that rounds to nothing: the node then bills one
micro, the app expects none and disputes it.

### ImageBackend

`box` is what ComfyUI reports and Operate moves its files; DiscoverModels rebuilds the
shelf. Every listing is asked for on its own and one that fails is empty (PartsRead),
and the templates are read one by one, those that fail skipped (TemplatesRead): a graph
is built from what was read, and remembers the diffusion models and templates that were.
A job (Ask, StartImage, StartClip, Rendered) goes through up to three attempts: the
graph it knows or the standard one, the split one it infers from the error, the split
one for the kind the error named. `Outcomes` says what rendering a graph does, from what
each checkpoint really is (`Made`); what the node believes (`shapes`, `kinds`,
`unservable`) is only what it learnt.

### Statistics, ConnectedTools, Wallet

`Statistics` follows each finished job through the meter, the window in flight and the
collector's rows, and beside them GitHub's counter and installs. In `ConnectedTools` a
file is the set of its settings and who wrote each; Connect and Disconnect write the
files of one tool in order and may fail between two of them, while PersonEdits and
RotateToken happen. `Wallet` interleaves the awaits of status (StatusBegin,
StatusBalance, StatusEnd, with the reading remembered for three seconds) and of
sync_settlements (ScanStarts, ScanSlice, ScanBreaks, ScanEnds) with a wallet being
picked. A figure is the wallet it was read for, so a wrong one is visible.

### PeerBook

`book` is the table of peers by endpoint. StartProbe, Look, Hear, Record and Write are a
probe's awaits, StartSweep, Insert and Prune a sweep's; See, Submit, Plan, Fetch, Try,
Retry and ToolAsks are a request that reads the table at each try. A menu is any
sequence of offers: where several of its names fit a model (`Several`), lookups take the
first. `since` and `blur` are history: the rows rewritten since the plan, and whether
the first provider's row was before it or lists several names that fit. A worker that
closes the stream without an announcement is recorded as online, as in the code; an
endpoint inserted twice at once ends the sweep with an error and no prune.

### Node

`links` and `slots` are libp2p's side, `reserved` the loop's own mark of a relay it
asked. Established, Disconnects, Refuses, Drops and CloseTold are swarm events in any
order, a listener's end told some time after it; Binds and Granted change the told
addresses, and withdraw the guesses (Withdrawn); Provide, Announce, Leave, Republish and
Period the DHT; Watchdog dials again when nobody is connected. `external` is what the
loop itself confirmed or withdrew; what libp2p's relay client does to it on its own is
outside. `stuck` remembers relays whose slot ended under a connection that stayed, which
nothing asks again.

## 3. The runs

| Run | Instance | Shows |
|---|---|---|
| pot | 1 client, 2 workers, 2 app keys, two days, job caps that may be zero | types, the shared day cap (DayCapBinds), the worker's share over any split, solvency of the shared USDC, ledger order, no trapped lock, the wallet cannot void a ticket, refinement of `Escrow` |
| worker_stream | 1 priced and 1 free job, one in flight | types, streaming within the bond, queued stop, terminal last |
| worker_ends | 2 jobs whose bond covers all tokens, fair | credits never exceed what is banked; every job ends, or waits on the chain |
| worker_hang | 1 job that may need a top-up, fair | **violated** JobsEnd: a job can wait for ever, on nobody |
| worker_silence | 2 priced jobs on one channel | **violated** SilencePaysBond: a bond overtaken by another job's ticket pays nothing |
| client_bills | 3 jobs, one of them refused, retried or billed by settle_job; crashes | types, disjoint bills, what may lower the cache, the next bond clears the adopted total |
| client_adopt | 3 jobs, all may be refused | **violated** NextTicketClears: a lower total overwrites a higher one |
| settle_fleet | 2 nodes of one payout, 2 jobs, 1 reserve, one fault | what is marked settled is earned; nothing banked and locked outlives its ticket; a notice cannot take back what was banked |
| desktop_jobs | 1 job, a priced and a free provider, fair | one voice, a lock has its stream; every row gets its verdict, or waits on the chain or on a peer that does not read |
| gateway_live | 1 request, 4 dialects, a priced and a free provider, fair | frames nest, the words told are the answer's, a hang-up pays the bill; a tool that waits is answered, or waits on the chain or on a provider that does not read |
| gateway_last | as gateway_live | **violated** AnswerIsLast: an answered request is tried again |
| parts | one module a behaviour | the eleven properties below |

| Property of `parts` | Module | Says |
|---|---|---|
| WordsInOrder | `ChatTurns` | every text of a request reaches the server once and in order |
| AnswerAsGenerated, StreamedIsAnswer | `ChatBackend` | a delivered result is what the server wrote; what was streamed is its start |
| BillsAreAccepted | `Market` | an honest bill is accepted |
| PictureAsAsked | `ImageBackend` | weights are those asked for, or like them where ComfyUI lists none of their name; the VAE is the one named by the template of their family, if that was read |
| ChartsAddUp | `Statistics` | no finished job missing or twice; rises add up |
| ShownIsTheWallets, ScanMissesNothing | `Wallet` | figures are the named wallet's; no settle below the cursor is missing |
| NoDearerThanOffered | `PeerBook` | a retry is not dearer than the offer, unless a row was rewritten or a name fits several offers |
| DisconnectUndoes | `ConnectedTools` | a disconnect leaves nothing of ours and touches nothing else |
| FoundWhereItIs | `Node` | slots, addresses, records and local peers follow the network |

### Bounds

The run of the contract uses `FeeBps = 1000` (the code's), a day of 2 and a grace of 1
units of time, tickets of 10 and 15 so that the fee and its rounding are exercised, and a
wallet that cannot fund everything at once. A job cap is absent (0) or 10, so that a rise
of 15 is refused under it; a day cap is always set, for DayCapBinds speaks of clients
that set one, and the theorems hold for any caps. Two workers share the day counter and
the USDC held; nothing relates three, and solvency is proved for any number of clients
and workers. Two keys are the old and the new one after a change; workers and keys are
each interchangeable, and the run's properties, all of safety, name none.
Three moments pass each of deadline, grace and day. Two jobs are enough for one to
overtake the other at every await; two tokens beyond the prompt give one inside and
one beyond the smallest budget, so a top-up is needed, refused, paid or late; tickets
2, 3, 5 are a bond, a rise of one and a rise of two. In the app's ledger a bill of 1
or 2 under a bond of 2 lets totals collide, pass each other or leave a gap; three
jobs let one sign between the two reads of another while a third's bond is settled;
`Cums` bounds how far a channel rises, two or three bonds.

In settle_fleet a bill of 1 is not worth a transaction (SettleMin 3) and one of 3 is; a
job cap of 4 is under the sum of two; three moments hold a ticket's life, the last day
before it ends and the grace. One job in desktop_jobs meets both providers, so a retry,
and a transport two messages ahead lets a stop cross a result and a bill; what two jobs
share (the wallet) is `ClientPot`. The instance is a chat; with a picture (`Pictures =
{j1}`) the same properties hold. The answers of gateway_live are a thought that never
closes, a thought before the answer and, with half a tag between two words, what is no
thought. With the one cut inside a tag these are the branches of peel_thinking; any part
of them may be streamed, in deltas of any length; one tool call opens a second item.

In parts: four turns of eight kinds put every pair of neighbours the folding looks at in
one conversation; three frames hold two calls interleaved or a tag cut in two; the
catalogues have a price of each rounding, free, cached and clips in each of the three
SKU dialects, with caps below and above them, and channels that are open or not;
ImageBackend moves once between four sets of files, one of which has no file of a
checkpoint's name, with two jobs so that what one learns the other uses; three jobs and
reports over five hours reach past a day of two; two screens, two scanners and two
wallets overlap every pair of awaits; four edits and two tokens; two workers, one of
them with both endpoints, one sweep or probe at a time, three changes of the network and
five menus, one of them with a name and its beginning; one relay and one stranger, a
public, a declared private and an empty address, a record of two periods and five
shifts. Section 4 proves all nine of these modules for any such sets and bounds. A part
that a behaviour is not about stays in one of its own initial states.

Deadlock is checked for the contract, the worker and the app's ledger (their `Over` or
clock steps are taken only at the end). In the other runs CHECK_DEADLOCK is FALSE:
a request or a job comes to its end, and the network's changes are bounded.

### Fairness

No call of the chain has a deadline: the worker's client (`chain.rs:451`) and the app's
(`pot.rs:2694`) are made without a timeout, and a write to a peer (`send` in `p2p.rs` and
`net.rs`) waits until the peer has taken it. So nothing is owed to a process that awaits
one: `AwaitsChain` and `AwaitsPeer` name those states, the fair steps exclude them, and the
three liveness properties say that a request, row or job goes on from every other state,
to its end or to one of those.

- `WorkerJob!FairSpec` assumes that each group of a job's own steps that stays enabled,
  outside `lock` and `settle`, is taken: tokio polls a ready task, `permits` is a fair
  queue, a run ends (the chat backends' clients have a timeout of the whole request,
  `vllm.rs:37`, `openrouter.rs:82`), and both waits for job.pay end by a timer. Nothing is
  assumed of the client. The jobs are chats: a render also waits for ComfyUI's progress
  socket to connect, which has no timeout (`comfyui.rs:1614`, `1959`). `worker_ends` limits
  the jobs to bonds that cover all tokens because of the hang that `worker_hang` shows.
- `DesktopJob!FairSpec`: weak fairness of the task's steps but where they read the chain,
  of connecting (which has a timeout) and of the transport's select but where it writes;
  strong fairness of TimesOut, for the job's deadline is a timer that a message
  interrupts and never resets. The provider, the user and deletes are free.
- `Gateway!FairSpec`: weak fairness of the loop but where it reads the chain, of the
  stream, of Lost (the transport's deadline) but where it writes, and of Forfeits (the
  worker's timer for a bill). Nothing of the provider or the user; of the tool, that while
  it waits it reads its stream. Connecting, with its first write, is owed nothing.

The other modules state safety only.

### What the violated runs found

1. worker_hang: a forwarder that asks for a top-up once the run loop has ended waits
   for ever: `need_rx` is alive until the function ends, and the function waits for
   the forwarder. The job keeps both permits and sends no terminal status
   (`server.rs:1195`).
2. client_adopt: adopt_authorised compares before the gate and overwrites after it: of
   two refused jobs the one with the lower total may store last, and the other's next
   bond is refused again (`pot.rs:1075`).
3. gateway_last: only a delta sets `spoke`. A result that is the answer (a tool call,
   or a worker that sends no deltas) reaches the tool without it; when the connection
   then fails before done, the request goes to the next provider with a second bond
   (`gateway/mod.rs:750`).
4. worker_silence: a bond's delta is taken at admission. When another job of the
   channel is banked before the first ends, the ledger has passed it: without a
   job.pay, bank_pay of the bond is refused and capture_chunk returns with nothing
   banked (`server.rs:1395`), where `docs/PROTOCOL.md:245` has the worker settle it.

### Statements that do not hold, and have no run

Some modules state what a comment promises although TLC refutes it when it is added to
their cfg; they are written down because the counterexample tells where the code and
its comment part:

| Statement | Why it fails |
|---|---|
| `WorkerJob!AllStreamPrepaid` | after the run the forwarder sends its remaining deltas without looking at the budget (`server.rs:1149`) |
| `WorkerJob!StoppedNeverRuns` | `job.cancel` during admission notifies nobody and is forgotten (`server.rs:950`) |
| `RootmodePot!ReserveKeepsTickets` | `reserve` treats a channel's zero day cap as unset, `_recognize` as no cap: a reserve lowers it (`RootmodePot.vy:229`). For a client that always sets a cap it is the theorem CappedReservesKeepTickets |
| `Settlement!NeverStranded` | two jobs share a nonce and one is refused, later totals rise by more than maxPerJob |
| `Settlement!WaitingLosesNothing` | the lock has a deadline of its own, which a deferral does not look at |
| `DesktopJob!StopHeard` | `notify_waiters` wakes only who waits: a Stop between two selects is lost |
| `DesktopJob!NoOrphanPicture` | a picture that arrives after its job was deleted is filed, and so is one whose row cannot be deleted |
| `Gateway!SplitTagDropped` | what was told is only counted (`emitted`): a delta that ends inside an opening tag is told with half the tag, the peeled text then shrinks, and the answer after the thought loses as much (`gateway/mod.rs:1106`; the comment at 955 says a split tag is dropped) |
| `Gateway!AnswerTold` | the frames that end an Anthropic or OpenAI stream write no text (`translate.rs:1165`, `1225`): what a provider did not stream, the whole or the rest, is not told. `docs/GATEWAY.md:106` calls the sequence complete |
| `ImageBackend!WeightsAsAsked` | where ComfyUI lists no diffusion model of the checkpoint's name, the split graph takes the one that shares most words with it (`comfyui.rs:686`); `backends/mod.rs:232` refuses to substitute weights |
| `ImageBackend!DecodedAsNamed` | a template that cannot be read is skipped, the default recipe names no VAE and any is used (`comfyui.rs:773`), where the comment at 755 wants an error |
| `ImageBackend!SavedRunsAsBuilt`, `StartIsKept` | a checkpoint known to be split is rendered by a split graph, whatever workflow was saved for it; a split graph and a clip do not begin from the picture |
| `Statistics!NeverTwice` | a report whose answer is lost is sent again and stored twice |
| `ConnectedTools!RemovesJustIts`, `BackupIsTheirs`, `HoldsTheToken` | Codex's model line stays ours, the person's own settings are removed; a file that connect creates is copied with the token in it; rotating the token leaves the tools with the old one |
| `Wallet!EveryWalletScanned`, `ChargedByItsChannel` | one cursor for all wallets; the copied settlements do not say whose channel they are |
| `PeerBook!RetryNeverDearer` | with no row rewritten: an endpoint lists a name at a price and a longer one for less, the retry is planned on the longer one and charged at the first that fits, the shorter (`jobs.rs:243`; `routing.rs:195` promises otherwise) |
| `PeerBook!NoStranger` | a typed and a found endpoint of one worker are two rows |
| `Node!AskedAgain` | a refused slot keeps its mark, and a relay that returns before its lost listener is told is not asked |
| `Node!DeclaredStays` | a declared private address that is also bound is withdrawn with the guesses |
| `Node!SeenIsLocal` | one expired address removes a peer that is still seen at another |
| `Node!CircuitsHeld` | a circuit that is lost is not withdrawn from the told addresses |

And these hold on the instances of the runs, without a place among their properties:
`DesktopJob!TypeOK`, `OpenRowHasTask`, `ReplyOnce`, `Gateway!TypeOK`, `OneVoice`,
`Settlement!TypeOK` (proved: SettlementTypeCorrect), `ChatTurns!OneSystemFirst` (proved:
InstructionsFirst), `ToolsTravel`, `ResultsNamed`, `Market!NoClipAtALoss`,
`ImageBackend!BundledStays`, `PeerBook!ForgetsOnlyTheDead`.

Seen while modelling and settled by reading:

- worker: entries of `pending_bonds` stay for jobs that were screened,
  stopped or failed; a second submit with a running job's id replaces its entries
  (`server.rs:921`); a refused top-up ends the app's lock, so the final bill is refused
  and the whole bond is banked;
- contract: withdrawAll clears the account's key while a channel keeps the old one
  (`RootmodePot.vy:221`);
- app's ledger: pot-pending.json is written in place, so a crash in a write loses the
  newest ticket until the chain or a refusal tells it again (LoweredOnlyBy names this
  as one of its two exceptions); settle_job bounds a bill by the account's cap and not
  by the job's bond; a job's ceiling is its cap from the start, so a top-up is always
  refused (`pot.rs:1133`); the gate is held over chain reads without a timeout
  (`pot.rs:2694`); bonds issued between two bills have the same total, and
  resolve_abandoned tells them apart by nothing else;
- app's jobs: a fallback's row replaces the one its job had (`store.rs:986`); a result
  that the app refuses, followed by done, leaves a row "done" without a result;
- chat: a body that ends cleanly before [DONE] is delivered as complete; a last frame
  without its newline is dropped; text between two blocks of markup is dropped;
- prices: the registry compares ids only, so a change of price is never announced
  (`mod.rs:176`); on a channel not yet opened, a cap below a picture's price bonds less
  than the price;
- pictures: a queued job whose file is removed resolves by prefix to other weights
  (the `had` of PictureAsAsked); a failure that was transient retires a
  model when it is met on its first split run;
- statistics: a window whose report cannot be signed, and the last one before a
  shutdown, are dropped; a node that lists more than 200 models is refused each time;
- wallet: resolve_abandoned runs only when the scan found something; an endpoint that
  lags lets the cursor pass settles not yet seen;
- connected tools: the shell's file is found anew at each call (`connected_tools.rs:815`),
  so a change of shell or a new `.zshrc` between the two leaves the old block (the
  module has one file);
- gateway: the listener's reconcile reads and acts without a lock (`mod.rs:196`).

## 4. The proofs

`TotalChange` (`CoinTheorems`): over any finite set, when one term changes the
total changes by as much. It is what solvency, coverage and the charts rest on, in place
of an induction over the set.

Every theorem is about the module's own specification with any values of its
constants that satisfy the module's named assumptions, which TLC evaluates on each run.
Bounds on the environment (moves, edits, shifts, reads) are constants like the others, so
nothing depends on how often it acts.

**Pot** (`RootmodePotProofs`). The inductive invariant is TypeOK, LedgerOrder,
Solvent, NoTrappedLock and what links them: a channel without key is empty, and a
lock has a deadline that was in the future when it was set. LedgerOrder alone is
not inductive without the guards `cumulative <= reserved` of `_recognize`, and
Solvent needs it for the subtraction in `close`. Proved from the named
assumptions of `RootmodePot` (finite clients and workers, a fee of at most
10000 basis points, the pot's address is nobody else's): TypeCorrect,
LedgerOrdered, PotSolvent, LocksReturn. Every action maps to a
step of `Escrow` or a stutter: PotImplementsEscrow.

What a ticket is worth rests on three more. TicketsOutliveTheWallet is an action
property: every call of the wallet leaves a channel's key, caps, reserve and earnings
and the client's day counter (TermsKept), which is all `_recognize` reads. DayCapsBind
is not inductive: a channel's zero cap means no cap, and `close` zeroes it. CapInv adds
CapsSet, that an account with a key and a channel with an unearned lock have a cap the
client did set. WorkersGetTheirShare is inductive next to IInv: the fee is rounded down
in each payment, so the worker's part is rounded up, and TotalChange over the clients
turns one payment into a rise of the total. CappedReservesKeepTickets says for clients
that always set a cap what the refuted ReserveKeepsTickets says for all.

**Worker** (`WorkerProofs`, with the next three). A step changes one job. `JobInv` is
what a job keeps: it is credited only at its end; before it runs it has streamed
nothing; the forwarder holds a token back while it asks; its budget and stream are
within what the bond covers; a stop in the queue stands. `Good(j)` says a step keeps it
and raises the ledger by at least what the job is credited; one lemma per group of
actions shows its steps good. With TotalChange this gives, for any finite set of jobs,
any tickets, budgets and limits: EarningsCovered, StreamsPrepaid, QueuedStops,
NothingAfterTerminal, JobsTypeCorrect.

**Completions.** ResultAsGenerated and StreamStartsResult speak of a result, which is
what all frames came to; the invariant (ReplyInv) says of every moment before what was read
so far is (Read). Told: while no frame was an error, the text is the contents of the frames,
and each call has the arguments of its own parts, in their order. Sent: a client was shown
the text up to its first opening tag, whole or in two halves, or up to and with the first
half, which went out before the second came. TellsOn and SentMore show that one frame more
keeps both, ReadAll that a chunk does, wherever the network cuts the frames; StrippedStarts
that stripping the markup at the end leaves what was shown. It assumes that a frame's tokens
are those the model tells apart, and nothing about their order.

**Conversations.** WordsArriveInOrder and InstructionsFirst follow the texts of a
conversation (Texts) through its stages. Each dialect writes a turn's texts in the order
AsWritten says (AnthropicTexts, OpenAiTexts, ResponsesTexts), and what a turn drops had
none. Folding is not order-preserving message by message, for an instruction may wait
for the user turn after it. FoldInv says what holds after k messages: the texts of what
is out, and then the text that waits, are the texts of the first k; a text waits only
before a turn that takes it; beyond the opening instructions there is none. Merge joins
the opening ones, so that one is left (MergeKeeps), and naming the results changes no
text. The worker folds what the gateway has folded, so the lemma is used twice. Turns,
their blocks and their number are any.

**Statistics.** NothingLostOrTwice: a finished job is in the meter, in the window in
flight or in a report; in two places only if an answer was lost, in none only if a
window was (PlacesInv). From that alone nothing follows for the chart, which counts:
SumInv adds that the chart's bars, the meter and the window in flight together are the
requests that ended. A report adds its requests to the bar of its day (BarGrows), a new
day adds an empty bar (TotalMore); ServedJoin is why a restored window may be joined
with what came since. For downloads, RisesAddUp: the rises of a counter that never
falls, each since the reading before it, add up to its rise, by the last reading before
each day. It assumes a day of at least one hour.

**App** (`ClientPotProofs`). Disjoint bills are not inductive: a bill is disjoint
because the total it was signed on was at least every earlier bill's when it was
read, and stays so until it is saved. The invariant says this of whoever holds the
gate (OneHolder, ReadsCache, SignsAbove), with CacheCovers for the bills of the
table and FileFollows for the restart. A lemma for each way of using the gate
(outside it, reading, signing, saving) carries the seventeen job actions. It holds
for any jobs, amounts, `Cums` and sets of surprised jobs, with adoptions and crashes
anywhere: ClientTypeCorrect, BillsDistinct (until the cache is lowered) and
CacheLoweredOnlyBy. AdoptedCleared needs that at most one job is refused: then the
total it adopted stays covered by the cache until its next bond is signed, because
a restart forgets every job that adopted one. `client_adopt` shows why two are too many.

**Settlement** (`SettlementProofs`). The contract is an instance, so the first lemmas
follow each of its functions for the one channel of the fleet: earnings only rise, time
stands still, a close is requested with the whole grace ahead (Onward). A mark alone is
not inductive: it is written by a call that looked at the chain some awaits before. So
the invariant places every call (CallsPlaced: its ticket is one its node holds or held,
the newest only with its own deadline), every job (JobsPlaced) and every mark in memory
and in the file (Marks: at most the newest ticket, at most what is earned).
MarksAreEarned follows, through crashes, failed sends and receipts given up. For
DeferralIsSafe the part Faultless says that while nothing has failed, the file is what
is in memory, and a node that swept has nothing to collect or a ticket with DueSoon left
and no notice of an earlier moment. NoticeIsEnough follows from the same part, provided
`Grace` is more than nothing.

**App's jobs** (`DesktopJobProofs`). A step changes one job (OnlyJob), so the invariant
is one formula per job. OneVoice is not inductive, because the words of a provider that
was given up may still be in the sink: Wired says what transport may run under what task
and that after a result it passes on neither a second one nor a failure, Metered that a
task which took a result has its verdict and no other is on its way, Voice that the row
names the provider of the current attempt and nobody was heard before its first word,
Held that a lock is held under a stream only. OneVoiceHeard and LocksHaveStreams hold
for any jobs, providers and contents and any lead of the transport.

**Gateway** (`GatewayProofs`). InvoicesOutliveTheTool: a tool that hangs up does not keep a
finished job's bill from being paid. A bill is out only while its transport stands
(BillIsHeard), which needs that a loop done with a provider has no transport left
(EndedIsDown) and that nothing that ends a stream unpaid is still unread when the bill comes
(NoEndBeforeBill, for the inbox holds one message).

ItemsNest: FramesNest is a condition on the whole sequence of frames, and is not inductive
for it does not say which item a delta may be written to. StreamInv adds where the items
stand after the last frame (Standing): how many were opened and which is open, if any; an
item is open exactly when `live.open` says so. Each group of frames (the start, a text, a
function call, the calls in turn, the stop) takes one standing to another, whatever was
there before; the calls by the least call that would not (LeastOne), as induction would.

ToldIsTheAnswers: a delta is peeled again from the first word and the tool is told what
is longer than before. PeelGrows says that this is sound: what was peeled of a text
stands when the text grows, unless it ends inside an opening tag. The rest is about
whose words they are. Up to the first result, the words read and those in the two queues
are one text cut at some places (Continues, Unread), which is a start of the worker's: a
provider that was given up was never heard (SpokeInv), and a stopped one says nothing
more than it has (SentInv). TellInv ends the argument: what the tool was told is what is
peeled of the words so far, and those are a start of the result, so by PeelGrows once
more it is a start of the answer, and all of it when nothing of the result was left. It
assumes that an answer is a sequence of the pieces the model tells apart (words, the two
halves of an opening tag, a closing tag), and nothing about which.

**Node** (`PartsProofs`, as all that follow). FoundWhereItIs is not inductive in three
of its four parts. A connected relay has a slot because it was marked when it was asked,
so SwarmInv adds MarksFollowSlots: a marked relay has a slot or is stuck. The told
addresses shrink to the public ones when the first is bound, so AddressInv adds
GuessesAreTold: what is remembered for withdrawal is exactly what was told for want of
better. A record ages out because what kad republishes is what was last provided, which
DhtInv adds (KeptIsProvided). The swarm, the addresses, the DHT and the local peers
share no variable, so each action has one part to prove and three frames. NodeInvariance
and NodeIsFound assume only that `Ttl` is a natural number: relays, addresses, keys and
shifts are any.

**Market.** HonestBillsAreAccepted rests on arithmetic with rounding (BillBounded and,
for clips, ClipBills). The invariant carries what the bill is compared with: a clip has
a shape and whatever costs something is locked for (LockedFor), and from the moment a
bill is drawn up it is within one and a half times the fair price and within the
ceiling, or is one of those that BillsAreAccepted excepts (BilledWithin). The catalogue,
both price lists and every count of tokens are any.

**Wallet.** FiguresKeepTheirWallet: a remembered reading and a call under way keep the
wallet they were begun for (MemoOwn, CallsOwn). ScansMissNothing: below the cursor every
settle of the wallet is stored. A scan raises the cursor at its end to the head it read
at its start, so the invariant follows the slices of each scan under way (BelowHead,
ScansNoted, StoredBelow); two scans at once may each store what the other needs. It
assumes a slice of at least one block.

**Table of peers.** RetriesKeepTheOffer: the fallbacks were chosen at submit, and the
row of each is read again at its try. The invariant says that an id is given once
(IdsAreRows), that a row no probe rewrote since the offer was read still holds the entry
the offer was made from (OfferStands), that a menu about to be tried lists an entry for
the model within the offer (TryWithin), and that every provider left to try was within
the offer when it was planned and its row, if not rewritten, still says so (PlanFits).
Menus are any: where one name only fits, the entry found is the one that was meant
(OneFits), and where several do, nothing is claimed, for the refuted RetryNeverDearer
shows that nothing could be. The first provider's row counts as well as the last one's, because fallbacks
bounds the plan by the price it reads there.

**Connected tools.** DisconnectsUndo is an action property; its invariant says that what
is ours in a file is on the list of what we set in it, which edits, deletions and
half-written connects keep. The lemma TakenOut compares, per tool, what a disconnect
removes with that list.

**Pictures.** PicturesAreAsAsked: a job that was for an installed model and renders
holds the file it was asked for and a graph that is the operator's own, the standard one
over that file, or a split one built from what was read of the box (GraphFor): over the
file, or over one named like it if the file was not among the diffusion models read
(TwinIsAlike), and, if the template of the graph's family was read and names a VAE, with
that one (VaeIsNamed). What ComfyUI answers can then only be the graph's weights; a
split graph is rendered only if its kind is the family of its weights. Reads may fail
anywhere; what a failed one costs is in the refuted WeightsAsAsked and DecodedAsNamed. It assumes that
a listed checkpoint has a name (FilesAreNamed).

Only model-checked: JobsEnd, JobsSettle and ToolHears are liveness, which the prover
does not reach. Every invariant and every action property of the runs that hold is a
theorem.

Where a proof needs an induction over data (a fold over messages, frames or parts, a sum
over days), the library's induction theorems cannot be used, for they take an operator.
`CoinTheorems` has EveryNumber instead: a set of numbers that holds 0, and with each
number the next, holds them all, from the well-foundedness of <. An invariant of the
loop is then the definition of such a set. What FlattenSeq joins is shown in the same
way (FlattenIs, FlattenMore, FlattenBoth).

## 5. The plan

Done: the contract and its escrow, a worker's jobs, the app's ledger, settlement over the
contract, the app's jobs, routing, the wallet, the tools, pictures, prices, the node and the
gateway, conversations, completions and statistics, with the proofs of section 4.
In order, what is left:

1. `Payment`: ClientPot and WorkerJob's payment steps over the contract, with an
   abstract specification of one paid job (bond, bill, receipt); several pots and
   payers in one file.
2. `RootmodeChannels` and `FeeVault`, the legacy contract and the buyback.
3. Duplicate job ids and the connection limit of the worker; lookups and framing of
   the node.

## 6. Not modelled

- Cryptography, encoding and the ABI: a ticket is its fields and its signer; integers
  are unbounded, for the contract reverts on overflow and saturation at 2^64 micros is
  beyond any balance of USDC.
- libp2p and the other libraries: the swarm, SQLite, tokio's scheduler and ComfyUI are
  what the code sees of them, with every order of events they allow.
- The wording and layout of frames, prompts and pages; the workflow editor's format
  (`uiformat.rs`); uploads and downloads of media.
- Worker configuration and screening: parsing of settings and word lists, without
  state of their own. A screened job is a refused one.
- The legacy channels contract and the fee vault: no component here calls them but
  for digests; they are in the plan.
- The user interface, the web site, packaging and deployment.
- In the shell: attachments, updates, the secure erasure of files; in the gateway:
  starting and stopping its listener and the list of models.

What is missing of each component is in the notes of `PROJECT.json`.
