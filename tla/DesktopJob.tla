----------------------------- MODULE DesktopJob -----------------------------
(***************************************************************************)
(* A chat or picture job of the desktop app, from submit to its last row:  *)
(* the job task of apps/desktop/src-tauri/src/jobs.rs, the transports of   *)
(* net.rs and p2p.rs under it, the rows of store.rs and the files of       *)
(* results.rs, and the commands that stop and delete (commands.rs).        *)
(*                                                                         *)
(* The provider is any honest worker (WorkerJob): it answers or fails, may *)
(* ask for a top-up, bills when it is priced, obeys a cancel, and may stop *)
(* answering at any point.  The wallet (ClientPot) is seen only as the     *)
(* lock a job holds.                                                       *)
(***************************************************************************)
EXTENDS Integers, Sequences, FiniteSets

CONSTANTS
    Jobs, Pictures,     \* the jobs, and those that draw
    Peers, Priced,      \* the providers, and those that charge
    NoPeer, Contents, NoContent,
    MaxQueue            \* messages a transport may be ahead of its job task

ASSUME DesktopAssumption ==
    Pictures \subseteq Jobs /\ Priced \subseteq Peers
    /\ NoPeer \notin Peers /\ NoContent \notin Contents /\ MaxQueue \in Nat \ {0}

VARIABLES
    row,        \* jobs table: status and provider, "gone" when there is none
    task,       \* the spawned task of each job
    wire,       \* the transport of its current attempt
    sink,       \* messages on their way from the transport to the task
    provider,   \* what the provider does for this attempt
    lock,       \* the wallet's entry: none, held, paid
    stopAsked,  \* the stop flag of track_job
    chat,       \* whether the job's conversation is still there
    result, files, replies,     \* results table, download folder, messages
    erasing,    \* a delete between its file and its rows
    shown       \* history: the providers whose words reached the user

store == <<chat, result, files, replies, erasing>>
vars == <<row, task, wire, sink, provider, lock, stopAsked, store, shown>>

NoTask == [at |-> "idle", peer |-> NoPeer, next |-> <<>>, spoke |-> FALSE,
           terminal |-> FALSE, metered |-> FALSE]
NoWire == [at |-> "off", asked |-> FALSE, result |-> FALSE, why |-> FALSE, failed |-> FALSE]
NoRow == [status |-> "gone", peer |-> NoPeer]

Init ==
    /\ row = [j \in Jobs |-> NoRow] /\ task = [j \in Jobs |-> NoTask]
    /\ wire = [j \in Jobs |-> NoWire] /\ sink = [j \in Jobs |-> <<>>]
    /\ provider = [j \in Jobs |-> "none"] /\ lock = [j \in Jobs |-> "none"]
    /\ stopAsked = [j \in Jobs |-> FALSE]
    /\ chat = [j \in Jobs |-> TRUE] /\ result = [j \in Jobs |-> NoContent]
    /\ files = {} /\ replies = [j \in Jobs |-> 0] /\ erasing = [j \in Jobs |-> FALSE]
    /\ shown = [j \in Jobs |-> {}]

Open == {"queued", "running"}
Priceful(j) == task[j].peer \in Priced

\* update_job_status: whatever the row said before; no row, no effect.
Status(j, s) ==
    row' = IF row[j].status = "gone" THEN row ELSE [row EXCEPT ![j].status = s]

\* fail: the lock is abandoned and the row says failed.
Fail(j) == Status(j, "failed") /\ lock' = [lock EXCEPT ![j] = "none"]

-----------------------------------------------------------------------------
(* The job task *)

\* submit: the row, the fallbacks in order, and the task that will try them.
Submit(j) ==
    /\ task[j].at = "idle" /\ row[j].status = "gone"
    /\ \E p \in Peers :
         \E next \in {<<>>} \cup {<<q>> : q \in Peers \ {p}} :
           /\ row' = [row EXCEPT ![j] = [status |-> "queued", peer |-> p]]
           /\ task' = [task EXCEPT ![j] = [NoTask EXCEPT !.at = "attempt", !.peer = p,
                                                        !.next = next]]
    /\ UNCHANGED <<wire, sink, provider, lock, stopAsked, store, shown>>

\* attempt, up to the spawned transport: an address that cannot be used is
\* nothing, a lock that cannot be issued is the job's failure.
Attempt(j) ==
    /\ task[j].at = "attempt"
    /\ \/ /\ task' = [task EXCEPT ![j].at = "nothing"]
          /\ UNCHANGED <<row, wire, lock>>
       \/ /\ Priceful(j)
          /\ Fail(j)
          /\ task' = [task EXCEPT ![j].at = "over"]
          /\ UNCHANGED wire
       \/ /\ lock' = IF Priceful(j) THEN [lock EXCEPT ![j] = "held"] ELSE lock
          /\ task' = [task EXCEPT ![j].at = "stream", ![j].spoke = FALSE,
                                  ![j].terminal = FALSE, ![j].metered = FALSE]
          /\ wire' = [wire EXCEPT ![j] = [NoWire EXCEPT !.at = "connect"]]
          /\ UNCHANGED row
    /\ UNCHANGED <<sink, provider, stopAsked, store, shown>>


\* The attempt produced nothing: its transport is aborted and its messages go.
Dropped(j) ==
    /\ task' = [task EXCEPT ![j].at = "nothing"]
    /\ wire' = [wire EXCEPT ![j] = NoWire] /\ sink' = [sink EXCEPT ![j] = <<>>]
    /\ provider' = [provider EXCEPT ![j] = "none"]

Message(j) == Head(sink[j])
Taken(j) == sink' = [sink EXCEPT ![j] = Tail(@)]
Has(j, m) == task[j].at = "stream" /\ sink[j] # <<>> /\ Message(j).type = m
Silent(j) == ~task[j].spoke

TakeDelta(j) ==
    /\ Has(j, "delta") /\ Taken(j)
    /\ task' = [task EXCEPT ![j].spoke = TRUE]
    /\ shown' = [shown EXCEPT ![j] = @ \cup {task[j].peer}]
    /\ UNCHANGED <<row, wire, provider, lock, stopAsked, store>>

TakeRunning(j) ==
    /\ Has(j, "running") /\ Taken(j)
    /\ Status(j, "running")
    /\ UNCHANGED <<task, wire, provider, lock, stopAsked, store, shown>>

\* A failure before a word is the provider's; after one it is the job's.
TakeFailed(j) ==
    /\ Has(j, "failed")
    /\ IF Silent(j)
         THEN Dropped(j) /\ UNCHANGED row
         ELSE /\ Taken(j) /\ Status(j, "failed")
              /\ task' = [task EXCEPT ![j].terminal = TRUE]
              /\ UNCHANGED <<wire, provider>>
    /\ UNCHANGED <<lock, stopAsked, store, shown>>

TakeDone(j) ==
    /\ Has(j, "done") /\ Taken(j)
    /\ Status(j, "done")
    /\ task' = [task EXCEPT ![j].terminal = TRUE]
    /\ UNCHANGED <<wire, provider, lock, stopAsked, store, shown>>

\* pay_invoice: a job without its lock cannot pay, and a top-up is refused.
\* The transport's next step is to write the ticket to the peer.
TakeInvoice(j) ==
    /\ Has(j, "invoice") /\ Taken(j)
    /\ \/ /\ lock[j] = "held" /\ ~Message(j).topUp
          /\ lock' = [lock EXCEPT ![j] = "paid"]
          /\ IF wire[j].at \in {"select", "busy", "writes"}
               THEN /\ provider' = [provider EXCEPT ![j] = "paid"]
                    /\ wire' = [wire EXCEPT ![j].at = "writes"]
                    /\ UNCHANGED <<row, task>>
               ELSE Status(j, "failed") /\ task' = [task EXCEPT ![j].terminal = TRUE]
                    /\ UNCHANGED <<wire, provider>>
       \/ /\ Fail(j) /\ task' = [task EXCEPT ![j].terminal = TRUE]
          /\ UNCHANGED <<wire, provider>>
    /\ UNCHANGED <<stopAsked, store, shown>>

\* apply_message of a result: the bytes are hashed and kept, the row is done,
\* and the reply is filed unless the job has lost its row.  A chat that is gone
\* under a job that is not refuses the reply, and the job fails.
Answered(j) ==
    /\ files' = IF j \in Pictures THEN files \cup {Message(j).content} ELSE files
    /\ result' = [result EXCEPT ![j] = Message(j).content]
    /\ shown' = [shown EXCEPT ![j] = @ \cup {task[j].peer}]
    /\ task' = [task EXCEPT ![j].terminal = TRUE, ![j].metered = TRUE]
    /\ IF row[j].status = "gone" \/ chat[j]
         THEN /\ replies' = IF row[j].status = "gone" THEN replies
                            ELSE [replies EXCEPT ![j] = @ + 1]
              /\ Status(j, "done") /\ UNCHANGED lock
         ELSE Fail(j) /\ UNCHANGED replies

TakeResult(j) ==
    /\ Has(j, "result")
    /\ IF Message(j).content = NoContent /\ Silent(j) /\ j \notin Pictures
         THEN Dropped(j) /\ UNCHANGED <<row, lock, store, shown>>
         ELSE /\ Taken(j)
              /\ \/ Message(j).content # NoContent /\ Answered(j)
                 \/ /\ Message(j).content = NoContent
                    /\ Fail(j) /\ task' = [task EXCEPT ![j].terminal = TRUE, ![j].metered = TRUE]
                    /\ UNCHANGED <<files, result, replies, shown>>
              /\ UNCHANGED <<wire, provider, chat, erasing>>
    /\ UNCHANGED stopAsked

EndIgnoringOpen(j) ==                                           \* mutant
    /\ task[j].at = "stream" /\ sink[j] = <<>> /\ wire[j].at = "closed"
    /\ task' = [task EXCEPT ![j].at = "over"]
    /\ lock' = [lock EXCEPT ![j] = "none"]
    /\ UNCHANGED <<row, wire, sink, provider, stopAsked, store, shown>>

EndRetryingAll(j) ==                                            \* mutant
    /\ task[j].at = "stream" /\ sink[j] = <<>> /\ wire[j].at = "closed"
    /\ IF ~task[j].terminal /\ (wire[j].failed \/ row[j].status \in Open)
         THEN Dropped(j) /\ UNCHANGED <<row, lock>>
         ELSE /\ task' = [task EXCEPT ![j].at = "over"] /\ lock' = [lock EXCEPT ![j] = "none"]
              /\ UNCHANGED <<row, wire, sink, provider>>
    /\ UNCHANGED <<stopAsked, store, shown>>

\* The stream is over.  Without a verdict a silent provider gave nothing and
\* any other failed the job; settle_job then drops the lock, paid or charged.
EndStream(j) ==
    /\ task[j].at = "stream" /\ sink[j] = <<>> /\ wire[j].at = "closed"
    /\ LET open == ~task[j].terminal /\ (wire[j].failed \/ row[j].status \in Open) IN
       IF open /\ Silent(j)
         THEN Dropped(j) /\ UNCHANGED <<row, lock>>
         ELSE /\ IF open THEN Status(j, "failed") ELSE UNCHANGED row
              /\ lock' = [lock EXCEPT ![j] = "none"]
              /\ task' = [task EXCEPT ![j].at = "over"]
              /\ UNCHANGED <<wire, sink, provider>>
    /\ UNCHANGED <<stopAsked, store, shown>>

RetryKeepingLock(j) ==                                          \* mutant
    /\ task[j].at = "nothing"
    /\ IF stopAsked[j] \/ task[j].next = <<>>
         THEN Status(j, "failed") /\ task' = [task EXCEPT ![j].at = "over"]
         ELSE /\ task' = [task EXCEPT ![j].at = "attempt", ![j].peer = Head(task[j].next),
                                      ![j].next = Tail(@)]
              /\ row' = IF row[j].status = "gone" THEN row
                        ELSE [row EXCEPT ![j] = [status |-> "queued", peer |-> Head(task[j].next)]]
    /\ UNCHANGED <<wire, sink, provider, lock, stopAsked, store, shown>>

\* The next provider gets the job, back to queued, unless Stop was pressed or
\* there is none.
Retry(j) ==
    /\ task[j].at = "nothing"
    /\ lock' = [lock EXCEPT ![j] = "none"]
    /\ IF stopAsked[j] \/ task[j].next = <<>>
         THEN Status(j, "failed") /\ task' = [task EXCEPT ![j].at = "over"]
         ELSE /\ task' = [task EXCEPT ![j].at = "attempt", ![j].peer = Head(task[j].next),
                                      ![j].next = Tail(@)]
              /\ row' = IF row[j].status = "gone" THEN row
                        ELSE [row EXCEPT ![j] = [status |-> "queued", peer |-> Head(task[j].next)]]
    /\ UNCHANGED <<wire, sink, provider, stopAsked, store, shown>>

-----------------------------------------------------------------------------
(* The transport: run_job *)

\* Connected, and writing the hello and the submit; or not within the timeout.
Connect(j) ==
    /\ wire[j].at = "connect"
    /\ \/ /\ wire' = [wire EXCEPT ![j].at = "writes"]
          /\ provider' = [provider EXCEPT ![j] = "runs"]
       \/ wire' = [wire EXCEPT ![j].at = "closed", ![j].failed = TRUE] /\ UNCHANGED provider
    /\ UNCHANGED <<row, task, sink, lock, stopAsked, store, shown>>

\* The loop comes back to its select and waits for a stop again: after a
\* message it passed on, or a frame the peer has accepted.
Select(j) ==
    /\ wire[j].at \in {"busy", "writes"}
    /\ wire' = [wire EXCEPT ![j].at = "select"]
    /\ UNCHANGED <<row, task, sink, provider, lock, stopAsked, store, shown>>

\* stop_job: the flag stays, the notification reaches only a waiting select,
\* which writes the cancel, once.
Stop(j) ==
    /\ task[j].at \notin {"idle", "over"} /\ ~stopAsked[j]
    /\ stopAsked' = [stopAsked EXCEPT ![j] = TRUE]
    /\ IF wire[j].at = "select"
         THEN /\ wire' = [wire EXCEPT ![j].asked = TRUE, ![j].at = "writes"]
              /\ provider' = [provider EXCEPT ![j] = IF @ = "runs" THEN "stopped" ELSE @]
         ELSE UNCHANGED <<wire, provider>>
    /\ UNCHANGED <<row, task, sink, lock, store, shown>>

\* A run that ends without a result or a reported failure is an error.
Hangs(j) ==
    wire' = [wire EXCEPT ![j].at = "closed", ![j].failed = ~wire[j].result /\ ~wire[j].why]

\* The transport passes on what the provider says, and closes on a verdict.
Relay(j, m, stage) ==
    /\ wire[j].at = "select" /\ Len(sink[j]) < MaxQueue
    /\ sink' = [sink EXCEPT ![j] = Append(@, m)]
    /\ provider' = [provider EXCEPT ![j] = stage]
    /\ wire' = [wire EXCEPT
         ![j].at = IF m.type \in {"failed", "done"} THEN "closed" ELSE "busy",
         ![j].result = @ \/ m.type = "result", ![j].why = @ \/ m.type = "failed",
         ![j].failed = m.type = "done" /\ ~wire[j].result]
    /\ UNCHANGED <<row, task, lock, stopAsked, store, shown>>

Says(type) == [type |-> type, content |-> NoContent, topUp |-> FALSE]

\* An honest worker (server.rs): progress and tokens, perhaps a top-up, then a
\* result, its bill and done; or a failure.
Speaks(j) ==
    \/ /\ provider[j] = "runs"
       /\ \/ \E t \in {"running", "delta"} : Relay(j, Says(t), "runs")
          \/ Priceful(j) /\ Relay(j, [Says("invoice") EXCEPT !.topUp = TRUE], "asked")
    \/ provider[j] \in {"runs", "stopped"} /\ Relay(j, Says("failed"), "none")
    \/ /\ provider[j] \in {"runs", "asked"}
       /\ \E c \in Contents \cup {NoContent} :
            Relay(j, [Says("result") EXCEPT !.content = c], "answered")
    \/ provider[j] = "answered" /\ Priceful(j) /\ Relay(j, Says("invoice"), "billed")
    \/ provider[j] = "answered" /\ ~Priceful(j) /\ Relay(j, Says("done"), "none")
    \/ provider[j] \in {"billed", "paid"} /\ Relay(j, Says("done"), "none")

\* The peer closes, or nothing comes before the deadline of the job's kind.
HangUp(j) ==
    /\ wire[j].at = "select" /\ Hangs(j)
    /\ provider' = [provider EXCEPT ![j] = "none"]
    /\ UNCHANGED <<row, task, sink, lock, stopAsked, store, shown>>
TimesOut(j) ==
    /\ wire[j].at = "select"
    /\ wire' = [wire EXCEPT ![j].at = "closed", ![j].failed = TRUE]
    /\ provider' = [provider EXCEPT ![j] = "none"]
    /\ UNCHANGED <<row, task, sink, lock, stopAsked, store, shown>>

-----------------------------------------------------------------------------
(* Deleting, and the app itself *)

\* erase_result: the bytes first ...
Erase(j) ==
    /\ ~erasing[j] /\ row[j].status # "gone"
    /\ files' = files \ {result[j]}
    /\ erasing' = [erasing EXCEPT ![j] = TRUE]
    /\ UNCHANGED <<row, task, wire, sink, provider, lock, stopAsked, shown, chat, result, replies>>

\* ... then the rows, and with delete_conversation the chat.
DeleteRows(j) ==
    /\ erasing[j]
    /\ erasing' = [erasing EXCEPT ![j] = FALSE]
    /\ row' = [row EXCEPT ![j] = NoRow] /\ result' = [result EXCEPT ![j] = NoContent]
    /\ replies' = [replies EXCEPT ![j] = 0]
    /\ chat' \in {chat, [chat EXCEPT ![j] = FALSE]}
    /\ UNCHANGED <<task, wire, sink, provider, lock, stopAsked, files, shown>>

\* The app quits or crashes; at the next start what was open is failed.
Restart ==
    /\ task' = [j \in Jobs |-> IF task[j].at = "idle" THEN NoTask
                               ELSE [NoTask EXCEPT !.at = "lost"]]
    /\ row' = [j \in Jobs |-> IF row[j].status \in Open
                              THEN [row[j] EXCEPT !.status = "failed"] ELSE row[j]]
    /\ wire' = [j \in Jobs |-> NoWire] /\ sink' = [j \in Jobs |-> <<>>]
    /\ provider' = [j \in Jobs |-> "none"] /\ lock' = [j \in Jobs |-> "none"]
    /\ stopAsked' = [j \in Jobs |-> FALSE]
    /\ erasing' = [j \in Jobs |-> FALSE]
    /\ UNCHANGED <<chat, result, files, replies, shown>>

TakeStep(j) ==
    \/ TakeDelta(j) \/ TakeRunning(j) \/ TakeFailed(j) \/ TakeDone(j)
    \/ TakeInvoice(j) \/ TakeResult(j) \/ EndStream(j)
TaskStep(j) == Attempt(j) \/ TakeStep(j) \/ Retry(j)
WireStep(j) == Connect(j) \/ Select(j) \/ Speaks(j) \/ HangUp(j) \/ TimesOut(j)

Next ==
    \/ \E j \in Jobs : Submit(j) \/ TaskStep(j) \/ WireStep(j) \/ Stop(j)
                       \/ Erase(j) \/ DeleteRows(j)
    \/ Restart

Spec == Init /\ [][Next]_vars

\* The wallet's chain client has no timeout.  It is read before a priced
\* attempt (status, issue_ticket), to pay a bill (pay_invoice), and to adopt a
\* total a provider refused the lock for (adopt_authorised).
AwaitsChain(j) ==
    \/ task[j].at = "attempt" /\ Priceful(j)
    \/ Has(j, "invoice") /\ lock[j] = "held"
    \/ Has(j, "failed") /\ lock[j] # "none" /\ Silent(j)

\* Nor has a write to the peer.
AwaitsPeer(j) == wire[j].at = "writes"

\* The runtime runs every task that can run, and a connection and a job have
\* deadlines: CONNECT_TIMEOUT, JOB_TIMEOUT and VIDEO_JOB_TIMEOUT.  A read of the
\* chain and a write to the peer are owed nothing.
FairSpec ==
    Spec /\ \A j \in Jobs : /\ WF_vars(~AwaitsChain(j) /\ TaskStep(j))
                            /\ WF_vars(Connect(j))
                            /\ WF_vars(~AwaitsPeer(j) /\ Select(j))
                            /\ SF_vars(TimesOut(j))

-----------------------------------------------------------------------------
(* Rows, tasks and transports are where the code can put them (store.rs       *)
(* JobRecord, jobs.rs attempt, net.rs run_job), and a transport only runs     *)
(* under a task that reads it.                                                *)
TypeOK ==
    /\ row \in [Jobs -> [status : Open \cup {"gone", "done", "failed"}, peer : Peers \cup {NoPeer}]]
    /\ \A j \in Jobs :
         /\ task[j].at \in {"idle", "attempt", "stream", "nothing", "over", "lost"}
         /\ wire[j].at \in {"off", "connect", "writes", "busy", "select", "closed"}
         /\ wire[j].at # "off" => task[j].at \in {"stream", "over"}
         /\ Len(sink[j]) <= MaxQueue
    /\ lock \in [Jobs -> {"none", "held", "paid"}] /\ files \subseteq Contents

(* "A failure before the first token is reported as Nothing ... without the   *)
(* user ever seeing a spinner turn into an error and back" (jobs.rs attempt): *)
(* the user hears one provider, and it is the one the row names.              *)
OneVoice ==
    \A j \in Jobs : row[j].status # "gone" => shown[j] \subseteq {row[j].peer}

(* A row that says queued or running has a task that will give it a verdict   *)
(* (jobs.rs "a spinner nobody will resolve", store.rs fail_orphaned_jobs).     *)
OpenRowHasTask ==
    \A j \in Jobs : row[j].status \in Open => task[j].at \in {"attempt", "stream", "nothing"}

(* "Whatever was locked for that provider is let go" (jobs.rs submit): a lock  *)
(* in the wallet belongs to the stream of the current attempt.                *)
LockHasStream ==
    \A j \in Jobs : lock[j] = "held" => task[j].at \in {"stream", "nothing"}

(* A reply is filed once, with its result, and goes with it (jobs.rs           *)
(* file_reply, store.rs delete_result).                                       *)
ReplyOnce == \A j \in Jobs : replies[j] <= 1 /\ (replies[j] = 1 => result[j] # NoContent)

(* Every job gets its verdict, or is deleted, or waits where no deadline       *)
(* reaches: on the chain, or on a peer that does not read.  From every other   *)
(* state, whatever the provider does, an open row goes on (jobs.rs submit).   *)
JobsSettle ==
    \A j \in Jobs : row[j].status \in Open
                       ~> row[j].status \notin Open \/ AwaitsChain(j) \/ AwaitsPeer(j)

(* "Registered before the job starts, so a Stop click ... still has something  *)
(* to notify" (jobs.rs submit): a run that waits on its provider after Stop    *)
(* was pressed has asked it to stop.                                          *)
StopHeard == \A j \in Jobs : stopAsked[j] /\ wire[j].at = "select" => wire[j].asked

(* "Anything this conversation drew goes with it" (commands.rs                *)
(* delete_conversation): a file on disk is some result's.                     *)
NoOrphanPicture == files \subseteq {result[j] : j \in {k \in Jobs : row[k].status # "gone"}}
=============================================================================
