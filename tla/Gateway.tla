------------------------------- MODULE Gateway -------------------------------
(***************************************************************************)
(* One request of an outside tool to the local endpoint of the desktop app *)
(* (apps/desktop/src-tauri/src/gateway/mod.rs): the loop of submit that    *)
(* tries one provider after another and pays for what they did, the live   *)
(* stream of stream_answer with the frames of gateway/translate.rs, and a  *)
(* client that may hang up at any moment.                                  *)
(*                                                                         *)
(* The provider is an honest worker (WorkerJob) seen through its transport *)
(* (p2p.rs run_job).  An answer is a sequence of pieces: "t" is text, "op" *)
(* and "en" the two halves of an opening thinking tag and "cl" the closing *)
(* one, so that a delta may end inside a tag.  White space is left out:    *)
(* collapsing it never takes back what was shown.                          *)
(***************************************************************************)
EXTENDS Integers, Sequences, FiniteSets

CONSTANTS
    Shapes,             \* the dialects tools speak, and "buffered"
    Providers, Priced, NoProvider,
    Answers,            \* texts a provider may answer with
    MaxCalls            \* tool calls of an answer

ASSUME GatewayAssumption ==
    /\ Shapes \subseteq {"anthropic", "openai", "responses", "buffered"}
    /\ Priced \subseteq Providers /\ NoProvider \notin Providers /\ MaxCalls \in Nat
    /\ Answers \subseteq Seq({"t", "op", "en", "cl"})

VARIABLES
    shape,
    loop,       \* submit's task: where it is, its provider, those left, its flags
    wire,       \* the transport: off, connect, up or closed; what it has seen
    worker,     \* the provider's job
    bond,       \* the wallet's entry for the job: none, held, paid
    inbox,      \* worker_rx: transport to loop
    outbox,     \* client_rx: loop to stream
    live,       \* LiveState
    frames,     \* what the tool was sent
    told,       \* the answer text of its deltas
    listening,  \* the tool is still connected
    kept        \* history: each bond's end at its worker

vars == <<shape, loop, wire, worker, bond, inbox, outbox, live, frames, told, listening, kept>>

NoLoop == [at |-> "idle", peer |-> NoProvider, next |-> <<>>, spoke |-> FALSE,
           withheld |-> "no", gone |-> FALSE, finished |-> FALSE]
NoWire == [at |-> "off", stop |-> FALSE, pay |-> FALSE, result |-> FALSE, why |-> FALSE,
           failed |-> FALSE]
NoWorker == [at |-> "none", text |-> <<>>, calls |-> 0, sent |-> 0, excused |-> FALSE]
\* Of LiveState: done, raw, emitted and whether text_index is set.  The rest is
\* history: a delta ended inside a tag, the result and what is peeled of it, and
\* the providers heard.
NotLive == [done |-> FALSE, raw |-> <<>>, emitted |-> 0, open |-> FALSE,
            cut |-> FALSE, said |-> <<>>, answer |-> <<>>, voices |-> {}]

Init ==
    /\ shape \in Shapes /\ loop = NoLoop /\ wire = NoWire /\ worker = NoWorker
    /\ bond = "none" /\ inbox = <<>> /\ outbox = <<>> /\ live = NotLive
    /\ frames = <<>> /\ told = <<>> /\ listening = TRUE
    /\ kept = [p \in Providers |-> "none"]

-----------------------------------------------------------------------------
(* peel_thinking *)

OpensAt(s, i) == i < Len(s) /\ s[i] = "op" /\ s[i + 1] = "en"
Hidden(s, i) ==
    \E o \in 1..i : OpensAt(s, o) /\ \A k \in (o + 2)..(i - 1) : s[k] # "cl"
Seen(s) == {i \in DOMAIN s : ~Hidden(s, i)}
Nth(S, k) == CHOOSE i \in S : Cardinality({j \in S : j <= i}) = k
Peel(s) == [k \in 1..Cardinality(Seen(s)) |-> s[Nth(Seen(s), k)]]

\* What came before ends inside an opening tag of the text.
CutsTag(before, text) == before # <<>> /\ OpensAt(text, Len(before))

-----------------------------------------------------------------------------
(* The frames of translate.rs, in the order each dialect has them *)

F(ev, item) == [ev |-> ev, item |-> item]
Framed == shape \in {"anthropic", "responses"}       \* content comes in items

StartFrames == IF shape = "responses" THEN <<F("start", 0), F("progress", 0)>> ELSE <<F("start", 0)>>
OpenText ==
    CASE shape = "anthropic" -> <<F("open", 0)>>
      [] shape = "responses" -> <<F("open", 0), F("part", 0)>>
      [] OTHER -> <<>>
CloseText ==
    IF shape = "responses" THEN <<F("text", 0), F("parted", 0), F("close", 0)>>
    ELSE <<F("close", 0)>>
OneCall(i) ==
    CASE shape = "anthropic" -> <<F("open", i), F("delta", i), F("close", i)>>
      [] shape = "responses" -> <<F("open", i), F("delta", i), F("args", i), F("close", i)>>
\* The frames of each call in turn.
CallFrames(n, first) ==
    IF Framed THEN LET many == Len(OneCall(0)) IN
         [k \in 1..(n * many) |-> OneCall(first + (k - 1) \div many)[((k - 1) % many) + 1]]
    ELSE IF n = 0 THEN <<>> ELSE <<F("calls", n)>>
StopFrames ==
    CASE shape = "anthropic" -> <<F("reason", 0), F("stop", 0)>>
      [] shape = "openai" -> <<F("reason", 0), F("usage", 0), F("stop", 0)>>
      [] OTHER -> <<F("stop", 0)>>

-----------------------------------------------------------------------------
(* submit *)

\* serve and submit turn a request away: a wrong token, a body that is not of the
\* dialect, no model to serve it.  The error is the whole reply; no task starts.
Refuse ==
    /\ loop.at = "idle" /\ ~live.done
    /\ frames' = <<F("error", 0)>> /\ live' = [live EXCEPT !.done = TRUE]
    /\ UNCHANGED <<shape, loop, wire, worker, bond, inbox, outbox, told, listening, kept>>

\* provider_for, or the substitute, and the alternates it may fall back to; the
\* stream opens at once.
Route ==
    /\ loop.at = "idle" /\ ~live.done
    /\ \E p \in Providers : \E next \in {<<>>} \cup {<<q>> : q \in Providers \ {p}} :
         loop' = [NoLoop EXCEPT !.at = "try", !.peer = p, !.next = next]
    /\ frames' = IF shape = "buffered" THEN <<>> ELSE StartFrames
    /\ UNCHANGED <<shape, wire, worker, bond, inbox, outbox, live, told, listening, kept>>

\* No transport for this provider: the next one, or an error.
Unreachable ==
    /\ loop.at = "try"
    /\ loop' = IF loop.next = <<>> THEN [loop EXCEPT !.at = "over"]
               ELSE [loop EXCEPT !.peer = Head(loop.next), !.next = Tail(@)]
    /\ UNCHANGED <<shape, wire, worker, bond, inbox, outbox, live, frames, told, listening, kept>>

\* A wallet that cannot lock funds is final.
NoFunds ==
    /\ loop.at = "try" /\ loop.peer \in Priced
    /\ loop' = [loop EXCEPT !.at = "over"]
    /\ UNCHANGED <<shape, wire, worker, bond, inbox, outbox, live, frames, told, listening, kept>>

Drive ==
    /\ loop.at = "try" /\ worker.at # "billed"
    /\ bond' = IF loop.peer \in Priced THEN "held" ELSE "none"
    /\ wire' = [NoWire EXCEPT !.at = "connect"] /\ worker' = NoWorker /\ inbox' = <<>>
    /\ loop' = [loop EXCEPT !.at = "stream", !.spoke = FALSE, !.withheld = "no",
                            !.gone = FALSE, !.finished = FALSE]
    /\ UNCHANGED <<shape, outbox, live, frames, told, listening, kept>>

Terminal == {"failed", "done"}
Ends(m) == m.type \in Terminal \cup {"result", "invoice"}

RxAlive == listening /\ ~live.done

\* A message as it is passed on, with the provider it came from.
Sent(m) == [type |-> m.type, text |-> m.text, calls |-> m.calls, from |-> loop.peer]

ForwardOrLeave(m) ==                                            \* mutant
    IF RxAlive
      THEN \E paid \in IF m.type = "invoice" /\ bond = "held" THEN BOOLEAN ELSE {FALSE} :
             /\ loop' = [loop EXCEPT !.spoke = @ \/ m.type = "delta"]
             /\ bond' = IF paid THEN "paid" ELSE bond
             /\ wire' = [wire EXCEPT !.pay = @ \/ paid]
             /\ worker' = [worker EXCEPT !.excused = @ \/ (m.type = "invoice" /\ ~paid)]
             /\ outbox' = Append(outbox, Sent(m))
      ELSE /\ loop' = [loop EXCEPT !.at = "ended", !.gone = TRUE]
           /\ wire' = NoWire /\ UNCHANGED <<bond, worker, outbox>>

\* The message goes on to the tool; an invoice is paid whoever listens, if the
\* wallet agrees.  When nobody listens the job is stopped, unless its answer
\* exists.
Forward(m) ==
    \E paid \in IF m.type = "invoice" /\ bond = "held" THEN BOOLEAN ELSE {FALSE} :
      LET finished == loop.finished \/ Ends(m) IN
      /\ loop' = [loop EXCEPT !.spoke = @ \/ (m.type = "delta" /\ ~loop.gone),
                              !.finished = finished, !.gone = @ \/ ~RxAlive]
      /\ bond' = IF paid THEN "paid" ELSE bond
      /\ wire' = [wire EXCEPT !.pay = @ \/ paid,
                              !.stop = @ \/ (~loop.gone /\ ~RxAlive /\ ~finished)]
      /\ worker' = [worker EXCEPT !.excused = @ \/ (m.type = "invoice" /\ ~paid)]
      /\ outbox' = IF loop.gone \/ ~RxAlive THEN outbox
                   ELSE Append(outbox, Sent(m))

Withholds(m) ==
    /\ ~loop.gone /\ ~loop.spoke
    /\ m.type = "failed" \/ (m.type = "result" /\ m.text = <<>> /\ m.calls = 0)

LoopTakes ==
    /\ loop.at = "stream" /\ inbox # <<>>
    /\ LET m == Head(inbox) IN
       IF Withholds(m)
         THEN /\ loop' = [loop EXCEPT !.at = "ended", !.withheld = m.type, !.finished = TRUE]
              /\ wire' = NoWire /\ inbox' = <<>>
              /\ UNCHANGED <<bond, outbox, worker>>
         ELSE inbox' = Tail(inbox) /\ Forward(m)
    /\ UNCHANGED <<shape, live, frames, told, listening, kept>>

StreamEnds ==
    /\ loop.at = "stream" /\ inbox = <<>> /\ wire.at = "closed"
    /\ loop' = [loop EXCEPT !.at = "ended"]
    /\ UNCHANGED <<shape, wire, worker, bond, inbox, outbox, live, frames, told, listening, kept>>

Held(type) == [type |-> type, text |-> <<>>, calls |-> 0, from |-> loop.peer]

\* abandon_job; then the next provider, when this one gave nothing, or the end.
NextProvider ==
    /\ loop.at = "ended" /\ bond' = "none"
    /\ IF (loop.withheld # "no" \/ (wire.failed /\ ~loop.spoke)) /\ loop.next # <<>>
         THEN /\ loop' = [loop EXCEPT !.at = "try", !.peer = Head(loop.next), !.next = Tail(@)]
              /\ UNCHANGED outbox
         ELSE /\ loop' = [loop EXCEPT !.at = "over"]
              /\ outbox' = IF loop.withheld = "no" THEN outbox
                           ELSE Append(outbox, Held(loop.withheld))
    /\ wire' = NoWire
    /\ UNCHANGED <<shape, worker, inbox, live, frames, told, listening, kept>>

-----------------------------------------------------------------------------
(* The transport and the provider *)

Connect ==
    /\ wire.at = "connect"
    /\ \/ /\ wire' = [wire EXCEPT !.at = "up"]
          /\ \E text \in Answers, calls \in 0..MaxCalls :
               /\ text # <<>> \/ calls > 0
               /\ worker' = [NoWorker EXCEPT !.at = "runs", !.text = text, !.calls = calls]
       \/ wire' = [wire EXCEPT !.at = "closed", !.failed = TRUE] /\ UNCHANGED worker
    /\ UNCHANGED <<shape, loop, bond, inbox, outbox, live, frames, told, listening, kept>>

\* A stop pressed at any time is kept until the transport waits; a worker that
\* is past its run ignores it.
Cancel ==
    /\ wire.at = "up" /\ wire.stop
    /\ wire' = [wire EXCEPT !.stop = FALSE]
    /\ worker' = IF worker.at = "runs" THEN [worker EXCEPT !.at = "stopped"] ELSE worker
    /\ UNCHANGED <<shape, loop, bond, inbox, outbox, live, frames, told, listening, kept>>

SendPay ==
    /\ wire.at = "up" /\ wire.pay
    /\ wire' = [wire EXCEPT !.pay = FALSE]
    /\ IF worker.at = "billed"
         THEN worker' = [worker EXCEPT !.at = "settled"] /\ kept' = [kept EXCEPT ![loop.peer] = "bill"]
         ELSE UNCHANGED <<worker, kept>>
    /\ UNCHANGED <<shape, loop, bond, inbox, outbox, live, frames, told, listening>>

Says(m, w) ==
    /\ wire.at = "up" /\ loop.at = "stream" /\ inbox = <<>>
    /\ inbox' = Append(inbox, m)
    /\ worker' = w
    /\ wire' = [wire EXCEPT !.at = IF m.type \in Terminal THEN "closed" ELSE @,
                            !.result = @ \/ m.type = "result", !.why = @ \/ m.type = "failed",
                            !.failed = m.type = "done" /\ ~wire.result]
    /\ UNCHANGED <<shape, loop, bond, outbox, live, frames, told, listening, kept>>
Msg(type) == [type |-> type, text |-> <<>>, calls |-> 0]

\* An honest worker: deltas, of none of its text (an older one), of a part (a
\* top-up was refused, or the text went on after a block of markup) or of all of
\* it; the whole text in the result; the bill, and its payment or its wait's
\* end; done.
WorkerSpeaks ==
    \/ /\ worker.at = "runs"
       /\ \E n \in (worker.sent + 1)..Len(worker.text) :
            Says([Msg("delta") EXCEPT !.text = SubSeq(worker.text, worker.sent + 1, n)],
                 [worker EXCEPT !.sent = n])
    \/ worker.at \in {"runs", "stopped"} /\ Says(Msg("failed"), [worker EXCEPT !.at = "over"])
    \/ /\ worker.at = "runs"
       /\ Says([type |-> "result", text |-> worker.text, calls |-> worker.calls],
               [worker EXCEPT !.at = "answered"])
    \/ /\ worker.at = "answered" /\ loop.peer \in Priced
       /\ Says(Msg("invoice"), [worker EXCEPT !.at = "billed"])
    \/ /\ worker.at = "settled" \/ (worker.at = "answered" /\ loop.peer \notin Priced)
       /\ Says(Msg("done"), [worker EXCEPT !.at = "over"])

\* capture_chunk's wait is longer than a payment takes: it ends when none comes.
Forfeits ==
    /\ worker.at = "billed"
    /\ worker.excused \/ wire.at # "up"
    /\ worker' = [worker EXCEPT !.at = "settled"]
    /\ kept' = [kept EXCEPT ![loop.peer] = IF worker.excused THEN "excused" ELSE "whole"]
    /\ UNCHANGED <<shape, loop, wire, bond, inbox, outbox, live, frames, told, listening>>

\* The peer closes, or the job's deadline comes first.
Lost ==
    /\ wire.at = "up"
    /\ \E late \in BOOLEAN :
         wire' = [wire EXCEPT !.at = "closed", !.failed = late \/ (~wire.result /\ ~wire.why)]
    /\ worker' = [worker EXCEPT !.excused = TRUE]
    /\ UNCHANGED <<shape, loop, bond, inbox, outbox, live, frames, told, listening, kept>>

-----------------------------------------------------------------------------
(* The live stream: stream_answer and the frames of translate.rs *)

Reading == listening /\ loop.at # "idle" /\ ~live.done
Gets(type) == Reading /\ outbox # <<>> /\ Head(outbox).type = type /\ outbox' = Tail(outbox)
StreamOnly == UNCHANGED <<shape, loop, wire, worker, bond, inbox, listening, kept>>

StreamDeltaRaw ==                                               \* mutant
    /\ Gets("delta") /\ shape # "buffered"
    /\ LET text == Head(outbox).text IN
       /\ live' = [live EXCEPT !.raw = @ \o text, !.emitted = @ + Len(text), !.open = Framed,
                               !.voices = @ \cup {Head(outbox).from}]
       /\ told' = told \o text
       /\ frames' = frames \o (IF live.open THEN <<>> ELSE OpenText) \o <<F("delta", 0)>>
    /\ StreamOnly

StreamDeltaUnopened ==                                          \* mutant
    /\ Gets("delta") /\ shape # "buffered"
    /\ LET raw == live.raw \o Head(outbox).text
           peeled == Peel(raw)
           fresh == SubSeq(peeled, live.emitted + 1, Len(peeled)) IN
       /\ live' = [live EXCEPT !.raw = raw, !.emitted = IF fresh = <<>> THEN @ ELSE Len(peeled),
                               !.cut = @ \/ CutsTag(live.raw, raw),
                               !.open = Framed, !.voices = @ \cup {Head(outbox).from}]
       /\ told' = told \o fresh
       /\ frames' = IF fresh = <<>> THEN frames
                    ELSE frames \o (IF live.open THEN <<>> ELSE OpenText) \o <<F("delta", 0)>>
    /\ StreamOnly

\* What the peeled text has grown by goes out; the first piece opens the item.
StreamDelta ==
    /\ Gets("delta") /\ shape # "buffered"
    /\ LET raw == live.raw \o Head(outbox).text
           peeled == Peel(raw)
           fresh == SubSeq(peeled, live.emitted + 1, Len(peeled)) IN
       /\ live' = [live EXCEPT !.raw = raw, !.emitted = IF fresh = <<>> THEN @ ELSE Len(peeled),
                               !.cut = @ \/ CutsTag(live.raw, raw),
                               !.open = @ \/ (fresh # <<>> /\ Framed),
                               !.voices = @ \cup {Head(outbox).from}]
       /\ told' = told \o fresh
       /\ frames' = IF fresh = <<>> THEN frames
                    ELSE frames \o (IF live.open THEN <<>> ELSE OpenText) \o <<F("delta", 0)>>
    /\ StreamOnly

\* build_answer: text or a call must be left once the thinking is peeled off.
Broken(m) == Peel(m.text) = <<>> /\ m.calls = 0

Fails(more) == frames' = frames \o <<F("error", 0)>> /\ live' = [live EXCEPT !.done = TRUE] /\ more

\* anthropic_live_end, openai_live_end, responses_live_end: only the last writes
\* the text as a delta, when none ever opened an item.
StreamResult ==
    /\ Gets("result") /\ shape # "buffered"
    /\ LET m == Head(outbox)
           text == Peel(m.text)
           whole == shape = "responses" /\ ~live.open /\ text # <<>> IN
       IF Broken(m) THEN Fails(UNCHANGED told)
       ELSE /\ live' = [live EXCEPT !.done = TRUE, !.said = m.text, !.answer = text,
                                    !.cut = @ \/ CutsTag(live.raw, m.text),
                                    !.voices = @ \cup {m.from}]
            /\ told' = IF whole THEN text ELSE told
            /\ frames' = frames \o (IF whole THEN OpenText \o <<F("delta", 0)>> ELSE <<>>)
                 \o (IF live.open \/ whole THEN CloseText ELSE <<>>)
                 \o CallFrames(m.calls, IF live.open \/ whole THEN 1 ELSE 0) \o StopFrames
    /\ StreamOnly

StreamFailed == Gets("failed") /\ shape # "buffered" /\ Fails(UNCHANGED told) /\ StreamOnly

\* run: the last result is the answer, whatever came with it.
BufferResult ==
    /\ Gets("result") /\ shape = "buffered"
    /\ LET m == Head(outbox) IN
       IF Broken(m) THEN Fails(UNCHANGED told)
       ELSE /\ live' = [live EXCEPT !.said = m.text, !.answer = Peel(m.text), !.open = TRUE,
                                    !.voices = @ \cup {m.from}]
            /\ told' = Peel(m.text) /\ UNCHANGED frames
    /\ StreamOnly

Skips ==
    /\ \/ \E type \in {"invoice", "done"} : Gets(type)
       \/ \E type \in {"delta", "failed"} : Gets(type) /\ shape = "buffered"
    /\ UNCHANGED <<live, frames, told>> /\ StreamOnly

ChannelEndsAnswered ==                                          \* mutant
    /\ Reading /\ outbox = <<>> /\ loop.at = "over" /\ shape = "buffered" /\ live.open
    /\ frames' = frames \o StopFrames /\ live' = [live EXCEPT !.done = TRUE] /\ UNCHANGED told
    /\ UNCHANGED outbox /\ StreamOnly

\* The channel is closed: an error, unless a buffered answer has come.
ChannelEnds ==
    /\ Reading /\ outbox = <<>> /\ loop.at = "over"
    /\ IF shape = "buffered" /\ live.open
         THEN frames' = frames \o StopFrames /\ live' = [live EXCEPT !.done = TRUE] /\ UNCHANGED told
         ELSE Fails(UNCHANGED told)
    /\ UNCHANGED outbox /\ StreamOnly

HangUp ==
    /\ listening /\ loop.at # "idle" /\ ~live.done
    /\ listening' = FALSE /\ outbox' = <<>>
    /\ UNCHANGED <<shape, loop, wire, worker, bond, inbox, live, frames, told, kept>>

LoopStep == Unreachable \/ NoFunds \/ Drive \/ LoopTakes \/ StreamEnds \/ NextProvider
StreamStep ==
    StreamDelta \/ StreamResult \/ StreamFailed \/ BufferResult \/ Skips \/ ChannelEnds

Next ==
    \/ Refuse \/ Route \/ LoopStep \/ StreamStep \/ HangUp
    \/ Connect \/ Cancel \/ SendPay \/ WorkerSpeaks \/ Forfeits \/ Lost

Spec == Init /\ [][Next]_vars

\* The wallet's chain client has no timeout: status and issue_ticket before a
\* priced provider, pay_invoice, adopt_authorised after a refusal.
AwaitsChain ==
    \/ loop.at = "try" /\ loop.peer \in Priced
    \/ /\ loop.at = "stream" /\ inbox # <<>> /\ bond # "none"
       /\ Head(inbox).type \in {"invoice", "failed"}

\* Nor has a write to the provider: the submit, a cancel, a payment.
AwaitsPeer == wire.at = "connect" \/ (wire.at = "up" /\ (wire.stop \/ wire.pay))

\* The runtime polls what can run, a tool that waits reads its stream, and a job
\* and a worker's wait for its payment have deadlines.  A read of the chain and
\* a write to the provider are owed nothing.
FairSpec ==
    Spec /\ WF_vars(~AwaitsChain /\ LoopStep) /\ WF_vars(StreamStep)
         /\ WF_vars(~AwaitsPeer /\ Lost) /\ WF_vars(Forfeits)

-----------------------------------------------------------------------------
(* The tasks are where the code can put them, and a stream that is over says  *)
(* so once: the last frame, and no other, is a stop or an error.              *)
TypeOK ==
    /\ loop.at \in {"idle", "try", "stream", "ended", "over"}
    /\ wire.at \in {"off", "connect", "up", "closed"}
    /\ wire.at # "off" => loop.at \in {"stream", "ended"}
    /\ bond \in {"none", "held", "paid"} /\ (bond # "none" => loop.at \in {"stream", "ended"})
    /\ \A k \in DOMAIN frames : frames[k].ev \in {"stop", "error"} => k = Len(frames) /\ live.done

(* "Before it has, a failure is this provider's, not the request's" (submit): *)
(* the words and the answer a tool reads are one provider's.                  *)
OneVoice == shape # "buffered" => Cardinality(live.voices) <= 1

(* The same of every request and of every answer: a provider that answered is *)
(* the last one asked.                                                        *)
AnswerIsLast == live.voices # {} /\ loop.at = "try" => loop.peer \in live.voices

(* "OutputTextDelta without active item ... the editor shows nothing"          *)
(* (translate.rs responses_live_text_start): items are opened in order, one    *)
(* at a time, only an open one is written to or closed, none is left open.     *)
IsOpen(k, i) ==
    \E o \in 1..(k - 1) : frames[o] = F("open", i) /\ \A c \in o..(k - 1) : frames[c] # F("close", i)
FramesNest ==
    Framed =>
      \A k \in DOMAIN frames :
        /\ frames[k].ev \in {"delta", "close", "part", "parted", "text", "args"} => IsOpen(k, frames[k].item)
        /\ frames[k].ev = "open" =>
             frames[k].item = Cardinality({o \in 1..(k - 1) : frames[o].ev = "open"})
        /\ frames[k].ev \in {"open", "stop"} => \A i \in 0..k : ~IsOpen(k, i)

Told == live.done /\ frames[Len(frames)].ev = "stop"

(* The words of a stream's deltas are the answer's own, from its first on      *)
(* (stream_answer, peel_thinking), and all of them when the provider streamed  *)
(* its whole text, when a Responses stream had told none (responses_live_end), *)
(* and in a buffered answer.  A delta that ends inside an opening tag is the   *)
(* one exception (SplitTagDropped).                                           *)
DeltasTellAnswer ==
    Told /\ ~live.cut =>
        /\ Len(told) <= Len(live.answer)
        /\ \A k \in 1..Len(told) : told[k] = live.answer[k]
        /\ \/ live.raw = live.said
           \/ shape = "responses" /\ live.emitted = 0
           \/ shape = "buffered"
           => told = live.answer

(* "`peel_thinking` needs the whole run to correctly drop a tag split across   *)
(* two deltas" (LiveState::raw): what was streamed whole is told as it is,     *)
(* wherever the deltas were cut.                                              *)
SplitTagDropped == Told /\ live.raw = live.said => told = live.answer

(* "A worker returns the whole answer, so the SSE event sequence is correct    *)
(* and complete" (docs/GATEWAY.md): a stream that ends as it should has told   *)
(* the answer.                                                                *)
AnswerTold == Told => told = live.answer

(* "The job is stopped and its invoice is still paid" (submit): a worker that  *)
(* did the job keeps the whole bond only when the wallet refused its bill or   *)
(* the connection was lost, never because the tool hung up.                   *)
HangUpPaysTheBill == \A p \in Providers : kept[p] # "whole"

(* A tool that waits is answered, or waits where no deadline reaches: on the   *)
(* chain, or on a provider that does not read.  From every other state the     *)
(* request goes on to its last frame (submit, stream_answer).                 *)
Waiting == loop.at # "idle" /\ ~live.done /\ listening
ToolHears == Waiting ~> ~Waiting \/ AwaitsChain \/ AwaitsPeer
=============================================================================
