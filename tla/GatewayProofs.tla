---------------------------- MODULE GatewayProofs -----------------------------
(***************************************************************************)
(* The endpoint for outside tools, for any providers, answers and dialects *)
(* and however the tool hangs up: it pays for what was done for it, the    *)
(* frames of its streams open, write and close their items in order, and   *)
(* the words they carry are the answer's.                                  *)
(***************************************************************************)
EXTENDS Gateway, CoinTheorems

WorkerStates == {"none", "runs", "stopped", "answered", "billed", "settled", "over"}
WireTypes ==
    wire \in [at : {"off", "connect", "up", "closed"}, stop : BOOLEAN, pay : BOOLEAN,
              result : BOOLEAN, why : BOOLEAN, failed : BOOLEAN]
WorkerTypes ==
    worker \in [at : WorkerStates, text : Answers \cup {<<>>}, calls : Nat, sent : Nat,
                excused : BOOLEAN]
LoopTypes ==
    loop \in [at : {"idle", "try", "stream", "ended", "over"}, peer : Providers \cup {NoProvider},
              next : Seq(Providers), spoke : BOOLEAN, withheld : {"no", "failed", "result"},
              gone : BOOLEAN, finished : BOOLEAN]

\* A loop that is done with a provider has no transport left to it.
EndedIsDown == loop.at = "ended" => wire.at \in {"off", "closed"}

\* A bill is out only while the transport stands, unless no payment will come.
BillIsHeard == worker.at = "billed" /\ ~worker.excused => wire.at = "up"

\* The transport takes one message at a time, so nothing that ends a stream
\* unpaid is still to be read once the bill is out.
NoEndBeforeBill ==
    /\ inbox \in {<<>>, <<inbox[1]>>}
    /\ inbox # <<>> /\ Head(inbox).type \in {"failed", "result"} => worker.at # "billed"

PayInv ==
    /\ WireTypes /\ WorkerTypes
    /\ kept \in [Providers -> {"none", "bill", "excused"}]
    /\ EndedIsDown /\ BillIsHeard /\ NoEndBeforeBill

LEMMA PayStarts == Init => LoopTypes /\ PayInv
  BY DEF Init, LoopTypes, NoLoop, PayInv, WireTypes, WorkerTypes, EndedIsDown, BillIsHeard,
         NoEndBeforeBill, NoWire, NoWorker,
         WorkerStates

\* The task is somewhere, with a provider, those left and its flags.
LEMMA LoopTyped == LoopTypes /\ [Next]_vars => LoopTypes'
<1> SUFFICES ASSUME LoopTypes, [Next]_vars PROVE LoopTypes'
  OBVIOUS
<1>1. UNCHANGED loop => LoopTypes'
  BY DEF LoopTypes
<1>2. ASSUME Refuse \/ StreamStep \/ HangUp \/ Connect \/ Cancel \/ SendPay \/ WorkerSpeaks
             \/ Forfeits \/ Lost \/ UNCHANGED vars
      PROVE  UNCHANGED loop
  BY <1>2 DEF Refuse, StreamStep, StreamDelta, StreamResult, StreamFailed, BufferResult, Skips,
     ChannelEnds, StreamOnly, HangUp, Connect, Cancel, SendPay, WorkerSpeaks, Says, Forfeits, Lost,
     vars
<1>3. CASE Route
  <2>1. PICK p \in Providers, next \in {<<>>} \cup {<<q>> : q \in Providers} :
            loop' = [NoLoop EXCEPT !.at = "try", !.peer = p, !.next = next]
    BY <1>3 DEF Route
  <2>2. next \in Seq(Providers)
    <3>1. CASE next = <<>>
      BY <3>1
    <3>2. ASSUME NEW q \in Providers, next = <<q>> PROVE next \in Seq(Providers)
      BY <3>2
    <3> QED  BY <3>1, <3>2
  <2> QED  BY <2>1, <2>2 DEF LoopTypes, NoLoop
<1>4. ASSUME loop.next # <<>>
      PROVE  Head(loop.next) \in Providers /\ Tail(loop.next) \in Seq(Providers)
  BY <1>4 DEF LoopTypes
<1>5. CASE Unreachable
  BY <1>4, <1>5 DEF Unreachable, LoopTypes
<1>6. CASE NoFunds \/ Drive \/ StreamEnds
  BY <1>6 DEF NoFunds, Drive, StreamEnds, LoopTypes
<1>7. CASE NextProvider
  BY <1>4, <1>7 DEF NextProvider, LoopTypes
<1>8. CASE LoopTakes
  <2> DEFINE m == Head(inbox)
  <2>1. CASE Withholds(m)
    BY <1>8, <2>1 DEF LoopTakes, Withholds, LoopTypes
  <2>2. CASE ~Withholds(m)
    <3> DEFINE finished == loop.finished \/ Ends(m)
               spoke == loop.spoke \/ (m.type = "delta" /\ ~loop.gone)
               gone == loop.gone \/ ~RxAlive
    <3>1. loop' = [loop EXCEPT !.spoke = spoke, !.finished = finished, !.gone = gone]
      BY <1>8, <2>2 DEF LoopTakes, Forward
    <3>2. finished \in BOOLEAN /\ spoke \in BOOLEAN /\ gone \in BOOLEAN
      BY ZenonT(30)
    <3> HIDE DEF finished, spoke, gone
    <3> QED  BY <3>1, <3>2 DEF LoopTypes
  <2> QED  BY <2>1, <2>2
<1> QED
  BY <1>1, <1>2, <1>3, <1>5, <1>6, <1>7, <1>8 DEF Next, LoopStep

\* What neither transport nor worker takes part in.
LEMMA PayApart ==
    ASSUME PayInv, UNCHANGED <<wire, worker, inbox, kept>>,
           loop'.at = "ended" => loop.at = "ended" \/ wire.at \in {"off", "closed"}
    PROVE  PayInv'
  BY DEF PayInv, WireTypes, WorkerTypes, EndedIsDown, BillIsHeard, NoEndBeforeBill

\* submit's task: a message is forwarded and an invoice paid, or kept back and
\* the stream left, with the bill still to come.
LEMMA TakesPays ==
    ASSUME LoopTypes, PayInv, LoopTakes
    PROVE  PayInv'
<1> DEFINE m == Head(inbox)
<1>1. inbox # <<>> /\ UNCHANGED kept
  BY DEF LoopTakes
<1>2. CASE Withholds(m)
  <2>1. wire' = NoWire /\ inbox' = <<>> /\ UNCHANGED worker
    BY <1>2 DEF LoopTakes
  <2>2. worker.at # "billed"
    BY <1>1, <1>2 DEF PayInv, NoEndBeforeBill, Withholds
  <2> QED
    BY <1>1, <2>1, <2>2 DEF PayInv, WireTypes, WorkerTypes, EndedIsDown, BillIsHeard, NoEndBeforeBill, NoWire
<1>3. CASE ~Withholds(m)
  <2>1. inbox' = Tail(inbox) /\ Forward(m)
    BY <1>3 DEF LoopTakes
  <2>2. PICK paid \in BOOLEAN :
          /\ wire' = [wire EXCEPT !.pay = @ \/ paid,
                        !.stop = @ \/ (~loop.gone /\ ~RxAlive /\ ~(loop.finished \/ Ends(m)))]
          /\ worker' = [worker EXCEPT !.excused = @ \/ (m.type = "invoice" /\ ~paid)]
    BY <2>1 DEF Forward
  <2> DEFINE pay == wire.pay \/ paid
             stop == wire.stop \/ (~loop.gone /\ ~RxAlive /\ ~(loop.finished \/ Ends(m)))
             excused == worker.excused \/ (m.type = "invoice" /\ ~paid)
  <2>3. pay \in BOOLEAN /\ stop \in BOOLEAN /\ excused \in BOOLEAN /\ (worker.excused => excused)
    BY ZenonT(30)
  <2>4. /\ wire' = [wire EXCEPT !.pay = pay, !.stop = stop]
        /\ worker' = [worker EXCEPT !.excused = excused]
    BY <2>2
  <2> HIDE DEF pay, stop, excused
  <2>5. WireTypes' /\ WorkerTypes' /\ wire'.at = wire.at /\ worker'.at = worker.at
    BY <2>3, <2>4 DEF PayInv, WireTypes, WorkerTypes
  <2>6. BillIsHeard'
    BY <2>3, <2>4, <2>5 DEF PayInv, WorkerTypes, EndedIsDown, BillIsHeard
  <2>7. inbox' = <<>>
    <3>1. inbox = <<inbox[1]>>
      BY <1>1 DEF PayInv, NoEndBeforeBill
    <3>2. Tail(<<inbox[1]>>) = <<>>
      OBVIOUS
    <3> QED  BY <2>1, <3>1, <3>2
  <2>8. loop'.at = loop.at
    BY <2>1 DEF Forward, LoopTypes
  <2> QED
    BY <1>1, <2>5, <2>6, <2>7, <2>8 DEF PayInv, EndedIsDown, NoEndBeforeBill
<1> QED  BY <1>2, <1>3

\* The steps of the loop about a provider: the next one is connected to only when
\* no bill is out.
LEMMA LoopPays ==
    ASSUME LoopTypes, PayInv, LoopStep
    PROVE  PayInv'
<1>1. CASE Unreachable \/ NoFunds \/ StreamEnds
  BY <1>1, PayApart DEF Unreachable, NoFunds, StreamEnds, LoopTypes
<1>2. CASE Drive
  <2>1. loop'.at = "stream" /\ worker' = NoWorker /\ inbox' = <<>> /\ UNCHANGED kept
    BY <1>2 DEF Drive, LoopTypes
  <2>2. WireTypes'
    BY <1>2 DEF Drive, WireTypes, NoWire
  <2> QED
    BY <2>1, <2>2 DEF PayInv, WireTypes, WorkerTypes, EndedIsDown, BillIsHeard, NoEndBeforeBill, NoWire,
              NoWorker, WorkerStates
<1>3. CASE LoopTakes
  BY <1>3, TakesPays
<1>4. CASE NextProvider
  BY <1>4 DEF NextProvider, PayInv, WireTypes, WorkerTypes, EndedIsDown, BillIsHeard, NoEndBeforeBill, NoWire
<1> QED  BY <1>1, <1>2, <1>3, <1>4 DEF LoopStep

LEMMA ConnectPays ==
    ASSUME PayInv, Connect
    PROVE  PayInv'
<1>1. /\ wire.at = "connect" /\ UNCHANGED <<loop, inbox, kept>>
      /\ \/ wire' = [wire EXCEPT !.at = "up"]
         \/ wire' = [wire EXCEPT !.at = "closed", !.failed = TRUE]
  BY DEF Connect
<1>2. WireTypes' /\ wire'.at \in {"up", "closed"} /\ (UNCHANGED worker \/ wire'.at = "up")
  BY <1>1 DEF Connect, PayInv, WireTypes
<1>3. WorkerTypes' /\ (UNCHANGED worker \/ worker'.at = "runs")
  <2>1. CASE UNCHANGED worker
    BY <2>1 DEF PayInv, WorkerTypes
  <2>2. ASSUME NEW text \in Answers, NEW calls \in 0..MaxCalls,
               worker' = [NoWorker EXCEPT !.at = "runs", !.text = text, !.calls = calls]
        PROVE  WorkerTypes' /\ worker'.at = "runs"
    <3>1. calls \in Nat
      BY GatewayAssumption
    <3>2. worker' = [at |-> "runs", text |-> text, calls |-> calls, sent |-> 0,
                     excused |-> FALSE]
      BY <2>2 DEF NoWorker
    <3> QED  BY <3>1, <3>2 DEF WorkerTypes, WorkerStates
  <2> QED  BY <2>1, <2>2 DEF Connect
<1>4. loop.at # "ended"
  BY <1>1 DEF PayInv, EndedIsDown
<1> QED
  BY <1>1, <1>2, <1>3, <1>4 DEF PayInv, EndedIsDown, BillIsHeard, NoEndBeforeBill

LEMMA CancelPays ==
    ASSUME PayInv, Cancel
    PROVE  PayInv'
  BY DEF Cancel, PayInv, WireTypes, WorkerTypes, EndedIsDown, BillIsHeard, NoEndBeforeBill, WorkerStates

LEMMA SendPays ==
    ASSUME PayInv, SendPay
    PROVE  PayInv'
  BY DEF SendPay, PayInv, WireTypes, WorkerTypes, EndedIsDown, BillIsHeard, NoEndBeforeBill, WorkerStates

\* What a worker says: only its bill leaves it waiting for a payment.
LEMMA SaysPays ==
    ASSUME PayInv, NEW m, NEW w, Says(m, w),
           w \in [at : WorkerStates, text : Answers \cup {<<>>}, calls : Nat, sent : Nat,
                  excused : BOOLEAN],
           w.at = "billed" => m.type = "invoice"
    PROVE  PayInv'
<1> DEFINE at == IF m.type \in Terminal THEN "closed" ELSE wire.at
           result == wire.result \/ m.type = "result"
           why == wire.why \/ m.type = "failed"
           failed == m.type = "done" /\ ~wire.result
<1>1. wire' = [wire EXCEPT !.at = at, !.result = result, !.why = why, !.failed = failed]
  BY DEF Says
<1>2. result \in BOOLEAN /\ why \in BOOLEAN /\ failed \in BOOLEAN
  BY ZenonT(30)
<1>3. /\ wire.at = "up" /\ at \in {"closed", "up"} /\ (m.type = "invoice" => at = "up")
      /\ inbox' = <<m>> /\ worker' = w /\ UNCHANGED kept /\ loop'.at = "stream"
  BY DEF Says, Terminal
<1> HIDE DEF at, result, why, failed
<1>4. WireTypes' /\ wire'.at = at
  BY <1>1, <1>2, <1>3 DEF PayInv, WireTypes
<1>5. WorkerTypes' /\ EndedIsDown' /\ BillIsHeard'
  BY <1>3, <1>4 DEF WorkerTypes, EndedIsDown, BillIsHeard
<1>6. NoEndBeforeBill'
  <2>1. inbox'[1] = m /\ Head(inbox') = m
    BY <1>3
  <2> QED  BY <1>3, <2>1 DEF NoEndBeforeBill
<1> QED
  BY <1>3, <1>4, <1>5, <1>6 DEF PayInv

LEMMA WorkerPays ==
    ASSUME PayInv, WorkerSpeaks
    PROVE  PayInv'
<1> DEFINE Ws == [at : WorkerStates, text : Answers \cup {<<>>}, calls : Nat, sent : Nat,
                  excused : BOOLEAN]
<1>0. worker \in Ws
  BY DEF PayInv, WorkerTypes
<1>1. ASSUME NEW n \in (worker.sent + 1)..Len(worker.text), worker.at = "runs",
             Says([Msg("delta") EXCEPT !.text = SubSeq(worker.text, worker.sent + 1, n)],
                  [worker EXCEPT !.sent = n])
      PROVE  PayInv'
  <2>1. n \in Nat
    BY <1>0
  <2>2. [worker EXCEPT !.sent = n] \in Ws /\ [worker EXCEPT !.sent = n].at = "runs"
    BY <1>0, <1>1, <2>1
  <2> QED  BY <1>1, <2>2, SaysPays
<1>2. ASSUME Says(Msg("failed"), [worker EXCEPT !.at = "over"])
      PROVE  PayInv'
  BY <1>0, <1>2, SaysPays DEF Msg, WorkerStates
<1>3. ASSUME Says([type |-> "result", text |-> worker.text, calls |-> worker.calls],
                  [worker EXCEPT !.at = "answered"])
      PROVE  PayInv'
  BY <1>0, <1>3, SaysPays DEF WorkerStates
<1>4. ASSUME Says(Msg("invoice"), [worker EXCEPT !.at = "billed"])
      PROVE  PayInv'
  BY <1>0, <1>4, SaysPays DEF Msg, WorkerStates
<1>5. ASSUME Says(Msg("done"), [worker EXCEPT !.at = "over"])
      PROVE  PayInv'
  BY <1>0, <1>5, SaysPays DEF Msg, WorkerStates
<1> QED
  BY <1>1, <1>2, <1>3, <1>4, <1>5 DEF WorkerSpeaks

\* A bond is kept whole only by a worker that could be heard or was excused.
LEMMA ForfeitPays ==
    ASSUME PayInv, Forfeits
    PROVE  PayInv'
<1>1. worker.excused
  BY DEF Forfeits, PayInv, BillIsHeard
<1> QED
  BY <1>1 DEF Forfeits, PayInv, WireTypes, WorkerTypes, EndedIsDown, BillIsHeard, NoEndBeforeBill,
              WorkerStates

LEMMA LostPays ==
    ASSUME PayInv, Lost
    PROVE  PayInv'
<1>1. PICK late \in BOOLEAN :
        wire' = [wire EXCEPT !.at = "closed", !.failed = late \/ (~wire.result /\ ~wire.why)]
  BY DEF Lost
<1> DEFINE failed == late \/ (~wire.result /\ ~wire.why)
<1>2. failed \in BOOLEAN
  BY ZenonT(30)
<1>3. wire' = [wire EXCEPT !.at = "closed", !.failed = failed]
  BY <1>1
<1> HIDE DEF failed
<1> QED
  BY <1>2, <1>3 DEF Lost, PayInv, WireTypes, WorkerTypes, EndedIsDown, BillIsHeard, NoEndBeforeBill

LEMMA PayStep == LoopTypes /\ PayInv /\ [Next]_vars => PayInv'
<1> SUFFICES ASSUME LoopTypes, PayInv, [Next]_vars PROVE PayInv'
  OBVIOUS
<1>1. CASE Refuse \/ Route \/ HangUp \/ UNCHANGED vars
  <2>1. UNCHANGED <<wire, worker, inbox, kept>>
    BY <1>1 DEF Refuse, Route, HangUp, vars
  <2>2. loop'.at = "ended" => loop.at = "ended"
    BY <1>1 DEF Refuse, Route, HangUp, vars, NoLoop
  <2> QED  BY <2>1, <2>2, PayApart
<1>2. CASE StreamStep
  BY <1>2, PayApart DEF StreamStep, StreamDelta, StreamResult, StreamFailed, BufferResult, Skips,
                        ChannelEnds, StreamOnly
<1> QED
  BY <1>1, <1>2, LoopPays, ConnectPays, CancelPays, SendPays, WorkerPays, ForfeitPays, LostPays
  DEF Next

\* "The job is stopped and its invoice is still paid" (submit): no worker keeps a
\* whole bond because the tool hung up.
THEOREM InvoicesOutliveTheTool == Spec => []HangUpPaysTheBill
<1>1. Init => LoopTypes /\ PayInv
  BY PayStarts
<1>2. LoopTypes /\ PayInv /\ [Next]_vars => LoopTypes' /\ PayInv'
  BY LoopTyped, PayStep
<1>3. PayInv => HangUpPaysTheBill
  BY DEF PayInv, HangUpPaysTheBill
<1> QED  BY <1>1, <1>2, <1>3, PTL DEF Spec

-----------------------------------------------------------------------------
(***************************************************************************)
(* The frames of a stream nest                                             *)
(***************************************************************************)

\* FramesNest of any frames, and whether an item is open after the first k - 1.
Events == {"start", "progress", "open", "part", "delta", "text", "parted", "args", "close",
           "calls", "reason", "usage", "stop", "error"}
Frame == [ev : Events, item : Nat]
OpenAt(s, k, i) ==
    \E o \in 1..(k - 1) : s[o] = F("open", i) /\ \A c \in o..(k - 1) : s[c] # F("close", i)
OpensTo(s, k) == {o \in 1..(k - 1) : s[o].ev = "open"}
Written == {"delta", "close", "part", "parted", "text", "args"}
NestAt(s, k) ==
    /\ s[k].ev \in Written => OpenAt(s, k, s[k].item)
    /\ s[k].ev = "open" => s[k].item = Cardinality(OpensTo(s, k))
    /\ s[k].ev \in {"open", "stop"} => \A i \in 0..k : ~OpenAt(s, k, i)
Nested(s) == \A k \in DOMAIN s : NestAt(s, k)

LEMMA NestedFrames == FramesNest <=> (Framed => Nested(frames))
BY DEF FramesNest, Nested, NestAt, Written, OpensTo, IsOpen, OpenAt

\* Where the items stand after frames that nest: n were opened, and `item` is
\* open, or none.
None == -1
Standing(s, n, item) ==
    /\ s \in Seq(Frame) /\ Nested(s)
    /\ IsFiniteSet(OpensTo(s, Len(s) + 1)) /\ Cardinality(OpensTo(s, Len(s) + 1)) = n
    /\ \A i \in Nat : OpenAt(s, Len(s) + 1, i) <=> i = item

LEMMA AppendedFrame ==
    ASSUME NEW s \in Seq(Frame), NEW f \in Frame
    PROVE  LET t == Append(s, f) IN
           /\ t \in Seq(Frame) /\ Len(t) = Len(s) + 1 /\ t[Len(s) + 1] = f
           /\ \A k \in 1..Len(s) : t[k] = s[k]
           /\ \A k \in 1..(Len(s) + 1) : \A i : OpenAt(t, k, i) <=> OpenAt(s, k, i)
           /\ \A k \in 1..(Len(s) + 1) : OpensTo(t, k) = OpensTo(s, k)
           /\ Nested(s) /\ NestAt(t, Len(t)) => Nested(t)
<1> DEFINE t == Append(s, f)
<1>1. /\ t \in Seq(Frame) /\ Len(t) = Len(s) + 1 /\ t[Len(s) + 1] = f /\ Len(s) \in Nat
      /\ DOMAIN s = 1..Len(s) /\ DOMAIN t = 1..Len(t)
      /\ \A k \in 1..Len(s) : t[k] = s[k]
  OBVIOUS
<1> HIDE DEF t
<1>2. ASSUME NEW k \in 1..(Len(s) + 1)
      PROVE  OpensTo(t, k) = OpensTo(s, k) /\ \A i : OpenAt(t, k, i) <=> OpenAt(s, k, i)
  <2>1. \A o \in 1..(k - 1) : t[o] = s[o] /\ o..(k - 1) \subseteq 1..(k - 1)
    BY <1>1
  <2> QED  BY <2>1 DEF OpensTo, OpenAt
<1>3. ASSUME Nested(s), NestAt(t, Len(t)) PROVE Nested(t)
  <2>1. ASSUME NEW k \in 1..Len(s) PROVE NestAt(t, k)
    <3>1. NestAt(s, k) /\ t[k] = s[k] /\ k \in 1..(Len(s) + 1)
      BY <1>1, <1>3 DEF Nested
    <3> QED  BY <1>2, <3>1 DEF NestAt
  <2> QED  BY <1>1, <1>3, <2>1 DEF Nested
<1> QED  BY <1>1, <1>2, <1>3 DEF t

\* An item is opened, in its turn.
LEMMA OpensItem ==
    ASSUME NEW n \in Nat, NEW s, Standing(s, n, None)
    PROVE  Standing(Append(s, F("open", n)), n + 1, n)
<1> DEFINE f == F("open", n)  t == Append(s, f)
<1>1. f \in Frame /\ s \in Seq(Frame) /\ f.ev = "open" /\ f.item = n
  <2>1. f \in Frame /\ f.ev = "open" /\ f.item = n
    BY DEF Frame, F, Events
  <2> QED  BY <2>1 DEF Standing
<1>2. /\ t \in Seq(Frame) /\ Len(t) = Len(s) + 1 /\ t[Len(s) + 1] = f
      /\ \A k \in 1..Len(s) : t[k] = s[k]
      /\ \A k \in 1..(Len(s) + 1) : \A i : OpenAt(t, k, i) <=> OpenAt(s, k, i)
      /\ \A k \in 1..(Len(s) + 1) : OpensTo(t, k) = OpensTo(s, k)
      /\ Nested(s) /\ NestAt(t, Len(t)) => Nested(t)
      /\ Len(s) \in Nat
  <2> HIDE DEF f
  <2> QED  BY <1>1, AppendedFrame
<1> HIDE DEF t
<1>3. \A i \in Nat : ~OpenAt(t, Len(t), i)
  BY <1>2 DEF Standing, None
<1>4. NestAt(t, Len(t))
  BY <1>1, <1>2, <1>3 DEF NestAt, Written, Standing
<1>5. OpensTo(t, Len(t) + 1) = OpensTo(s, Len(s) + 1) \cup {Len(t)} /\ Len(t) \notin OpensTo(s, Len(s) + 1)
  <2>1. OpensTo(t, Len(t) + 1) = OpensTo(t, Len(t)) \cup {Len(t)}
    BY <1>1, <1>2 DEF OpensTo
  <2> QED  BY <1>2, <2>1 DEF OpensTo
<1>6. /\ IsFiniteSet(OpensTo(t, Len(t) + 1))
      /\ Cardinality(OpensTo(t, Len(t) + 1)) = n + 1
  <2>1. IsFiniteSet(OpensTo(s, Len(s) + 1)) /\ Cardinality(OpensTo(s, Len(s) + 1)) = n
    BY DEF Standing
  <2> QED  BY <1>5, <2>1, FS_AddElement
<1>7. ASSUME NEW i \in Nat PROVE OpenAt(t, Len(t) + 1, i) <=> i = n
  <2>1. OpenAt(t, Len(t) + 1, n)
    BY <1>2 DEF OpenAt, F, f
  <2>2. ASSUME i # n, OpenAt(t, Len(t) + 1, i) PROVE FALSE
    <3>1. PICK o \in 1..Len(t) : t[o] = F("open", i) /\ \A c \in o..Len(t) : t[c] # F("close", i)
      BY <1>2, <2>2 DEF OpenAt
    <3>2. o # Len(t)
      BY <1>1, <1>2, <2>2, <3>1 DEF F
    <3>3. OpenAt(t, Len(t), i)
      BY <1>2, <3>1, <3>2 DEF OpenAt
    <3> QED  BY <1>3, <3>3
  <2> QED  BY <2>1, <2>2
<1> QED  BY <1>2, <1>4, <1>6, <1>7 DEF Standing, t

\* A frame that opens no item: it may close the one that is open.
LEMMA OtherFrame ==
    ASSUME NEW n \in Nat, NEW item, NEW s, Standing(s, n, item), NEW f \in Frame, f.ev # "open",
           f.ev \in Written => f.item = item,
           f.ev = "stop" => item = None
    PROVE  /\ f.ev # "close" => Standing(Append(s, f), n, item)
           /\ f.ev = "close" => Standing(Append(s, f), n, None)
           /\ Nested(Append(s, f))
<1> DEFINE t == Append(s, f)
<1>1. s \in Seq(Frame)
  BY DEF Standing
<1>2. /\ t \in Seq(Frame) /\ Len(t) = Len(s) + 1 /\ t[Len(s) + 1] = f
      /\ \A k \in 1..Len(s) : t[k] = s[k]
      /\ \A k \in 1..(Len(s) + 1) : \A i : OpenAt(t, k, i) <=> OpenAt(s, k, i)
      /\ \A k \in 1..(Len(s) + 1) : OpensTo(t, k) = OpensTo(s, k)
      /\ Nested(s) /\ NestAt(t, Len(t)) => Nested(t)
      /\ Len(s) \in Nat
  BY <1>1, AppendedFrame
<1> HIDE DEF t
<1>3. \A i \in Nat : OpenAt(t, Len(t), i) <=> i = item
  BY <1>2 DEF Standing
<1>4. f.item \in Nat
  BY DEF Frame
<1>5. NestAt(t, Len(t))
  BY <1>2, <1>3, <1>4 DEF NestAt, Written, None
<1>6. OpensTo(t, Len(t) + 1) = OpensTo(s, Len(s) + 1)
  <2>1. OpensTo(t, Len(t) + 1) = OpensTo(t, Len(t))
    BY <1>2 DEF OpensTo
  <2> QED  BY <1>2, <2>1
<1>7. Nested(t)
  BY <1>2, <1>5 DEF Standing
<1>8. ASSUME NEW i \in Nat
      PROVE  OpenAt(t, Len(t) + 1, i) <=> (i = item /\ f # F("close", i))
  <2>1. \A j : f # F("open", j)
    BY DEF F
  <2>2. ASSUME i = item, f # F("close", i) PROVE OpenAt(t, Len(t) + 1, i)
    <3>1. OpenAt(t, Len(t), i)
      BY <1>3, <2>2
    <3>2. PICK o \in 1..(Len(t) - 1) : t[o] = F("open", i) /\ \A c \in o..(Len(t) - 1) : t[c] # F("close", i)
      BY <3>1 DEF OpenAt
    <3>3. o \in 1..Len(t) /\ \A c \in o..Len(t) : t[c] # F("close", i)
      BY <1>2, <2>2, <3>2
    <3> QED  BY <1>2, <3>2, <3>3 DEF OpenAt
  <2>3. ASSUME OpenAt(t, Len(t) + 1, i) PROVE i = item /\ f # F("close", i)
    <3>1. PICK o \in 1..Len(t) : t[o] = F("open", i) /\ \A c \in o..Len(t) : t[c] # F("close", i)
      BY <1>2, <2>3 DEF OpenAt
    <3>2. o # Len(t) /\ t[Len(t)] # F("close", i)
      BY <1>2, <2>1, <3>1
    <3>3. OpenAt(t, Len(t), i)
      BY <1>2, <3>1, <3>2 DEF OpenAt
    <3> QED  BY <1>2, <1>3, <3>2, <3>3
  <2> QED  BY <2>2, <2>3
<1>9. ASSUME f.ev # "close" PROVE Standing(t, n, item)
  <2>1. \A i : f # F("close", i)
    BY <1>9 DEF F
  <2> QED  BY <1>2, <1>6, <1>7, <1>8, <2>1 DEF Standing
<1>10. ASSUME f.ev = "close" PROVE Standing(t, n, None)
  <2>1. f = F("close", item)
    BY <1>4, <1>10 DEF F, Frame, Written
  <2> QED  BY <1>2, <1>6, <1>7, <1>8, <2>1 DEF Standing, None
<1> QED  BY <1>7, <1>9, <1>10 DEF t

\* What an item of text is made of, from its opening to its close.
LEMMA TextFrames ==
    ASSUME Framed, NEW s
    PROVE  /\ Standing(s, 0, None) => Standing(s \o OpenText, 1, 0)
           /\ Standing(s, 1, 0) => Standing(s \o <<F("delta", 0)>>, 1, 0)
           /\ Standing(s, 1, 0) => Standing(s \o CloseText, 1, None)
<1> DEFINE Put(ev) == Append(s, F(ev, 0))
<1>0. \A ev \in Events : F(ev, 0) \in Frame /\ F(ev, 0).ev = ev /\ F(ev, 0).item = 0
  BY DEF F, Frame
<1> USE DEF Events
<1>1. shape \in {"anthropic", "responses"}
  BY DEF Framed
<1>2. ASSUME NEW r, Standing(r, 1, 0), NEW ev \in {"delta", "part", "parted", "text"}
      PROVE  Standing(Append(r, F(ev, 0)), 1, 0)
  <2>1. ev \in Events /\ ev \notin {"open", "close", "stop"}
    OBVIOUS
  <2> QED  BY <1>0, <1>2, <2>1, OtherFrame
<1>3. ASSUME NEW r, Standing(r, 1, 0) PROVE Standing(Append(r, F("close", 0)), 1, None)
  BY <1>0, <1>3, OtherFrame
<1>4. ASSUME Standing(s, 0, None) PROVE Standing(s \o OpenText, 1, 0)
  <2>1. Standing(Append(s, F("open", 0)), 1, 0)
    BY <1>4, OpensItem
  <2>2. Standing(Append(Append(s, F("open", 0)), F("part", 0)), 1, 0)
    BY <1>2, <2>1
  <2>3. s \in Seq(Frame)
    BY <1>4 DEF Standing
  <2>4. F("open", 0) \in Frame /\ F("part", 0) \in Frame
    BY <1>0
  <2>5. s \o <<F("open", 0)>> = Append(s, F("open", 0))
    BY <2>3, <2>4
  <2>6. s \o <<F("open", 0), F("part", 0)>> = Append(Append(s, F("open", 0)), F("part", 0))
    BY <2>3, <2>4
  <2> QED  BY <1>1, <2>1, <2>2, <2>5, <2>6 DEF OpenText
<1>5. ASSUME Standing(s, 1, 0) PROVE Standing(s \o <<F("delta", 0)>>, 1, 0)
  <2>1. s \in Seq(Frame) /\ F("delta", 0) \in Frame
    BY <1>0, <1>5 DEF Standing
  <2>2. s \o <<F("delta", 0)>> = Append(s, F("delta", 0))
    BY <2>1
  <2> QED  BY <1>2, <1>5, <2>2
<1>6. ASSUME Standing(s, 1, 0) PROVE Standing(s \o CloseText, 1, None)
  <2>1. s \in Seq(Frame) /\ F("text", 0) \in Frame /\ F("parted", 0) \in Frame /\ F("close", 0) \in Frame
    BY <1>0, <1>6 DEF Standing
  <2>2. s \o <<F("close", 0)>> = Append(s, F("close", 0))
    BY <2>1
  <2>3. s \o <<F("text", 0), F("parted", 0), F("close", 0)>>
            = Append(Append(Append(s, F("text", 0)), F("parted", 0)), F("close", 0))
    BY <2>1
  <2>4. Standing(Append(Append(Append(s, F("text", 0)), F("parted", 0)), F("close", 0)), 1, None)
    BY <1>2, <1>3, <1>6
  <2> QED  BY <1>1, <1>3, <1>6, <2>2, <2>3, <2>4 DEF CloseText
<1> QED  BY <1>4, <1>5, <1>6

\* Each call is an item of its own, the next in turn.
LEMMA OneCallStands ==
    ASSUME Framed, NEW n \in Nat, NEW s, Standing(s, n, None)
    PROVE  Standing(s \o OneCall(n), n + 1, None)
<1>0. \A ev \in Events : F(ev, n) \in Frame /\ F(ev, n).ev = ev /\ F(ev, n).item = n
  BY DEF F, Frame
<1> USE DEF Events
<1>1. Standing(Append(s, F("open", n)), n + 1, n)
  BY OpensItem
<1>2. Standing(Append(Append(s, F("open", n)), F("delta", n)), n + 1, n)
  BY <1>0, <1>1, OtherFrame
<1>3. Standing(Append(Append(Append(s, F("open", n)), F("delta", n)), F("close", n)), n + 1, None)
  BY <1>0, <1>2, OtherFrame
<1>4. Standing(Append(Append(Append(s, F("open", n)), F("delta", n)), F("args", n)), n + 1, n)
  BY <1>0, <1>2, OtherFrame
<1>5. Standing(Append(Append(Append(Append(s, F("open", n)), F("delta", n)), F("args", n)), F("close", n)),
               n + 1, None)
  BY <1>0, <1>4, OtherFrame
<1>6. s \in Seq(Frame) /\ \A ev \in {"open", "delta", "args", "close"} : F(ev, n) \in Frame
  BY <1>0 DEF Standing
<1>7. CASE shape = "anthropic"
  <2>1. OneCall(n) = <<F("open", n), F("delta", n), F("close", n)>>
    BY <1>7 DEF OneCall
  <2>2. s \o <<F("open", n), F("delta", n), F("close", n)>>
            = Append(Append(Append(s, F("open", n)), F("delta", n)), F("close", n))
    BY <1>6
  <2> QED  BY <1>3, <2>1, <2>2
<1>8. CASE shape = "responses"
  <2>1. OneCall(n) = <<F("open", n), F("delta", n), F("args", n), F("close", n)>>
    BY <1>8 DEF OneCall
  <2>2. s \o <<F("open", n), F("delta", n), F("args", n), F("close", n)>>
            = Append(Append(Append(Append(s, F("open", n)), F("delta", n)), F("args", n)), F("close", n))
    BY <1>6
  <2> QED  BY <1>5, <2>1, <2>2
<1> QED  BY <1>7, <1>8 DEF Framed

\* One call more is its frames more.
LEMMA CallsGrow ==
    ASSUME Framed, NEW n \in Nat, NEW first \in Nat
    PROVE  /\ CallFrames(0, first) = <<>>
           /\ CallFrames(n, first) \in Seq(Frame)
           /\ CallFrames(n + 1, first) = CallFrames(n, first) \o OneCall(first + n)
<1> USE DEF Events
<1>0. \A i \in Nat : \A ev \in Events : F(ev, i) \in Frame
  BY DEF F, Frame
<1>1. PICK many \in {3, 4} :
          /\ Len(OneCall(0)) = many
          /\ \A i \in Nat : OneCall(i) \in Seq(Frame) /\ Len(OneCall(i)) = many
  <2>1. CASE shape = "anthropic"
    <3>1. \A i \in Nat : OneCall(i) = <<F("open", i), F("delta", i), F("close", i)>>
      BY <2>1 DEF OneCall
    <3>2. \A i \in Nat : F("open", i) \in Frame /\ F("delta", i) \in Frame /\ F("close", i) \in Frame
      BY <1>0
    <3>3. ASSUME NEW i \in Nat PROVE OneCall(i) \in Seq(Frame) /\ Len(OneCall(i)) = 3
      <4>1. OneCall(i) = <<F("open", i), F("delta", i), F("close", i)>>
        BY <3>1
      <4>2. F("open", i) \in Frame /\ F("delta", i) \in Frame /\ F("close", i) \in Frame
        BY <3>2
      <4> QED  BY <4>1, <4>2
    <3> QED  BY <3>3
  <2>2. CASE shape = "responses"
    <3>1. \A i \in Nat : OneCall(i) = <<F("open", i), F("delta", i), F("args", i), F("close", i)>>
      BY <2>2 DEF OneCall
    <3>2. \A i \in Nat : F("open", i) \in Frame /\ F("delta", i) \in Frame
                         /\ F("args", i) \in Frame /\ F("close", i) \in Frame
      BY <1>0
    <3>3. ASSUME NEW i \in Nat PROVE OneCall(i) \in Seq(Frame) /\ Len(OneCall(i)) = 4
      <4>1. OneCall(i) = <<F("open", i), F("delta", i), F("args", i), F("close", i)>>
        BY <3>1
      <4>2. F("open", i) \in Frame /\ F("delta", i) \in Frame
            /\ F("args", i) \in Frame /\ F("close", i) \in Frame
        BY <3>2
      <4> QED  BY <4>1, <4>2
    <3> QED  BY <3>3
  <2> QED  BY <2>1, <2>2 DEF Framed
<1>2. \A m \in Nat : CallFrames(m, first) =
          [k \in 1..(m * many) |-> OneCall(first + (k - 1) \div many)[((k - 1) % many) + 1]]
  BY <1>1 DEF CallFrames
<1>3. \A m \in Nat : \A k \in 1..(m * many) :
          /\ (k - 1) \div many \in 0..(m - 1)
          /\ ((k - 1) % many) + 1 \in 1..many
  <2>1. CASE many = 3
    BY <2>1
  <2>2. CASE many = 4
    BY <2>2
  <2> QED  BY <2>1, <2>2
<1>4. /\ n * many \in Nat
      /\ (n + 1) * many = n * many + many
  <2>1. CASE many = 3
    BY <2>1
  <2>2. CASE many = 4
    BY <2>2
  <2> QED  BY <2>1, <2>2
<1>5. \A m \in Nat : CallFrames(m, first) \in Seq(Frame) /\ Len(CallFrames(m, first)) = m * many
  <2> SUFFICES ASSUME NEW m \in Nat
               PROVE  CallFrames(m, first) \in Seq(Frame) /\ Len(CallFrames(m, first)) = m * many
    OBVIOUS
  <2>1. ASSUME NEW k \in 1..(m * many)
        PROVE  OneCall(first + (k - 1) \div many)[((k - 1) % many) + 1] \in Frame
    <3>1. first + (k - 1) \div many \in Nat /\ ((k - 1) % many) + 1 \in 1..many
      BY <1>3
    <3>2. \A i \in Nat : \A x \in 1..many : OneCall(i)[x] \in Frame
      BY <1>1
    <3> QED  BY <3>1, <3>2
  <2>2. m * many \in Nat
    <3>1. CASE many = 3
      BY <3>1
    <3>2. CASE many = 4
      BY <3>2
    <3> QED  BY <3>1, <3>2
  <2> DEFINE long == m * many
             At(k) == OneCall(first + (k - 1) \div many)[((k - 1) % many) + 1]
  <2>3. CallFrames(m, first) = [k \in 1..long |-> At(k)]
    BY <1>2
  <2>4. long \in Nat /\ \A k \in 1..long : At(k) \in Frame
    BY <2>1, <2>2
  <2> HIDE DEF long, At
  <2>5. CallFrames(m, first) \in Seq(Frame) /\ Len(CallFrames(m, first)) = long
    BY <2>3, <2>4
  <2> QED  BY <2>5 DEF long
<1>6. CallFrames(0, first) = <<>>
  <2>1. Len(CallFrames(0, first)) = 0
    BY <1>1, <1>5
  <2> QED  BY <1>5, <2>1
<1>7. CallFrames(n + 1, first) = CallFrames(n, first) \o OneCall(first + n)
  <2> DEFINE a == CallFrames(n, first)  b == OneCall(first + n)  t == CallFrames(n + 1, first)
  <2>1. /\ a \in Seq(Frame) /\ Len(a) = n * many /\ b \in Seq(Frame) /\ Len(b) = many
        /\ t \in Seq(Frame) /\ Len(t) = n * many + many
    <3>1. n + 1 \in Nat /\ first + n \in Nat
      OBVIOUS
    <3> QED  BY <1>1, <1>5, <1>4, <3>1
  <2>2. ASSUME NEW k \in 1..(n * many + many) PROVE t[k] = (a \o b)[k]
    <3>1. t[k] = OneCall(first + (k - 1) \div many)[((k - 1) % many) + 1]
      <4>1. n + 1 \in Nat
        OBVIOUS
      <4> QED  BY <1>2, <1>4, <4>1
    <3>2. CASE k <= n * many
      <4>1. k \in 1..(n * many)
        BY <1>4, <3>2
      <4>2. a[k] = OneCall(first + (k - 1) \div many)[((k - 1) % many) + 1]
        BY <1>2, <4>1
      <4> HIDE DEF a, b, t
      <4>3. (a \o b)[k] = a[k]
        BY <2>1, <4>1
      <4> QED  BY <3>1, <4>2, <4>3
    <3>3. CASE k > n * many
      <4>1. (k - 1) \div many = n /\ ((k - 1) % many) + 1 = k - n * many
        <5>1. CASE many = 3
          BY <3>3, <5>1
        <5>2. CASE many = 4
          BY <3>3, <5>2
        <5> QED  BY <5>1, <5>2
      <4>2. t[k] = b[k - n * many]
        BY <3>1, <4>1
      <4> HIDE DEF a, b, t
      <4>3. (a \o b)[k] = b[k - n * many]
        <5>1. n * many \in Nat
          BY <1>4
        <5> QED  BY <2>1, <3>3, <5>1
      <4> QED  BY <4>2, <4>3
    <3> QED
      <4>1. n * many \in Int
        BY <1>4
      <4>2. n * many + many \in Int
        BY <1>1, <4>1
      <4> DEFINE whole == n * many
      <4> HIDE DEF whole
      <4>3. k \in Int /\ whole \in Int
        BY <4>1, <4>2 DEF whole
      <4>4. k <= whole \/ k > whole
        BY <4>3
      <4> QED  BY <3>2, <3>3, <4>4 DEF whole
  <2> HIDE DEF a, b, t
  <2>3. a \o b \in Seq(Frame) /\ Len(a \o b) = Len(t)
    BY <2>1
  <2>4. \A k \in 1..Len(t) : t[k] = (a \o b)[k]
    BY <2>1, <2>2
  <2>5. t = a \o b
    BY <2>1, <2>3, <2>4
  <2> QED  BY <2>5 DEF a, b, t
<1> QED  BY <1>5, <1>6, <1>7

\* As many calls as an answer has.
LEMMA CallsStand ==
    ASSUME Framed, NEW n \in Nat, NEW first \in Nat, NEW s, Standing(s, first, None)
    PROVE  Standing(s \o CallFrames(n, first), first + n, None)
<1> DEFINE wrong == {m \in Nat : ~Standing(s \o CallFrames(m, first), first + m, None)}
<1>0. s \in Seq(Frame)
  BY DEF Standing
<1>1. ASSUME wrong # {} PROVE FALSE
  <2>1. PICK m \in wrong : \A y \in wrong : m <= y
    <3> HIDE DEF wrong
    <3>1. wrong \in SUBSET Nat
      BY DEF wrong
    <3> QED  BY <1>1, <3>1, LeastOne
  <2>2. m # 0
    <3>0. CallFrames(0, first) = <<>>
      <4>1. 0 \in Nat
        OBVIOUS
      <4> QED  BY <4>1, CallsGrow
    <3>1. s \o CallFrames(0, first) = s
      BY <1>0, <3>0
    <3>2. Standing(s \o CallFrames(0, first), first + 0, None)
      <4>1. first + 0 = first
        OBVIOUS
      <4> QED  BY <3>1, <4>1
    <3> QED  BY <2>1, <3>2
  <2>3. m \in Nat /\ m - 1 \in Nat /\ (m - 1) + 1 = m
    BY <2>1, <2>2
  <2> DEFINE before == s \o CallFrames(m - 1, first)
  <2>4. Standing(before, first + (m - 1), None)
    BY <2>1, <2>3
  <2>5. Standing(before \o OneCall(first + (m - 1)), first + m, None)
    <3> HIDE DEF before
    <3>1. first + (m - 1) \in Nat /\ (first + (m - 1)) + 1 = first + m
      BY <2>3
    <3> QED  BY <2>4, <3>1, OneCallStands
  <2>6. before \o OneCall(first + (m - 1)) = s \o CallFrames(m, first)
    <3>1. CallFrames(m, first) = CallFrames(m - 1, first) \o OneCall(first + (m - 1))
      BY <2>3, CallsGrow
    <3>2. CallFrames(m - 1, first) \in Seq(Frame)
      BY <2>3, CallsGrow
    <3>3. OneCall(first + (m - 1)) \in Seq(Frame)
      <4> DEFINE i == first + (m - 1)
      <4>1. i \in Nat
        BY <2>3
      <4> HIDE DEF i
      <4>2. \A ev \in Events : F(ev, i) \in Frame
        BY <4>1 DEF F, Frame
      <4>3. F("open", i) \in Frame /\ F("delta", i) \in Frame
            /\ F("args", i) \in Frame /\ F("close", i) \in Frame
        BY <4>2 DEF Events
      <4>4. OneCall(i) \in {<<F("open", i), F("delta", i), F("close", i)>>,
                             <<F("open", i), F("delta", i), F("args", i), F("close", i)>>}
        <5>1. CASE shape = "anthropic"
          BY <5>1 DEF OneCall
        <5>2. CASE shape = "responses"
          BY <5>2 DEF OneCall
        <5> QED  BY <5>1, <5>2 DEF Framed
      <4>5. OneCall(i) \in Seq(Frame)
        <5>1. /\ <<F("open", i), F("delta", i), F("close", i)>> \in Seq(Frame)
              /\ <<F("open", i), F("delta", i), F("args", i), F("close", i)>> \in Seq(Frame)
          BY <4>3
        <5> QED  BY <4>4, <5>1
      <4> QED  BY <4>5 DEF i
    <3> QED  BY <1>0, <3>1, <3>2, <3>3, SMTT(30)
  <2> QED  BY <2>1, <2>5, <2>6
<1> QED  BY <1>1

\* The last frames.
LEMMA StopStands ==
    ASSUME Framed, NEW n \in Nat, NEW s, Standing(s, n, None)
    PROVE  s \o StopFrames \in Seq(Frame) /\ Nested(s \o StopFrames)
<1> USE DEF Events
<1>0. \A ev \in Events : F(ev, 0) \in Frame /\ F(ev, 0).ev = ev
  BY DEF F, Frame
<1>1. \A r : Standing(r, n, None) => Nested(Append(r, F("stop", 0)))
  BY <1>0, OtherFrame DEF Written
<1>2. Standing(Append(s, F("reason", 0)), n, None)
  BY <1>0, OtherFrame DEF Written
<1>3. s \in Seq(Frame) /\ F("stop", 0) \in Frame /\ F("reason", 0) \in Frame
  BY <1>0 DEF Standing
<1>4. s \o <<F("stop", 0)>> = Append(s, F("stop", 0))
      /\ s \o <<F("reason", 0), F("stop", 0)>> = Append(Append(s, F("reason", 0)), F("stop", 0))
  BY <1>3
<1>5. StopFrames \in {<<F("stop", 0)>>, <<F("reason", 0), F("stop", 0)>>}
  BY DEF StopFrames, Framed
<1>6. /\ Append(s, F("stop", 0)) \in Seq(Frame)
      /\ Append(Append(s, F("reason", 0)), F("stop", 0)) \in Seq(Frame)
  BY <1>3
<1> QED  BY <1>1, <1>2, <1>4, <1>5, <1>6

-----------------------------------------------------------------------------
(***************************************************************************)
(* The stream of a request                                                 *)
(***************************************************************************)

Pieces == {"t", "op", "en", "cl"}
Types == {"delta", "failed", "result", "invoice", "done"}
Said == [type : Types, text : Seq(Pieces), calls : Nat]
Heard == [type : Types, text : Seq(Pieces), calls : Nat, from : Providers \cup {NoProvider}]
MessagesTyped == inbox \in Seq(Said) /\ outbox \in Seq(Heard)

LEMMA ForwardTyped ==
    ASSUME LoopTypes, MessagesTyped, NEW m \in Said, Forward(m)
    PROVE  outbox' \in Seq(Heard)
<1>1. Sent(m) \in Heard
  BY DEF Sent, Said, Heard, LoopTypes
<1> QED  BY <1>1 DEF Forward, MessagesTyped

LEMMA SaysTyped ==
    ASSUME MessagesTyped, NEW m \in Said, NEW w, Says(m, w)
    PROVE  MessagesTyped'
BY DEF Says, MessagesTyped

LEMMA WorkerTyped ==
    ASSUME WorkerTypes, MessagesTyped, WorkerSpeaks
    PROVE  MessagesTyped'
<1>1. /\ worker.text \in Seq(Pieces) /\ worker.calls \in Nat /\ worker.sent \in Nat
  <2>1. worker.text \in Answers \cup {<<>>} /\ worker.calls \in Nat /\ worker.sent \in Nat
    BY DEF WorkerTypes
  <2>2. Answers \subseteq Seq(Pieces) /\ <<>> \in Seq(Pieces)
    BY GatewayAssumption DEF Pieces
  <2> QED  BY <2>1, <2>2
<1>2. \A type \in Types : Msg(type) \in Said
  BY DEF Msg, Said, Pieces
<1>3. ASSUME NEW n \in (worker.sent + 1)..Len(worker.text),
             Says([Msg("delta") EXCEPT !.text = SubSeq(worker.text, worker.sent + 1, n)],
                  [worker EXCEPT !.sent = n])
      PROVE  MessagesTyped'
  <2>1. SubSeq(worker.text, worker.sent + 1, n) \in Seq(Pieces)
    <3>1. worker.sent + 1 \in 1..Len(worker.text) /\ n \in 1..Len(worker.text)
      BY <1>1
    <3> QED  BY <1>1, <3>1
  <2>2. [Msg("delta") EXCEPT !.text = SubSeq(worker.text, worker.sent + 1, n)] \in Said
    BY <2>1 DEF Msg, Said, Types
  <2> QED  BY <1>3, <2>2, SaysTyped
<1>4. ASSUME NEW type \in {"failed", "invoice", "done"}, NEW w, Says(Msg(type), w)
      PROVE  MessagesTyped'
  BY <1>2, <1>4, SaysTyped DEF Types
<1>5. ASSUME NEW w, Says([type |-> "result", text |-> worker.text, calls |-> worker.calls], w)
      PROVE  MessagesTyped'
  <2>1. [type |-> "result", text |-> worker.text, calls |-> worker.calls] \in Said
    BY <1>1 DEF Said, Types
  <2> QED  BY <1>5, <2>1, SaysTyped
<1> QED  BY <1>3, <1>4, <1>5 DEF WorkerSpeaks

LEMMA MessagesStep == LoopTypes /\ WorkerTypes /\ MessagesTyped /\ [Next]_vars => MessagesTyped'
<1> SUFFICES ASSUME LoopTypes, WorkerTypes, MessagesTyped, [Next]_vars PROVE MessagesTyped'
  OBVIOUS
<1>1. UNCHANGED <<inbox, outbox>> => MessagesTyped'
  BY DEF MessagesTyped
<1>2. CASE Refuse \/ Route \/ Unreachable \/ NoFunds \/ StreamEnds \/ Connect \/ Cancel \/ SendPay
           \/ Forfeits \/ Lost \/ ChannelEnds \/ UNCHANGED vars
  BY <1>1, <1>2 DEF Refuse, Route, Unreachable, NoFunds, StreamEnds, Connect, Cancel, SendPay, Forfeits,
     Lost, ChannelEnds, StreamOnly, vars
<1>3. CASE Drive \/ HangUp
  <2>1. CASE Drive
    <3>1. inbox' = <<>> /\ UNCHANGED outbox
      BY <2>1 DEF Drive
    <3> QED  BY <3>1 DEF MessagesTyped
  <2>2. CASE HangUp
    <3>1. outbox' = <<>> /\ UNCHANGED inbox
      BY <2>2 DEF HangUp
    <3> QED  BY <3>1 DEF MessagesTyped
  <2> QED  BY <1>3, <2>1, <2>2
<1>4. CASE LoopTakes
  <2>1. Head(inbox) \in Said /\ Tail(inbox) \in Seq(Said)
    BY <1>4 DEF LoopTakes, MessagesTyped
  <2>2. CASE Withholds(Head(inbox))
    <3>1. inbox' = <<>> /\ UNCHANGED outbox
      BY <1>4, <2>2 DEF LoopTakes
    <3> QED  BY <3>1 DEF MessagesTyped
  <2>3. CASE ~Withholds(Head(inbox))
    <3>1. inbox' = Tail(inbox) /\ Forward(Head(inbox))
      BY <1>4, <2>3 DEF LoopTakes
    <3>2. outbox' \in Seq(Heard)
      BY <2>1, <3>1, ForwardTyped
    <3> QED  BY <2>1, <3>1, <3>2 DEF MessagesTyped
  <2> QED  BY <2>2, <2>3
<1>5. CASE NextProvider
  <2>1. loop.withheld # "no" => Held(loop.withheld) \in Heard
    BY DEF Held, Heard, Types, LoopTypes, Pieces
  <2> QED  BY <1>5, <2>1 DEF NextProvider, MessagesTyped
<1>6. CASE StreamDelta \/ StreamResult \/ StreamFailed \/ BufferResult \/ Skips
  <2>1. outbox # <<>> /\ outbox' = Tail(outbox) /\ UNCHANGED inbox
    BY <1>6 DEF StreamDelta, StreamResult, StreamFailed, BufferResult, Skips, Gets, StreamOnly
  <2> QED  BY <2>1 DEF MessagesTyped
<1> QED
  BY <1>2, <1>3, <1>4, <1>5, <1>6, WorkerTyped DEF Next, LoopStep, StreamStep

\* An item is open exactly when the tool was sent the start of one.
LiveShape ==
    /\ live = [done |-> live.done, raw |-> live.raw, emitted |-> live.emitted, open |-> live.open,
               cut |-> live.cut, said |-> live.said, answer |-> live.answer, voices |-> live.voices]
    /\ live.done \in BOOLEAN /\ live.open \in BOOLEAN
StreamInv ==
    /\ LiveShape /\ (loop.at = "idle" => ~live.open)
    /\ Framed => frames \in Seq(Frame) /\ Nested(frames)
    /\ Framed /\ ~live.done /\ loop.at # "idle" =>
         Standing(frames, IF live.open THEN 1 ELSE 0, IF live.open THEN 0 ELSE None)

LEMMA EmptyStands == Standing(<<>>, 0, None)
<1>1. OpensTo(<<>>, 1) = {} /\ \A i : ~OpenAt(<<>>, 1, i)
  BY DEF OpensTo, OpenAt
<1>2. Nested(<<>>) /\ <<>> \in Seq(Frame) /\ Len(<<>>) = 0
  BY DEF Nested
<1> QED  BY <1>1, <1>2, FS_EmptySet DEF Standing, None

LEMMA StreamStarts == Init => StreamInv
<1> SUFFICES ASSUME Init PROVE StreamInv
  OBVIOUS
<1>1. LiveShape /\ ~live.open /\ loop.at = "idle"
  BY DEF Init, NotLive, NoLoop, LiveShape
<1>2. frames \in Seq(Frame) /\ Nested(frames)
  BY EmptyStands DEF Init, Standing
<1> QED  BY <1>1, <1>2 DEF StreamInv

LEMMA StreamApart ==
    ASSUME StreamInv, UNCHANGED <<shape, live, frames>>, loop'.at = "idle" <=> loop.at = "idle"
    PROVE  StreamInv'
BY DEF StreamInv, LiveShape, Framed, Standing, Nested, NestAt, OpenAt, OpensTo

\* A stream is over with one frame more.
LEMMA StreamOver ==
    ASSUME StreamInv, UNCHANGED shape, LiveShape', live'.done,
           loop'.at = "idle" => ~live'.open,
           Framed => frames' \in Seq(Frame) /\ Nested(frames')
    PROVE  StreamInv'
BY DEF StreamInv, Framed, Nested, NestAt, OpenAt, OpensTo

LEMMA ErrorNests ==
    ASSUME NEW s, NEW n \in Nat, NEW item, Standing(s, n, item)
    PROVE  s \o <<F("error", 0)>> \in Seq(Frame) /\ Nested(s \o <<F("error", 0)>>)
<1>1. F("error", 0) \in Frame /\ F("error", 0).ev = "error"
  BY DEF F, Frame, Events
<1>2. s \in Seq(Frame)
  BY DEF Standing
<1>3. Nested(Append(s, F("error", 0)))
  <2> DEFINE f == F("error", 0)
  <2> HIDE DEF f
  <2>1. f \in Frame /\ f.ev = "error"
    BY <1>1 DEF f
  <2>2. Nested(Append(s, f))
    BY <2>1, OtherFrame DEF Written
  <2> QED  BY <2>2 DEF f
<1>4. /\ s \o <<F("error", 0)>> = Append(s, F("error", 0))
      /\ Append(s, F("error", 0)) \in Seq(Frame)
  BY <1>1, <1>2
<1> QED  BY <1>3, <1>4

LEMMA StreamRoutes ==
    ASSUME StreamInv, Refuse \/ Route
    PROVE  StreamInv'
<1>1. LiveShape /\ ~live.open /\ loop.at = "idle" /\ UNCHANGED shape
  BY DEF StreamInv, Refuse, Route
<1>2. CASE Refuse
  <2>1. LiveShape' /\ live'.done /\ ~live'.open
    BY <1>1, <1>2 DEF Refuse, LiveShape
  <2>2. frames' = <<>> \o <<F("error", 0)>>
    BY <1>2 DEF Refuse, F
  <2>3. frames' \in Seq(Frame) /\ Nested(frames')
    BY <2>2, EmptyStands, ErrorNests
  <2> QED  BY <1>1, <2>1, <2>3, StreamOver
<1>3. CASE Route
  <2>1. UNCHANGED live /\ loop'.at # "idle"
    BY <1>3 DEF Route, NoLoop
  <2>2. ASSUME Framed PROVE Standing(frames', 0, None)
    <3>1. frames' = StartFrames
      BY <1>3, <2>2 DEF Route, Framed
    <3>2. F("start", 0) \in Frame /\ F("progress", 0) \in Frame
      BY DEF F, Frame, Events
    <3>3. Standing(Append(<<>>, F("start", 0)), 0, None)
      BY <3>2, EmptyStands, OtherFrame DEF F, Written
    <3>4. Standing(Append(Append(<<>>, F("start", 0)), F("progress", 0)), 0, None)
      BY <3>2, <3>3, OtherFrame DEF F, Written
    <3>5. StartFrames \in {Append(<<>>, F("start", 0)), Append(Append(<<>>, F("start", 0)), F("progress", 0))}
      <4> DEFINE a == F("start", 0)  b == F("progress", 0)
      <4>1. StartFrames \in {<<a>>, <<a, b>>}
        BY DEF StartFrames
      <4> HIDE DEF a, b
      <4>2. <<a>> = Append(<<>>, a) /\ <<a, b>> = Append(Append(<<>>, a), b)
        OBVIOUS
      <4> QED  BY <4>1, <4>2 DEF a, b
    <3> QED  BY <3>1, <3>3, <3>4, <3>5
  <2>3. LiveShape' /\ ~live'.open
    BY <1>1, <2>1 DEF LiveShape
  <2>4. Framed' <=> Framed
    BY <1>1 DEF Framed
  <2>5. Framed => frames' \in Seq(Frame) /\ Nested(frames')
    BY <2>2 DEF Standing
  <2> QED  BY <2>1, <2>2, <2>3, <2>4, <2>5 DEF StreamInv, Nested, Standing, NestAt, OpenAt, OpensTo
<1> QED  BY <1>2, <1>3

LEMMA StreamErrs ==
    ASSUME StreamInv, NEW more, Reading, Fails(more), UNCHANGED <<shape, loop>>
    PROVE  StreamInv'
<1>1. LiveShape' /\ live'.done /\ live'.open = live.open
  BY DEF Fails, StreamInv, LiveShape
<1>2. ASSUME Framed PROVE frames' \in Seq(Frame) /\ Nested(frames')
  <2>1. Standing(frames, IF live.open THEN 1 ELSE 0, IF live.open THEN 0 ELSE None)
    BY <1>2 DEF StreamInv, Reading
  <2>2. (IF live.open THEN 1 ELSE 0) \in Nat
    OBVIOUS
  <2>3. frames' = frames \o <<F("error", 0)>>
    BY DEF Fails
  <2> QED  BY <2>1, <2>2, <2>3, ErrorNests
<1>3. loop'.at = "idle" => ~live'.open
  BY <1>1 DEF StreamInv
<1> QED  BY <1>1, <1>2, <1>3, StreamOver

LEMMA StreamGrows ==
    ASSUME StreamInv, StreamDelta
    PROVE  StreamInv'
<1> DEFINE raw == live.raw \o Head(outbox).text
           peeled == Peel(raw)
           fresh == SubSeq(peeled, live.emitted + 1, Len(peeled))
           open == live.open \/ (fresh # <<>> /\ Framed)
           emitted == IF fresh = <<>> THEN live.emitted ELSE Len(peeled)
           cut == live.cut \/ CutsTag(live.raw, raw)
           voices == live.voices \cup {Head(outbox).from}
<1>1. /\ live' = [live EXCEPT !.raw = raw, !.emitted = emitted, !.cut = cut, !.open = open,
                              !.voices = voices]
      /\ frames' = IF fresh = <<>> THEN frames
                   ELSE frames \o (IF live.open THEN <<>> ELSE OpenText) \o <<F("delta", 0)>>
      /\ UNCHANGED <<shape, loop>> /\ ~live.done /\ loop.at # "idle"
  BY DEF StreamDelta, StreamOnly, Gets, Reading
<1>2. open \in BOOLEAN
  BY ZenonT(30)
<1>3. LiveShape
  BY DEF StreamInv
<1> DEFINE some == fresh # <<>>
<1>4. /\ some \in BOOLEAN /\ open = (live.open \/ (some /\ Framed))
      /\ frames' = IF ~some THEN frames
                   ELSE frames \o (IF live.open THEN <<>> ELSE OpenText) \o <<F("delta", 0)>>
  BY <1>1
<1> HIDE DEF raw, peeled, fresh, open, emitted, cut, voices, some
<1>5. LiveShape' /\ live'.open = open /\ ~live'.done
  BY <1>1, <1>2, <1>3 DEF LiveShape
<1>6. ASSUME Framed
      PROVE  Standing(frames', IF open THEN 1 ELSE 0, IF open THEN 0 ELSE None)
  <2>1. Standing(frames, IF live.open THEN 1 ELSE 0, IF live.open THEN 0 ELSE None)
    BY <1>1, <1>6 DEF StreamInv
  <2>2. CASE ~some
    BY <1>4, <2>1, <2>2
  <2>3. CASE some /\ live.open
    <3>1. Standing(frames, 1, 0) /\ open
      BY <1>4, <2>1, <2>3
    <3>2. frames \o <<>> = frames
      BY <3>1 DEF Standing
    <3>3. Standing(frames \o <<F("delta", 0)>>, 1, 0)
      BY <1>6, <3>1, TextFrames
    <3> QED  BY <1>4, <2>3, <3>1, <3>2, <3>3
  <2>4. CASE some /\ ~live.open
    <3>1. Standing(frames, 0, None) /\ open
      BY <1>4, <1>6, <2>1, <2>4
    <3>2. Standing(frames \o OpenText, 1, 0)
      BY <1>6, <3>1, TextFrames
    <3>3. Standing(frames \o OpenText \o <<F("delta", 0)>>, 1, 0)
      BY <1>6, <3>2, TextFrames
    <3> QED  BY <1>4, <2>4, <3>1, <3>3
  <2> QED  BY <1>4, <2>2, <2>3, <2>4
<1>7. Framed => frames' \in Seq(Frame) /\ Nested(frames')
  BY <1>6 DEF Standing
<1>8. (Framed' <=> Framed) /\ loop'.at # "idle"
  BY <1>1 DEF Framed
<1> QED  BY <1>5, <1>6, <1>7, <1>8 DEF StreamInv, Standing, Nested, NestAt, OpenAt, OpensTo

\* The frames of a result: the text if none was sent, its end, the calls, the end.
LEMMA ResultNests ==
    ASSUME Framed, NEW open \in BOOLEAN, NEW whole \in BOOLEAN, ~(open /\ whole), NEW calls \in Nat, NEW s,
           Standing(s, IF open THEN 1 ELSE 0, IF open THEN 0 ELSE None)
    PROVE  LET t == s \o (IF whole THEN OpenText \o <<F("delta", 0)>> ELSE <<>>)
                      \o (IF open \/ whole THEN CloseText ELSE <<>>)
                      \o CallFrames(calls, IF open \/ whole THEN 1 ELSE 0) \o StopFrames
           IN  t \in Seq(Frame) /\ Nested(t)
<1> DEFINE said == s \o (IF whole THEN OpenText \o <<F("delta", 0)>> ELSE <<>>)
           closed == said \o (IF open \/ whole THEN CloseText ELSE <<>>)
           many == IF open \/ whole THEN 1 ELSE 0
<1>0. s \in Seq(Frame) /\ many \in Nat
  BY DEF Standing
<1>1. Standing(said, many, IF open \/ whole THEN 0 ELSE None)
  <2>1. CASE whole
    <3>1. Standing(s, 0, None)
      BY <2>1
    <3>2. Standing(s \o OpenText \o <<F("delta", 0)>>, 1, 0)
      BY <3>1, TextFrames
    <3>3. OpenText \in Seq(Frame) /\ <<F("delta", 0)>> \in Seq(Frame)
      <4>1. F("open", 0) \in Frame /\ F("part", 0) \in Frame /\ F("delta", 0) \in Frame
        BY DEF F, Frame, Events
      <4>2. OpenText \in {<<F("open", 0)>>, <<F("open", 0), F("part", 0)>>}
        BY DEF OpenText, Framed
      <4>3. /\ <<F("open", 0)>> \in Seq(Frame) /\ <<F("open", 0), F("part", 0)>> \in Seq(Frame)
            /\ <<F("delta", 0)>> \in Seq(Frame)
        BY <4>1
      <4> QED  BY <4>2, <4>3
    <3>4. s \o (OpenText \o <<F("delta", 0)>>) = s \o OpenText \o <<F("delta", 0)>>
      <4> DEFINE a == OpenText  b == <<F("delta", 0)>>
      <4>1. a \in Seq(Frame) /\ b \in Seq(Frame)
        BY <3>3
      <4> HIDE DEF a, b
      <4>2. s \o (a \o b) = s \o a \o b
        BY <1>0, <4>1
      <4> QED  BY <4>2 DEF a, b
    <3> QED  BY <2>1, <3>2, <3>4
  <2>2. CASE ~whole
    <3>1. s \o <<>> = s
      BY <1>0
    <3> QED  BY <2>2, <3>1
  <2> QED  BY <2>1, <2>2
<1> HIDE DEF said
<1>2. Standing(closed, many, None)
  <2>1. CASE open \/ whole
    BY <1>1, <2>1, TextFrames
  <2>2. CASE ~(open \/ whole)
    <3>1. said \o <<>> = said
      BY <1>1 DEF Standing
    <3> QED  BY <1>1, <2>2, <3>1
  <2> QED  BY <2>1, <2>2
<1> HIDE DEF closed, many
<1>3. Standing(closed \o CallFrames(calls, many), many + calls, None)
  BY <1>0, <1>2, CallsStand
<1>4. many + calls \in Nat
  BY <1>0
<1>5. /\ closed \o CallFrames(calls, many) \o StopFrames \in Seq(Frame)
      /\ Nested(closed \o CallFrames(calls, many) \o StopFrames)
  BY <1>3, <1>4, StopStands
<1> QED  BY <1>5 DEF said, closed, many

LEMMA StreamAnswers ==
    ASSUME StreamInv, MessagesTyped, StreamResult
    PROVE  StreamInv'
<1> DEFINE m == Head(outbox)
           text == Peel(m.text)
           whole == shape = "responses" /\ ~live.open /\ text # <<>>
           cut == live.cut \/ CutsTag(live.raw, m.text)
<1>1. Reading /\ UNCHANGED <<shape, loop>> /\ outbox # <<>>
  BY DEF StreamResult, Gets, StreamOnly
<1>2. CASE Broken(m)
  <2>1. Fails(UNCHANGED told)
    BY <1>2 DEF StreamResult
  <2> QED  BY <1>1, <2>1, StreamErrs
<1>3. CASE ~Broken(m)
  <2>1. /\ live' = [live EXCEPT !.done = TRUE, !.said = m.text, !.answer = text, !.cut = cut,
                                !.voices = @ \cup {m.from}]
        /\ frames' = frames \o (IF whole THEN OpenText \o <<F("delta", 0)>> ELSE <<>>)
              \o (IF live.open \/ whole THEN CloseText ELSE <<>>)
              \o CallFrames(m.calls, IF live.open \/ whole THEN 1 ELSE 0) \o StopFrames
    BY <1>3 DEF StreamResult
  <2>2. m.calls \in Nat
    <3>1. m \in Heard
      BY <1>1 DEF MessagesTyped
    <3> QED  BY <3>1 DEF Heard
  <2>3. whole \in BOOLEAN /\ ~(live.open /\ whole)
    OBVIOUS
  <2> HIDE DEF m, text, whole, cut
  <2>4. LiveShape' /\ live'.done /\ live'.open = live.open /\ live.open \in BOOLEAN
    BY <2>1 DEF StreamInv, LiveShape
  <2>5. ASSUME Framed PROVE frames' \in Seq(Frame) /\ Nested(frames')
    <3>1. Standing(frames, IF live.open THEN 1 ELSE 0, IF live.open THEN 0 ELSE None)
      BY <1>1, <2>5 DEF StreamInv, Reading
    <3> QED  BY <2>1, <2>2, <2>3, <2>4, <2>5, <3>1, ResultNests
  <2>6. loop'.at # "idle"
    BY <1>1 DEF Reading
  <2> QED  BY <1>1, <2>4, <2>5, <2>6, StreamOver
<1> QED  BY <1>2, <1>3

LEMMA StreamBuffers ==
    ASSUME StreamInv, BufferResult
    PROVE  StreamInv'
<1> DEFINE m == Head(outbox)
<1>1. Reading /\ UNCHANGED <<shape, loop>> /\ shape = "buffered" /\ ~Framed /\ ~Framed'
  BY DEF BufferResult, Gets, StreamOnly, Framed
<1>2. CASE Broken(m)
  <2>1. Fails(UNCHANGED told)
    BY <1>2 DEF BufferResult
  <2> QED  BY <1>1, <2>1, StreamErrs
<1>3. CASE ~Broken(m)
  <2>1. live' = [live EXCEPT !.said = m.text, !.answer = Peel(m.text), !.open = TRUE,
                             !.voices = @ \cup {m.from}]
    BY <1>3 DEF BufferResult
  <2>2. LiveShape'
    BY <2>1 DEF StreamInv, LiveShape
  <2>3. loop'.at # "idle"
    BY <1>1 DEF Reading
  <2> QED  BY <1>1, <2>2, <2>3 DEF StreamInv
<1> QED  BY <1>2, <1>3

LEMMA StreamCloses ==
    ASSUME StreamInv, ChannelEnds
    PROVE  StreamInv'
<1>1. Reading /\ UNCHANGED <<shape, loop>>
  BY DEF ChannelEnds, StreamOnly
<1>2. CASE Fails(UNCHANGED told)
  BY <1>1, <1>2, StreamErrs
<1>3. CASE shape = "buffered" /\ live' = [live EXCEPT !.done = TRUE]
  <2>1. LiveShape' /\ live'.open = live.open /\ live'.done /\ ~Framed
    BY <1>3 DEF StreamInv, LiveShape, Framed
  <2>2. loop'.at # "idle"
    BY <1>1 DEF Reading
  <2> QED  BY <1>1, <2>1, <2>2, StreamOver
<1> QED  BY <1>2, <1>3 DEF ChannelEnds

LEMMA StreamSteps == LoopTypes /\ MessagesTyped /\ StreamInv /\ [Next]_vars => StreamInv'
<1> SUFFICES ASSUME LoopTypes, MessagesTyped, StreamInv, [Next]_vars PROVE StreamInv'
  OBVIOUS
<1>1. CASE LoopStep
  <2>1. UNCHANGED <<shape, live, frames>>
    BY <1>1 DEF LoopStep, Unreachable, NoFunds, Drive, LoopTakes, StreamEnds, NextProvider
  <2>2. loop.at # "idle" /\ loop'.at # "idle"
    <3>1. CASE LoopTakes
      BY <3>1 DEF LoopTakes, Forward, LoopTypes
    <3>2. CASE ~LoopTakes
      BY <1>1, <3>2 DEF LoopStep, Unreachable, NoFunds, Drive, StreamEnds, NextProvider, LoopTypes
    <3> QED  BY <3>1, <3>2
  <2> QED  BY <2>1, <2>2, StreamApart
<1>2. CASE HangUp \/ Connect \/ Cancel \/ SendPay \/ WorkerSpeaks \/ Forfeits \/ Lost \/ Skips
           \/ UNCHANGED vars
  <2>1. UNCHANGED <<shape, loop, live, frames>>
    BY <1>2 DEF HangUp, Connect, Cancel, SendPay, WorkerSpeaks, Says, Forfeits, Lost, Skips, StreamOnly,
                vars
  <2> QED  BY <2>1, StreamApart
<1>3. CASE StreamFailed
  <2>1. Reading /\ Fails(UNCHANGED told) /\ UNCHANGED <<shape, loop>>
    BY <1>3 DEF StreamFailed, Gets, StreamOnly
  <2> QED  BY <2>1, StreamErrs
<1> QED
  BY <1>1, <1>2, <1>3, StreamRoutes, StreamGrows, StreamAnswers, StreamBuffers, StreamCloses
  DEF Next, StreamStep

\* "OutputTextDelta without active item": whatever a provider says, and wherever
\* its answer is cut, the frames of stream_answer open items in order and one at a
\* time, write to and close the open one only, and leave none open at the end.
THEOREM ItemsNest == Spec => []FramesNest
<1>1. Init => LoopTypes /\ PayInv /\ MessagesTyped /\ StreamInv
  <2>1. Init => MessagesTyped
    BY DEF Init, MessagesTyped
  <2> QED  BY <2>1, PayStarts, StreamStarts
<1>2. LoopTypes /\ PayInv /\ MessagesTyped /\ StreamInv /\ [Next]_vars
        => LoopTypes' /\ PayInv' /\ MessagesTyped' /\ StreamInv'
  <2>1. PayInv => WorkerTypes
    BY DEF PayInv
  <2> QED  BY <2>1, LoopTyped, PayStep, MessagesStep, StreamSteps
<1>3. StreamInv => FramesNest
  BY NestedFrames DEF StreamInv
<1> QED  BY <1>1, <1>2, <1>3, PTL DEF Spec

-----------------------------------------------------------------------------
(***************************************************************************)
(* What is peeled of a text                                                *)
(***************************************************************************)

Rank(S, i) == Cardinality({j \in S : j <= i})

LEMMA GreatestOne ==
    ASSUME NEW n \in Nat, NEW S \in SUBSET (1..n), S # {}
    PROVE  \E x \in S : \A y \in S : y <= x
<1> DEFINE bounds == {b \in Nat : \A y \in S : y <= b}
<1>1. n \in bounds
  OBVIOUS
<1>2. PICK x \in bounds : \A b \in bounds : x <= b
  <2>1. bounds \in SUBSET Nat /\ bounds # {}
    BY <1>1
  <2> HIDE DEF bounds
  <2> QED  BY <2>1, LeastOne
<1>3. x \in S
  <2>1. SUFFICES ASSUME x \notin S PROVE FALSE
    OBVIOUS
  <2>2. PICK y \in S : TRUE
    OBVIOUS
  <2>3. x \in Nat /\ y \in Nat /\ y <= x /\ 1 <= y
    BY <1>2
  <2>4. x - 1 \in bounds
    BY <1>2, <2>1, <2>3
  <2> QED  BY <1>2, <2>3, <2>4
<1> QED  BY <1>2, <1>3

\* Ranks: finite, at most what the set has, and rising.
LEMMA RankRises ==
    ASSUME NEW n \in Nat, NEW S \in SUBSET (1..n)
    PROVE  /\ IsFiniteSet(S) /\ Cardinality(S) \in Nat
           /\ \A i : Rank(S, i) \in Nat
           /\ \A i \in S, j \in S : i < j => Rank(S, i) < Rank(S, j)
           /\ \A i \in S : Rank(S, i) \in 1..Cardinality(S)
<1>0. IsFiniteSet(1..n)
  BY FS_Interval
<1>1. IsFiniteSet(S)
  BY <1>0, FS_Subset
<1> DEFINE To(i) == {j \in S : j <= i}
<1>2. \A i : IsFiniteSet(To(i)) /\ Cardinality(To(i)) \in Nat /\ Cardinality(To(i)) <= Cardinality(S)
  <2> SUFFICES ASSUME NEW i
               PROVE  IsFiniteSet(To(i)) /\ Cardinality(To(i)) \in Nat /\ Cardinality(To(i)) <= Cardinality(S)
    OBVIOUS
  <2>1. To(i) \in SUBSET S
    OBVIOUS
  <2>2. IsFiniteSet(To(i)) /\ Cardinality(To(i)) <= Cardinality(S)
    BY <1>1, <2>1, FS_Subset
  <2> QED  BY <2>2, FS_CardinalityType
<1>3. ASSUME NEW i \in S, NEW j \in S, i < j PROVE Cardinality(To(i)) < Cardinality(To(j))
  <2>1. To(i) \in SUBSET To(j) /\ To(i) # To(j)
    <3>1. i \in 1..n /\ j \in 1..n
      OBVIOUS
    <3>2. j \in To(j) /\ j \notin To(i)
      BY <1>3, <3>1
    <3>3. \A k \in S : k \in 1..n
      OBVIOUS
    <3>4. \A k \in S : k <= i => k <= j
      BY <1>3, <3>1, <3>3
    <3> QED  BY <3>2, <3>4
  <2>2. Cardinality(To(i)) <= Cardinality(To(j))
        /\ (Cardinality(To(i)) = Cardinality(To(j)) => To(i) = To(j))
    BY <1>2, <2>1, FS_Subset
  <2> QED  BY <1>2, <2>1, <2>2
<1>4. ASSUME NEW i \in S PROVE Cardinality(To(i)) # 0
  <2>1. i \in To(i)
    <3>1. i \in 1..n
      OBVIOUS
    <3> QED  BY <3>1
  <2>2. To(i) # {}
    BY <2>1
  <2> QED  BY <1>2, <2>2, FS_EmptySet
<1>5. Cardinality(S) \in Nat
  BY <1>1, FS_CardinalityType
<1> QED  BY <1>1, <1>2, <1>3, <1>4, <1>5 DEF Rank

\* Each place has its element.
LEMMA NthExists ==
    ASSUME NEW n \in Nat, NEW S \in SUBSET (1..n), NEW k \in 1..Cardinality(S)
    PROVE  Nth(S, k) \in S /\ Rank(S, Nth(S, k)) = k
<1> DEFINE late == {i \in S : k <= Rank(S, i)}
<1>0. /\ IsFiniteSet(S) /\ Cardinality(S) \in Nat
      /\ \A i : Rank(S, i) \in Nat
      /\ \A i \in S, j \in S : i < j => Rank(S, i) < Rank(S, j)
      /\ \A i \in S : Rank(S, i) \in 1..Cardinality(S)
  BY RankRises
<1>1. S # {}
  <2>1. SUFFICES ASSUME S = {} PROVE FALSE
    OBVIOUS
  <2>2. Cardinality(S) = 0
    BY <2>1, FS_EmptySet
  <2> QED  BY <2>2
<1>2. late # {}
  <2>1. PICK x \in S : \A y \in S : y <= x
    BY <1>1, GreatestOne
  <2>2. {j \in S : j <= x} = S
    BY <2>1
  <2>3. Rank(S, x) = Cardinality(S)
    BY <2>2 DEF Rank
  <2> QED  BY <1>0, <2>3
<1>3. PICK i \in late : \A y \in late : i <= y
  <2>1. late \in SUBSET Nat
    <3>1. \A i \in S : i \in Nat
      OBVIOUS
    <3> QED  BY <3>1
  <2> HIDE DEF late
  <2> QED  BY <1>2, <2>1, LeastOne
<1>4. Rank(S, i) = k
  <2>1. SUFFICES ASSUME Rank(S, i) # k PROVE FALSE
    OBVIOUS
  <2> DEFINE before == {j \in S : j <= i} \ {i}
  <2>2. i \in S /\ i \in 1..n /\ k <= Rank(S, i) /\ Rank(S, i) \in Nat /\ k \in Nat /\ k >= 1
    BY <1>0, <1>3
  <2>3. Cardinality(before) = Rank(S, i) - 1 /\ Cardinality(before) >= k
    <3>1. {j \in S : j <= i} \in SUBSET S
      OBVIOUS
    <3>2. IsFiniteSet({j \in S : j <= i}) /\ i \in {j \in S : j <= i}
      BY <1>0, <2>2, <3>1, FS_Subset
    <3>3. Cardinality(before) = Cardinality({j \in S : j <= i}) - 1
      BY <3>2, FS_RemoveElement
    <3> HIDE DEF before
    <3> QED  BY <2>1, <2>2, <3>3 DEF Rank
  <2>4. before # {}
    <3> HIDE DEF before
    <3>1. SUFFICES ASSUME before = {} PROVE FALSE
      OBVIOUS
    <3>2. Cardinality(before) = 0
      BY <3>1, FS_EmptySet
    <3> QED  BY <2>2, <2>3, <3>2
  <2>5. PICK x \in before : \A y \in before : y <= x
    <3>1. before \in SUBSET (1..n)
      OBVIOUS
    <3> HIDE DEF before
    <3> QED  BY <2>4, <3>1, GreatestOne
  <2>6. x \in S /\ x < i /\ x \in 1..n
    BY <2>2, <2>5
  <2>7. {j \in S : j <= x} = before
    <3>1. \A j \in S : j \in 1..n
      OBVIOUS
    <3>2. \A j \in S : j <= x => j <= i /\ j # i
      BY <2>2, <2>6, <3>1
    <3> QED  BY <2>5, <3>2
  <2>8. x \in late
    BY <2>3, <2>6, <2>7 DEF Rank
  <2> QED  BY <1>3, <2>2, <2>6, <2>8
<1>5. \E j \in S : Cardinality({l \in S : l <= j}) = k
  BY <1>3, <1>4 DEF Rank
<1> QED  BY <1>5 DEF Nth, Rank

LEMMA PeelTyped ==
    ASSUME NEW s \in Seq(Pieces)
    PROVE  /\ Seen(s) \in SUBSET (1..Len(s)) /\ Cardinality(Seen(s)) \in Nat
           /\ Peel(s) \in Seq(Pieces) /\ Len(Peel(s)) = Cardinality(Seen(s))
           /\ \A k \in 1..Cardinality(Seen(s)) : Peel(s)[k] = s[Nth(Seen(s), k)]
<1>1. Seen(s) \in SUBSET (1..Len(s)) /\ Len(s) \in Nat
  BY DEF Seen
<1>2. Cardinality(Seen(s)) \in Nat
  BY <1>1, RankRises
<1>3. \A k \in 1..Cardinality(Seen(s)) : s[Nth(Seen(s), k)] \in Pieces
  <2> TAKE k \in 1..Cardinality(Seen(s))
  <2>1. Nth(Seen(s), k) \in 1..Len(s)
    BY <1>1, NthExists
  <2> QED  BY <2>1
<1> QED  BY <1>1, <1>2, <1>3 DEF Peel

\* Unless a text was cut inside a tag, what was peeled of it stands when it grows.
LEMMA PeelGrows ==
    ASSUME NEW raw \in Seq(Pieces), NEW more \in Seq(Pieces), ~CutsTag(raw, raw \o more)
    PROVE  LET p == Peel(raw)  q == Peel(raw \o more) IN
           Len(p) <= Len(q) /\ \A k \in 1..Len(p) : q[k] = p[k]
<1> DEFINE s == raw \o more
           S == Seen(raw)
           T == Seen(s)
<1>1. /\ s \in Seq(Pieces) /\ Len(s) = Len(raw) + Len(more) /\ Len(raw) \in Nat /\ Len(more) \in Nat
      /\ DOMAIN s = 1..Len(s) /\ DOMAIN raw = 1..Len(raw)
      /\ \A i \in 1..Len(raw) : s[i] = raw[i]
  OBVIOUS
<1> HIDE DEF s
<1>2. S \in SUBSET (1..Len(raw)) /\ T \in SUBSET (1..Len(s)) /\ Len(s) \in Nat
  BY <1>1, PeelTyped, SMTT(30)
<1>3. ASSUME NEW i \in 1..Len(raw) PROVE i \in T <=> i \in S
  <2>1. \A o \in 1..i : OpensAt(s, o) <=> OpensAt(raw, o)
    <3> TAKE o \in 1..i
    <3>1. CASE o < Len(raw)
      BY <1>1, <3>1 DEF OpensAt
    <3>2. CASE o = Len(raw)
      <4>1. raw # <<>> /\ ~(o < Len(raw))
        BY <1>1, <3>2
      <4>2. ~OpensAt(s, o)
        BY <3>2, <4>1 DEF CutsTag, s
      <4> QED  BY <4>1, <4>2 DEF OpensAt
    <3>3. o < Len(raw) \/ o = Len(raw)
      <4>1. Len(raw) \in Nat /\ i \in Int /\ i <= Len(raw) /\ o \in Int /\ o <= i
        BY <1>1
      <4> QED  BY <4>1
    <3> QED  BY <3>1, <3>2, <3>3
  <2>2. \A o \in 1..i : \A k \in (o + 2)..(i - 1) : s[k] = raw[k]
    BY <1>1
  <2>3. Hidden(s, i) <=> Hidden(raw, i)
    BY <2>1, <2>2 DEF Hidden
  <2> QED  BY <1>1, <2>3 DEF Seen
<1> HIDE DEF S, T
<1>4. \A i \in 1..Len(raw) : Rank(T, i) = Rank(S, i)
  <2> TAKE i \in 1..Len(raw)
  <2>1. \A j \in T : j <= i => j \in 1..Len(raw)
    BY <1>1, <1>2
  <2>2. \A j \in S : j \in 1..Len(raw)
    BY <1>2
  <2>3. {j \in T : j <= i} = {j \in S : j <= i}
    BY <1>3, <2>1, <2>2
  <2> QED  BY <2>3 DEF Rank
<1>5. Cardinality(S) <= Cardinality(T) /\ Cardinality(S) \in Nat /\ Cardinality(T) \in Nat
  <2>1. S \in SUBSET T
    BY <1>2, <1>3
  <2>2. IsFiniteSet(T) /\ Cardinality(S) \in Nat /\ Cardinality(T) \in Nat
    BY <1>1, <1>2, RankRises
  <2> QED  BY <2>1, <2>2, FS_Subset
<1>6. ASSUME NEW k \in 1..Cardinality(S) PROVE Nth(T, k) = Nth(S, k) /\ Nth(S, k) \in 1..Len(raw)
  <2> DEFINE x == Nth(S, k)  y == Nth(T, k)
  <2>1. x \in S /\ Rank(S, x) = k
    BY <1>1, <1>2, NthExists
  <2>2. k \in 1..Cardinality(T)
    BY <1>5
  <2>3. y \in T /\ Rank(T, y) = k
    BY <1>2, <2>2, NthExists
  <2>4. x \in T /\ Rank(T, x) = k /\ x \in 1..Len(raw)
    BY <1>2, <1>3, <1>4, <2>1
  <2>5. \A i \in T, j \in T : i < j => Rank(T, i) < Rank(T, j)
    BY <1>2, RankRises
  <2>6. x \in Int /\ y \in Int
    <3>1. y \in 1..Len(s)
      BY <1>2, <2>3
    <3> QED  BY <2>4, <3>1
  <2> HIDE DEF x, y
  <2>7. ~(x < y) /\ ~(y < x)
    <3>1. k \in Int
      OBVIOUS
    <3> QED  BY <2>3, <2>4, <2>5, <3>1
  <2> QED  BY <2>4, <2>6, <2>7 DEF x, y
<1>7. /\ Len(Peel(raw)) = Cardinality(S) /\ Len(Peel(s)) = Cardinality(T)
      /\ \A k \in 1..Cardinality(S) : Peel(raw)[k] = raw[Nth(S, k)]
      /\ \A k \in 1..Cardinality(T) : Peel(s)[k] = s[Nth(T, k)]
  BY <1>1, PeelTyped DEF S, T
<1>8. \A k \in 1..Cardinality(S) : Peel(s)[k] = Peel(raw)[k]
  BY <1>1, <1>5, <1>6, <1>7
<1> QED  BY <1>5, <1>7, <1>8 DEF s

\* What stream_answer sends of a delta makes up for what had been sent.
LEMMA FreshCompletes ==
    ASSUME NEW p \in Seq(Pieces), NEW q \in Seq(Pieces), Len(p) <= Len(q),
           \A k \in 1..Len(p) : q[k] = p[k]
    PROVE  LET fresh == SubSeq(q, Len(p) + 1, Len(q)) IN
           p \o fresh = q /\ (fresh = <<>> => Len(q) = Len(p))
<1> DEFINE fresh == SubSeq(q, Len(p) + 1, Len(q))
<1>1. /\ fresh \in Seq(Pieces) /\ Len(fresh) = Len(q) - Len(p)
      /\ \A k \in 1..(Len(q) - Len(p)) : fresh[k] = q[Len(p) + k]
      /\ Len(p) \in Nat /\ Len(q) \in Nat
  OBVIOUS
<1> HIDE DEF fresh
<1>2. p \o fresh \in Seq(Pieces) /\ Len(p \o fresh) = Len(q)
  BY <1>1
<1>3. ASSUME NEW k \in 1..Len(q) PROVE (p \o fresh)[k] = q[k]
  <2>1. CASE k <= Len(p)
    BY <1>1, <2>1
  <2>2. CASE k > Len(p)
    <3>1. (p \o fresh)[k] = fresh[k - Len(p)]
      BY <1>1, <2>2
    <3>2. k - Len(p) \in 1..(Len(q) - Len(p)) /\ Len(p) + (k - Len(p)) = k
      BY <1>1, <2>2
    <3> QED  BY <1>1, <3>1, <3>2
  <2> QED  BY <1>1, <2>1, <2>2
<1>4. p \o fresh = q
  <2> DEFINE w == p \o fresh
  <2>1. w \in Seq(Pieces) /\ Len(w) = Len(q) /\ \A k \in 1..Len(q) : w[k] = q[k]
    BY <1>2, <1>3
  <2> HIDE DEF w
  <2>2. w = q
    BY <2>1
  <2> QED  BY <2>2 DEF w
<1>5. fresh = <<>> => Len(q) = Len(p)
  BY <1>1
<1> QED  BY <1>4, <1>5 DEF fresh

LEMMA NothingPeels == Peel(<<>>) = <<>>
<1>1. <<>> \in Seq(Pieces)
  OBVIOUS
<1>2. Seen(<<>>) = {}
  BY DEF Seen
<1>3. Cardinality(Seen(<<>>)) = 0
  BY <1>2, FS_EmptySet
<1>4. Peel(<<>>) \in Seq(Pieces) /\ Len(Peel(<<>>)) = 0
  BY <1>1, <1>3, PeelTyped
<1> QED  BY <1>4

-----------------------------------------------------------------------------
(***************************************************************************)
(* The words on their way to the tool                                      *)
(***************************************************************************)

\* A message on its way, when `a` words of T went out before it and `b` with it.
PieceOf(m, T, a, b) ==
    /\ m.type = "delta" => m.text = SubSeq(T, a + 1, b)
    /\ m.type # "delta" => a = b
    /\ m.type = "result" => Broken(m) \/ a = 0 \/ m.text = T

\* Up to the first result, a queue goes on with the text that `raw` began: c[k] of
\* its words are out once the first k messages are read.
NoResult(box, k) == \A j \in 1..(k - 1) : box[j].type # "result"
Continues(box, raw, T, c) ==
    /\ box \in Seq(Heard) /\ T \in Seq(Pieces)
    /\ c \in [0..Len(box) -> 0..Len(T)]
    /\ \A j, k \in 0..Len(box) : j <= k => c[j] <= c[k]
    /\ raw = SubSeq(T, 1, c[0])
    /\ \A k \in 1..Len(box) : NoResult(box, k) => PieceOf(box[k], T, c[k - 1], c[k])

LEMMA OnAppend ==
    ASSUME NEW box, NEW raw, NEW T, NEW c, Continues(box, raw, T, c), NEW m \in Heard,
           NEW n \in c[Len(box)]..Len(T),
           NoResult(box, Len(box) + 1) => PieceOf(m, T, c[Len(box)], n)
    PROVE  \E d : /\ Continues(Append(box, m), raw, T, d) /\ d[Len(box) + 1] = n
<1> DEFINE L == Len(box)
           d == [k \in 0..(L + 1) |-> IF k <= L THEN c[k] ELSE n]
           t == Append(box, m)
<1>1. /\ box \in Seq(Heard) /\ T \in Seq(Pieces) /\ L \in Nat /\ Len(T) \in Nat
      /\ c \in [0..L -> 0..Len(T)] /\ c[L] \in 0..Len(T)
      /\ \A j, k \in 0..L : j <= k => c[j] <= c[k]
      /\ raw = SubSeq(T, 1, c[0])
      /\ \A k \in 1..L : NoResult(box, k) => PieceOf(box[k], T, c[k - 1], c[k])
  BY DEF Continues
<1>2. t \in Seq(Heard) /\ Len(t) = L + 1 /\ t[L + 1] = m /\ \A k \in 1..L : t[k] = box[k]
  BY <1>1
<1> HIDE DEF L, t
<1>3. n \in 0..Len(T) /\ c[L] <= n
  BY <1>1 DEF L
<1>4. d \in [0..(L + 1) -> 0..Len(T)]
  BY <1>1, <1>3
<1>5. /\ \A k \in 0..L : d[k] = c[k]
      /\ d[L + 1] = n
  BY <1>1
<1> HIDE DEF d
<1>6. ASSUME NEW j \in 0..(L + 1), NEW k \in 0..(L + 1), j <= k PROVE d[j] <= d[k]
  <2>1. CASE k <= L
    BY <1>1, <1>5, <1>6, <2>1
  <2>2. CASE k = L + 1 /\ j <= L
    <3>1. d[j] = c[j] /\ c[j] <= c[L] /\ d[k] = n /\ c[j] \in 0..Len(T)
      BY <1>1, <1>5, <2>2
    <3> QED  BY <1>1, <1>3, <3>1
  <2>3. CASE k = L + 1 /\ j = L + 1
    BY <1>3, <1>5, <2>3
  <2> QED  BY <1>1, <1>6, <2>1, <2>2, <2>3
<1>7. \A k \in 1..(L + 1) : NoResult(t, k) <=> NoResult(box, k)
  <2>1. \A k \in 1..(L + 1) : \A j \in 1..(k - 1) : t[j] = box[j]
    BY <1>1, <1>2
  <2> QED  BY <2>1 DEF NoResult
<1>8. ASSUME NEW k \in 1..(L + 1), NoResult(t, k) PROVE PieceOf(t[k], T, d[k - 1], d[k])
  <2>1. CASE k = L + 1
    <3>1. t[k] = m /\ d[k - 1] = c[L] /\ d[k] = n
      BY <1>1, <1>2, <1>5, <2>1
    <3>2. NoResult(box, L + 1)
      BY <1>7, <1>8, <2>1
    <3> QED  BY <3>1, <3>2 DEF L
  <2>2. CASE k # L + 1
    <3>1. k \in 1..L /\ k - 1 \in 0..L /\ k \in 0..L
      BY <1>1, <2>2
    <3>2. t[k] = box[k] /\ d[k - 1] = c[k - 1] /\ d[k] = c[k] /\ NoResult(box, k)
      BY <1>2, <1>5, <1>7, <1>8, <3>1
    <3> QED  BY <1>1, <3>1, <3>2
  <2> QED  BY <2>1, <2>2
<1>9. raw = SubSeq(T, 1, d[0])
  BY <1>1, <1>5
<1>10. Continues(t, raw, T, d)
  BY <1>1, <1>2, <1>4, <1>6, <1>8, <1>9 DEF Continues
<1> QED  BY <1>5, <1>10 DEF L, t

LEMMA Joined ==
    ASSUME NEW T \in Seq(Pieces), NEW a \in 0..Len(T), NEW b \in a..Len(T)
    PROVE  SubSeq(T, 1, a) \o SubSeq(T, a + 1, b) = SubSeq(T, 1, b)
<1> DEFINE p == SubSeq(T, 1, a)  q == SubSeq(T, a + 1, b)  r == SubSeq(T, 1, b)
<1>1. /\ p \in Seq(Pieces) /\ Len(p) = a /\ \A k \in 1..a : p[k] = T[k]
      /\ Len(T) \in Nat /\ a \in Nat /\ b \in Nat /\ a <= b
  OBVIOUS
<1>2. q \in Seq(Pieces) /\ Len(q) = b - a /\ \A k \in 1..(b - a) : q[k] = T[a + k]
  OBVIOUS
<1>3. r \in Seq(Pieces) /\ Len(r) = b /\ \A k \in 1..b : r[k] = T[k]
  OBVIOUS
<1> HIDE DEF p, q, r
<1> DEFINE w == p \o q
<1>4. w \in Seq(Pieces) /\ Len(w) = b
  <2>1. w \in Seq(Pieces) /\ Len(w) = a + (b - a)
    <3>1. p \in Seq(Pieces) /\ q \in Seq(Pieces)
      BY <1>1, <1>2
    <3>2. w \in Seq(Pieces) /\ Len(w) = Len(p) + Len(q)
      BY <3>1
    <3> HIDE DEF w
    <3> QED  BY <1>1, <1>2, <3>2
  <2>2. a + (b - a) = b
    BY <1>1
  <2> QED  BY <2>1, <2>2
<1>5. ASSUME NEW k \in 1..b PROVE w[k] = r[k]
  <2>1. CASE k <= a
    BY <1>1, <1>2, <1>3, <2>1
  <2>2. CASE k > a
    <3>1. k - a \in 1..(b - a) /\ a + (k - a) = k
      BY <1>1, <2>2
    <3>2. w[k] = q[k - a]
      BY <1>1, <1>2, <2>2
    <3> QED  BY <1>2, <1>3, <3>1, <3>2
  <2>3. k <= a \/ k > a
    <3>1. k \in Int /\ a \in Int
      BY <1>1
    <3> QED  BY <3>1
  <2> QED  BY <2>1, <2>2, <2>3
<1> HIDE DEF w
<1>6. w = r
  BY <1>3, <1>4, <1>5
<1> QED  BY <1>6 DEF p, q, r, w

LEMMA OnTake ==
    ASSUME NEW box, NEW raw, NEW T, NEW c, Continues(box, raw, T, c), box # <<>>,
           Head(box).type # "result",
           NEW new,
           Head(box).type = "delta" => new = raw \o Head(box).text,
           Head(box).type # "delta" => new = raw
    PROVE  \E d : /\ Continues(Tail(box), new, T, d)
                  /\ d[Len(Tail(box))] = c[Len(box)]
<1> DEFINE L == Len(box)
           t == Tail(box)
           d == [k \in 0..(L - 1) |-> c[k + 1]]
<1>1. /\ box \in Seq(Heard) /\ T \in Seq(Pieces) /\ L \in Nat /\ L >= 1 /\ Len(T) \in Nat
      /\ c \in [0..L -> 0..Len(T)]
      /\ \A j, k \in 0..L : j <= k => c[j] <= c[k]
      /\ raw = SubSeq(T, 1, c[0])
      /\ \A k \in 1..L : NoResult(box, k) => PieceOf(box[k], T, c[k - 1], c[k])
  BY DEF Continues
<1>2. t \in Seq(Heard) /\ Len(t) = L - 1 /\ Head(box) = box[1] /\ \A k \in 1..(L - 1) : t[k] = box[k + 1]
  BY <1>1
<1> HIDE DEF L, t
<1>3. d \in [0..(L - 1) -> 0..Len(T)] /\ \A k \in 0..(L - 1) : d[k] = c[k + 1]
  BY <1>1
<1> HIDE DEF d
<1>4. \A j, k \in 0..(L - 1) : j <= k => d[j] <= d[k]
  <2> TAKE j, k \in 0..(L - 1)
  <2>1. j + 1 \in 0..L /\ k + 1 \in 0..L /\ (j <= k => j + 1 <= k + 1)
    BY <1>1
  <2> QED  BY <1>1, <1>3, <2>1
<1>5. ASSUME NEW k \in 1..(L - 1), NoResult(t, k) PROVE PieceOf(t[k], T, d[k - 1], d[k])
  <2>1. k + 1 \in 1..L /\ k - 1 \in 0..(L - 1) /\ k \in 0..(L - 1)
        /\ (k - 1) + 1 = k /\ (k + 1) - 1 = k
    BY <1>1
  <2>2. ASSUME NEW j \in 1..k PROVE box[j].type # "result"
    <3>1. CASE j = 1
      BY <1>2, <3>1
    <3>2. CASE j # 1
      <4>1. j - 1 \in 1..(k - 1) /\ j - 1 \in 1..(L - 1) /\ (j - 1) + 1 = j
        <5>1. j \in Int /\ 1 <= j /\ j <= k /\ k \in Int /\ k <= L - 1 /\ L \in Int
          BY <1>1
        <5> QED  BY <3>2, <5>1
      <4>2. t[j - 1] = box[j]
        BY <1>2, <4>1
      <4> QED  BY <1>5, <4>1, <4>2 DEF NoResult
    <3> QED  BY <3>1, <3>2
  <2>3. NoResult(box, k + 1)
    BY <2>1, <2>2 DEF NoResult
  <2>4. PieceOf(box[k + 1], T, c[k], c[k + 1])
    BY <1>1, <2>1, <2>3
  <2> QED  BY <1>2, <1>3, <2>1, <2>4
<1>6. new = SubSeq(T, 1, d[0])
  <2>1. NoResult(box, 1) /\ 1 \in 1..L /\ 0 \in 0..L /\ 1 \in 0..L
    BY <1>1 DEF NoResult
  <2>2. PieceOf(box[1], T, c[0], c[1]) /\ d[0] = c[1] /\ c[0] \in 0..Len(T) /\ c[1] \in c[0]..Len(T)
    <3>1. PieceOf(box[1], T, c[1 - 1], c[1])
      BY <1>1, <2>1
    <3>2. d[0] = c[0 + 1]
      BY <1>1, <1>3
    <3>3. c[0] \in 0..Len(T) /\ c[1] \in 0..Len(T) /\ c[0] <= c[1]
      BY <1>1, <2>1
    <3> QED  BY <1>1, <3>1, <3>2, <3>3
  <2>3. CASE box[1].type = "delta"
    <3>1. new = SubSeq(T, 1, c[0]) \o SubSeq(T, c[0] + 1, c[1])
      BY <1>1, <1>2, <2>2, <2>3 DEF PieceOf
    <3> QED  BY <1>1, <2>2, <3>1, Joined
  <2>4. CASE box[1].type # "delta"
    BY <1>1, <1>2, <2>2, <2>4 DEF PieceOf
  <2> QED  BY <2>3, <2>4
<1>7. Continues(t, new, T, d)
  BY <1>1, <1>2, <1>3, <1>4, <1>5, <1>6 DEF Continues
<1>8. d[Len(t)] = c[L]
  BY <1>1, <1>2, <1>3
<1> QED  BY <1>7, <1>8 DEF L, t

LEMMA OnRestart ==
    ASSUME NEW box, NEW raw, NEW T, NEW c, Continues(box, raw, T, c), c[Len(box)] = 0,
           NEW U \in Seq(Pieces)
    PROVE  Continues(box, raw, U, c)
<1>1. Len(box) \in Nat /\ Len(T) \in Nat /\ Len(U) \in Nat
  BY DEF Continues
<1>2. \A k \in 0..Len(box) : c[k] = 0
  <2> TAKE k \in 0..Len(box)
  <2>1. c[k] \in 0..Len(T) /\ c[k] <= c[Len(box)]
    BY <1>1 DEF Continues
  <2> QED  BY <1>1, <2>1
<1>3. c \in [0..Len(box) -> 0..Len(U)]
  BY <1>1, <1>2 DEF Continues
<1>4. SubSeq(T, 1, 0) = SubSeq(U, 1, 0) /\ SubSeq(T, 0 + 1, 0) = SubSeq(U, 0 + 1, 0)
  BY DEF Continues
<1>5. \A k \in 1..Len(box) : NoResult(box, k) => PieceOf(box[k], U, c[k - 1], c[k])
  <2> SUFFICES ASSUME NEW k \in 1..Len(box), NoResult(box, k)
               PROVE  PieceOf(box[k], U, c[k - 1], c[k])
    OBVIOUS
  <2>1. c[k - 1] = 0 /\ c[k] = 0
    BY <1>1, <1>2
  <2>2. PieceOf(box[k], T, c[k - 1], c[k])
    BY DEF Continues
  <2> QED  BY <1>4, <2>1, <2>2 DEF PieceOf
<1>6. raw = SubSeq(U, 1, c[0])
  BY <1>1, <1>2, <1>4 DEF Continues
<1> QED  BY <1>3, <1>5, <1>6 DEF Continues

\* A worker has said no more than it has, and a connection starts with nothing
\* said.
SentInv ==
    /\ worker.sent <= Len(worker.text)
    /\ wire.at = "connect" => inbox = <<>> /\ worker.sent = 0

\* A provider that was heard is the last one; a tool that is gone stays gone.
SpokeInv ==
    /\ loop.at \in {"idle", "try"} => ~loop.spoke
    /\ loop.at = "stream" => loop.withheld = "no"
    /\ loop.withheld # "no" => ~loop.spoke
    /\ loop.gone => ~RxAlive

LEMMA SentStep ==
    ASSUME PayInv, SentInv, [Next]_vars
    PROVE  SentInv'
<1> USE DEF PayInv
<1>1. CASE UNCHANGED <<wire, worker, inbox>>
  BY <1>1 DEF SentInv
<1>2. CASE Refuse \/ Route \/ StreamStep \/ HangUp \/ Unreachable \/ NoFunds \/ StreamEnds \/ UNCHANGED vars
  BY <1>1, <1>2 DEF Refuse, Route, StreamStep, StreamDelta, StreamResult, StreamFailed, BufferResult, Skips,
     ChannelEnds, StreamOnly, HangUp, Unreachable, NoFunds, StreamEnds, vars
<1>3. CASE Drive
  <2>1. worker' = NoWorker /\ inbox' = <<>>
    BY <1>3 DEF Drive
  <2> QED  BY <2>1 DEF SentInv, NoWorker
<1>4. CASE NextProvider
  <2>1. wire' = NoWire /\ UNCHANGED worker
    BY <1>4 DEF NextProvider
  <2> QED  BY <2>1 DEF SentInv, NoWire
<1>5. CASE LoopTakes
  <2>1. CASE Withholds(Head(inbox))
    <3>1. wire' = NoWire /\ UNCHANGED worker
      BY <1>5, <2>1 DEF LoopTakes
    <3> QED  BY <3>1 DEF SentInv, NoWire
  <2>2. CASE ~Withholds(Head(inbox))
    <3>1. Forward(Head(inbox)) /\ inbox # <<>>
      BY <1>5, <2>2 DEF LoopTakes
    <3>2. wire'.at = wire.at /\ worker'.sent = worker.sent /\ worker'.text = worker.text
      BY <3>1 DEF Forward, WireTypes, WorkerTypes
    <3> QED  BY <3>1, <3>2 DEF SentInv
  <2> QED  BY <2>1, <2>2
<1>6. CASE Connect
  <2>1. wire'.at # "connect"
    BY <1>6 DEF Connect, WireTypes
  <2>2. UNCHANGED worker \/ \E text \in Answers, calls \in 0..MaxCalls :
            worker' = [NoWorker EXCEPT !.at = "runs", !.text = text, !.calls = calls]
    BY <1>6 DEF Connect
  <2>3. CASE UNCHANGED worker
    BY <2>1, <2>3 DEF SentInv
  <2>4. ASSUME NEW text \in Answers, NEW calls,
               worker' = [NoWorker EXCEPT !.at = "runs", !.text = text, !.calls = calls]
        PROVE  SentInv'
    <3>1. worker'.sent = 0 /\ worker'.text = text
      BY <2>4 DEF NoWorker
    <3>2. text \in Seq(Pieces)
      BY GatewayAssumption DEF Pieces
    <3>3. 0 <= Len(text)
      BY <3>2
    <3> QED  BY <2>1, <3>1, <3>3 DEF SentInv
  <2> QED  BY <2>2, <2>3, <2>4
<1>7. CASE Cancel \/ SendPay \/ Forfeits \/ Lost
  <2>1. /\ UNCHANGED inbox /\ (wire'.at = "connect" => wire.at = "connect")
        /\ worker'.sent = worker.sent /\ worker'.text = worker.text
    BY <1>7 DEF Cancel, SendPay, Forfeits, Lost, WireTypes, WorkerTypes
  <2> QED  BY <2>1 DEF SentInv
<1>8. ASSUME NEW m, NEW w, Says(m, w), w.sent <= Len(w.text)
      PROVE  SentInv'
  <2>1. worker' = w /\ wire'.at # "connect"
    BY <1>8 DEF Says, WireTypes
  <2> QED  BY <1>8, <2>1 DEF SentInv
<1>9. CASE WorkerSpeaks
  <2>1. ASSUME NEW n \in (worker.sent + 1)..Len(worker.text),
               Says([Msg("delta") EXCEPT !.text = SubSeq(worker.text, worker.sent + 1, n)],
                    [worker EXCEPT !.sent = n])
        PROVE  SentInv'
    <3> DEFINE w == [worker EXCEPT !.sent = n]
               m == [Msg("delta") EXCEPT !.text = SubSeq(worker.text, worker.sent + 1, n)]
    <3>1. w.sent = n /\ w.text = worker.text /\ Says(m, w)
      BY <2>1 DEF WorkerTypes
    <3>2. n <= Len(worker.text)
      OBVIOUS
    <3> HIDE DEF w, m
    <3> QED  BY <1>8, <2>1, <3>1, <3>2
  <2>2. ASSUME NEW m, NEW at, Says(m, [worker EXCEPT !.at = at])
        PROVE  SentInv'
    <3> DEFINE w == [worker EXCEPT !.at = at]
    <3>1. w.sent = worker.sent /\ w.text = worker.text /\ Says(m, w)
      BY <2>2 DEF WorkerTypes
    <3> HIDE DEF w
    <3> QED  BY <1>8, <3>1 DEF SentInv
  <2> QED  BY <1>9, <2>1, <2>2 DEF WorkerSpeaks
<1> QED  BY <1>2, <1>3, <1>4, <1>5, <1>6, <1>7, <1>9 DEF Next, LoopStep

\* A tool that stopped listening, or that has its answer, never listens again.
LEMMA AliveNoMore ==
    ASSUME LiveShape, [Next]_vars, ~RxAlive
    PROVE  ~RxAlive'
<1>1. listening' = listening \/ listening' = FALSE
  BY DEF Next, vars, Refuse, Route, LoopStep, Unreachable, NoFunds, Drive, LoopTakes, StreamEnds, NextProvider,
     StreamStep, StreamDelta, StreamResult, StreamFailed, BufferResult, Skips, ChannelEnds, StreamOnly,
     HangUp, Connect, Cancel, SendPay, WorkerSpeaks, Says, Forfeits, Lost
<1>2. live.done => live'.done
  <2>1. CASE UNCHANGED live
    BY <2>1
  <2>2. CASE Refuse \/ StreamStep
    BY <2>2 DEF Refuse, StreamStep, StreamDelta, StreamResult, StreamFailed, BufferResult, Skips, ChannelEnds,
       Gets, Reading
  <2> QED
    BY <2>1, <2>2 DEF Next, vars, Route, LoopStep, Unreachable, NoFunds, Drive, LoopTakes, StreamEnds,
       NextProvider, HangUp, Connect, Cancel, SendPay, WorkerSpeaks, Says, Forfeits, Lost
<1> QED  BY <1>1, <1>2 DEF RxAlive

LEMMA SpokeStep ==
    ASSUME LoopTypes, LiveShape, SpokeInv, [Next]_vars
    PROVE  SpokeInv'
<1>0. ~RxAlive => ~RxAlive'
  BY AliveNoMore
<1>1. CASE UNCHANGED loop
  BY <1>0, <1>1 DEF SpokeInv
<1>2. CASE Route
  <2>1. PICK p, next : loop' = [NoLoop EXCEPT !.at = "try", !.peer = p, !.next = next]
    BY <1>2 DEF Route
  <2> QED  BY <2>1 DEF SpokeInv, NoLoop
<1>3. CASE Unreachable \/ NoFunds \/ Drive \/ StreamEnds \/ NextProvider
  BY <1>0, <1>3 DEF Unreachable, NoFunds, Drive, StreamEnds, NextProvider, LoopTypes, SpokeInv
<1>4. CASE LoopTakes
  <2> DEFINE m == Head(inbox)
  <2>1. CASE Withholds(m)
    BY <1>0, <1>4, <2>1 DEF LoopTakes, Withholds, LoopTypes, SpokeInv
  <2>2. CASE ~Withholds(m)
    <3> DEFINE finished == loop.finished \/ Ends(m)
               spoke == loop.spoke \/ (m.type = "delta" /\ ~loop.gone)
               gone == loop.gone \/ ~RxAlive
    <3>1. /\ loop' = [loop EXCEPT !.spoke = spoke, !.finished = finished, !.gone = gone]
          /\ loop.at = "stream"
      BY <1>4, <2>2 DEF LoopTakes, Forward
    <3>2. gone => ~RxAlive'
      BY <1>0 DEF SpokeInv
    <3> HIDE DEF finished, spoke, gone
    <3>3. /\ loop'.at = "stream" /\ loop'.withheld = loop.withheld /\ loop'.gone = gone
      BY <3>1 DEF LoopTypes
    <3> QED  BY <3>1, <3>2, <3>3 DEF SpokeInv
  <2> QED  BY <2>1, <2>2
<1> QED
  BY <1>1, <1>2, <1>3, <1>4 DEF Next, vars, LoopStep, Refuse, StreamStep, StreamDelta, StreamResult,
     StreamFailed, BufferResult, Skips, ChannelEnds, StreamOnly, HangUp, Connect, Cancel, SendPay, WorkerSpeaks, Says,
     Forfeits, Lost

\* What the transport has brought and the loop has not read: n words are passed on.
Unread(n) ==
    IF inbox = <<>> THEN n = worker.sent
    ELSE /\ n \in 0..worker.sent
         /\ PieceOf(Head(inbox), worker.text, n, worker.sent)

\* The words a tool waits for are those of the worker at work; before anybody is
\* heard there are none.
Carried(T, c) ==
    /\ Continues(outbox, live.raw, T, c)
    /\ NoResult(outbox, Len(outbox) + 1) =>
         /\ ~loop.spoke => c[Len(outbox)] = 0
         /\ loop.at = "stream" => T = worker.text /\ Unread(c[Len(outbox)])
CarryInv == RxAlive /\ shape # "buffered" => \E T, c : Carried(T, c)

\* Nothing on its way is touched.
LEMMA CarryApart ==
    ASSUME CarryInv, RxAlive, UNCHANGED <<shape, outbox>>, live'.raw = live.raw,
           ~loop'.spoke => ~loop.spoke,
           loop'.at = "stream" =>
              /\ loop.at = "stream" /\ UNCHANGED inbox
              /\ worker'.text = worker.text /\ worker'.sent = worker.sent
    PROVE  CarryInv'
<1> SUFFICES ASSUME shape # "buffered" PROVE \E T, c : Carried(T, c)'
  BY DEF CarryInv
<1>1. PICK T, c : Carried(T, c)
  BY DEF CarryInv
<1>2. Carried(T, c)'
  BY <1>1 DEF Carried, Continues, NoResult, PieceOf, Broken, Unread
<1> QED  BY <1>2

\* Another text begins, with nothing sent of it.
LEMMA CarryRestarts ==
    ASSUME CarryInv, RxAlive, UNCHANGED <<shape, outbox>>, live'.raw = live.raw, inbox' = <<>>,
           NoResult(outbox, Len(outbox) + 1) =>
              \A T, c : Carried(T, c) => c[Len(outbox)] = 0,
           worker'.text \in Seq(Pieces), worker'.sent = 0
    PROVE  CarryInv'
<1> SUFFICES ASSUME shape # "buffered" PROVE \E T, c : Carried(T, c)'
  BY DEF CarryInv
<1>1. PICK T, c : Carried(T, c)
  BY DEF CarryInv
<1>2. CASE ~NoResult(outbox, Len(outbox) + 1)
  <2>1. Carried(T, c)'
    BY <1>1, <1>2 DEF Carried, Continues, NoResult, PieceOf, Broken
  <2> QED  BY <2>1
<1>3. CASE NoResult(outbox, Len(outbox) + 1)
  <2>1. c[Len(outbox)] = 0
    BY <1>1, <1>3
  <2>2. PICK U \in Seq(Pieces) : U = worker'.text
    OBVIOUS
  <2>3. Continues(outbox, live.raw, U, c)
    BY <1>1, <2>1, OnRestart DEF Carried
  <2>4. Continues(outbox, live.raw, U, c)'
    BY <2>3 DEF Continues, NoResult, PieceOf, Broken
  <2>5. c[Len(outbox')] = 0 /\ Unread(0)'
    BY <2>1 DEF Unread
  <2>6. Carried(U, c)'
    BY <2>2, <2>4, <2>5 DEF Carried
  <2> QED  BY <2>6
<1> QED  BY <1>2, <1>3

\* submit's task passes a message on.
LEMMA CarryForwards ==
    ASSUME LoopTypes, PayInv, MessagesTyped, SentInv, SpokeInv, CarryInv, RxAlive, LoopTakes
    PROVE  CarryInv'
<1> DEFINE m == Head(inbox)
<1>0. loop.at = "stream" /\ inbox # <<>> /\ m \in Said /\ UNCHANGED <<shape, live>>
  BY DEF LoopTakes, MessagesTyped
<1>1. CASE Withholds(m)
  <2>1. UNCHANGED outbox /\ loop'.at = "ended" /\ (~loop'.spoke => ~loop.spoke)
    BY <1>1 DEF LoopTakes, LoopTypes
  <2> QED  BY <1>0, <2>1, CarryApart
<1>2. CASE ~Withholds(m)
  <2> SUFFICES ASSUME shape # "buffered" PROVE \E T, c : Carried(T, c)'
    BY <1>0 DEF CarryInv
  <2>1. Forward(m) /\ inbox' = Tail(inbox)
    BY <1>2 DEF LoopTakes
  <2>2. ~loop.gone
    BY DEF SpokeInv
  <2>3. outbox' = Append(outbox, Sent(m)) /\ Sent(m) \in Heard
    <3>1. Sent(m) \in Heard
      BY <1>0 DEF Sent, Said, Heard, LoopTypes
    <3> QED  BY <2>1, <2>2, <3>1 DEF Forward
  <2>4. worker'.text = worker.text /\ worker'.sent = worker.sent /\ worker.sent \in Nat
    BY <2>1 DEF Forward, PayInv, WorkerTypes
  <2>5. inbox' = <<>>
    <3>1. inbox = <<inbox[1]>>
      BY <1>0 DEF PayInv, NoEndBeforeBill
    <3>2. Tail(<<inbox[1]>>) = <<>>
      OBVIOUS
    <3> QED  BY <2>1, <3>1, <3>2
  <2>6. ~loop'.spoke => ~loop.spoke /\ m.type # "delta"
    <3> DEFINE spoke == loop.spoke \/ (m.type = "delta" /\ ~loop.gone)
               finished == loop.finished \/ Ends(m)
               gone == loop.gone \/ ~RxAlive
    <3>1. loop' = [loop EXCEPT !.spoke = spoke, !.finished = finished, !.gone = gone]
      BY <2>1 DEF Forward
    <3>2. loop'.spoke = spoke
      <4> HIDE DEF spoke, finished, gone
      <4> QED  BY <3>1 DEF LoopTypes
    <3> QED  BY <2>2, <3>2
  <2>7. PICK T, c : Carried(T, c)
    BY DEF CarryInv
  <2>8. PICK L : L = Len(outbox)
    OBVIOUS
  <2>9. PICK n : n = IF NoResult(outbox, L + 1) THEN worker.sent ELSE c[L]
    OBVIOUS
  <2>10. /\ Continues(outbox, live.raw, T, c)
         /\ NoResult(outbox, L + 1) =>
              /\ ~loop.spoke => c[L] = 0
              /\ T = worker.text /\ c[L] \in 0..worker.sent /\ PieceOf(m, T, c[L], worker.sent)
    BY <1>0, <2>8, <2>7 DEF Carried, Unread
  <2>11. c[L] \in 0..Len(T) /\ L \in Nat /\ Len(T) \in Nat
    BY <2>8, <2>10 DEF Continues
  <2>12. n \in c[L]..Len(T) /\ (NoResult(outbox, L + 1) => PieceOf(Sent(m), T, c[L], n))
    <3>1. PieceOf(m, T, c[L], worker.sent) => PieceOf(Sent(m), T, c[L], worker.sent)
      BY DEF PieceOf, Sent, Broken
    <3>2. NoResult(outbox, L + 1) => worker.sent \in c[L]..Len(T)
      BY <2>4, <2>10, <2>11 DEF SentInv
    <3> QED  BY <2>10, <2>11, <2>9, <3>1, <3>2
  <2>13. PICK d : Continues(Append(outbox, Sent(m)), live.raw, T, d) /\ d[L + 1] = n
    <3> HIDE DEF m
    <3> QED  BY <2>8, <2>3, <2>10, <2>12, OnAppend
  <2>14. Len(outbox') = L + 1 /\ outbox'[L + 1] = Sent(m) /\ \A k \in 1..L : outbox'[k] = outbox[k]
    <3>1. outbox \in Seq(Heard)
      BY DEF MessagesTyped
    <3> HIDE DEF m
    <3> QED  BY <2>8, <2>3, <3>1
  <2>15. ASSUME NoResult(outbox, Len(outbox) + 1)'
         PROVE  NoResult(outbox, L + 1) /\ m.type # "result"
    <3>1. \A k \in 1..(L + 1) : outbox'[k].type # "result"
      BY <2>11, <2>14, <2>15 DEF NoResult
    <3>2. Sent(m).type = m.type
      BY DEF Sent
    <3> QED  BY <2>11, <2>14, <3>1, <3>2 DEF NoResult
  <2>16. Continues(outbox, live.raw, T, d)'
    <3>1. Continues(outbox', live'.raw, T, d)
      BY <1>0, <2>3, <2>13
    <3> QED  BY <3>1 DEF Continues, NoResult, PieceOf, Broken
  <2>17. ASSUME NoResult(outbox, Len(outbox) + 1)'
         PROVE  /\ ~loop'.spoke => n = 0
                /\ T = worker'.text /\ Unread(n)'
    <3>1. n = worker.sent /\ T = worker.text /\ PieceOf(m, T, c[L], worker.sent)
      BY <2>10, <2>15, <2>17, <2>9
    <3>2. ASSUME ~loop'.spoke PROVE n = 0
      <4>1. ~loop.spoke /\ m.type # "delta"
        BY <2>6, <3>2
      <4>2. c[L] = 0 /\ c[L] = worker.sent
        BY <2>10, <2>15, <2>17, <3>1, <4>1 DEF PieceOf
      <4> QED  BY <3>1, <4>2
    <3>3. Unread(n)'
      BY <2>4, <2>5, <3>1 DEF Unread
    <3> QED  BY <2>4, <3>1, <3>2, <3>3
  <2>18. Carried(T, d)'
    <3>1. d[Len(outbox')] = n
      BY <2>13, <2>14
    <3> QED  BY <2>16, <2>17, <3>1 DEF Carried
  <2> QED  BY <2>18
<1> QED  BY <1>1, <1>2

\* The transport brings the next words, or the answer, of which some were said.
LEMMA CarrySays ==
    ASSUME PayInv, MessagesTyped, SentInv, CarryInv, RxAlive, WorkerSpeaks
    PROVE  CarryInv'
<1> SUFFICES ASSUME shape # "buffered" PROVE \E T, c : Carried(T, c)'
  BY DEF CarryInv, WorkerSpeaks, Says
<1>1. PICK T, c : Carried(T, c)
  BY DEF CarryInv
<1>0. PICK L, text, sent : L = Len(outbox) /\ text = worker.text /\ sent = worker.sent
  <2> DEFINE P(L, text, sent) == L = Len(outbox) /\ text = worker.text /\ sent = worker.sent
  <2>1. P(Len(outbox), worker.text, worker.sent)
    OBVIOUS
  <2> QED  BY <2>1
<1>2. sent \in Nat /\ sent <= Len(text)
  BY <1>0 DEF PayInv, WorkerTypes, SentInv
<1>3. ASSUME NEW m, NEW w, Says(m, w), w.text = text, w.sent \in Nat, sent <= w.sent,
             PieceOf(m, text, sent, w.sent)
      PROVE  Carried(T, c)'
  <2>1. /\ inbox = <<>> /\ inbox' = <<m>> /\ worker' = w /\ loop.at = "stream"
        /\ UNCHANGED <<shape, loop, outbox, live>>
    BY <1>3 DEF Says
  <2>2. Head(inbox') = m /\ inbox' # <<>>
    BY <2>1
  <2>3. NoResult(outbox, L + 1) => T = text /\ c[L] = sent /\ (~loop.spoke => c[L] = 0)
    BY <1>0, <1>1, <2>1 DEF Carried, Unread
  <2>4. Unread(sent)'
    <3>1. PieceOf(Head(inbox'), worker'.text, sent, worker'.sent) /\ sent \in 0..worker'.sent
      BY <1>2, <1>3, <2>1, <2>2
    <3> QED  BY <2>2, <3>1 DEF Unread, PieceOf, Broken
  <2>5. Continues(outbox, live.raw, T, c)'
    BY <1>1, <2>1 DEF Carried, Continues, NoResult, PieceOf, Broken
  <2>6. NoResult(outbox, Len(outbox) + 1)' <=> NoResult(outbox, L + 1)
    BY <1>0, <2>1 DEF NoResult
  <2>7. Len(outbox') = L /\ text = worker'.text /\ loop' = loop
    BY <1>0, <1>3, <2>1
  <2> QED  BY <2>3, <2>4, <2>5, <2>6, <2>7 DEF Carried
<1> DEFINE At(at) == [worker EXCEPT !.at = at]
<1>4. \A at : At(at).text = text /\ At(at).sent = sent
  BY <1>0 DEF PayInv, WorkerTypes
<1>5. ASSUME NEW n \in (sent + 1)..Len(text),
             Says([Msg("delta") EXCEPT !.text = SubSeq(text, sent + 1, n)], [worker EXCEPT !.sent = n])
      PROVE  \E U, d : Carried(U, d)'
  <2> DEFINE w == [worker EXCEPT !.sent = n]
             m == [Msg("delta") EXCEPT !.text = SubSeq(text, sent + 1, n)]
  <2>1. w.text = text /\ w.sent = n /\ n \in Nat /\ sent <= n
    BY <1>0, <1>2 DEF PayInv, WorkerTypes
  <2>2. PieceOf(m, text, sent, n)
    BY DEF PieceOf, Msg
  <2>3. Says(m, w)
    BY <1>5
  <2> HIDE DEF w, m
  <2>4. Carried(T, c)'
    BY <1>3, <2>1, <2>2, <2>3
  <2> QED  BY <2>4
<1>6. ASSUME NEW type \in {"failed", "invoice", "done"}, NEW at, Says(Msg(type), At(at))
      PROVE  \E U, d : Carried(U, d)'
  <2>1. PieceOf(Msg(type), text, sent, sent)
    BY DEF PieceOf, Msg
  <2> HIDE DEF At
  <2>2. Carried(T, c)'
    BY <1>2, <1>3, <1>4, <1>6, <2>1
  <2> QED  BY <2>2
<1>7. ASSUME Says([type |-> "result", text |-> worker.text, calls |-> worker.calls], At("answered"))
      PROVE  \E U, d : Carried(U, d)'
  <2> DEFINE m == [type |-> "result", text |-> worker.text, calls |-> worker.calls]
  <2>1. PieceOf(m, text, sent, sent)
    BY <1>0, <1>2 DEF PieceOf
  <2>2. Says(m, At("answered"))
    BY <1>7
  <2> HIDE DEF m, At
  <2>3. Carried(T, c)'
    BY <1>2, <1>3, <1>4, <2>1, <2>2
  <2> QED  BY <2>3
<1> QED  BY <1>0, <1>5, <1>6, <1>7 DEF WorkerSpeaks

\* The stream reads on: a delta's words join those it has, anything else but an
\* answer leaves them.
LEMMA CarryReads ==
    ASSUME MessagesTyped, CarryInv, RxAlive, shape # "buffered", StreamDelta \/ Skips, LiveShape
    PROVE  CarryInv'
<1>1. PICK T, c : Carried(T, c)
  BY DEF CarryInv
<1>2. /\ outbox # <<>> /\ outbox' = Tail(outbox) /\ Head(outbox).type # "result"
      /\ UNCHANGED <<shape, loop, inbox, worker>>
      /\ live'.raw = IF Head(outbox).type = "delta" THEN live.raw \o Head(outbox).text ELSE live.raw
  <2>1. CASE StreamDelta
    <3>1. live'.raw = live.raw \o Head(outbox).text
      BY <2>1 DEF StreamDelta, LiveShape
    <3> QED  BY <2>1, <3>1 DEF StreamDelta, Gets, StreamOnly
  <2>2. CASE Skips
    BY <2>2 DEF Skips, Gets, StreamOnly
  <2> QED  BY <2>1, <2>2
<1>3. PICK L, new : L = Len(outbox) /\ new = live'.raw
  <2> DEFINE P(L, new) == L = Len(outbox) /\ new = live'.raw
  <2>1. P(Len(outbox), live'.raw)
    OBVIOUS
  <2> QED  BY <2>1
<1>4. PICK d : Continues(Tail(outbox), new, T, d) /\ d[Len(Tail(outbox))] = c[L]
  <2>1. Continues(outbox, live.raw, T, c)
    BY <1>1 DEF Carried
  <2>2. /\ Head(outbox).type = "delta" => new = live.raw \o Head(outbox).text
        /\ Head(outbox).type # "delta" => new = live.raw
    BY <1>2, <1>3
  <2>3. \E d : Continues(Tail(outbox), new, T, d) /\ d[Len(Tail(outbox))] = c[Len(outbox)]
    <3> DEFINE B == outbox  R == live.raw  H == Head(outbox)
    <3>1. B # <<>> /\ H.type # "result" /\ H = Head(B)
      BY <1>2
    <3>2. Continues(B, R, T, c)
      BY <2>1
    <3>3. (H.type = "delta" => new = R \o H.text) /\ (H.type # "delta" => new = R)
      BY <2>2
    <3> HIDE DEF B, R, H
    <3>4. \E d : Continues(Tail(B), new, T, d) /\ d[Len(Tail(B))] = c[Len(B)]
      BY <3>1, <3>2, <3>3, OnTake
    <3> QED  BY <3>4 DEF B
  <2> QED  BY <1>3, <2>3
<1>5. Continues(outbox, live.raw, T, d)' /\ d[Len(outbox')] = c[L]
  <2>1. Continues(outbox', live'.raw, T, d)
    BY <1>2, <1>3, <1>4
  <2> QED  BY <1>2, <1>4, <2>1 DEF Continues, NoResult, PieceOf, Broken
<1>6. NoResult(outbox, Len(outbox) + 1)' => NoResult(outbox, L + 1)
  <2> SUFFICES ASSUME NoResult(outbox, Len(outbox) + 1)', NEW j \in 1..L
               PROVE  outbox[j].type # "result"
    BY <1>3 DEF NoResult
  <2>1. outbox \in Seq(Heard) /\ L \in Nat /\ L >= 1
    BY <1>2, <1>3 DEF MessagesTyped
  <2>2. CASE j = 1
    BY <1>2, <2>1, <2>2
  <2>3. CASE j # 1
    <3>1. Len(outbox') = L - 1 /\ j - 1 \in 1..(L - 1) /\ outbox'[j - 1] = outbox[j]
      BY <1>2, <1>3, <2>1, <2>3
    <3>2. j - 1 \in 1..((Len(outbox') + 1) - 1)
      BY <2>1, <3>1
    <3> QED  BY <3>1, <3>2 DEF NoResult
  <2> QED  BY <2>2, <2>3
<1>7. Carried(T, d)'
  <2>1. ASSUME NoResult(outbox, Len(outbox) + 1)'
        PROVE  /\ ~loop'.spoke => d[Len(outbox')] = 0
               /\ loop'.at = "stream" => T = worker'.text /\ Unread(c[L])'
    BY <1>1, <1>2, <1>3, <1>5, <1>6, <2>1 DEF Carried, Unread, PieceOf, Broken
  <2> QED  BY <1>5, <2>1 DEF Carried
<1> QED  BY <1>7 DEF CarryInv

\* A provider that gave nothing is followed by the next; the last one's end, held
\* back, is told.
LEMMA CarryGoesOn ==
    ASSUME LoopTypes, MessagesTyped, SpokeInv, CarryInv, RxAlive, NextProvider
    PROVE  CarryInv'
<1>1. UNCHANGED <<shape, live>> /\ loop'.at \in {"try", "over"} /\ loop'.spoke = loop.spoke
  BY DEF NextProvider, LoopTypes
<1>2. CASE UNCHANGED outbox
  BY <1>1, <1>2, CarryApart
<1>3. CASE outbox' # outbox
  <2> SUFFICES ASSUME shape # "buffered" PROVE \E T, c : Carried(T, c)'
    BY <1>1 DEF CarryInv
  <2>1. outbox' = Append(outbox, Held(loop.withheld)) /\ loop.withheld # "no" /\ ~loop.spoke
    BY <1>3 DEF NextProvider, SpokeInv
  <2>2. PICK T, c : Carried(T, c)
    BY DEF CarryInv
  <2>3. PICK m, L : m = Held(loop.withheld) /\ L = Len(outbox)
    <3> DEFINE P(m, L) == m = Held(loop.withheld) /\ L = Len(outbox)
    <3>1. P(Held(loop.withheld), Len(outbox))
      OBVIOUS
    <3> QED  BY <3>1
  <2>4. /\ m \in Heard /\ m.type \in {"failed", "result"} /\ Broken(m)
    BY <2>1, <2>3, NothingPeels DEF Held, Heard, Types, LoopTypes, Pieces, Broken
  <2>5. /\ Continues(outbox, live.raw, T, c) /\ (NoResult(outbox, L + 1) => c[L] = 0)
        /\ c[L] \in 0..Len(T) /\ Len(T) \in Nat /\ L \in Nat
    BY <2>1, <2>2, <2>3 DEF Carried, Continues
  <2>6. PICK d : Continues(Append(outbox, m), live.raw, T, d) /\ d[L + 1] = c[L]
    <3>1. c[L] \in c[L]..Len(T)
      BY <2>5
    <3>2. PieceOf(m, T, c[L], c[L])
      BY <2>4 DEF PieceOf
    <3> QED  BY <2>3, <2>4, <2>5, <3>1, <3>2, OnAppend
  <2>7. Continues(outbox, live.raw, T, d)'
    <3>1. Continues(outbox', live'.raw, T, d)
      BY <1>1, <2>1, <2>3, <2>6
    <3> QED  BY <3>1 DEF Continues, NoResult, PieceOf, Broken
  <2>8. Len(outbox') = L + 1 /\ \A k \in 1..L : outbox'[k] = outbox[k]
    <3>1. outbox \in Seq(Heard)
      BY DEF MessagesTyped
    <3> QED  BY <2>1, <2>3, <2>4, <3>1
  <2>9. NoResult(outbox, Len(outbox) + 1)' => NoResult(outbox, L + 1)
    BY <2>5, <2>8 DEF NoResult
  <2>10. Carried(T, d)'
    BY <1>1, <2>5, <2>6, <2>7, <2>8, <2>9 DEF Carried
  <2> QED  BY <2>10
<1> QED  BY <1>2, <1>3

\* A connection begins with nothing said, after providers that said nothing.
LEMMA CarryBegins ==
    ASSUME LoopTypes, PayInv, SentInv, SpokeInv, CarryInv, RxAlive, Drive \/ Connect
    PROVE  CarryInv'
<1>1. UNCHANGED <<shape, outbox, live>>
  BY DEF Drive, Connect
<1>2. CASE Drive
  <2>1. inbox' = <<>> /\ worker'.sent = 0 /\ worker'.text = <<>> /\ ~loop.spoke
    BY <1>2 DEF Drive, NoWorker, SpokeInv
  <2>2. NoResult(outbox, Len(outbox) + 1) => \A T, c : Carried(T, c) => c[Len(outbox)] = 0
    BY <2>1 DEF Carried
  <2>3. <<>> \in Seq(Pieces)
    OBVIOUS
  <2> QED  BY <1>1, <2>1, <2>2, <2>3, CarryRestarts
<1>3. CASE Connect
  <2>1. UNCHANGED <<loop, inbox>> /\ wire.at = "connect" /\ inbox = <<>> /\ worker.sent = 0
    BY <1>3 DEF Connect, SentInv
  <2>2. CASE UNCHANGED worker \/ loop.at # "stream"
    BY <1>1, <2>1, <2>2, CarryApart
  <2>3. CASE ~UNCHANGED worker /\ loop.at = "stream"
    <3>1. PICK text \in Answers :
             \E calls \in 0..MaxCalls :
               worker' = [NoWorker EXCEPT !.at = "runs", !.text = text, !.calls = calls]
      BY <1>3, <2>3 DEF Connect
    <3>2. worker'.text = text /\ worker'.sent = 0
      BY <3>1 DEF NoWorker
    <3>3. text \in Seq(Pieces)
      BY GatewayAssumption DEF Pieces
    <3>4. NoResult(outbox, Len(outbox) + 1) => \A T, c : Carried(T, c) => c[Len(outbox)] = 0
      BY <2>1, <2>3 DEF Carried, Unread
    <3> QED  BY <1>1, <2>1, <3>2, <3>3, <3>4, CarryRestarts
  <2> QED  BY <2>2, <2>3
<1> QED  BY <1>2, <1>3

LEMMA CarryStep ==
    ASSUME LoopTypes, PayInv, MessagesTyped, LiveShape, SentInv, SpokeInv, CarryInv, [Next]_vars
    PROVE  CarryInv'
<1> SUFFICES ASSUME RxAlive', shape' # "buffered" PROVE CarryInv'
  BY DEF CarryInv
<1>1. RxAlive /\ shape # "buffered"
  <2>1. UNCHANGED shape
    BY DEF Next, vars, Refuse, Route, LoopStep, Unreachable, NoFunds, Drive, LoopTakes, StreamEnds,
       NextProvider, StreamStep, StreamDelta, StreamResult, StreamFailed, BufferResult, Skips, ChannelEnds,
       StreamOnly, HangUp, Connect, Cancel, SendPay, WorkerSpeaks, Says, Forfeits, Lost
  <2> QED  BY <2>1, AliveNoMore
<1>2. ASSUME Refuse \/ HangUp \/ StreamResult \/ StreamFailed \/ ChannelEnds \/ BufferResult PROVE FALSE
  BY <1>1, <1>2 DEF RxAlive, LiveShape, Refuse, HangUp, StreamResult, StreamFailed, ChannelEnds, BufferResult,
     Fails
<1>3. CASE UNCHANGED vars \/ Route \/ Unreachable \/ NoFunds \/ StreamEnds \/ Cancel \/ SendPay \/ Forfeits
           \/ Lost
  <2>1. CASE Route
    BY <1>1, <2>1, CarryApart DEF Route, NoLoop, SpokeInv
  <2>2. CASE Unreachable \/ NoFunds \/ StreamEnds
    BY <1>1, <2>2, CarryApart DEF Unreachable, NoFunds, StreamEnds, LoopTypes
  <2>3. CASE Cancel \/ SendPay \/ Forfeits \/ Lost
    BY <1>1, <2>3, CarryApart DEF Cancel, SendPay, Forfeits, Lost, PayInv, WorkerTypes
  <2>4. CASE UNCHANGED vars
    BY <1>1, <2>4, CarryApart DEF vars
  <2> QED  BY <1>3, <2>1, <2>2, <2>3, <2>4
<1> QED
  BY <1>1, <1>2, <1>3, CarryForwards, CarrySays, CarryReads, CarryGoesOn, CarryBegins
  DEF Next, LoopStep, StreamStep

-----------------------------------------------------------------------------
(***************************************************************************)
(* What the tool was told                                                  *)
(***************************************************************************)

\* As long as no delta was found to end inside a tag the tool was told what is
\* peeled of the words so far; its text is open once it was told any.
TellInv ==
    /\ frames \in Seq(Frame) /\ told \in Seq(Pieces)
    /\ live.raw \in Seq(Pieces) /\ live.emitted \in Nat /\ live.cut \in BOOLEAN
    /\ shape # "buffered" /\ ~live.done =>
         /\ live.open => told # <<>>
         /\ ~live.cut => told = Peel(live.raw) /\ live.emitted = Len(told)
    /\ shape = "buffered" /\ live.open => told = live.answer
    /\ DeltasTellAnswer

LEMMA FramesTyped ==
    ASSUME NEW n \in Nat, NEW first \in Nat
    PROVE  /\ StartFrames \in Seq(Frame) /\ OpenText \in Seq(Frame) /\ CloseText \in Seq(Frame)
           /\ StopFrames \in Seq(Frame) /\ CallFrames(n, first) \in Seq(Frame)
           /\ <<F("delta", 0)>> \in Seq(Frame) /\ <<F("error", 0)>> \in Seq(Frame)
<1>0. \A ev \in Events : F(ev, 0) \in Frame /\ F(ev, n) \in Frame
  BY DEF F, Frame
<1>1. /\ F("start", 0) \in Frame /\ F("progress", 0) \in Frame /\ F("open", 0) \in Frame
      /\ F("part", 0) \in Frame /\ F("text", 0) \in Frame /\ F("parted", 0) \in Frame
      /\ F("close", 0) \in Frame /\ F("reason", 0) \in Frame /\ F("usage", 0) \in Frame
      /\ F("stop", 0) \in Frame /\ F("delta", 0) \in Frame /\ F("error", 0) \in Frame
      /\ F("calls", n) \in Frame
  BY <1>0 DEF Events
<1>2. StartFrames \in Seq(Frame)
  BY <1>1 DEF StartFrames
<1>3. OpenText \in Seq(Frame)
  BY <1>1 DEF OpenText
<1>4. CloseText \in Seq(Frame)
  BY <1>1 DEF CloseText
<1>5. StopFrames \in Seq(Frame)
  BY <1>1 DEF StopFrames
<1>6. CallFrames(n, first) \in Seq(Frame)
  <2>1. CASE Framed
    BY <2>1, CallsGrow
  <2>2. CASE ~Framed
    BY <1>1, <2>2 DEF CallFrames
  <2> QED  BY <2>1, <2>2
<1>7. <<F("delta", 0)>> \in Seq(Frame) /\ <<F("error", 0)>> \in Seq(Frame)
  BY <1>1
<1> QED  BY <1>2, <1>3, <1>4, <1>5, <1>6, <1>7

\* A stream that is not over has told no answer yet.
LEMMA TellApart ==
    ASSUME TellInv, UNCHANGED <<shape, live, told>>, frames' \in Seq(Frame), live.done => UNCHANGED frames
    PROVE  TellInv'
BY DEF TellInv, DeltasTellAnswer, Told

\* An error ends a stream, and is no answer.
LEMMA TellErrs ==
    ASSUME TellInv, LiveShape, NEW more, Fails(more), UNCHANGED <<shape, told>>
    PROVE  TellInv'
<1>1. live'.done /\ live'.raw = live.raw /\ live'.emitted = live.emitted /\ live'.cut = live.cut
      /\ live'.open = live.open /\ live'.said = live.said /\ live'.answer = live.answer
  BY DEF Fails, LiveShape
<1>2. frames' \in Seq(Frame) /\ frames'[Len(frames')] = F("error", 0)
  <2> DEFINE e == F("error", 0)
  <2>1. e \in Frame
    BY DEF F, Frame, Events
  <2>2. frames \in Seq(Frame) /\ frames' = frames \o <<e>>
    BY DEF Fails, TellInv
  <2> HIDE DEF e
  <2>3. frames' \in Seq(Frame) /\ frames'[Len(frames')] = e
    BY <2>1, <2>2
  <2> QED  BY <2>3 DEF e
<1>3. ~Told'
  BY <1>2 DEF Told, F
<1> QED  BY <1>1, <1>2, <1>3 DEF TellInv, DeltasTellAnswer

LEMMA TellGrows ==
    ASSUME TellInv, LiveShape, MessagesTyped, StreamDelta
    PROVE  TellInv'
<1> DEFINE text == Head(outbox).text
           raw == live.raw \o text
           peeled == Peel(raw)
           fresh == SubSeq(peeled, live.emitted + 1, Len(peeled))
           some == fresh # <<>>
           open == live.open \/ (some /\ Framed)
           emitted == IF some THEN Len(peeled) ELSE live.emitted
           cut == live.cut \/ CutsTag(live.raw, raw)
           voices == live.voices \cup {Head(outbox).from}
<1>1. /\ live' = [live EXCEPT !.raw = raw, !.emitted = emitted, !.cut = cut, !.open = open,
                              !.voices = voices]
      /\ told' = told \o fresh
      /\ frames' = IF some THEN frames \o (IF live.open THEN <<>> ELSE OpenText) \o <<F("delta", 0)>>
                   ELSE frames
      /\ UNCHANGED shape /\ ~live.done /\ shape # "buffered" /\ outbox # <<>>
  BY DEF StreamDelta, StreamOnly, Gets, Reading
<1>2. text \in Seq(Pieces) /\ live.raw \in Seq(Pieces) /\ raw \in Seq(Pieces)
  <2>1. Head(outbox) \in Heard
    BY <1>1 DEF MessagesTyped
  <2> QED  BY <2>1 DEF Heard, TellInv
<1>3. open \in BOOLEAN /\ cut \in BOOLEAN
  BY ZenonT(30)
<1>4. /\ live'.raw = raw /\ live'.emitted = emitted /\ live'.cut = cut /\ live'.open = open
      /\ ~live'.done
  <2> HIDE DEF raw, emitted, cut, open, voices
  <2> QED  BY <1>1, <1>3 DEF LiveShape
<1>5. frames' \in Seq(Frame)
  <2>1. /\ frames \in Seq(Frame) /\ OpenText \in Seq(Frame) /\ <<F("delta", 0)>> \in Seq(Frame)
        /\ <<>> \in Seq(Frame)
    BY FramesTyped DEF TellInv
  <2> DEFINE a == OpenText  b == <<F("delta", 0)>>
  <2> HIDE DEF a, b, some
  <2>2. frames' = IF some THEN frames \o (IF live.open THEN <<>> ELSE a) \o b ELSE frames
    BY <1>1 DEF a, b
  <2>3. a \in Seq(Frame) /\ b \in Seq(Frame)
    BY <2>1 DEF a, b
  <2>4. (IF live.open THEN <<>> ELSE a) \in Seq(Frame)
    BY <2>1, <2>3
  <2> QED  BY <2>1, <2>2, <2>3, <2>4
<1>6. ASSUME ~cut PROVE told' = peeled /\ emitted = Len(peeled)
  <2>0. ~live.cut /\ ~CutsTag(live.raw, raw)
    BY <1>6
  <2>1. told = Peel(live.raw) /\ live.emitted = Len(told)
    BY <1>1, <2>0 DEF TellInv
  <2>2. Len(told) <= Len(peeled) /\ \A k \in 1..Len(told) : peeled[k] = told[k]
    BY <1>2, <2>0, <2>1, PeelGrows
  <2>3. told \in Seq(Pieces) /\ peeled \in Seq(Pieces)
    BY <1>2, <2>1, PeelTyped
  <2>4. told \o fresh = peeled /\ (fresh = <<>> => Len(peeled) = Len(told))
    <3> HIDE DEF peeled
    <3> QED  BY <2>1, <2>2, <2>3, FreshCompletes
  <2> QED  BY <1>1, <2>1, <2>4
<1>7. /\ peeled \in Seq(Pieces) /\ Len(peeled) \in Nat /\ fresh \in Seq(Pieces)
      /\ told \in Seq(Pieces) /\ live.emitted \in Nat
  <2>1. peeled \in Seq(Pieces) /\ live.emitted \in Nat /\ told \in Seq(Pieces)
    BY <1>2, PeelTyped DEF TellInv
  <2> HIDE DEF peeled
  <2>2. fresh \in Seq(Pieces) /\ Len(peeled) \in Nat
    BY <2>1
  <2> QED  BY <2>1, <2>2
<1>8. told' \in Seq(Pieces) /\ (open => told' # <<>>)
  <2>1. live.open => told # <<>>
    BY <1>1 DEF TellInv
  <2> HIDE DEF fresh
  <2>2. \A a, b \in Seq(Pieces) : a \o b = <<>> => a = <<>> /\ b = <<>>
    OBVIOUS
  <2> QED  BY <1>1, <1>7, <2>1, <2>2
<1>9. emitted \in Nat
  BY <1>7
<1> HIDE DEF text, raw, peeled, fresh, some, open, emitted, cut, voices
<1>11. ~live'.cut => told' = Peel(live'.raw) /\ live'.emitted = Len(told')
  BY <1>4, <1>6 DEF peeled
<1>12. shape' # "buffered" /\ ~Told'
  BY <1>1, <1>4 DEF Told
<1>13. DeltasTellAnswer'
  BY <1>12 DEF DeltasTellAnswer
<1> QED  BY <1>2, <1>3, <1>4, <1>5, <1>8, <1>9, <1>11, <1>12, <1>13 DEF TellInv

\* The answer: what the tool was told is the beginning of what is peeled of it, or
\* it is told now.
LEMMA TellAnswers ==
    ASSUME TellInv, CarryInv, MessagesTyped, LiveShape, StreamResult
    PROVE  TellInv'
<1> DEFINE m == Head(outbox)
           text == Peel(m.text)
           whole == shape = "responses" /\ ~live.open /\ text # <<>>
           cut == live.cut \/ CutsTag(live.raw, m.text)
           voices == live.voices \cup {m.from}
<1>0. /\ outbox # <<>> /\ m.type = "result" /\ UNCHANGED shape /\ shape # "buffered"
      /\ listening /\ ~live.done /\ m \in Heard
  BY DEF StreamResult, StreamOnly, Gets, Reading, MessagesTyped
<1>1. CASE Broken(m)
  <2>1. Fails(UNCHANGED told) /\ UNCHANGED told
    BY <1>1 DEF StreamResult, Fails
  <2> QED  BY <1>0, <2>1, TellErrs
<1>2. CASE ~Broken(m)
  <2>1. /\ live' = [live EXCEPT !.done = TRUE, !.said = m.text, !.answer = text, !.cut = cut,
                                !.voices = voices]
        /\ told' = IF whole THEN text ELSE told
        /\ frames' = frames \o (IF whole THEN OpenText \o <<F("delta", 0)>> ELSE <<>>)
              \o (IF live.open \/ whole THEN CloseText ELSE <<>>)
              \o CallFrames(m.calls, IF live.open \/ whole THEN 1 ELSE 0) \o StopFrames
    BY <1>2 DEF StreamResult
  <2>2. /\ live'.raw = live.raw /\ live'.emitted = live.emitted /\ live'.cut = cut
        /\ live'.open = live.open /\ live'.said = m.text /\ live'.answer = text /\ live'.done
    <3> HIDE DEF m, text, cut, voices
    <3> QED  BY <2>1 DEF LiveShape
  <2>3. text \in Seq(Pieces) /\ told' \in Seq(Pieces)
    BY <1>0, <2>1, PeelTyped DEF Heard, TellInv
  <2>4. frames' \in Seq(Frame)
    <3> DEFINE a == OpenText  b == <<F("delta", 0)>>  z == CloseText  e == StopFrames
               cs == CallFrames(m.calls, IF live.open \/ whole THEN 1 ELSE 0)
    <3>1. m.calls \in Nat /\ (IF live.open \/ whole THEN 1 ELSE 0) \in Nat
      BY <1>0 DEF Heard
    <3>2. /\ a \in Seq(Frame) /\ b \in Seq(Frame) /\ z \in Seq(Frame) /\ e \in Seq(Frame)
          /\ cs \in Seq(Frame) /\ frames \in Seq(Frame)
      BY <3>1, FramesTyped DEF TellInv
    <3>3. frames' = frames \o (IF whole THEN a \o b ELSE <<>>) \o (IF live.open \/ whole THEN z ELSE <<>>)
                       \o cs \o e
      BY <2>1
    <3> HIDE DEF a, b, z, e, cs, whole
    <3>4. (IF whole THEN a \o b ELSE <<>>) \in Seq(Frame)
          /\ (IF live.open \/ whole THEN z ELSE <<>>) \in Seq(Frame)
      BY <3>2
    <3>5. \A u, v \in Seq(Frame) : u \o v \in Seq(Frame)
      OBVIOUS
    <3> QED  BY <3>2, <3>3, <3>4, <3>5
  <2>5. PICK T, c : Continues(outbox, live.raw, T, c)
    BY <1>0 DEF CarryInv, RxAlive, Carried
  <2>6. PICK a \in 0..Len(m.text) : live.raw = SubSeq(m.text, 1, a)
    <3>1. PieceOf(m, T, c[0], c[1]) /\ Len(outbox) >= 1
      <4>1. 1 \in 1..Len(outbox) /\ NoResult(outbox, 1) /\ m = outbox[1]
        BY <1>0 DEF NoResult, MessagesTyped
      <4>2. PieceOf(outbox[1], T, c[1 - 1], c[1])
        BY <2>5, <4>1 DEF Continues
      <4> QED  BY <4>1, <4>2
    <3>2. c[0] = 0 \/ m.text = T
      BY <1>0, <1>2, <3>1 DEF PieceOf
    <3>3. live.raw = SubSeq(T, 1, c[0]) /\ T \in Seq(Pieces) /\ c[0] \in 0..Len(T)
      BY <2>5 DEF Continues
    <3>4. m.text \in Seq(Pieces) /\ 0 \in 0..Len(m.text)
      BY <1>0 DEF Heard
    <3>5. SubSeq(T, 1, 0) = <<>> /\ SubSeq(m.text, 1, 0) = <<>>
      BY <3>3, <3>4
    <3> QED  BY <3>2, <3>3, <3>4, <3>5
  <2>7. cut \in BOOLEAN
    BY ZenonT(30)
  <2>8. ASSUME ~cut
        PROVE  /\ Len(told') <= Len(text) /\ \A k \in 1..Len(told') : told'[k] = text[k]
               /\ live.raw = m.text \/ (shape = "responses" /\ live.emitted = 0) => told' = text
    <3>1. ~live.cut /\ ~CutsTag(live.raw, m.text)
      BY <2>8
    <3>2. told = Peel(live.raw) /\ live.emitted = Len(told) /\ (live.open => told # <<>>)
          /\ told \in Seq(Pieces) /\ live.raw \in Seq(Pieces)
      BY <1>0, <3>1 DEF TellInv
    <3>3. CASE told' = text
      BY <2>3, <3>3
    <3>4. CASE ~whole
      <4> DEFINE rest == SubSeq(m.text, a + 1, Len(m.text))
      <4>1. m.text \in Seq(Pieces) /\ Len(m.text) \in Nat
        BY <1>0 DEF Heard
      <4>2. rest \in Seq(Pieces) /\ SubSeq(m.text, 1, Len(m.text)) = m.text
        BY <4>1
      <4>3. live.raw \o rest = m.text
        <5>1. Len(m.text) \in a..Len(m.text)
          BY <4>1
        <5>2. SubSeq(m.text, 1, a) \o rest = SubSeq(m.text, 1, Len(m.text))
          BY <4>1, <5>1, Joined
        <5> QED  BY <2>6, <4>2, <5>2
      <4> HIDE DEF rest, m
      <4>4. Len(told) <= Len(text) /\ \A k \in 1..Len(told) : text[k] = told[k]
        <5>1. ~CutsTag(live.raw, live.raw \o rest)
          BY <3>1, <4>3
        <5>2. LET p == Peel(live.raw)  q == Peel(live.raw \o rest) IN
              Len(p) <= Len(q) /\ \A k \in 1..Len(p) : q[k] = p[k]
          BY <3>2, <4>2, <5>1, PeelGrows
        <5> QED  BY <3>2, <4>3, <5>2
      <4>5. live.raw = m.text => told = text
        BY <3>2
      <4>6. ASSUME shape = "responses", live.emitted = 0 PROVE told = text
        <5>1. told = <<>>
          <6>1. told \in Seq(Pieces) /\ Len(told) = 0
            BY <3>2, <4>6
          <6> QED  BY <6>1
        <5>2. ~live.open
          BY <3>2, <5>1
        <5>3. text = <<>>
          BY <3>4, <4>6, <5>2
        <5> QED  BY <5>1, <5>3
      <4>7. told' = told
        BY <2>1, <3>4
      <4> QED  BY <4>4, <4>5, <4>6, <4>7
    <3> QED  BY <2>1, <3>3, <3>4
  <2>9. DeltasTellAnswer'
    <3> HIDE DEF text, cut, m
    <3> QED  BY <1>0, <2>2, <2>8 DEF DeltasTellAnswer
  <2> QED  BY <1>0, <2>2, <2>3, <2>4, <2>7, <2>9 DEF TellInv
<1> QED  BY <1>1, <1>2

LEMMA TellBuffers ==
    ASSUME TellInv, MessagesTyped, LiveShape, BufferResult
    PROVE  TellInv'
<1> DEFINE m == Head(outbox)
           text == Peel(m.text)
           voices == live.voices \cup {m.from}
<1>0. /\ outbox # <<>> /\ UNCHANGED shape /\ shape = "buffered" /\ ~live.done /\ m \in Heard
  BY DEF BufferResult, StreamOnly, Gets, Reading, MessagesTyped
<1>1. CASE Broken(m)
  <2>1. Fails(UNCHANGED told) /\ UNCHANGED told
    BY <1>1 DEF BufferResult, Fails
  <2> QED  BY <1>0, <2>1, TellErrs
<1>2. CASE ~Broken(m)
  <2>1. /\ live' = [live EXCEPT !.said = m.text, !.answer = text, !.open = TRUE, !.voices = voices]
        /\ told' = text /\ UNCHANGED frames
    BY <1>2 DEF BufferResult
  <2>2. text \in Seq(Pieces)
    BY <1>0, PeelTyped DEF Heard
  <2> HIDE DEF text, voices
  <2>3. /\ live'.raw = live.raw /\ live'.emitted = live.emitted /\ live'.cut = live.cut
        /\ live'.answer = text /\ ~live'.done
    BY <1>0, <2>1 DEF LiveShape
  <2> QED  BY <1>0, <2>1, <2>2, <2>3 DEF TellInv, DeltasTellAnswer, Told
<1> QED  BY <1>1, <1>2

LEMMA TellCloses ==
    ASSUME TellInv, LiveShape, ChannelEnds
    PROVE  TellInv'
<1>1. CASE Fails(UNCHANGED told)
  BY <1>1, TellErrs DEF ChannelEnds, StreamOnly, Fails
<1>2. CASE ~Fails(UNCHANGED told)
  <2>1. /\ shape = "buffered" /\ live.open /\ frames' = frames \o StopFrames /\ UNCHANGED <<shape, told>>
        /\ live' = [live EXCEPT !.done = TRUE]
    BY <1>2 DEF ChannelEnds, StreamOnly
  <2>2. frames' \in Seq(Frame)
    <3>1. StopFrames \in Seq(Frame) /\ frames \in Seq(Frame)
      BY FramesTyped DEF TellInv
    <3> QED  BY <2>1, <3>1
  <2>3. /\ live'.raw = live.raw /\ live'.emitted = live.emitted /\ live'.cut = live.cut
        /\ live'.said = live.said /\ live'.answer = live.answer
    BY <2>1 DEF LiveShape
  <2> QED  BY <2>1, <2>2, <2>3 DEF TellInv, DeltasTellAnswer
<1> QED  BY <1>1, <1>2

LEMMA TellStarts == Init => TellInv /\ SentInv /\ SpokeInv /\ CarryInv
<1> SUFFICES ASSUME Init PROVE TellInv /\ SentInv /\ SpokeInv /\ CarryInv
  OBVIOUS
<1>1. TellInv
  <2>1. <<>> \in Seq(Frame) /\ <<>> \in Seq(Pieces) /\ Len(<<>>) = 0
    OBVIOUS
  <2> QED  BY <2>1, NothingPeels DEF Init, NotLive, TellInv, DeltasTellAnswer, Told
<1>2. SentInv /\ SpokeInv
  BY DEF Init, NoWorker, NoWire, NoLoop, SentInv, SpokeInv
<1>3. CarryInv
  <2> DEFINE c == [k \in 0..0 |-> 0]
  <2>1. Continues(<<>>, <<>>, <<>>, c)
    <3>1. <<>> \in Seq(Heard) /\ <<>> \in Seq(Pieces) /\ Len(<<>>) = 0 /\ SubSeq(<<>>, 1, 0) = <<>>
      OBVIOUS
    <3>2. c \in [0..0 -> 0..0] /\ \A j \in 0..0 : c[j] = 0
      OBVIOUS
    <3> HIDE DEF c
    <3> QED  BY <3>1, <3>2 DEF Continues
  <2>2. Carried(<<>>, c)
    BY <2>1 DEF Carried, Init, NotLive, NoLoop
  <2> QED  BY <2>2 DEF CarryInv
<1> QED  BY <1>1, <1>2, <1>3

LEMMA TellStep ==
    ASSUME LoopTypes, MessagesTyped, LiveShape, CarryInv, TellInv, [Next]_vars
    PROVE  TellInv'
<1>1. CASE UNCHANGED <<shape, live, told, frames>>
  BY <1>1, TellApart DEF TellInv
<1>2. CASE Refuse
  <2>1. frames' = <<F("error", 0)>> /\ live' = [live EXCEPT !.done = TRUE] /\ UNCHANGED <<shape, told>>
    BY <1>2 DEF Refuse
  <2>2. frames' \in Seq(Frame) /\ ~Told'
    <3>1. frames' \in Seq(Frame)
      BY <2>1, FramesTyped
    <3>2. frames'[Len(frames')] = F("error", 0)
      BY <2>1
    <3> QED  BY <3>1, <3>2 DEF Told, F
  <2>3. /\ live'.raw = live.raw /\ live'.emitted = live.emitted /\ live'.cut = live.cut
        /\ live'.said = live.said /\ live'.answer = live.answer /\ live'.open = live.open /\ live'.done
    BY <2>1 DEF LiveShape
  <2> QED  BY <2>1, <2>2, <2>3 DEF TellInv, DeltasTellAnswer
<1>3. CASE Route
  <2>1. frames' \in Seq(Frame)
    <3>1. <<>> \in Seq(Frame)
      OBVIOUS
    <3> QED  BY <1>3, <3>1, FramesTyped DEF Route
  <2> QED  BY <1>3, <2>1, TellApart DEF Route
<1>4. CASE StreamFailed
  BY <1>4, TellErrs DEF StreamFailed, StreamOnly, Fails
<1> QED
  BY <1>1, <1>2, <1>3, <1>4, TellGrows, TellAnswers, TellBuffers, TellCloses
  DEF Next, vars, LoopStep, Unreachable, NoFunds, Drive, LoopTakes, StreamEnds, NextProvider, StreamStep, Skips,
      StreamOnly, HangUp, Connect, Cancel, SendPay, WorkerSpeaks, Says, Forfeits, Lost

\* peel_thinking over a stream: however the provider cuts its deltas, as long as
\* none ends inside an opening tag, whatever attempts came before, and however much
\* of its text it streamed, the words a tool was told are the beginning of the
\* answer, and all of it when it was streamed whole, when a Responses stream had
\* told none of it, and when it was buffered.
THEOREM ToldIsTheAnswers == Spec => []DeltasTellAnswer
<1> DEFINE Inv == /\ LoopTypes /\ PayInv /\ MessagesTyped /\ StreamInv
                  /\ SentInv /\ SpokeInv /\ CarryInv /\ TellInv
<1>1. Init => Inv
  <2>1. Init => MessagesTyped
    BY DEF Init, MessagesTyped
  <2> QED  BY <2>1, PayStarts, StreamStarts, TellStarts
<1>2. Inv /\ [Next]_vars => Inv'
  <2> SUFFICES ASSUME Inv, [Next]_vars PROVE Inv'
    OBVIOUS
  <2>1. WorkerTypes /\ LiveShape
    BY DEF PayInv, StreamInv
  <2>2. LoopTypes' /\ PayInv' /\ MessagesTyped' /\ StreamInv'
    BY <2>1, LoopTyped, PayStep, MessagesStep, StreamSteps
  <2>3. SentInv' /\ SpokeInv' /\ CarryInv' /\ TellInv'
    BY <2>1, SentStep, SpokeStep, CarryStep, TellStep
  <2> QED  BY <2>2, <2>3
<1>3. Inv => DeltasTellAnswer
  BY DEF TellInv
<1> QED  BY <1>1, <1>2, <1>3, PTL DEF Spec
===============================================================================
