-------------------------- MODULE DesktopJobProofs --------------------------
(***************************************************************************)
(* What the user hears and what the wallet holds while a job goes from     *)
(* provider to provider, for every set of jobs, providers and contents.    *)
(***************************************************************************)
EXTENDS DesktopJob, TLAPS

Statuses == Open \cup {"gone", "done", "failed"}
RowShape == [status : Statuses, peer : Peers \cup {NoPeer}]
TaskShape == [at : {"idle", "attempt", "stream", "nothing", "over", "lost"},
              peer : Peers \cup {NoPeer}, next : Seq(Peers),
              spoke : BOOLEAN, terminal : BOOLEAN, metered : BOOLEAN]
WireShape == [at : {"off", "connect", "writes", "busy", "select", "closed"},
              asked : BOOLEAN, result : BOOLEAN, why : BOOLEAN, failed : BOOLEAN]
MessageShape == [type : {"running", "delta", "invoice", "failed", "result", "done"},
                 content : Contents \cup {NoContent}, topUp : BOOLEAN]
Stages == {"none", "runs", "asked", "stopped", "answered", "billed", "paid"}

Shapes ==
    /\ row \in [Jobs -> RowShape]
    /\ task \in [Jobs -> TaskShape]
    /\ wire \in [Jobs -> WireShape]
    /\ sink \in [Jobs -> Seq(MessageShape)]
    /\ provider \in [Jobs -> Stages]
    /\ lock \in [Jobs -> {"none", "held", "paid"}]
    /\ shown \in [Jobs -> SUBSET (Peers \cup {NoPeer})]

\* Only j's row, task, transport and words may change.
OnlyJob(j) ==
    \A k \in Jobs \ {j} :
        /\ row'[k] = row[k] /\ task'[k] = task[k] /\ wire'[k] = wire[k]
        /\ sink'[k] = sink[k] /\ provider'[k] = provider[k]
        /\ lock'[k] = lock[k] /\ shown'[k] = shown[k]

Verdicts == {"result", "failed"}

\* A transport runs only under a task that reads it, and after a result it
\* passes on neither a second one nor a failure.
Wired(j) ==
    /\ task[j].at \in {"idle", "attempt", "nothing", "lost"} =>
           wire[j].at = "off" /\ sink[j] = <<>>
    /\ wire[j].at = "connect" => ~wire[j].result
    /\ provider[j] \in {"runs", "asked", "stopped"} => ~wire[j].result
    /\ \A i \in 1 .. Len(sink[j]) : sink[j][i].type = "result" =>
           /\ wire[j].result
           /\ \A k \in (i + 1) .. Len(sink[j]) : sink[j][k].type \notin Verdicts

\* A task that took a result has its verdict, and no other is on its way.
Metered(j) ==
    task[j].at = "stream" /\ task[j].metered =>
        /\ task[j].terminal /\ wire[j].result
        /\ \A i \in 1 .. Len(sink[j]) : sink[j][i].type \notin Verdicts

\* The row names the provider of the current attempt; before a word of it the
\* user has heard nobody.
Voice(j) ==
    /\ row[j].status # "gone" /\ task[j].at \in {"attempt", "stream", "nothing"} =>
           row[j].peer = task[j].peer
    /\ task[j].at \in {"idle", "attempt", "nothing"} => shown[j] = {}
    /\ task[j].at = "stream" =>
           /\ shown[j] \subseteq {task[j].peer}
           /\ task[j].spoke \/ task[j].metered \/ shown[j] = {}
    /\ task[j].at \in {"over", "lost"} /\ row[j].status # "gone" =>
           shown[j] \subseteq {row[j].peer}

Held(j) == lock[j] = "held" => task[j].at \in {"stream", "nothing"}

JobInv(j) == Wired(j) /\ Metered(j) /\ Voice(j) /\ Held(j)

IInv == Shapes /\ \A j \in Jobs : JobInv(j)

LEMMA Constants ==
    /\ NoTask \in TaskShape /\ NoWire \in WireShape /\ NoRow \in RowShape
    /\ NoWire.at = "off" /\ ~NoWire.result /\ NoTask.at = "idle" /\ ~NoTask.metered
    /\ NoRow.status = "gone"
BY DEF NoTask, NoWire, NoRow, TaskShape, WireShape, RowShape, Statuses

LEMMA InitInv == Init => IInv
<1> SUFFICES ASSUME Init PROVE IInv
  OBVIOUS
<1>1. Shapes
  BY Constants DEF Init, Shapes, Stages
<1>2. ASSUME NEW j \in Jobs
      PROVE  JobInv(j)
  <2>1. /\ row[j] = NoRow /\ task[j] = NoTask /\ wire[j] = NoWire /\ sink[j] = <<>>
        /\ provider[j] = "none" /\ lock[j] = "none" /\ shown[j] = {}
    BY DEF Init
  <2>2. QED
    BY <2>1, Constants DEF JobInv, Wired, Metered, Voice, Held
<1>3. QED
  BY <1>1, <1>2 DEF IInv

\* A step on one job keeps every other job's part.
LEMMA OneJob ==
    ASSUME IInv, NEW j \in Jobs, OnlyJob(j), Shapes', JobInv(j)'
    PROVE  IInv'
<1> SUFFICES ASSUME NEW k \in Jobs, k # j
             PROVE  JobInv(k)'
  BY DEF IInv
<1>1. JobInv(k)
  BY DEF IInv
<1>2. QED
  BY <1>1 DEF OnlyJob, JobInv, Wired, Metered, Voice, Held

\* A status never brings a row back, and names no other provider.
LEMMA StatusEffect ==
    ASSUME Shapes, NEW j \in Jobs, NEW s \in {"running", "done", "failed"}, Status(j, s)
    PROVE  /\ row' \in [Jobs -> RowShape]
           /\ row'[j].peer = row[j].peer
           /\ (row'[j].status = "gone") <=> (row[j].status = "gone")
           /\ \A k \in Jobs \ {j} : row'[k] = row[k]
BY DEF Status, Shapes, RowShape, Statuses, Open

LEMMA TakenEffect ==
    ASSUME Shapes, NEW j \in Jobs, sink[j] # <<>>, Taken(j)
    PROVE  /\ sink' \in [Jobs -> Seq(MessageShape)]
           /\ \A k \in Jobs \ {j} : sink'[k] = sink[k]
           /\ sink'[j] = Tail(sink[j])
           /\ Len(sink[j]) \in Nat \ {0} /\ Len(sink'[j]) = Len(sink[j]) - 1
           /\ \A i \in 1 .. Len(sink'[j]) : sink'[j][i] = sink[j][i + 1]
           /\ Message(j) = sink[j][1] /\ Message(j) \in MessageShape
<1>1. sink[j] \in Seq(MessageShape) /\ sink' = [sink EXCEPT ![j] = Tail(sink[j])]
  BY DEF Shapes, Taken
<1>2. Tail(sink[j]) \in Seq(MessageShape) /\ Len(sink[j]) \in Nat \ {0}
  BY <1>1
<1>3. /\ Len(Tail(sink[j])) = Len(sink[j]) - 1
      /\ \A i \in 1 .. Len(Tail(sink[j])) : Tail(sink[j])[i] = sink[j][i + 1]
  BY <1>1
<1>4. Message(j) = sink[j][1] /\ Message(j) \in MessageShape
  BY <1>1 DEF Message
<1>5. QED
  BY <1>1, <1>2, <1>3, <1>4 DEF Shapes

\* Taking a message keeps the order of those behind it.
LEMMA TakenWired ==
    ASSUME Shapes, NEW j \in Jobs, Wired(j), sink[j] # <<>>, Taken(j),
           wire'[j].result = wire[j].result
    PROVE  /\ \A i \in 1 .. Len(sink'[j]) : sink'[j][i].type = "result" =>
                  /\ wire'[j].result
                  /\ \A k \in (i + 1) .. Len(sink'[j]) : sink'[j][k].type \notin Verdicts
           /\ Message(j).type = "result" =>
                  /\ wire'[j].result
                  /\ \A i \in 1 .. Len(sink'[j]) : sink'[j][i].type \notin Verdicts
           /\ (\A i \in 1 .. Len(sink[j]) : sink[j][i].type \notin Verdicts) =>
                  /\ \A i \in 1 .. Len(sink'[j]) : sink'[j][i].type \notin Verdicts
                  /\ Message(j).type \notin Verdicts
<1>1. /\ Len(sink[j]) \in Nat \ {0} /\ Len(sink'[j]) = Len(sink[j]) - 1
      /\ \A i \in 1 .. Len(sink'[j]) : sink'[j][i] = sink[j][i + 1]
      /\ Message(j) = sink[j][1]
  BY TakenEffect
<1>2. \A i \in 1 .. Len(sink'[j]) : i + 1 \in 1 .. Len(sink[j])
  BY <1>1
<1>3. 1 \in 1 .. Len(sink[j])
  BY <1>1
<1>4. ASSUME NEW i \in 1 .. Len(sink'[j]), sink'[j][i].type = "result"
      PROVE  /\ wire'[j].result
             /\ \A k \in (i + 1) .. Len(sink'[j]) : sink'[j][k].type \notin Verdicts
  <2>1. sink[j][i + 1].type = "result" /\ i + 1 \in 1 .. Len(sink[j])
    BY <1>1, <1>2, <1>4
  <2>2. wire[j].result /\ \A k \in (i + 2) .. Len(sink[j]) : sink[j][k].type \notin Verdicts
    <3>1. (i + 1) + 1 = i + 2
      OBVIOUS
    <3>2. QED
      BY <2>1, <3>1 DEF Wired
  <2>3. ASSUME NEW k \in (i + 1) .. Len(sink'[j])
        PROVE  sink'[j][k].type \notin Verdicts
    <3>1. k \in 1 .. Len(sink'[j]) /\ k + 1 \in (i + 2) .. Len(sink[j])
      BY <1>1
    <3>2. QED
      BY <1>1, <2>2, <3>1
  <2>4. QED
    BY <2>2, <2>3
<1>5. ASSUME Message(j).type = "result"
      PROVE  wire'[j].result /\ \A i \in 1 .. Len(sink'[j]) : sink'[j][i].type \notin Verdicts
  <2>1. wire[j].result /\ \A k \in 2 .. Len(sink[j]) : sink[j][k].type \notin Verdicts
    <3>1. 1 + 1 = 2
      OBVIOUS
    <3>2. QED
      BY <1>1, <1>3, <1>5, <3>1 DEF Wired
  <2>2. \A i \in 1 .. Len(sink'[j]) : i + 1 \in 2 .. Len(sink[j])
    BY <1>1
  <2>3. QED
    BY <1>1, <2>1, <2>2
<1>6. QED
  BY <1>1, <1>2, <1>3, <1>4, <1>5

----------------------------------------------------------------------------
(* The steps.                                                               *)

LEMMA SubmitStep ==
    ASSUME IInv, NEW j \in Jobs, Submit(j)
    PROVE  IInv'
<1>0. Shapes /\ JobInv(j)
  BY DEF IInv
<1>p. PICK p \in Peers :
          \E next \in {<<>>} \cup {<<q>> : q \in Peers \ {p}} :
              /\ row' = [row EXCEPT ![j] = [status |-> "queued", peer |-> p]]
              /\ task' = [task EXCEPT ![j] = [NoTask EXCEPT !.at = "attempt", !.peer = p,
                                                           !.next = next]]
  BY DEF Submit
<1>1. PICK next \in {<<>>} \cup {<<q>> : q \in Peers \ {p}} :
          /\ row' = [row EXCEPT ![j] = [status |-> "queued", peer |-> p]]
          /\ task' = [task EXCEPT ![j] = [NoTask EXCEPT !.at = "attempt", !.peer = p,
                                                       !.next = next]]
  BY <1>p
<1>2. task[j].at = "idle" /\ UNCHANGED <<wire, sink, provider, lock, shown>>
  BY DEF Submit
<1> DEFINE r == [status |-> "queued", peer |-> p]
           t == [NoTask EXCEPT !.at = "attempt", !.peer = p, !.next = next]
<1>3. r \in RowShape /\ r.peer = p
  BY DEF RowShape, Statuses, Open
<1>4. next \in Seq(Peers)
  <2>1. CASE next = <<>>
    BY <2>1
  <2>2. ASSUME NEW q \in Peers, next = <<q>>
        PROVE  next \in Seq(Peers)
    BY <2>2
  <2>3. QED
    BY <2>1, <2>2
<1>5. t \in TaskShape /\ t.at = "attempt" /\ t.peer = p
  BY <1>4, Constants DEF TaskShape
<1> HIDE DEF r, t
<1>6. /\ row' = [row EXCEPT ![j] = r] /\ task' = [task EXCEPT ![j] = t]
  BY <1>1 DEF r, t
<1>7. Shapes' /\ OnlyJob(j) /\ row'[j] = r /\ task'[j] = t
  BY <1>0, <1>2, <1>3, <1>5, <1>6 DEF Shapes, OnlyJob
<1>8. JobInv(j)'
  BY <1>0, <1>2, <1>3, <1>5, <1>7 DEF JobInv, Wired, Metered, Voice, Held
<1>9. QED
  BY <1>7, <1>8, OneJob

\* An attempt that produced nothing leaves no message, no transport, no word.
LEMMA DroppedEffect ==
    ASSUME Shapes, NEW j \in Jobs, Dropped(j)
    PROVE  /\ task' \in [Jobs -> TaskShape] /\ wire' \in [Jobs -> WireShape]
           /\ sink' \in [Jobs -> Seq(MessageShape)] /\ provider' \in [Jobs -> Stages]
           /\ task'[j].at = "nothing" /\ task'[j].peer = task[j].peer
           /\ wire'[j].at = "off" /\ ~wire'[j].result /\ sink'[j] = <<>>
           /\ provider'[j] = "none"
           /\ \A k \in Jobs \ {j} : /\ task'[k] = task[k] /\ wire'[k] = wire[k]
                                    /\ sink'[k] = sink[k] /\ provider'[k] = provider[k]
<1>1. /\ task' \in [Jobs -> TaskShape] /\ task'[j].at = "nothing"
      /\ task'[j].peer = task[j].peer /\ \A k \in Jobs \ {j} : task'[k] = task[k]
  BY ZenonT(30) DEF Dropped, Shapes, TaskShape
<1>2. /\ wire' \in [Jobs -> WireShape] /\ wire'[j] = NoWire
      /\ \A k \in Jobs \ {j} : wire'[k] = wire[k]
  BY Constants DEF Dropped, Shapes
<1>3. /\ sink' \in [Jobs -> Seq(MessageShape)] /\ sink'[j] = <<>>
      /\ \A k \in Jobs \ {j} : sink'[k] = sink[k]
  <2>1. <<>> \in Seq(MessageShape)
    OBVIOUS
  <2> DEFINE S == Seq(MessageShape)
  <2>2. sink \in [Jobs -> S] /\ sink' = [sink EXCEPT ![j] = <<>>] /\ <<>> \in S
    BY <2>1 DEF Dropped, Shapes
  <2> HIDE DEF S
  <2>3. sink' \in [Jobs -> S] /\ sink'[j] = <<>> /\ \A k \in Jobs \ {j} : sink'[k] = sink[k]
    BY <2>2
  <2>4. QED
    BY <2>3 DEF S
<1>4. /\ provider' \in [Jobs -> Stages] /\ provider'[j] = "none"
      /\ \A k \in Jobs \ {j} : provider'[k] = provider[k]
  BY DEF Dropped, Shapes, Stages
<1>5. QED
  BY <1>1, <1>2, <1>3, <1>4, Constants

LEMMA DroppedKeeps ==
    ASSUME IInv, NEW j \in Jobs, task[j].at = "stream", Dropped(j),
           shown[j] = {}, UNCHANGED <<row, lock, shown>>
    PROVE  IInv'
<1>0. Shapes /\ JobInv(j)
  BY DEF IInv
<1>1. Shapes' /\ OnlyJob(j)
  BY <1>0, DroppedEffect DEF Shapes, OnlyJob
<1>2. JobInv(j)'
  BY <1>0, DroppedEffect DEF JobInv, Wired, Metered, Voice, Held
<1>3. QED
  BY <1>1, <1>2, OneJob

LEMMA AttemptStep ==
    ASSUME IInv, NEW j \in Jobs, Attempt(j)
    PROVE  IInv'
<1>0. Shapes /\ JobInv(j)
  BY DEF IInv
<1>1. task[j].at = "attempt" /\ UNCHANGED <<sink, provider, shown>>
  BY DEF Attempt
<1>2. ASSUME NEW s \in {"nothing", "over"}, task' = [task EXCEPT ![j].at = s]
      PROVE  /\ task' \in [Jobs -> TaskShape] /\ task'[j].at = s
             /\ task'[j].peer = task[j].peer
             /\ \A k \in Jobs \ {j} : task'[k] = task[k]
  BY <1>0, <1>2, ZenonT(30) DEF Shapes, TaskShape
<1>3. CASE task' = [task EXCEPT ![j].at = "nothing"] /\ UNCHANGED <<row, wire, lock>>
  <2>1. Shapes' /\ OnlyJob(j)
    BY <1>0, <1>1, <1>2, <1>3 DEF Shapes, OnlyJob
  <2>2. JobInv(j)'
    BY <1>0, <1>1, <1>2, <1>3 DEF JobInv, Wired, Metered, Voice, Held
  <2>3. QED
    BY <2>1, <2>2, OneJob
<1>4. CASE Fail(j) /\ task' = [task EXCEPT ![j].at = "over"] /\ UNCHANGED wire
  <2>1. /\ row' \in [Jobs -> RowShape]
        /\ (row'[j].status = "gone") <=> (row[j].status = "gone")
        /\ \A k \in Jobs \ {j} : row'[k] = row[k]
    BY <1>0, <1>4, StatusEffect DEF Fail
  <2>2. lock' = [lock EXCEPT ![j] = "none"]
    BY <1>4 DEF Fail
  <2>3. Shapes' /\ OnlyJob(j)
    BY <1>0, <1>1, <1>2, <1>4, <2>1, <2>2 DEF Shapes, OnlyJob
  <2>4. JobInv(j)'
    BY <1>0, <1>1, <1>2, <1>4, <2>1, <2>2 DEF Shapes, JobInv, Wired, Metered, Voice, Held
  <2>5. QED
    BY <2>3, <2>4, OneJob
<1>5. CASE /\ lock' = IF Priceful(j) THEN [lock EXCEPT ![j] = "held"] ELSE lock
           /\ task' = [task EXCEPT ![j].at = "stream", ![j].spoke = FALSE,
                                   ![j].terminal = FALSE, ![j].metered = FALSE]
           /\ wire' = [wire EXCEPT ![j] = [NoWire EXCEPT !.at = "connect"]]
           /\ UNCHANGED row
  <2> DEFINE t == [task[j] EXCEPT !.at = "stream", !.spoke = FALSE,
                                  !.terminal = FALSE, !.metered = FALSE]
             w == [NoWire EXCEPT !.at = "connect"]
  <2>1. task' = [task EXCEPT ![j] = t] /\ task[j] \in TaskShape
    BY <1>0, <1>5 DEF Shapes
  <2>2. t \in TaskShape /\ t.at = "stream" /\ ~t.metered /\ t.peer = task[j].peer
    BY <2>1 DEF TaskShape
  <2>3. w \in WireShape /\ w.at = "connect" /\ ~w.result
    BY Constants DEF NoWire, WireShape
  <2>4. wire' = [wire EXCEPT ![j] = w]
    BY <1>5
  <2> HIDE DEF t, w
  <2>a. lock' \in [Jobs -> {"none", "held", "paid"}] /\ \A k \in Jobs \ {j} : lock'[k] = lock[k]
    BY <1>0, <1>5 DEF Shapes
  <2>b. /\ task' \in [Jobs -> TaskShape] /\ task'[j] = t
        /\ \A k \in Jobs \ {j} : task'[k] = task[k]
    BY <1>0, <2>1, <2>2 DEF Shapes
  <2>c. /\ wire' \in [Jobs -> WireShape] /\ wire'[j] = w
        /\ \A k \in Jobs \ {j} : wire'[k] = wire[k]
    BY <1>0, <2>3, <2>4 DEF Shapes
  <2>d. UNCHANGED row
    BY <1>5
  <2>5. Shapes' /\ OnlyJob(j)
    BY <1>0, <1>1, <2>a, <2>b, <2>c, <2>d DEF Shapes, OnlyJob
  <2>6. JobInv(j)'
    BY <1>0, <1>1, <2>2, <2>3, <2>b, <2>c, <2>d DEF JobInv, Wired, Metered, Voice, Held
  <2>7. QED
    BY <2>5, <2>6, OneJob
<1>6. QED
  BY <1>3, <1>4, <1>5 DEF Attempt

LEMMA RetryStep ==
    ASSUME IInv, NEW j \in Jobs, Retry(j)
    PROVE  IInv'
<1>0. Shapes /\ JobInv(j) /\ task[j] \in TaskShape
  BY DEF IInv, Shapes
<1>1. /\ task[j].at = "nothing" /\ lock' = [lock EXCEPT ![j] = "none"]
      /\ UNCHANGED <<wire, sink, provider, shown>>
  BY DEF Retry
<1>2. CASE Status(j, "failed") /\ task' = [task EXCEPT ![j].at = "over"]
  <2>1. /\ row' \in [Jobs -> RowShape]
        /\ (row'[j].status = "gone") <=> (row[j].status = "gone")
        /\ \A k \in Jobs \ {j} : row'[k] = row[k]
    BY <1>0, <1>2, StatusEffect
  <2>2. /\ task' \in [Jobs -> TaskShape] /\ task'[j].at = "over"
        /\ \A k \in Jobs \ {j} : task'[k] = task[k]
    BY <1>0, <1>2 DEF Shapes, TaskShape
  <2>3. Shapes' /\ OnlyJob(j)
    BY <1>0, <1>1, <2>1, <2>2 DEF Shapes, OnlyJob
  <2>4. JobInv(j)'
    BY <1>0, <1>1, <2>1, <2>2 DEF Shapes, JobInv, Wired, Metered, Voice, Held
  <2>5. QED
    BY <2>3, <2>4, OneJob
<1>3. CASE /\ task[j].next # <<>>
           /\ task' = [task EXCEPT ![j].at = "attempt", ![j].peer = Head(task[j].next),
                                   ![j].next = Tail(@)]
           /\ row' = IF row[j].status = "gone" THEN row
                     ELSE [row EXCEPT ![j] = [status |-> "queued", peer |-> Head(task[j].next)]]
  <2> DEFINE p == Head(task[j].next)
             n == Tail(task[j].next)
             t == [task[j] EXCEPT !.at = "attempt", !.peer = p, !.next = n]
             r == [status |-> "queued", peer |-> p]
  <2>1. task[j].next \in Seq(Peers)
    BY <1>0 DEF TaskShape
  <2>2. p \in Peers /\ n \in Seq(Peers)
    BY <1>3, <2>1
  <2>3. task' = [task EXCEPT ![j] = t] /\ row' = IF row[j].status = "gone" THEN row
                                                 ELSE [row EXCEPT ![j] = r]
    BY <1>0, <1>3 DEF Shapes
  <2> HIDE DEF p, n
  <2>4. t \in TaskShape /\ t.at = "attempt" /\ t.peer = p
    BY <1>0, <2>2 DEF TaskShape
  <2>5. r \in RowShape /\ r.peer = p
    BY <2>2 DEF RowShape, Statuses, Open
  <2> HIDE DEF t, r
  <2>6. /\ Shapes' /\ OnlyJob(j) /\ task'[j] = t
        /\ row'[j].status = "gone" \/ row'[j] = r
    BY <1>0, <1>1, <2>3, <2>4, <2>5 DEF Shapes, OnlyJob
  <2>7. JobInv(j)'
    <3>1. lock'[j] = "none"
      BY <1>0, <1>1 DEF Shapes
    <3>2. QED
      BY <1>0, <1>1, <2>4, <2>5, <2>6, <3>1 DEF JobInv, Wired, Metered, Voice, Held
  <2>8. QED
    BY <2>6, <2>7, OneJob
<1>4. QED
  BY <1>2, <1>3 DEF Retry

\* Taking a message: the verdict and the words of this provider are noted
\* under its own name, and a result is the last verdict of its attempt.
LEMMA TakeKeeps ==
    ASSUME IInv, NEW j \in Jobs, task[j].at = "stream", sink[j] # <<>>, Taken(j),
           UNCHANGED wire \/ wire' = [wire EXCEPT ![j].at = "writes"],
           row' \in [Jobs -> RowShape], row'[j].peer = row[j].peer,
           (row'[j].status = "gone") <=> (row[j].status = "gone"),
           \A k \in Jobs \ {j} : row'[k] = row[k],
           task' \in [Jobs -> TaskShape], task'[j].at = "stream",
           task'[j].peer = task[j].peer, \A k \in Jobs \ {j} : task'[k] = task[k],
           task'[j].metered => /\ task'[j].terminal
                               /\ task[j].metered \/ Message(j).type = "result",
           provider' \in [Jobs -> Stages], provider'[j] \in {provider[j], "paid"},
           \A k \in Jobs \ {j} : provider'[k] = provider[k],
           lock' \in [Jobs -> {"none", "held", "paid"}],
           \A k \in Jobs \ {j} : lock'[k] = lock[k],
           shown' \in [Jobs -> SUBSET (Peers \cup {NoPeer})],
           \A k \in Jobs \ {j} : shown'[k] = shown[k],
           shown'[j] \subseteq shown[j] \cup {task[j].peer},
           task'[j].spoke \/ task'[j].metered \/ shown'[j] = {}
    PROVE  IInv'
<1>0. Shapes /\ JobInv(j)
  BY DEF IInv
<1>a. /\ wire' \in [Jobs -> WireShape] /\ wire'[j].result = wire[j].result
      /\ wire'[j].at \in {wire[j].at, "writes"}
      /\ \A k \in Jobs \ {j} : wire'[k] = wire[k]
  <2>1. CASE UNCHANGED wire
    BY <1>0, <2>1 DEF Shapes
  <2>2. CASE wire' = [wire EXCEPT ![j].at = "writes"]
    <3>1. wire \in [Jobs -> WireShape] /\ wire[j] \in WireShape
      BY <1>0 DEF Shapes
    <3>2. /\ [wire[j] EXCEPT !.at = "writes"] \in WireShape
          /\ [wire[j] EXCEPT !.at = "writes"].result = wire[j].result
          /\ [wire[j] EXCEPT !.at = "writes"].at = "writes"
      BY <3>1, Zenon DEF WireShape
    <3>3. wire' = [wire EXCEPT ![j] = [wire[j] EXCEPT !.at = "writes"]]
      BY <2>2, <3>1
    <3>4. QED
      BY <3>1, <3>2, <3>3
  <2>3. QED
    BY <2>1, <2>2
<1>1. Shapes' /\ OnlyJob(j)
  BY <1>0, <1>a, TakenEffect DEF Shapes, OnlyJob
<1>2. Wired(j)'
  <2>1. Wired(j) /\ wire'[j].result = wire[j].result
    BY <1>0, <1>a DEF JobInv
  <2>2. \A i \in 1 .. Len(sink'[j]) : sink'[j][i].type = "result" =>
           /\ wire'[j].result
           /\ \A k \in (i + 1) .. Len(sink'[j]) : sink'[j][k].type \notin Verdicts
    BY <1>0, <2>1, TakenWired
  <2>3. QED
    BY <1>a, <2>1, <2>2 DEF Wired
<1>3. Metered(j)'
  <2>1. /\ Wired(j) /\ Metered(j) /\ wire'[j].result = wire[j].result
    BY <1>0, <1>a DEF JobInv
  <2>2. SUFFICES ASSUME task'[j].metered PROVE Metered(j)'
    BY DEF Metered
  <2>3. CASE task[j].metered
    BY <1>0, <2>1, <2>2, <2>3, TakenWired DEF Metered
  <2>4. CASE Message(j).type = "result"
    BY <1>0, <2>1, <2>2, <2>4, TakenWired DEF Metered
  <2>5. QED
    BY <2>2, <2>3, <2>4
<1>4. Voice(j)' /\ Held(j)'
  BY <1>0 DEF JobInv, Voice, Held
<1>5. QED
  BY <1>1, <1>2, <1>3, <1>4, OneJob DEF JobInv

\* A provider that has not spoken has nothing shown, until its result is taken.
LEMMA SilentUnheard ==
    ASSUME IInv, NEW j \in Jobs, task[j].at = "stream", Silent(j),
           \/ ~task[j].terminal
           \/ sink[j] # <<>> /\ Message(j).type \in Verdicts
    PROVE  shown[j] = {}
<1>1. Shapes /\ Metered(j) /\ Voice(j)
  BY DEF IInv, JobInv
<1>2. ~task[j].metered
  <2>1. CASE ~task[j].terminal
    BY <1>1, <2>1 DEF Metered
  <2>2. CASE sink[j] # <<>> /\ Message(j).type \in Verdicts
    <3>1. sink[j] \in Seq(MessageShape)
      BY <1>1 DEF Shapes
    <3>2. 1 \in 1 .. Len(sink[j]) /\ Message(j) = sink[j][1]
      BY <2>2, <3>1 DEF Message
    <3>3. QED
      BY <1>1, <2>2, <3>2 DEF Metered
  <2>3. QED
    BY <2>1, <2>2
<1>3. QED
  BY <1>1, <1>2 DEF Voice, Silent

LEMMA VerdictTaken ==
    ASSUME Shapes, NEW j \in Jobs, task' = [task EXCEPT ![j].terminal = TRUE]
    PROVE  /\ task' \in [Jobs -> TaskShape] /\ task'[j].at = task[j].at
           /\ task'[j].peer = task[j].peer /\ task'[j].spoke = task[j].spoke
           /\ task'[j].metered = task[j].metered /\ task'[j].terminal
           /\ \A k \in Jobs \ {j} : task'[k] = task[k]
BY DEF Shapes, TaskShape

LEMMA TakeDeltaStep ==
    ASSUME IInv, NEW j \in Jobs, TakeDelta(j)
    PROVE  IInv'
<1>0. Shapes /\ JobInv(j)
  BY DEF IInv
<1>1. /\ task[j].at = "stream" /\ sink[j] # <<>> /\ Taken(j)
      /\ UNCHANGED <<row, wire, provider, lock>>
  BY DEF TakeDelta, Has
<1>2. /\ task' \in [Jobs -> TaskShape] /\ task'[j].at = task[j].at
      /\ task'[j].peer = task[j].peer /\ task'[j].spoke
      /\ task'[j].metered = task[j].metered /\ task'[j].terminal = task[j].terminal
      /\ \A k \in Jobs \ {j} : task'[k] = task[k]
  BY <1>0 DEF TakeDelta, Shapes, TaskShape
<1>3. task[j].peer \in Peers \cup {NoPeer}
  BY <1>0 DEF Shapes, TaskShape
<1>4. /\ shown' \in [Jobs -> SUBSET (Peers \cup {NoPeer})]
      /\ \A k \in Jobs \ {j} : shown'[k] = shown[k]
      /\ shown'[j] = shown[j] \cup {task[j].peer}
  <2>1. shown[j] \cup {task[j].peer} \in SUBSET (Peers \cup {NoPeer})
    BY <1>0, <1>3 DEF Shapes
  <2>2. QED
    BY <1>0, <2>1 DEF TakeDelta, Shapes
<1>5. task'[j].metered => task'[j].terminal /\ task[j].metered
  BY <1>0, <1>1, <1>2 DEF JobInv, Metered
<1>6. row \in [Jobs -> RowShape] /\ provider \in [Jobs -> Stages]
      /\ lock \in [Jobs -> {"none", "held", "paid"}]
  BY <1>0 DEF Shapes
<1>7. QED
  BY <1>1, <1>2, <1>4, <1>5, <1>6, TakeKeeps

LEMMA TakeRunningStep ==
    ASSUME IInv, NEW j \in Jobs, TakeRunning(j)
    PROVE  IInv'
<1>0. Shapes /\ JobInv(j)
  BY DEF IInv
<1>1. /\ task[j].at = "stream" /\ sink[j] # <<>> /\ Taken(j) /\ Status(j, "running")
      /\ UNCHANGED <<task, wire, provider, lock, shown>>
  BY DEF TakeRunning, Has
<1>2. task[j].metered => task[j].terminal
  BY <1>0, <1>1 DEF JobInv, Metered
<1>3. task[j].spoke \/ task[j].metered \/ shown[j] = {}
  BY <1>0, <1>1 DEF JobInv, Voice
<1>4. /\ task \in [Jobs -> TaskShape] /\ provider \in [Jobs -> Stages]
      /\ lock \in [Jobs -> {"none", "held", "paid"}]
      /\ shown \in [Jobs -> SUBSET (Peers \cup {NoPeer})]
  BY <1>0 DEF Shapes
<1>5. QED
  BY <1>0, <1>1, <1>2, <1>3, <1>4, StatusEffect, TakeKeeps

LEMMA TakeDoneStep ==
    ASSUME IInv, NEW j \in Jobs, TakeDone(j)
    PROVE  IInv'
<1>0. Shapes /\ JobInv(j)
  BY DEF IInv
<1>1. /\ task[j].at = "stream" /\ sink[j] # <<>> /\ Taken(j) /\ Status(j, "done")
      /\ task' = [task EXCEPT ![j].terminal = TRUE]
      /\ UNCHANGED <<wire, provider, lock, shown>>
  BY DEF TakeDone, Has
<1>3. task[j].spoke \/ task[j].metered \/ shown[j] = {}
  BY <1>0, <1>1 DEF JobInv, Voice
<1>4. /\ provider \in [Jobs -> Stages] /\ lock \in [Jobs -> {"none", "held", "paid"}]
      /\ shown \in [Jobs -> SUBSET (Peers \cup {NoPeer})]
  BY <1>0 DEF Shapes
<1>5. QED
  BY <1>0, <1>1, <1>3, <1>4, VerdictTaken, StatusEffect, TakeKeeps

LEMMA TakeFailedStep ==
    ASSUME IInv, NEW j \in Jobs, TakeFailed(j)
    PROVE  IInv'
<1>0. Shapes /\ JobInv(j)
  BY DEF IInv
<1>1. /\ task[j].at = "stream" /\ sink[j] # <<>> /\ Message(j).type = "failed"
      /\ UNCHANGED <<lock, shown>>
  BY DEF TakeFailed, Has
<1>2. CASE Silent(j)
  <2>1. Dropped(j) /\ UNCHANGED row
    BY <1>2 DEF TakeFailed
  <2>2. shown[j] = {}
    BY <1>1, <1>2, SilentUnheard DEF Verdicts
  <2>3. QED
    BY <1>1, <2>1, <2>2, DroppedKeeps
<1>3. CASE ~Silent(j)
  <2>1. /\ Taken(j) /\ Status(j, "failed") /\ task' = [task EXCEPT ![j].terminal = TRUE]
        /\ UNCHANGED <<wire, provider>>
    BY <1>3 DEF TakeFailed
  <2>2. task[j].spoke
    BY <1>3 DEF Silent
  <2>3. /\ provider \in [Jobs -> Stages] /\ lock \in [Jobs -> {"none", "held", "paid"}]
        /\ shown \in [Jobs -> SUBSET (Peers \cup {NoPeer})]
    BY <1>0 DEF Shapes
  <2>4. QED
    BY <1>0, <1>1, <2>1, <2>2, <2>3, VerdictTaken, StatusEffect, TakeKeeps
<1>4. QED
  BY <1>2, <1>3

LEMMA TakeInvoiceStep ==
    ASSUME IInv, NEW j \in Jobs, TakeInvoice(j)
    PROVE  IInv'
<1>0. Shapes /\ JobInv(j)
  BY DEF IInv
<1>1. /\ task[j].at = "stream" /\ sink[j] # <<>> /\ Taken(j) /\ UNCHANGED shown
      /\ UNCHANGED wire \/ wire' = [wire EXCEPT ![j].at = "writes"]
  BY DEF TakeInvoice, Has
<1>2. \/ UNCHANGED <<row, task>>
      \/ Status(j, "failed") /\ task' = [task EXCEPT ![j].terminal = TRUE]
  BY DEF TakeInvoice, Fail
<1>3. /\ row' \in [Jobs -> RowShape] /\ row'[j].peer = row[j].peer
      /\ (row'[j].status = "gone") <=> (row[j].status = "gone")
      /\ \A k \in Jobs \ {j} : row'[k] = row[k]
  <2>1. CASE UNCHANGED row
    BY <1>0, <2>1 DEF Shapes
  <2>2. CASE Status(j, "failed")
    BY <1>0, <2>2, StatusEffect
  <2>3. QED
    BY <1>2, <2>1, <2>2
<1>4. /\ task' \in [Jobs -> TaskShape] /\ task'[j].at = "stream"
      /\ task'[j].peer = task[j].peer /\ task'[j].spoke = task[j].spoke
      /\ task'[j].metered = task[j].metered
      /\ task'[j].terminal \in {task[j].terminal, TRUE}
      /\ \A k \in Jobs \ {j} : task'[k] = task[k]
  <2>1. CASE UNCHANGED task
    BY <1>0, <1>1, <2>1 DEF Shapes
  <2>2. CASE task' = [task EXCEPT ![j].terminal = TRUE]
    BY <1>0, <1>1, <2>2, VerdictTaken
  <2>3. QED
    BY <1>2, <2>1, <2>2
<1>5. /\ lock' \in [Jobs -> {"none", "held", "paid"}]
      /\ \A k \in Jobs \ {j} : lock'[k] = lock[k]
  BY <1>0 DEF TakeInvoice, Fail, Shapes
<1>6. /\ provider' \in [Jobs -> Stages] /\ provider'[j] \in {provider[j], "paid"}
      /\ \A k \in Jobs \ {j} : provider'[k] = provider[k]
  BY <1>0 DEF TakeInvoice, Shapes, Stages
<1>7. /\ task[j].metered => task[j].terminal
      /\ task[j].spoke \/ task[j].metered \/ shown[j] = {}
  BY <1>0, <1>1 DEF JobInv, Metered, Voice
<1>8. shown \in [Jobs -> SUBSET (Peers \cup {NoPeer})]
  BY <1>0 DEF Shapes
<1>9. QED
  BY <1>1, <1>3, <1>4, <1>5, <1>6, <1>7, <1>8, TakeKeeps

LEMMA TakeResultStep ==
    ASSUME IInv, NEW j \in Jobs, TakeResult(j)
    PROVE  IInv'
<1>0. Shapes /\ JobInv(j)
  BY DEF IInv
<1>1. task[j].at = "stream" /\ sink[j] # <<>> /\ Message(j).type = "result"
  BY DEF TakeResult, Has
<1>2. CASE Message(j).content = NoContent /\ Silent(j) /\ j \notin Pictures
  <2>1. Dropped(j) /\ UNCHANGED <<row, lock, shown>>
    BY <1>2 DEF TakeResult, store
  <2>2. shown[j] = {}
    BY <1>1, <1>2, SilentUnheard DEF Verdicts
  <2>3. QED
    BY <1>1, <2>1, <2>2, DroppedKeeps
<1>3. CASE ~(Message(j).content = NoContent /\ Silent(j) /\ j \notin Pictures)
  <2>1. Taken(j) /\ UNCHANGED <<wire, provider>>
    BY <1>3 DEF TakeResult
  <2>2. \/ Answered(j)
        \/ /\ Fail(j) /\ UNCHANGED shown
           /\ task' = [task EXCEPT ![j].terminal = TRUE, ![j].metered = TRUE]
    BY <1>3 DEF TakeResult
  <2>3. task' = [task EXCEPT ![j].terminal = TRUE, ![j].metered = TRUE]
    BY <2>2 DEF Answered
  <2>4. \/ Status(j, "done") /\ UNCHANGED lock
        \/ Fail(j)
    BY <2>2 DEF Answered
  <2>5. \/ UNCHANGED shown
        \/ shown' = [shown EXCEPT ![j] = @ \cup {task[j].peer}]
    BY <2>2 DEF Answered
  <2>6. /\ task' \in [Jobs -> TaskShape] /\ task'[j].at = "stream"
        /\ task'[j].peer = task[j].peer /\ task'[j].metered /\ task'[j].terminal
        /\ \A k \in Jobs \ {j} : task'[k] = task[k]
    BY <1>0, <1>1, <2>3 DEF Shapes, TaskShape
  <2>7. /\ row' \in [Jobs -> RowShape] /\ row'[j].peer = row[j].peer
        /\ (row'[j].status = "gone") <=> (row[j].status = "gone")
        /\ \A k \in Jobs \ {j} : row'[k] = row[k]
    BY <1>0, <2>4, StatusEffect DEF Fail
  <2>8. /\ lock' \in [Jobs -> {"none", "held", "paid"}]
        /\ \A k \in Jobs \ {j} : lock'[k] = lock[k]
    BY <1>0, <2>4 DEF Fail, Shapes
  <2>9. task[j].peer \in Peers \cup {NoPeer}
    BY <1>0 DEF Shapes, TaskShape
  <2>10. shown[j] \cup {task[j].peer} \in SUBSET (Peers \cup {NoPeer})
    BY <1>0, <2>9 DEF Shapes
  <2>11. /\ shown' \in [Jobs -> SUBSET (Peers \cup {NoPeer})]
         /\ \A k \in Jobs \ {j} : shown'[k] = shown[k]
         /\ shown'[j] \subseteq shown[j] \cup {task[j].peer}
    BY <1>0, <2>5, <2>10 DEF Shapes
  <2>12. provider \in [Jobs -> Stages]
    BY <1>0 DEF Shapes
  <2>13. QED
    BY <1>1, <2>1, <2>6, <2>7, <2>8, <2>11, <2>12, TakeKeeps
<1>4. QED
  BY <1>2, <1>3

LEMMA EndStreamStep ==
    ASSUME IInv, NEW j \in Jobs, EndStream(j)
    PROVE  IInv'
<1>0. Shapes /\ JobInv(j)
  BY DEF IInv
<1>1. task[j].at = "stream" /\ wire[j].at = "closed" /\ UNCHANGED shown
  BY DEF EndStream
<1> DEFINE open == ~task[j].terminal /\ (wire[j].failed \/ row[j].status \in Open)
<1>2. CASE open /\ Silent(j)
  <2>1. Dropped(j) /\ UNCHANGED <<row, lock>>
    BY <1>2 DEF EndStream
  <2>2. shown[j] = {}
    BY <1>1, <1>2, SilentUnheard
  <2>3. QED
    BY <1>1, <2>1, <2>2, DroppedKeeps
<1>3. CASE ~(open /\ Silent(j))
  <2>1. /\ UNCHANGED <<wire, sink, provider>>
        /\ lock' = [lock EXCEPT ![j] = "none"]
        /\ task' = [task EXCEPT ![j].at = "over"]
        /\ Status(j, "failed") \/ UNCHANGED row
    BY <1>3 DEF EndStream
  <2>2. /\ row' \in [Jobs -> RowShape] /\ row'[j].peer = row[j].peer
        /\ (row'[j].status = "gone") <=> (row[j].status = "gone")
        /\ \A k \in Jobs \ {j} : row'[k] = row[k]
    <3>1. CASE UNCHANGED row
      BY <1>0, <3>1 DEF Shapes
    <3>2. CASE Status(j, "failed")
      BY <1>0, <3>2, StatusEffect
    <3>3. QED
      BY <2>1, <3>1, <3>2
  <2>3. /\ task' \in [Jobs -> TaskShape] /\ task'[j].at = "over"
        /\ \A k \in Jobs \ {j} : task'[k] = task[k]
    BY <1>0, <2>1, ZenonT(30) DEF Shapes, TaskShape
  <2>4. /\ lock' \in [Jobs -> {"none", "held", "paid"}] /\ lock'[j] = "none"
        /\ \A k \in Jobs \ {j} : lock'[k] = lock[k]
    BY <1>0, <2>1 DEF Shapes
  <2>5. Shapes' /\ OnlyJob(j)
    BY <1>0, <1>1, <2>1, <2>2, <2>3, <2>4 DEF Shapes, OnlyJob
  <2>6. JobInv(j)'
    BY <1>0, <1>1, <2>1, <2>2, <2>3, <2>4 DEF JobInv, Wired, Metered, Voice, Held
  <2>7. QED
    BY <2>5, <2>6, OneJob
<1>4. QED
  BY <1>2, <1>3

\* A transport's step changes neither the row nor the task.
LEMMA WireKeeps ==
    ASSUME IInv, NEW j \in Jobs, wire[j].at # "off",
           UNCHANGED <<row, task, lock, shown>>,
           wire' \in [Jobs -> WireShape], sink' \in [Jobs -> Seq(MessageShape)],
           provider' \in [Jobs -> Stages],
           \A k \in Jobs \ {j} : /\ wire'[k] = wire[k] /\ sink'[k] = sink[k]
                                  /\ provider'[k] = provider[k],
           Wired(j)', Metered(j)'
    PROVE  IInv'
<1>0. Shapes /\ JobInv(j)
  BY DEF IInv
<1>1. Shapes' /\ OnlyJob(j)
  BY <1>0 DEF Shapes, OnlyJob
<1>2. Voice(j)' /\ Held(j)'
  BY <1>0 DEF JobInv, Voice, Held
<1>3. QED
  BY <1>1, <1>2, OneJob DEF JobInv

\* A step that passes nothing on, and lets the provider go no way back.
LEMMA QuietWire ==
    ASSUME IInv, NEW j \in Jobs, wire[j].at # "off",
           UNCHANGED <<row, task, sink, lock, shown>>,
           wire' \in [Jobs -> WireShape], provider' \in [Jobs -> Stages],
           wire'[j].at # "connect", wire'[j].result = wire[j].result,
           \A k \in Jobs \ {j} : wire'[k] = wire[k] /\ provider'[k] = provider[k],
           provider'[j] \in {"runs", "asked", "stopped"} => ~wire[j].result
    PROVE  IInv'
<1>0. Shapes /\ JobInv(j)
  BY DEF IInv
<1>1. task[j].at \notin {"idle", "attempt", "nothing", "lost"}
  BY <1>0 DEF JobInv, Wired
<1>2. Wired(j)' /\ Metered(j)'
  BY <1>0, <1>1 DEF JobInv, Wired, Metered
<1>3. sink' \in [Jobs -> Seq(MessageShape)]
  BY <1>0 DEF Shapes
<1>4. QED
  BY <1>2, <1>3, WireKeeps

LEMMA ConnectStep ==
    ASSUME IInv, NEW j \in Jobs, Connect(j)
    PROVE  IInv'
<1>0. Shapes /\ Wired(j)
  BY DEF IInv, JobInv
<1>1. wire[j].at = "connect" /\ UNCHANGED <<row, task, sink, lock, shown>> /\ ~wire[j].result
  BY <1>0 DEF Connect, Wired
<1>2. /\ wire' \in [Jobs -> WireShape] /\ wire'[j].at # "connect"
      /\ wire'[j].result = wire[j].result /\ \A k \in Jobs \ {j} : wire'[k] = wire[k]
  <2>1. CASE wire' = [wire EXCEPT ![j].at = "writes"]
    BY <1>0, <2>1 DEF Shapes, WireShape
  <2>2. CASE wire' = [wire EXCEPT ![j].at = "closed", ![j].failed = TRUE]
    BY <1>0, <2>2, ZenonT(30) DEF Shapes, WireShape
  <2>3. QED
    BY <2>1, <2>2 DEF Connect
<1>3. provider' \in [Jobs -> Stages] /\ \A k \in Jobs \ {j} : provider'[k] = provider[k]
  BY <1>0 DEF Connect, Shapes, Stages
<1>4. QED
  BY <1>1, <1>2, <1>3, QuietWire

LEMMA SelectStep ==
    ASSUME IInv, NEW j \in Jobs, Select(j)
    PROVE  IInv'
<1>0. Shapes /\ Wired(j)
  BY DEF IInv, JobInv
<1>1. wire[j].at \in {"busy", "writes"} /\ UNCHANGED <<row, task, sink, provider, lock, shown>>
  BY DEF Select
<1>2. /\ wire' \in [Jobs -> WireShape] /\ wire'[j].at # "connect"
      /\ wire'[j].result = wire[j].result /\ \A k \in Jobs \ {j} : wire'[k] = wire[k]
  BY <1>0 DEF Select, Shapes, WireShape
<1>3. provider' \in [Jobs -> Stages]
  BY <1>0, <1>1 DEF Shapes
<1>4. provider'[j] \in {"runs", "asked", "stopped"} => ~wire[j].result
  BY <1>0, <1>1 DEF Wired
<1>5. QED
  BY <1>1, <1>2, <1>3, <1>4, QuietWire

LEMMA StopStep ==
    ASSUME IInv, NEW j \in Jobs, Stop(j)
    PROVE  IInv'
<1>0. Shapes /\ Wired(j)
  BY DEF IInv, JobInv
<1>1. UNCHANGED <<row, task, sink, lock, shown>>
  BY DEF Stop
<1>2. CASE wire[j].at = "select"
  <2>1. /\ wire' \in [Jobs -> WireShape] /\ wire'[j].at # "connect"
        /\ wire'[j].result = wire[j].result /\ \A k \in Jobs \ {j} : wire'[k] = wire[k]
    <3>1. wire' = [wire EXCEPT ![j].asked = TRUE, ![j].at = "writes"]
      BY <1>2 DEF Stop
    <3>2. wire \in [Jobs -> WireShape]
      BY <1>0 DEF Shapes
    <3>3. QED
      BY <1>2, <3>1, <3>2 DEF WireShape
  <2>2. /\ provider' \in [Jobs -> Stages] /\ \A k \in Jobs \ {j} : provider'[k] = provider[k]
        /\ provider'[j] = IF provider[j] = "runs" THEN "stopped" ELSE provider[j]
    BY <1>0, <1>2 DEF Stop, Shapes, Stages
  <2>3. provider'[j] \in {"runs", "asked", "stopped"} => ~wire[j].result
    BY <1>0, <2>2 DEF Wired
  <2>4. QED
    BY <1>1, <1>2, <2>1, <2>2, <2>3, QuietWire
<1>3. CASE wire[j].at # "select"
  <2>1. UNCHANGED <<wire, provider>>
    BY <1>3 DEF Stop
  <2>2. QED
    BY <1>1, <2>1 DEF IInv, Shapes, JobInv, Wired, Metered, Voice, Held
<1>4. QED
  BY <1>2, <1>3

LEMMA TimesOutStep ==
    ASSUME IInv, NEW j \in Jobs, TimesOut(j) \/ HangUp(j)
    PROVE  IInv'
<1>0. Shapes
  BY DEF IInv
<1>1. wire[j].at = "select" /\ UNCHANGED <<row, task, sink, lock, shown>>
  BY DEF TimesOut, HangUp
<1>2. PICK f \in BOOLEAN : wire' = [wire EXCEPT ![j].at = "closed", ![j].failed = f]
  <2>1. wire[j] \in WireShape
    BY <1>0 DEF Shapes
  <2>2. (~wire[j].result /\ ~wire[j].why) \in BOOLEAN
    BY <2>1 DEF WireShape
  <2>3. CASE TimesOut(j)
    BY <2>3 DEF TimesOut
  <2>4. CASE HangUp(j)
    BY <2>2, <2>4 DEF HangUp, Hangs
  <2>5. QED
    BY <2>3, <2>4
<1>3. /\ wire' \in [Jobs -> WireShape] /\ wire'[j].at # "connect"
      /\ wire'[j].result = wire[j].result /\ \A k \in Jobs \ {j} : wire'[k] = wire[k]
  BY <1>0, <1>2, ZenonT(30) DEF Shapes, WireShape
<1>4. /\ provider' \in [Jobs -> Stages] /\ provider'[j] = "none"
      /\ \A k \in Jobs \ {j} : provider'[k] = provider[k]
  BY <1>0 DEF TimesOut, HangUp, Shapes, Stages
<1>5. QED
  BY <1>1, <1>3, <1>4, QuietWire

\* A message joins the end of what the task will read.
LEMMA Appended ==
    ASSUME Shapes, NEW j \in Jobs, NEW m \in MessageShape,
           sink' = [sink EXCEPT ![j] = Append(@, m)]
    PROVE  /\ sink' \in [Jobs -> Seq(MessageShape)]
           /\ \A k \in Jobs \ {j} : sink'[k] = sink[k]
           /\ Len(sink[j]) \in Nat /\ Len(sink'[j]) = Len(sink[j]) + 1
           /\ \A i \in 1 .. Len(sink[j]) : sink'[j][i] = sink[j][i]
           /\ sink'[j][Len(sink[j]) + 1] = m
<1>1. sink[j] \in Seq(MessageShape) /\ sink' = [sink EXCEPT ![j] = Append(sink[j], m)]
  BY DEF Shapes
<1> DEFINE s == Append(sink[j], m)
<1>2. /\ s \in Seq(MessageShape) /\ Len(sink[j]) \in Nat /\ Len(s) = Len(sink[j]) + 1
      /\ \A i \in 1 .. Len(sink[j]) : s[i] = sink[j][i]
      /\ s[Len(sink[j]) + 1] = m
  BY <1>1
<1> HIDE DEF s
<1>3. sink' = [sink EXCEPT ![j] = s]
  BY <1>1 DEF s
<1>4. sink' \in [Jobs -> Seq(MessageShape)] /\ sink'[j] = s
  BY <1>2, <1>3 DEF Shapes
<1>5. QED
  BY <1>2, <1>3, <1>4 DEF Shapes

\* The stages in which a provider may still say its verdict.
Unanswered == {"runs", "asked", "stopped"}

LEMMA RelayStep ==
    ASSUME IInv, NEW j \in Jobs, NEW m \in MessageShape, NEW stage \in Stages,
           Relay(j, m, stage),
           m.type \in Verdicts => provider[j] \in Unanswered,
           stage \in Unanswered => provider[j] \in Unanswered /\ m.type \notin Verdicts
    PROVE  IInv'
<1>0. Shapes /\ JobInv(j) /\ Wired(j) /\ Metered(j)
  BY DEF IInv, JobInv
<1>1. /\ wire[j].at = "select" /\ UNCHANGED <<row, task, lock, shown>>
      /\ sink' = [sink EXCEPT ![j] = Append(@, m)]
      /\ provider' = [provider EXCEPT ![j] = stage]
  BY DEF Relay
<1> DEFINE w == [wire[j] EXCEPT
                   !.at = IF m.type \in {"failed", "done"} THEN "closed" ELSE "busy",
                   !.result = @ \/ m.type = "result", !.why = @ \/ m.type = "failed",
                   !.failed = m.type = "done" /\ ~wire[j].result]
<1>2. wire' = [wire EXCEPT ![j] = w]
  BY <1>0 DEF Relay, Shapes
<1>3. wire[j] \in WireShape
  BY <1>0 DEF Shapes
<1>4. /\ w \in WireShape /\ w.at # "connect"
      /\ w.result = (wire[j].result \/ m.type = "result")
  BY <1>3 DEF WireShape
<1> HIDE DEF w
<1>5. /\ wire' \in [Jobs -> WireShape] /\ wire'[j] = w
      /\ \A k \in Jobs \ {j} : wire'[k] = wire[k]
  BY <1>0, <1>2, <1>4 DEF Shapes
<1>6. /\ provider' \in [Jobs -> Stages] /\ provider'[j] = stage
      /\ \A k \in Jobs \ {j} : provider'[k] = provider[k]
  BY <1>0, <1>1 DEF Shapes
<1>7. /\ sink' \in [Jobs -> Seq(MessageShape)]
      /\ \A k \in Jobs \ {j} : sink'[k] = sink[k]
      /\ Len(sink[j]) \in Nat /\ Len(sink'[j]) = Len(sink[j]) + 1
      /\ \A i \in 1 .. Len(sink[j]) : sink'[j][i] = sink[j][i]
      /\ sink'[j][Len(sink[j]) + 1] = m
  BY <1>0, <1>1, Appended
<1>8. provider[j] \in Unanswered => ~wire[j].result
  BY <1>0 DEF Wired, Unanswered
<1>9. task[j].at \notin {"idle", "attempt", "nothing", "lost"}
  BY <1>0, <1>1 DEF Wired
<1>10. ASSUME NEW i \in 1 .. Len(sink'[j]), sink'[j][i].type = "result"
       PROVE  /\ wire'[j].result
              /\ \A k \in (i + 1) .. Len(sink'[j]) : sink'[j][k].type \notin Verdicts
  <2>1. CASE i \in 1 .. Len(sink[j])
    <3>1. /\ wire[j].result
          /\ \A k \in (i + 1) .. Len(sink[j]) : sink[j][k].type \notin Verdicts
      BY <1>0, <1>7, <1>10, <2>1 DEF Wired
    <3>2. m.type \notin Verdicts
      BY <1>8, <3>1
    <3>3. ASSUME NEW k \in (i + 1) .. Len(sink'[j])
          PROVE  sink'[j][k].type \notin Verdicts
      <4>1. CASE k = Len(sink[j]) + 1
        BY <1>7, <3>2, <4>1
      <4>2. CASE k # Len(sink[j]) + 1
        <5>1. k \in (i + 1) .. Len(sink[j]) /\ k \in 1 .. Len(sink[j])
          BY <1>7, <2>1, <4>2
        <5>2. QED
          BY <1>7, <3>1, <5>1
      <4>3. QED
        BY <4>1, <4>2
    <3>4. QED
      BY <1>4, <1>5, <3>1, <3>3
  <2>2. CASE i = Len(sink[j]) + 1
    <3>1. (i + 1) .. Len(sink'[j]) = {}
      BY <1>7, <2>2
    <3>2. m.type = "result"
      BY <1>7, <1>10, <2>2
    <3>3. QED
      BY <1>4, <1>5, <3>1, <3>2
  <2>3. QED
    BY <1>7, <2>1, <2>2
<1>11. Wired(j)'
  <2>1. task'[j].at \notin {"idle", "attempt", "nothing", "lost"}
    BY <1>1, <1>9
  <2>2. provider'[j] \in Unanswered => ~wire'[j].result
    BY <1>4, <1>5, <1>6, <1>8 DEF Verdicts
  <2>3. QED
    BY <1>4, <1>5, <1>10, <2>1, <2>2 DEF Wired, Unanswered
<1>12. Metered(j)'
  <2>1. SUFFICES ASSUME task[j].at = "stream", task[j].metered
                 PROVE  /\ task[j].terminal /\ wire'[j].result
                        /\ \A i \in 1 .. Len(sink'[j]) : sink'[j][i].type \notin Verdicts
    BY <1>1 DEF Metered
  <2>2. /\ task[j].terminal /\ wire[j].result
        /\ \A i \in 1 .. Len(sink[j]) : sink[j][i].type \notin Verdicts
    BY <1>0, <2>1 DEF Metered
  <2>3. m.type \notin Verdicts
    BY <1>8, <2>2
  <2>4. ASSUME NEW i \in 1 .. Len(sink'[j])
        PROVE  sink'[j][i].type \notin Verdicts
    <3>1. i \in 1 .. Len(sink[j]) \/ i = Len(sink[j]) + 1
      BY <1>7
    <3>2. QED
      BY <1>7, <2>2, <2>3, <3>1
  <2>5. QED
    BY <1>4, <1>5, <2>2, <2>4
<1>13. wire[j].at # "off"
  BY <1>1
<1>14. QED
  BY <1>1, <1>5, <1>6, <1>7, <1>11, <1>12, <1>13, WireKeeps

LEMMA SpeaksStep ==
    ASSUME IInv, NEW j \in Jobs, Speaks(j)
    PROVE  IInv'
<1>1. \A t \in {"running", "delta", "invoice", "failed", "result", "done"} :
          Says(t) \in MessageShape /\ Says(t).type = t
  BY DEF Says, MessageShape
<1>2. CASE provider[j] = "runs" /\ \E t \in {"running", "delta"} : Relay(j, Says(t), "runs")
  BY <1>1, <1>2, RelayStep DEF Stages, Unanswered, Verdicts
<1>3. CASE provider[j] = "runs" /\ Relay(j, [Says("invoice") EXCEPT !.topUp = TRUE], "asked")
  <2> DEFINE m == [Says("invoice") EXCEPT !.topUp = TRUE]
  <2>1. m \in MessageShape /\ m.type = "invoice"
    BY DEF Says, MessageShape
  <2> HIDE DEF m
  <2>2. Relay(j, m, "asked")
    BY <1>3 DEF m
  <2>3. QED
    BY <1>3, <2>1, <2>2, RelayStep DEF Stages, Unanswered, Verdicts
<1>4. CASE provider[j] \in {"runs", "stopped"} /\ Relay(j, Says("failed"), "none")
  BY <1>1, <1>4, RelayStep DEF Stages, Unanswered, Verdicts
<1>5. ASSUME provider[j] \in {"runs", "asked"}, NEW c \in Contents \cup {NoContent},
             Relay(j, [Says("result") EXCEPT !.content = c], "answered")
      PROVE  IInv'
  <2> DEFINE m == [Says("result") EXCEPT !.content = c]
  <2>1. m \in MessageShape
    BY DEF Says, MessageShape
  <2> HIDE DEF m
  <2>2. Relay(j, m, "answered")
    BY <1>5 DEF m
  <2>3. QED
    BY <1>5, <2>1, <2>2, RelayStep DEF Stages, Unanswered
<1>6. CASE Relay(j, Says("invoice"), "billed")
  BY <1>1, <1>6, RelayStep DEF Stages, Unanswered, Verdicts
<1>7. CASE Relay(j, Says("done"), "none")
  BY <1>1, <1>7, RelayStep DEF Stages, Unanswered, Verdicts
<1>8. QED
  BY <1>2, <1>3, <1>4, <1>5, <1>6, <1>7 DEF Speaks

\* Deleting takes the row, and with it what the row promised.
LEMMA DeleteStep ==
    ASSUME IInv, NEW j \in Jobs, DeleteRows(j)
    PROVE  IInv'
<1>0. Shapes /\ JobInv(j)
  BY DEF IInv
<1>1. /\ row' = [row EXCEPT ![j] = NoRow]
      /\ UNCHANGED <<task, wire, sink, provider, lock, shown>>
  BY DEF DeleteRows
<1>2. row' \in [Jobs -> RowShape] /\ row'[j] = NoRow /\ \A k \in Jobs \ {j} : row'[k] = row[k]
  BY <1>0, <1>1, Constants DEF Shapes
<1>3. Shapes' /\ OnlyJob(j)
  BY <1>0, <1>1, <1>2 DEF Shapes, OnlyJob
<1>4. JobInv(j)'
  BY <1>0, <1>1, <1>2, Constants DEF JobInv, Wired, Metered, Voice, Held
<1>5. QED
  BY <1>3, <1>4, OneJob

\* What the proof reads is left alone.
LEMMA IdleStep ==
    ASSUME IInv, UNCHANGED <<row, task, wire, sink, provider, lock, shown>>
    PROVE  IInv'
BY DEF IInv, Shapes, JobInv, Wired, Metered, Voice, Held

LEMMA RestartStep ==
    ASSUME IInv, Restart
    PROVE  IInv'
<1>0. Shapes
  BY DEF IInv
<1>1. ASSUME NEW j \in Jobs
      PROVE  /\ task'[j] \in TaskShape /\ task'[j].at \in {"idle", "lost"}
             /\ task'[j].at = "idle" <=> task[j].at = "idle"
  <2> DEFINE lost == [NoTask EXCEPT !.at = "lost"]
  <2>1. lost \in TaskShape /\ lost.at = "lost"
    BY Constants DEF TaskShape
  <2>2. task'[j] = IF task[j].at = "idle" THEN NoTask ELSE lost
    BY DEF Restart
  <2> HIDE DEF lost
  <2>3. QED
    BY <2>1, <2>2, Constants
<1>2. ASSUME NEW j \in Jobs
      PROVE  /\ row'[j] \in RowShape /\ row'[j].peer = row[j].peer
             /\ row'[j].status = "gone" <=> row[j].status = "gone"
  <2>1. row[j] \in RowShape
    BY <1>0 DEF Shapes
  <2>2. row'[j] = IF row[j].status \in Open THEN [row[j] EXCEPT !.status = "failed"] ELSE row[j]
    BY DEF Restart
  <2>3. QED
    BY <2>1, <2>2 DEF RowShape, Statuses, Open
<1>3. ASSUME NEW j \in Jobs
      PROVE  /\ wire'[j] = NoWire /\ sink'[j] = <<>> /\ provider'[j] = "none"
             /\ lock'[j] = "none" /\ shown'[j] = shown[j]
  BY DEF Restart
<1>4. Shapes'
  <2>1. task' = [j \in Jobs |-> task'[j]] /\ row' = [j \in Jobs |-> row'[j]]
    BY DEF Restart
  <2>2. task' \in [Jobs -> TaskShape] /\ row' \in [Jobs -> RowShape]
    BY <1>1, <1>2, <2>1
  <2>3. /\ wire' \in [Jobs -> WireShape] /\ lock' \in [Jobs -> {"none", "held", "paid"}]
        /\ provider' \in [Jobs -> Stages] /\ shown' \in [Jobs -> SUBSET (Peers \cup {NoPeer})]
    BY <1>0, Constants DEF Restart, Shapes, Stages
  <2>4. sink' \in [Jobs -> Seq(MessageShape)]
    BY DEF Restart
  <2>5. QED
    BY <2>2, <2>3, <2>4 DEF Shapes
<1>5. ASSUME NEW j \in Jobs
      PROVE  JobInv(j)'
  <2>1. JobInv(j) /\ task[j].at \in {"idle", "attempt", "stream", "nothing", "over", "lost"}
    BY <1>0 DEF IInv, Shapes, TaskShape
  <2>2. Wired(j)' /\ Metered(j)' /\ Held(j)'
    BY <1>1, <1>3, Constants DEF Wired, Metered, Held
  <2>3. Voice(j)'
    BY <1>1, <1>2, <1>3, <2>1 DEF JobInv, Voice
  <2>4. QED
    BY <2>2, <2>3 DEF JobInv
<1>6. QED
  BY <1>4, <1>5 DEF IInv

LEMMA NextInv == IInv /\ [Next]_vars => IInv'
<1> SUFFICES ASSUME IInv, [Next]_vars PROVE IInv'
  OBVIOUS
<1>1. ASSUME NEW j \in Jobs, TakeStep(j)
      PROVE  IInv'
  BY <1>1, TakeDeltaStep, TakeRunningStep, TakeFailedStep, TakeDoneStep, TakeInvoiceStep,
     TakeResultStep, EndStreamStep DEF TakeStep
<1>2. ASSUME NEW j \in Jobs, TaskStep(j)
      PROVE  IInv'
  BY <1>1, <1>2, AttemptStep, RetryStep DEF TaskStep
<1>3. ASSUME NEW j \in Jobs, WireStep(j)
      PROVE  IInv'
  BY <1>3, ConnectStep, SelectStep, SpeaksStep, TimesOutStep DEF WireStep
<1>4. ASSUME NEW j \in Jobs, Erase(j)
      PROVE  IInv'
  BY <1>4, IdleStep DEF Erase
<1>5. CASE UNCHANGED vars
  BY <1>5, IdleStep DEF vars
<1>6. QED
  BY <1>2, <1>3, <1>4, <1>5, SubmitStep, StopStep, DeleteStep, RestartStep DEF Next

----------------------------------------------------------------------------

\* The rows, tasks and transports of jobs.rs, net.rs and store.rs keep to the
\* inductive invariant above, whatever a provider does and wherever the app dies.
THEOREM JobInvariance == Spec => []IInv
<1>1. IInv /\ [Next]_vars => IInv'
  BY NextInv
<1>2. QED
  BY <1>1, InitInv, PTL DEF Spec

\* Falling back from provider to provider (jobs.rs attempt), the user hears
\* one, and it is the one the row names.
THEOREM OneVoiceHeard == Spec => []OneVoice
<1>1. IInv => OneVoice
  <2> SUFFICES ASSUME IInv, NEW j \in Jobs, row[j].status # "gone"
               PROVE  shown[j] \subseteq {row[j].peer}
    BY DEF OneVoice
  <2>1. Voice(j) /\ task[j].at \in {"idle", "attempt", "stream", "nothing", "over", "lost"}
    BY DEF IInv, JobInv, Shapes, TaskShape
  <2>2. QED
    BY <2>1 DEF Voice
<1>2. QED
  BY <1>1, JobInvariance, PTL

\* What the wallet locked for a provider is let go on every way out of its
\* stream (jobs.rs submit, settle_job): no lock outlives the attempt it pays.
THEOREM LocksHaveStreams == Spec => []LockHasStream
<1>1. IInv => LockHasStream
  BY DEF IInv, JobInv, Held, LockHasStream
<1>2. QED
  BY <1>1, JobInvariance, PTL
====
