----------------------------- MODULE ChatBackend -----------------------------
(***************************************************************************)
(* VllmBackend::run (crates/rootmode-worker/src/backends/vllm.rs): one     *)
(* completion of an OpenAI-compatible server, from the request to the      *)
(* result of the job.                                                      *)
(*                                                                         *)
(* The server writes frames; the network cuts them anywhere.  A frame is   *)
(* one of the kinds the code tells apart.  Its content is a sequence of    *)
(* tokens: "word" is answer text, "open", "body" and "close" are the       *)
(* parts of a native tool call left in the content, "half1" and "half2"    *)
(* the halves of an opening tag that two deltas cut.                       *)
(***************************************************************************)
EXTENDS Integers, Sequences, FiniteSets, SequencesExt, FiniteSetsExt

CONSTANTS
    Frames,         \* what the server may write: [kind, tokens, index, name, args]
    Requests,       \* [effort, tools, openRouter]: what a job and a node ask for
    MaxFrames       \* bound on the frames of a completion

Tokens == {"word", "open", "body", "close", "half1", "half2"}
ASSUME BackendAssumption ==
    \A f \in Frames : /\ f.tokens \in Seq(Tokens) /\ f.index \in Nat
                      /\ f.name \in BOOLEAN /\ f.args \in Seq(STRING)

VARIABLES
    asked,          \* the body of the last request
    replied,        \* the server's side: the frames it has finished writing
    tail,           \* the frame whose first part is in `buffer`, if any
    run,            \* the locals of run
    streamed,       \* progress.delta: the answer text the client was streamed
    outcome         \* "posting", "retrying", "reading", "ok" or "failed"

backendVars == <<asked, replied, tail, run, streamed, outcome>>

NoCall == [named |-> FALSE, args |-> <<>>]
Indices == {f.index : f \in Frames}

-----------------------------------------------------------------------------
(* The request *)

\* reasoning_effort and the tools decide how much a model may think.
Body(effort, tools, openRouter, search) ==
    [limit |-> "max_tokens",
     reasoning |-> IF openRouter THEN effort ELSE "unset",
     template |-> IF effort # "unset" THEN effort ELSE IF tools THEN "low" ELSE "unset",
     tools |-> tools,
     plugins |-> search]

BackendInit ==
    /\ asked \in {Body(r.effort, r.tools, r.openRouter, r.openRouter) : r \in Requests}
    /\ replied = <<>> /\ tail = <<>> /\ streamed = <<>> /\ outcome = "posting"
    /\ run = [text |-> <<>>, think |-> 0, calls |-> [i \in Indices |-> NoCall],
              error |-> FALSE, finish |-> "none", usage |-> 0]

-----------------------------------------------------------------------------
(* Native tool markup in the content *)

\* The text with its cut opening tags made whole.
Cut(text, k) == k \in DOMAIN text /\ text[k] = "half1" /\ k < Len(text) /\ text[k + 1] = "half2"
Joined(text) ==
    FlattenSeq([k \in DOMAIN text |-> IF Cut(text, k) THEN <<>>
                                      ELSE IF Cut(text, k - 1) THEN <<"open">> ELSE <<text[k]>>])

\* markup_start: where the first opening tag is, past the end if there is none.
MarkupStart(text) ==
    Min({p \in DOMAIN text : text[p] = "open"} \cup {Len(text) + 1})

VisibleAll(previous, added) == added                            \* mutant

\* markup_visible_delta.
VisibleDelta(previous, added) ==
    SubSeq(previous \o added, Len(previous) + 1,
           IF MarkupStart(Joined(previous \o added)) > Len(Joined(previous \o added))
           THEN Len(previous \o added) ELSE MarkupStart(Joined(previous \o added)) - 1)

\* salvage_tool_markup: the complete blocks that hold a call.
Salvaged(text) ==
    FoldLeft(LAMBDA acc, t :
               IF t = "open" /\ ~acc.inside THEN [acc EXCEPT !.inside = TRUE, !.body = <<>>]
               ELSE IF t = "close" /\ acc.inside
                 THEN [acc EXCEPT !.inside = FALSE, !.n = @ + IF acc.body = <<"body">> THEN 1 ELSE 0]
               ELSE [acc EXCEPT !.body = Append(@, t)],
             [inside |-> FALSE, body |-> <<>>, n |-> 0], Joined(text)).n

\* strip_xml_tool_calls: what is before the first block and after the last one.
Stripped(text) ==
    LET t == Joined(text)
        opens == {p \in DOMAIN t : t[p] = "open"}
        closes == {p \in DOMAIN t : t[p] = "close" /\ p > Max(opens)} IN
    IF opens = {} THEN text
    ELSE SubSeq(t, 1, Min(opens) - 1)
         \o SubSeq(t, (IF closes = {} THEN Len(t) ELSE Min(closes)) + 1, Len(t))

-----------------------------------------------------------------------------
(* The stream *)

PartToLast(calls, f) ==                                         \* mutant
    LET open == {i \in Indices : calls[i].named}
        i == IF open = {} THEN f.index ELSE Max(open) IN
    [calls EXCEPT ![i].named = @ \/ f.name, ![i].args = @ \o f.args]

\* Fragments of a call are joined by its index.
Part(calls, f) ==
    [calls EXCEPT ![f.index].named = @ \/ f.name, ![f.index].args = @ \o f.args]

\* One frame; after an error the rest is not read.
TakeFrame(r, f) ==
    IF r.error THEN r
    ELSE CASE f.kind = "content" -> [r EXCEPT !.text = @ \o f.tokens]
           [] f.kind = "think" -> [r EXCEPT !.think = @ + 1]
           [] f.kind = "call" -> [r EXCEPT !.calls = Part(@, f)]
           [] f.kind = "finish" -> [r EXCEPT !.finish = "stop"]
           [] f.kind = "usage" -> [r EXCEPT !.usage = f.index]
           [] f.kind = "error" -> [r EXCEPT !.error = TRUE]
           [] OTHER -> r                    \* one unparseable frame loses nothing

Shown(r, f) == IF f.kind = "content" /\ ~r.error THEN VisibleDelta(r.text, f.tokens) ELSE <<>>
ReadFrame(s, f) == [run |-> TakeFrame(s.run, f), streamed |-> s.streamed \o Shown(s.run, f)]

\* "Hold back any partial tail": the lines a chunk completes.
Completed(fs) == tail \o fs

-----------------------------------------------------------------------------
\* rename_max_tokens: a server that wants the other spelling is asked again.
Answers ==
    /\ outcome \in {"posting", "retrying"}
    /\ \/ outcome' = "reading" /\ UNCHANGED asked
       \/ outcome' = "failed" /\ UNCHANGED asked
       \/ /\ outcome = "posting" /\ outcome' = "retrying"
          /\ asked' = [asked EXCEPT !.limit = "max_completion_tokens"]
    /\ UNCHANGED <<replied, tail, run, streamed>>

\* A chunk: the rest of the frame that was cut, whole frames, and the first
\* part of another.
Chunk ==
    /\ outcome = "reading"
    /\ \E fs, next \in BoundedSeq(Frames, 1) :
         LET lines == Completed(fs)
             read[k \in 0..Len(lines)] ==
                 IF k = 0 THEN [run |-> run, streamed |-> streamed]
                 ELSE ReadFrame(read[k - 1], lines[k]) IN
         /\ tail # <<>> \/ fs # <<>> \/ next # <<>>
         /\ Len(replied \o tail \o fs \o next) <= MaxFrames
         /\ run' = read[Len(lines)].run
         /\ streamed' = read[Len(lines)].streamed
         /\ replied' = replied \o tail \o fs
         /\ tail' = next
         /\ outcome' = IF run'.error THEN "failed" ELSE "reading"
    /\ UNCHANGED asked

\* The connection breaks.
Breaks == /\ outcome = "reading" /\ outcome' = "failed"
          /\ UNCHANGED <<asked, replied, tail, run, streamed>>

Assembled(r) == {i \in Indices : r.calls[i].named}

\* The body ends: what was read is the answer, if there is one.
Closes ==
    /\ outcome = "reading"
    /\ LET salvaged == IF Assembled(run) = {} THEN Salvaged(run.text) ELSE 0
           text == Stripped(run.text)
           empty == text = <<>> /\ salvaged = 0 /\ Assembled(run) = {} IN
       /\ outcome' = IF empty THEN "failed" ELSE "ok"
       /\ run' = [run EXCEPT !.text = text, !.finish = IF salvaged > 0 THEN "tool_calls" ELSE @,
                             \* TokenUsage::reconcile: the larger count is billed
                             !.usage = Max({@, Len(text) + run.think + salvaged
                                               + SumSet({Len(run.calls[i].args) : i \in Assembled(run)})})]
    /\ UNCHANGED <<asked, replied, tail, streamed>>

BackendNext == Answers \/ Chunk \/ Breaks \/ Closes
BackendSpec == BackendInit /\ [][BackendNext]_backendVars

-----------------------------------------------------------------------------
Contents(fs) == FlattenSeq([k \in DOMAIN fs |-> IF fs[k].kind = "content" THEN fs[k].tokens ELSE <<>>])
IsPart(f, i) == f.kind = "call" /\ f.index = i
Arguments(fs, i) == FlattenSeq([k \in DOMAIN fs |-> IF IsPart(fs[k], i) THEN fs[k].args ELSE <<>>])

(* However the network cuts the frames and the server interleaves the          *)
(* fragments of its calls, a delivered result holds every call the server      *)
(* wrote with the arguments it wrote for it, the content outside of markup,    *)
(* and never follows a reported error (run: "Keyed by the index", "hold back   *)
(* any partial tail", "swallowing it turns a real error into ...").            *)
AnswerAsGenerated ==
    outcome = "ok" =>
      /\ \A k \in DOMAIN replied : replied[k].kind # "error"
      /\ \A i \in Indices :
           /\ i \in Assembled(run) <=> \E k \in DOMAIN replied : IsPart(replied[k], i) /\ replied[k].name
           /\ run.calls[i].args = Arguments(replied, i)
      /\ run.text = Stripped(Contents(replied))

(* The result replaces what was streamed, so what the client has read of the   *)
(* answer must be its start: "do not stream that as the answer - a coding      *)
(* client then prints the invoke block".  Half an opening tag may have gone    *)
(* out before it was known for one.                                            *)
StreamedIsAnswer ==
    LET n == Len(streamed)
        shown == IF n > 0 /\ streamed[n] = "half1" THEN SubSeq(streamed, 1, n - 1) ELSE streamed IN
    outcome = "ok" => IsPrefix(shown, run.text)
=============================================================================
