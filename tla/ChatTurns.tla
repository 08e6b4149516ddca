----------------------------- MODULE ChatTurns ------------------------------
(***************************************************************************)
(* A conversation on its way from an outside tool to an inference server:  *)
(* the three dialects of apps/desktop/src-tauri/src/gateway/translate.rs   *)
(* (into_chat) and what the worker does to the messages before it posts    *)
(* them (crates/rootmode-worker/src/backends/vllm.rs prepare_messages,     *)
(* openai_messages).                                                       *)
(*                                                                         *)
(* A turn is a role and its blocks; a text is the place it was written at, *)
(* so that the properties can follow it.  A call and its result share an   *)
(* id.  Trimming, tagging and joining of texts are left out: a text is     *)
(* there or is not.                                                        *)
(***************************************************************************)
EXTENDS Integers, Sequences, FiniteSets, SequencesExt, FiniteSetsExt

CONSTANTS
    Turns,          \* the turns a tool may send: [role, blocks]
    MaxTurns

\* "text", "empty" (a text with nothing in it), "image", "call" and "result" (a
\* tool call and its output), "mute" (an output with nothing in it).
Blocks == {"text", "empty", "image", "call", "result", "mute"}
ASSUME TurnsAssumption ==
    \A t \in Turns : t.role \in {"system", "user", "assistant"} /\ t.blocks \in Seq(Blocks)

VARIABLES
    dialect, said,  \* the request
    chat,           \* the job's messages: what into_chat makes of it
    posted,         \* what the worker posts
    turnsAt

turnVars == <<dialect, said, chat, posted, turnsAt>>

TurnsInit ==
    /\ dialect \in {"anthropic", "openai", "responses"}
    /\ said = <<>> /\ chat = <<>> /\ posted = <<>> /\ turnsAt = "typing"

-----------------------------------------------------------------------------
(* Into messages *)

Message(role) == [role |-> role, words |-> <<>>, calls |-> <<>>, answers |-> 0, images |-> 0, name |-> 0]

\* Calls and results are numbered through the conversation.
Numbered(s, t, b, kinds) ==
    Cardinality({p \in UNION {{x} \X DOMAIN s[x].blocks : x \in 1..t} :
        s[p[1]].blocks[p[2]] \in kinds /\ (p[1] < t \/ p[2] <= b)})
Spots(s, t, kinds) ==
    FlattenSeq([b \in DOMAIN s[t].blocks |-> IF s[t].blocks[b] \in kinds THEN <<b>> ELSE <<>>])
Words(s, t) == LET at == Spots(s, t, {"text"}) IN [k \in DOMAIN at |-> <<t, at[k]>>]
Calls(s, t) == LET at == Spots(s, t, {"call"}) IN [k \in DOMAIN at |-> Numbered(s, t, at[k], {"call"})]
Result(s, t, b) ==
    [Message("tool") EXCEPT !.answers = Numbered(s, t, b, {"result", "mute"}),
                            !.words = IF s[t].blocks[b] = "result" THEN <<<<t, b>>>> ELSE <<>>]
Results(s, t) ==
    LET at == Spots(s, t, {"result", "mute"}) IN [k \in DOMAIN at |-> Result(s, t, at[k])]
Said(s, t) ==
    [Message(s[t].role) EXCEPT !.words = Words(s, t), !.calls = Calls(s, t),
                               !.images = Len(Spots(s, t, {"image"}))]

Speaks(m) == m.words # <<>> \/ m.calls # <<>>

\* push_anthropic_turn: the tool results of a turn become messages of their
\* own, before what else it holds.
AnthropicTurn(s, t) ==
    Results(s, t)
    \o IF Speaks(Said(s, t)) \/ Said(s, t).images > 0 THEN <<Said(s, t)>> ELSE <<>>

\* An OpenAI message is one turn; one with neither text nor calls is dropped.
OpenAiTurn(s, t) ==
    LET all == Results(s, t) \o <<Said(s, t)>> IN
    FlattenSeq([k \in DOMAIN all |-> IF Speaks(all[k]) THEN <<all[k]>> ELSE <<>>])

\* push_responses_item: calls and outputs are items, a message needs a text or
\* a picture.
ResponsesTurn(s, t) ==
    LET m == Said(s, t)
        calls == [k \in DOMAIN m.calls |-> [Message("assistant") EXCEPT !.calls = <<m.calls[k]>>]]
    IN (IF m.words # <<>> \/ m.images > 0 THEN <<[m EXCEPT !.calls = <<>>]>> ELSE <<>>)
       \o calls \o Results(s, t)

TurnOf(s, t) ==
    CASE dialect = "anthropic" -> AnthropicTurn(s, t)
      [] dialect = "openai" -> OpenAiTurn(s, t)
      [] OTHER -> ResponsesTurn(s, t)
Messages(s) == FlattenSeq([t \in DOMAIN s |-> TurnOf(s, t)])

\* A request has something to answer.
Answerable(ms) ==
    \E k \in DOMAIN ms : ms[k].role # "system"
        /\ (dialect = "anthropic" => ms[k].words # <<>> \/ ms[k].calls # <<>>)

-----------------------------------------------------------------------------
(* fold_late_system_messages, the gateway's and the worker's *)

Opening(ms) == Max({0} \cup {k \in DOMAIN ms : \A i \in 1..k : ms[i].role = "system"})

LedBehind(held, m) == [m EXCEPT !.words = @ \o held]            \* mutant

\* The turn after an instruction that waited for it.
Led(held, m) == [m EXCEPT !.words = held \o @]

\* A late instruction joins the user turn before it, else waits for the one
\* after, else becomes one.
Folded(acc, ms, k) ==
    LET m == ms[k]
        n == Len(acc.out) IN
    IF m.role # "system"
      THEN [out |-> Append(acc.out, Led(acc.held, m)), held |-> <<>>]
    ELSE IF n > Opening(ms) /\ acc.out[n].role = "user"
      THEN [acc EXCEPT !.out[n].words = @ \o m.words]
    ELSE IF k < Len(ms) /\ ms[k + 1].role = "user"
      THEN [acc EXCEPT !.held = m.words]
    ELSE [acc EXCEPT !.out = Append(@, [Message("user") EXCEPT !.words = m.words])]

Fold(ms) ==
    LET n == Opening(ms)
        done[k \in n..Len(ms)] ==
            IF k = n THEN [out |-> SubSeq(ms, 1, n), held |-> <<>>]
            ELSE Folded(done[k - 1], ms, k) IN
    done[Len(ms)].out

\* merge_leading_system_messages.
Merge(ms) ==
    LET n == Opening(ms) IN
    IF n <= 1 THEN ms
    ELSE <<[ms[1] EXCEPT !.words = FlattenSeq([k \in 1..n |-> ms[k].words])]>>
         \o SubSeq(ms, n + 1, Len(ms))

\* openai_messages: a result also names the tool whose call it answers.
Named(ms) ==
    LET called == {ms[k].calls : k \in DOMAIN ms} IN
    [k \in DOMAIN ms |->
        IF ms[k].role = "tool" /\ \E c \in called : \E i \in DOMAIN c : c[i] = ms[k].answers
        THEN [ms[k] EXCEPT !.name = ms[k].answers] ELSE ms[k]]

-----------------------------------------------------------------------------
Type == /\ turnsAt = "typing" /\ Len(said) < MaxTurns
        /\ \E t \in Turns : said' = Append(said, t)
        /\ UNCHANGED <<dialect, chat, posted, turnsAt>>

\* into_chat; a request with nothing to answer is refused.
IntoChat ==
    /\ turnsAt = "typing" /\ said # <<>>
    /\ IF Answerable(Messages(said))
         THEN chat' = Fold(Messages(said)) /\ turnsAt' = "job"
         ELSE chat' = <<>> /\ turnsAt' = "refused"
    /\ UNCHANGED <<dialect, said, posted>>

\* prepare_messages and openai_messages.
Post ==
    /\ turnsAt = "job"
    /\ posted' = Named(Fold(Merge(chat))) /\ turnsAt' = "posted"
    /\ UNCHANGED <<dialect, said, chat>>

TurnsNext == Type \/ IntoChat \/ Post
TurnsSpec == TurnsInit /\ [][TurnsNext]_turnVars

-----------------------------------------------------------------------------
Texts(ms) == FlattenSeq([k \in DOMAIN ms |-> ms[k].words])
\* What was written, in the order a dialect defines: a turn's results first
\* where they share it with text.
AsWritten ==
    FlattenSeq([t \in DOMAIN said |->
        LET results == Texts(Results(said, t)) IN
        IF dialect = "responses" THEN Words(said, t) \o results ELSE results \o Words(said, t)])

(* "Qwen, Llama and most others allow a system message in first position only, *)
(* and only one of them" (prepare_messages).                                   *)
OneSystemFirst ==
    turnsAt = "posted" => \A k \in DOMAIN posted : posted[k].role = "system" => k = 1

(* "The text is kept ... so an instruction is never dropped" and "a late        *)
(* instruction still reads as late" (prepare_messages, translate.rs): every     *)
(* text reaches the server once, in the order it was written.                   *)
WordsInOrder == turnsAt = "posted" => Texts(posted) = AsWritten

(* "Tool calls travel end to end" (translate.rs): every call and every result  *)
(* of a request reaches the server.  An OpenAI result with nothing in it is    *)
(* dropped, see README.                                                        *)
ToolsTravel ==
    turnsAt = "posted" =>
      /\ FlattenSeq([k \in DOMAIN posted |-> posted[k].calls]) =
         FlattenSeq([t \in DOMAIN said |-> Calls(said, t)])
      /\ \A t \in DOMAIN said : \A b \in DOMAIN said[t].blocks :
           said[t].blocks[b] \in (IF dialect = "openai" THEN {"result"} ELSE {"result", "mute"})
             => \E k \in DOMAIN posted :
                  posted[k].role = "tool" /\ posted[k].answers = Numbered(said, t, b, {"result", "mute"})

(* A result names the tool of its own call, "or fall back to matching results  *)
(* to calls by position — which breaks" (openai_messages).                     *)
ResultsNamed ==
    turnsAt = "posted" =>
      \A k \in DOMAIN posted : posted[k].role = "tool" => posted[k].name \in {0, posted[k].answers}
=============================================================================
