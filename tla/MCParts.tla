------------------------------- MODULE MCParts -------------------------------
(***************************************************************************)
(* The modules that touch none of the others' state, side by side in one   *)
(* run: `part` names the one a behaviour is about, chosen at the start.    *)
(* The variables of the others stay as they begin, those of Market empty,  *)
(* so that each property is checked as its module states it.               *)
(***************************************************************************)
EXTENDS PeerBook, Node, Market, Wallet, ImageBackend, ConnectedTools, Statistics,
        ChatBackend, ChatTurns, TLC

CONSTANTS
    w1, w2, neighbour

VARIABLE part

ConvVars == turnVars
BackVars == backendVars
MktVars == marketVars
ImgVars == imageVars
StaVars == statsVars
TooVars == toolsVars
WalVars == walletVars
NodVars == <<links, dials, bootstrapped, reserved, slots, stuck, listeners, external,
    advertised_private, has_public_external, provided, kept, records, lapse,
    sightings, local_peers, shifts>>
partsVars == <<part, ConvVars, BackVars, MktVars, ImgVars, StaVars, TooVars, WalVars, NodVars,
    bookVars>>

(* One conjunct for each part that is not chosen *)
NoConv == TurnsInit /\ dialect = "openai"
NoBack == BackendInit /\ asked.tools
NoMkt ==
    /\ catalogue = <<>> /\ edits = <<>> /\ registry = <<>> /\ upstream = <<>>
    /\ peer = <<>> /\ work = NoWork
NoImg ==
    ImageInit /\ settings = [workflow |-> FALSE, own |-> {}] /\ ~box.up
NoSta == StatsInit /\ ~tooLong
NoToo == ToolsInit /\ tool = "zed" /\ files["config"] = Absent
NoWal == WalletInit /\ spends = {}
NoNode == NodeInit

(* Inputs *)

Says(role, blocks) == [role |-> role, blocks |-> blocks]
SomeTurns ==
    {Says("system", <<"text">>), Says("user", <<"text">>), Says("user", <<"result", "text">>),
     Says("user", <<"mute">>), Says("user", <<"image">>), Says("user", <<"empty">>),
     Says("assistant", <<"text", "call">>), Says("assistant", <<"call", "call">>)}

Frame(kind, tokens, index, name, args) ==
    [kind |-> kind, tokens |-> tokens, index |-> index, name |-> name, args |-> args]
Content(tokens) == Frame("content", tokens, 0, FALSE, <<>>)
SomeFrames ==
    {Content(<<"word">>), Content(<<"half1">>), Content(<<"half2", "body", "close">>),
     Content(<<"word", "open", "body", "close">>),
     Frame("call", <<>>, 0, TRUE, <<>>), Frame("call", <<>>, 1, TRUE, <<"a">>),
     Frame("call", <<>>, 0, FALSE, <<"b">>), Frame("usage", <<>>, 1, FALSE, <<>>)}
    \cup {Frame(kind, <<>>, 0, FALSE, <<>>) : kind \in {"error", "think", "noise", "finish"}}
SomeRequests == {[effort |-> "unset", tools |-> TRUE, openRouter |-> FALSE],
                 [effort |-> "high", tools |-> FALSE, openRouter |-> TRUE]}

Rates(p, c, r, w) == [prompt |-> p, completion |-> c, read |-> r, write |-> w]
Text(id, rates) == [id |-> id, kind |-> "llm", rates |-> rates, skus |-> {}, audio |-> "never",
                    frames |-> FALSE, resolutions |-> {}]
Clip(skus, audio, frames) ==
    [id |-> "v", kind |-> "video", rates |-> Rates(0, 0, 0, 0), skus |-> skus, audio |-> audio,
     frames |-> frames, resolutions |-> {"480p", "720p"}]
Sku(d, x, a, f, r, l) ==
    [dialect |-> d, resolution |-> x, audio |-> a, from |-> f, rate |-> r, least |-> l]
BySecond == Clip({Sku("seconds", "any", "with", "any", 30, 0),
                  Sku("seconds", "any", "without", "text", 11, 0),
                  Sku("seconds", "any", "without", "image", 21, 0)}, "optional", TRUE)
InCents == Clip({Sku("cents", "480p", "any", "any", 7, 99), Sku("cents", "720p", "any", "image", 13, 99),
                 Sku("cents", "720p", "any", "any", 12, 99)}, "always", FALSE)
InTokens == Clip({Sku("tokens", "720p", "any", "any", 9, 0),
                  Sku("tokens", "480p", "any", "text", 5, 0)}, "never", TRUE)
SomeCatalogues ==
    {<<Text("a", Rates(20, 100, 5, 25)), BySecond>>, <<Text("a", Rates(40, 300, 0, 0)), InCents>>,
     <<InTokens>>, <<Text("a", Rates(0, 0, 0, 0)), Text("ab", Rates(120, 480, 12, 0))>>,
     <<Text("ab", Rates(1, 0, 0, 0)), Text("a", Rates(10, 10, 0, 0)), InTokens>>}
SomeGaps == {-15, 0, 500}
SomeChats ==
    {[messages |-> 1, words |-> 14, calls |-> 0, images |-> 0, tools |-> 0],
     [messages |-> 3, words |-> 700, calls |-> 1, images |-> 3, tools |-> 2]}
SomeChannels ==
    {[fresh |-> TRUE, remaining |-> 0, unsettled |-> 0, free |-> 5000000, raise |-> FALSE],
     [fresh |-> FALSE, remaining |-> 90, unsettled |-> 70, free |-> 1, raise |-> TRUE]}
SomeExtends == {<<"ab", "a">>}
SomeShapes == [seconds : {5, 8}, resolution : {"480p", "720p"}, audio : BOOLEAN, from : BOOLEAN]

SomeOrder == <<"xl-two", "xl", "kr", "kr-raw", "fx", "h3">>
Checkpointed(bundled, family, named, says, video) ==
    [bundled |-> bundled, family |-> family, named |-> named, says |-> says, video |-> video]
SomeMade ==
    ("kr" :> Checkpointed(FALSE, "krea2", "none", TRUE, FALSE)) @@
    ("kr-raw" :> Checkpointed(FALSE, "krea2", "krea2", TRUE, FALSE)) @@
    ("fx" :> Checkpointed(FALSE, "flux", "none", FALSE, FALSE)) @@
    ("h3" :> Checkpointed(FALSE, "minimax", "none", FALSE, TRUE)) @@
    [n \in {"xl", "xl-two", "image"} |-> Checkpointed(TRUE, "sd", "none", FALSE, FALSE)]
SomeLonger == {<<"kr-raw", "kr">>, <<"xl-two", "xl">>}
SomeAlike == {"kr", "kr-raw"} \X {"kr-raw"}
Families == {"sd", "krea2", "flux", "minimax", "stable_diffusion"}
SomeEncoder ==
    ("krea2" :> {"qwen"}) @@ ("flux" :> {"t5", "clip_l"}) @@ ("minimax" :> {"minimax"}) @@
    [f \in Families |-> {"clip_l"}]
SomeDecoder ==
    ("krea2" :> "qwen vae") @@ ("minimax" :> "minimax vae") @@ [f \in Families |-> "ae"]
SomeAbout == ("krea2" :> [model |-> "kr-raw", vae |-> "qwen vae"]) @@
             ("flux" :> [model |-> "fx", vae |-> "none"])
Box(up, ckpts, unets, clips, vaes, templates, own) ==
    [up |-> up, ckpts |-> ckpts, unets |-> unets, clips |-> clips, vaes |-> vaes,
     templates |-> templates, saved |-> own]
SomeBoxes ==
    {Box(TRUE, {"xl", "xl-two", "kr"}, {"kr-raw", "xl"}, {"t5", "clip_l", "qwen"}, {"ae"},
         {"krea2"}, {}),
     Box(TRUE, {"kr"}, {"kr-raw"}, {"t5", "clip_l", "qwen"}, {"ae", "qwen vae"}, {"krea2"}, {"kr"}),
     Box(TRUE, {"kr-raw", "fx"}, {"fx", "h3"}, {"t5", "clip_l", "minimax"}, {"ae", "minimax vae"},
         {"flux"}, {}),
     Box(FALSE, {"xl"}, {}, {}, {}, {}, {})}
SomeSettings == {[workflow |-> FALSE, own |-> {}], [workflow |-> FALSE, own |-> {"fx"}],
                 [workflow |-> TRUE, own |-> {"fx"}]}

Offer(model, kind, price) == [model |-> model, kind |-> kind, price |-> price]
Free == <<Offer(<<1>>, "llm", 0)>>
Paid == <<Offer(<<1>>, "llm", 2)>>
Long == <<Offer(<<1, 2>>, "llm", 1)>>
Both == <<Offer(<<1>>, "llm", 2), Offer(<<1, 2>>, "llm", 0)>>
Mixed == <<Offer(<<2>>, "llm", 0), Offer(<<3>>, "image", 0)>>
SomeMenus == {Free, Paid, Long, Mixed, Both}
SomeModels == {<<1>>}
SomeNeighbours == {neighbour} \X {"wifi", "cable"}
Serving(a, b) == w1 :> [up |-> TRUE, menu |-> a] @@ w2 :> [up |-> TRUE, menu |-> b]
SomeNets == {Serving(Paid, Free), Serving(Long, Mixed), Serving(Both, Long)}
NoBook == BookInit /\ net = Serving(Paid, Free)

-----------------------------------------------------------------------------
(* The run *)

Init ==
    \/ part = "turns" /\ TurnsInit
       /\ NoBack /\ NoMkt /\ NoImg /\ NoSta /\ NoToo /\ NoWal /\ NoNode /\ NoBook
    \/ part = "backend" /\ BackendInit
       /\ NoConv /\ NoMkt /\ NoImg /\ NoSta /\ NoToo /\ NoWal /\ NoNode /\ NoBook
    \/ part = "market" /\ MarketInit
       /\ NoConv /\ NoBack /\ NoImg /\ NoSta /\ NoToo /\ NoWal /\ NoNode /\ NoBook
    \/ part = "pictures" /\ ImageInit
       /\ NoConv /\ NoBack /\ NoMkt /\ NoSta /\ NoToo /\ NoWal /\ NoNode /\ NoBook
    \/ part \in {"usage", "growth"} /\ StatsInit
       /\ NoConv /\ NoBack /\ NoMkt /\ NoImg /\ NoToo /\ NoWal /\ NoNode /\ NoBook
    \/ part = "tools" /\ ToolsInit
       /\ NoConv /\ NoBack /\ NoMkt /\ NoImg /\ NoSta /\ NoWal /\ NoNode /\ NoBook
    \/ part \in {"screens", "scan"} /\ WalletInit
       /\ NoConv /\ NoBack /\ NoMkt /\ NoImg /\ NoSta /\ NoToo /\ NoNode /\ NoBook
    \/ part = "node" /\ NodeInit
       /\ NoConv /\ NoBack /\ NoMkt /\ NoImg /\ NoSta /\ NoToo /\ NoWal /\ NoBook
    \/ part = "peers" /\ BookInit
       /\ NoConv /\ NoBack /\ NoMkt /\ NoImg /\ NoSta /\ NoToo /\ NoWal /\ NoNode

Only(name, others) == part = name /\ UNCHANGED <<part, others>>
ConvOthers == <<BackVars, MktVars, ImgVars, StaVars, TooVars, WalVars, NodVars, bookVars>>
BackOthers == <<ConvVars, MktVars, ImgVars, StaVars, TooVars, WalVars, NodVars, bookVars>>
MktOthers == <<ConvVars, BackVars, ImgVars, StaVars, TooVars, WalVars, NodVars, bookVars>>
ImgOthers == <<ConvVars, BackVars, MktVars, StaVars, TooVars, WalVars, NodVars, bookVars>>
StaOthers == <<ConvVars, BackVars, MktVars, ImgVars, TooVars, WalVars, NodVars, bookVars>>
TooOthers == <<ConvVars, BackVars, MktVars, ImgVars, StaVars, WalVars, NodVars, bookVars>>
WalOthers == <<ConvVars, BackVars, MktVars, ImgVars, StaVars, TooVars, NodVars, bookVars>>
NodOthers == <<ConvVars, BackVars, MktVars, ImgVars, StaVars, TooVars, WalVars, bookVars>>
BookOthers == <<ConvVars, BackVars, MktVars, ImgVars, StaVars, TooVars, WalVars, NodVars>>

Turns1 == Only("turns", ConvOthers) /\ TurnsNext
Backend1 == Only("backend", BackOthers) /\ BackendNext
Market1 == Only("market", MktOthers) /\ MarketNext
Pictures1 == Only("pictures", ImgOthers) /\ ImageNext
Usage1 == Only("usage", StaOthers) /\ UsageNext
Growth1 == Only("growth", StaOthers) /\ GrowthNext
Tools1 == Only("tools", TooOthers) /\ ToolsNext
Screens1 == Only("screens", WalOthers) /\ ShowNext
Scan1 == Only("scan", WalOthers) /\ ScanNext
Node1 == Only("node", NodOthers) /\ NodeNext
Peers1 == Only("peers", BookOthers) /\ BookNext

Next == \/ Turns1 \/ Backend1 \/ Market1 \/ Pictures1 \/ Usage1
        \/ Growth1 \/ Tools1 \/ Screens1 \/ Scan1 \/ Node1 \/ Peers1
Spec == Init /\ [][Next]_partsVars
===============================================================================
