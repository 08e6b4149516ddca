---------------------------- MODULE ImageBackend -----------------------------
(***************************************************************************)
(* ComfyBackend (crates/rootmode-worker/src/backends/comfyui.rs): a node's *)
(* picture and clip models on a ComfyUI whose files its operator changes,  *)
(* what the node learns of each checkpoint, and which models it offers.    *)
(*                                                                         *)
(* A checkpoint either carries its text encoder and VAE or is weights      *)
(* alone; nothing says which, so the worker runs the standard graph, reads *)
(* the error and builds the split one.  The box is what ComfyUI reports;   *)
(* how it renders a graph is Outcomes.                                     *)
(***************************************************************************)
EXTENDS Integers

CONSTANTS
    Order,          \* the names files may have, in the order ComfyUI lists them
    Made,           \* name -> [bundled, family, named, says, video]
    Longer,         \* <<long, short>>: the name `long` starts with `short`
    Alike,          \* <<a, b>>: the names share two words (best_match)
    Encoder,        \* family -> the text encoder it is built on
    Decoder,        \* family -> the VAE it decodes with
    About,          \* family -> the model and the VAE its template names, "none" where no VAE
    Boxes,          \* [up, ckpts, unets, clips, vaes, templates, saved]
    Settings,       \* the node's config: [workflow, own]
    MaxBoxMoves, MaxPictures \* bounds on the operator and on the jobs

\* A checkpoint ComfyUI lists is a file, and a file has a name.
ASSUME FilesAreNamed == \A b \in Boxes : "" \notin b.ckpts

VARIABLES
    settings,       \* config.workflow is there, the models of config.workflow_for
    box, boxMoves,  \* ComfyUI and its files
    home,           \* the checkpoint of `template`, chosen at start
    installed,
    saved,          \* the models of the operator's saved workflows
    shapes, kinds,  \* what the first run of a checkpoint taught
    unservable, shelf,
    offered,        \* what the registry announces
    picture, pictures \* the job that runs, and how many have

imageVars == <<settings, box, boxMoves, home, installed, saved, shapes, kinds,
               unservable, shelf, offered, picture, pictures>>
memory == <<shapes, kinds, unservable>>
shop == <<settings, home, installed, saved, shelf, offered>>

Checkpoints == DOMAIN Made
FirstOf(files) ==
    {Order[i] : i \in {j \in DOMAIN Order : Order[j] \in files /\ \A k \in 1..(j - 1) : Order[k] \notin files}}
StartingWith(files, name) == {f \in files : <<f, name>> \in Longer}

\* match_checkpoint, saved_for, workflow_for: the name itself, else the first
\* that starts with it.
Match(files, name) == IF name \in files THEN {name} ELSE FirstOf(StartingWith(files, name))

\* checkpoint_for; no file for an operator's own workflow.
Checkpoint(name) == IF name = "" THEN {home} ELSE Match(installed, name)

NoPicture == [at |-> "idle", asked |-> "", file |-> "", start |-> FALSE, step |-> "none",
          graph |-> <<>>, had |-> FALSE, out |-> <<>>]

-----------------------------------------------------------------------------
(* What ComfyUI does with a graph *)

Picture(weights, vae, start) == [fails |-> "no", kind |-> "", weights |-> weights, vae |-> vae, start |-> start]
Raises(why, kind) == [Picture("", "", FALSE) EXCEPT !.fails = why, !.kind = kind]
Lost == Raises("lost", "")          \* no answer, an error status, or a timeout

Standard(file, start) == [form |-> "standard", file |-> file, start |-> start]
\* minimax_h3_graph: one shape, whole.
ClipGraph(unet) == [form |-> "theirs", file |-> unet, start |-> FALSE]
\* img2img_graph, inpaint_graph: the same, begun from the client's picture.
FromPicture(file) == Standard(file, TRUE)
Theirs(model) == [form |-> "theirs", file |-> model, start |-> FALSE]
\* The graph, and what was read of the box for it.
Split(unet, kind, clips, vae, unets, templates) ==
    [form |-> "split", file |-> unet, kind |-> kind, clips |-> clips, vae |-> vae,
     unets |-> unets, templates |-> templates]

\* Any render may run out of memory or time.
Outcomes(g) ==
    LET m == Made[g.file]
        right == Encoder[m.family] IN
    {Lost, Raises("other", "")} \cup
    IF ~box.up THEN {}
    ELSE IF g.form = "theirs"
      THEN IF g.file \in box.ckpts \cup box.unets
           THEN {Picture(g.file, Decoder[m.family], FALSE)} ELSE {}
    ELSE IF g.form = "standard"
      THEN IF g.file \notin box.ckpts THEN {}
           ELSE IF m.bundled THEN {Picture(g.file, Decoder[m.family], g.start)}
           ELSE {Raises("no encoder", "")}
    ELSE IF g.file \notin box.unets \/ ~(g.clips \subseteq box.clips) \/ g.vae \notin box.vaes THEN {}
    ELSE IF g.kind # m.family THEN {IF m.says THEN Raises("other", m.family) ELSE Raises("other", "")}
    ELSE IF ~(right \subseteq g.clips) THEN {}
    ELSE {Picture(g.file, g.vae, FALSE)}

-----------------------------------------------------------------------------
(* split_for *)

\* parts: the listings, each asked for on its own; one that fails is empty.  The
\* fourth, of the families an encoder is loaded as, is `typed` below.
PartsRead ==
    IF box.up THEN [clips : {box.clips, {}}, vaes : {box.vaes, {}}, unets : {box.unets, {}}]
    ELSE {[clips |-> {}, vaes |-> {}, unets |-> {}]}

\* recipes: the listing of the templates, then each of them; one that fails is
\* skipped.
TemplatesRead == IF box.up THEN SUBSET box.templates ELSE {{}}

Twin(r, file) ==
    IF file \in r.unets THEN {file} ELSE FirstOf({u \in r.unets : <<file, u>> \in Alike})

\* clip_for: the encoder of the family, else the first there is.
AnyClip(r) == IF r.clips = {} THEN {} ELSE {CHOOSE c \in r.clips : TRUE}
ClipFor(r, kind) ==
    LET known == {c \in r.clips : kind \in DOMAIN Encoder /\ c \in Encoder[kind]} IN
    IF known # {} THEN known ELSE AnyClip(r)

\* The pair for a flux-shaped model, one encoder loaded as its family otherwise.
Pair(r) == {"t5", "clip_l"} \subseteq r.clips
Clips(r, kind) ==
    IF kind \notin {"none", "flux"} THEN ClipFor(r, kind)
    ELSE IF Pair(r) THEN {"t5", "clip_l"} ELSE AnyClip(r)
Kind(r, kind) ==
    IF kind = "none" THEN IF Pair(r) THEN "flux" ELSE "stable_diffusion" ELSE kind

\* recipe_for: the template of the encoder's family, else one about a model named
\* like the checkpoint, else the defaults.
Recipe(seen, file, family) ==
    LET near == {t \in seen : <<file, About[t].model>> \in Alike} IN
    IF family \in seen THEN {family} ELSE IF near # {} THEN near ELSE {"none"}

AnyVae(r) == IF "ae" \in r.vaes THEN {"ae"}
             ELSE IF r.vaes = {} THEN {} ELSE {CHOOSE v \in r.vaes : TRUE}

VaeSubstituted(r, recipe) ==                                     \* mutant
    IF recipe # "none" /\ About[recipe].vae \in r.vaes THEN {About[recipe].vae} ELSE AnyVae(r)

\* The VAE the recipe names, or none at all; any where it names none.
Vae(r, recipe) ==
    IF recipe = "none" \/ About[recipe].vae = "none" THEN AnyVae(r) ELSE {About[recipe].vae} \cap r.vaes

\* The graphs that may be built; none where a part is missing.
SplitFor(file, forced) ==
    UNION {LET kind == IF forced # "none" THEN forced ELSE IF typed THEN Made[file].named ELSE "none"
               family == Kind(r, kind)
               clips == Clips(r, kind) IN
           UNION {{Split(u, family, clips, v, r.unets, seen) : u \in Twin(r, file), v \in Vae(r, recipe)} :
                     recipe \in IF clips = {} THEN {} ELSE Recipe(seen, file, family)} :
              r \in PartsRead, typed \in BOOLEAN, seen \in TemplatesRead}

-----------------------------------------------------------------------------
(* The node *)

Fingerprint(r) == <<r.clips, r.vaes, r.unets>>
NothingSeen == <<>>

ClipModels == IF "minimax vae" \in box.vaes /\ "minimax" \in box.clips
              THEN {u \in box.unets : Made[u].video} ELSE {}

\* read_saved_workflows: those that can be converted and name their model.
SavedModels == box.saved

\* discover_models: their own graphs, then saved ones, clips and every
\* checkpoint that did not prove unservable.
Listed(theirs, clips, bad) ==
    IF settings.workflow THEN settings.own \cup {home}
    ELSE settings.own \cup theirs \cup clips \cup (box.ckpts \ bad)

CanList == settings.workflow \/ (box.up /\ box.ckpts # {})

ImageInit ==
    /\ settings \in Settings /\ box \in Boxes /\ boxMoves = 0
    /\ home \in IF box.up /\ box.ckpts # {} THEN FirstOf(box.ckpts) ELSE {"image"}
    /\ installed = IF box.up /\ ~settings.workflow THEN box.ckpts ELSE {}
    /\ saved = {} /\ shapes = [n \in Checkpoints |-> "unknown"] /\ kinds = [n \in Checkpoints |-> "none"]
    /\ unservable = {} /\ shelf = NothingSeen /\ offered = {}
    /\ picture = NoPicture /\ pictures = 0

\* The operator installs, removes, saves a workflow, starts or stops ComfyUI.
Operate == /\ boxMoves < MaxBoxMoves /\ boxMoves' = boxMoves + 1 /\ box' \in Boxes \ {box}
           /\ UNCHANGED <<memory, shop, picture, pictures>>

\* A refresh (and the first discovery); one that cannot list the checkpoints keeps
\* the last list, and what else it cannot read is not there.
DiscoverModels ==
    /\ CanList
    /\ \E r \in PartsRead, theirs \in {SavedModels, {}}, clips \in {ClipModels, {}} :
       LET fresh == ~settings.workflow
           bad == IF fresh /\ shelf # NothingSeen /\ shelf # Fingerprint(r) THEN {} ELSE unservable IN
       /\ installed' = IF fresh THEN box.ckpts ELSE installed
       /\ shelf' = IF fresh THEN Fingerprint(r) ELSE shelf
       /\ unservable' = bad
       /\ saved' = IF fresh THEN theirs ELSE saved
       /\ offered' = Listed(theirs, clips, bad)
    /\ UNCHANGED <<settings, box, boxMoves, home, shapes, kinds, picture, pictures>>

\* A job for a model on the list, or for none by name, waits for the GPU.
Ask ==
    /\ picture.at = "idle" /\ pictures < MaxPictures /\ pictures' = pictures + 1
    /\ \E name \in offered \cup {""}, start \in BOOLEAN :
         picture' = [NoPicture EXCEPT !.at = "queued", !.asked = name, !.start = start]
    /\ UNCHANGED <<memory, shop, box, boxMoves>>

Render(step, graph) == [picture EXCEPT !.at = "renders", !.step = step, !.graph = graph]
Refused == [picture EXCEPT !.at = "failed"]

\* graph_for and the start of render_with_shape.
StartImage ==
    /\ picture.at = "queued" /\ (picture.asked \in Checkpoints => ~Made[picture.asked].video)
    /\ LET files == IF settings.workflow THEN {} ELSE Checkpoint(picture.asked)
           own == IF picture.asked = "" THEN FirstOf(settings.own) ELSE Match(settings.own, picture.asked)
           kept == IF picture.asked = "" THEN {} ELSE Match(saved, picture.asked)
           file == CHOOSE f \in files : TRUE
           theirs == kept \cup (IF kept = {} THEN own ELSE {}) IN
       IF files = {}
       THEN \* a workflow of the operator, or a name that is not installed
            picture' = IF settings.workflow /\ ~picture.start
                   THEN Render("plain", Theirs(IF theirs # {} THEN CHOOSE t \in theirs : TRUE ELSE home))
                   ELSE Refused
       ELSE LET told == [picture EXCEPT !.file = file, !.had = picture.asked \in installed]
                graph == IF theirs # {} /\ ~picture.start THEN Theirs(CHOOSE t \in theirs : TRUE)
                         ELSE IF picture.start THEN FromPicture(file) ELSE Standard(file, FALSE) IN
            IF own # {} THEN picture' = [told EXCEPT !.at = "renders", !.step = "plain", !.graph = graph]
            ELSE IF shapes[file] = "split"
              THEN \/ picture' = [told EXCEPT !.at = "failed"]
                   \/ \E g \in SplitFor(file, kinds[file]) :
                        picture' = [told EXCEPT !.at = "renders", !.step = "plain", !.graph = g]
            ELSE picture' = [told EXCEPT !.at = "renders", !.step = "first", !.graph = graph]
    /\ UNCHANGED <<memory, shop, box, boxMoves, pictures>>

\* run_video reads the box anew.
StartClip ==
    /\ picture.at = "queued" /\ picture.asked \in Checkpoints /\ Made[picture.asked].video
    /\ \/ picture' = Refused
       \/ /\ box.up /\ picture.asked \in ClipModels
          /\ picture' = [Render("plain", ClipGraph(picture.asked)) EXCEPT !.file = picture.asked]
    /\ UNCHANGED <<memory, shop, box, boxMoves, pictures>>

Deliver(h) == [picture EXCEPT !.at = IF h.fails = "no" THEN "picture" ELSE "failed", !.out = h]

\* needs_split: the failure of an all-in-one graph over weights alone.
NeedsSplit(h) == h.fails = "no encoder"

\* The history of a render, and what is made of it.
Rendered ==
    /\ picture.at = "renders"
    /\ \E h \in Outcomes(picture.graph) :
         \/ /\ h.fails = "lost" \/ picture.step = "plain"
            /\ picture' = Deliver(h) /\ UNCHANGED <<shapes, kinds, unservable>>
         \/ /\ h.fails # "lost" /\ picture.step = "first" /\ ~NeedsSplit(h)
            /\ shapes' = [shapes EXCEPT ![picture.file] = "bundled"]
            /\ picture' = Deliver(h) /\ UNCHANGED <<kinds, unservable>>
         \/ /\ picture.step = "first" /\ NeedsSplit(h)
            /\ \/ picture' = Refused
               \/ \E g \in SplitFor(picture.file, "none") : picture' = Render("second", g)
            /\ UNCHANGED <<shapes, kinds, unservable>>
         \/ /\ picture.step = "second" /\ h.kind # ""
            /\ \/ picture' = Refused
               \/ \E g \in SplitFor(picture.file, h.kind) : picture' = Render("third", g)
            /\ UNCHANGED <<shapes, kinds, unservable>>
         \/ /\ h.fails # "lost" /\ (picture.step = "third" \/ (picture.step = "second" /\ h.kind = ""))
            /\ shapes' = IF h.fails = "no" THEN [shapes EXCEPT ![picture.file] = "split"] ELSE shapes
            /\ kinds' = IF h.fails = "no" /\ picture.step = "third"
                        THEN [kinds EXCEPT ![picture.file] = picture.graph.kind] ELSE kinds
            /\ unservable' = IF h.fails # "no" THEN unservable \cup {picture.file} ELSE unservable
            /\ picture' = Deliver(h)
    /\ UNCHANGED <<shop, box, boxMoves, pictures>>

Done == /\ picture.at \in {"picture", "failed"} /\ picture' = NoPicture
        /\ UNCHANGED <<memory, shop, box, boxMoves, pictures>>

ImageNext == Operate \/ DiscoverModels \/ Ask \/ StartImage \/ StartClip \/ Rendered \/ Done
ImageSpec == ImageInit /\ [][ImageNext]_imageVars
-----------------------------------------------------------------------------
(* Through the attempts of a job, reads that fail, the files the operator      *)
(* moves meanwhile and what earlier jobs taught: a picture of a model that was *)
(* installed when its job began is made with that model's weights, or, where   *)
(* ComfyUI lists no diffusion model of its name, with one named like it; and   *)
(* whenever the template of those weights' family was among those read, it is  *)
(* decoded with the VAE the template names (split_for, recipe_for).            *)
PictureAsAsked ==
    picture.at = "picture" /\ picture.had /\ picture.graph.form # "theirs" =>
      LET graph == picture.graph
          drawn == picture.out.weights
          family == Made[drawn].family IN
      /\ drawn # picture.asked =>
            /\ graph.form = "split" /\ picture.asked \notin graph.unets
            /\ <<picture.asked, drawn>> \in Alike
      /\ graph.form = "split" /\ family \in graph.templates /\ About[family].vae # "none" =>
            picture.out.vae = About[family].vae

(* "silently substituting weights would make the result hash a lie" (route).   *)
(* TLC finds otherwise.                                                       *)
WeightsAsAsked ==
    picture.at = "picture" /\ picture.had /\ picture.graph.form # "theirs" =>
        picture.out.weights = picture.asked

(* "A named VAE that is not installed is the difference between a correct      *)
(* picture and a plausible-looking wrong one, so it is an error rather than a  *)
(* substitution" (split_for): as the template of the weights' family says, if  *)
(* the box has one.  TLC finds otherwise.                                     *)
DecodedAsNamed ==
    picture.at = "picture" /\ boxMoves = 0 /\ picture.graph.form = "split" =>
        LET family == Made[picture.out.weights].family IN
        family \in box.templates /\ About[family].vae # "none" => picture.out.vae = About[family].vae

(* "Models this node tried and could not render": a failure for want of        *)
(* memory, a timeout, or files that are moved while a job runs never retires   *)
(* a checkpoint that the standard graph renders.                               *)
BundledStays == \A m \in unservable : ~Made[m].bundled

(* "An operator's own workflow is theirs, and second-guessing it would be      *)
(* worse than the error they get to read" (render_with_shape): a job for a     *)
(* model they saved a workflow for is rendered by it.  TLC finds otherwise.    *)
SavedRunsAsBuilt ==
    picture.at = "picture" /\ picture.asked \in saved /\ ~picture.start => picture.graph.form = "theirs"

(* "Begin here is a thing only the person asking can know" (ImageParams): a    *)
(* picture asked to start from one does.  TLC finds otherwise.                 *)
StartIsKept == picture.at = "picture" /\ picture.start => picture.out.start
=============================================================================
