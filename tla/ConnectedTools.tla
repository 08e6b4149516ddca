--------------------------- MODULE ConnectedTools ---------------------------
(***************************************************************************)
(* The desktop's one-click connectors (connected_tools.rs): a coding tool  *)
(* is pointed at the local endpoint by patching its own config file, and   *)
(* disconnected by taking the patch out again, while the person and the    *)
(* tool edit the same file and the endpoint's token is rotated.  A file    *)
(* is the settings found in it; one tool per behaviour, for the tools'     *)
(* files have nothing in common.                                           *)
(***************************************************************************)
EXTENDS Integers, Sequences, Functions

CONSTANTS Tools,        \* TOOLS
          MaxEdited,    \* operations and edits
          MaxTokensIssued \* gateway tokens issued

VARIABLES
    tool,       \* the tool of this behaviour
    files,      \* files[f]: [there, whole, keys], f among FilesOf(tool)
    backups,    \* backups[f]: the .rootmode-bak copies, in the same form
    connected,  \* the setting connected_tool_<key>
    token,      \* gateway_token, as the number of times it was issued
    edited,
    did         \* what the last step was

toolsVars == <<tool, files, backups, connected, token, edited, did>>

Person == [by |-> "person", token |-> 0]
Ours == [by |-> "us", token |-> token]
Nothing == [k \in {} |-> Person]
Absent == [there |-> FALSE, whole |-> TRUE, keys |-> Nothing]

\* config_path, pi_settings_path, shell_rc_path: the files a connect writes, in order.
\* The rc file is one: SHELL and the presence of .zshrc, which name it anew at each
\* call, stay as they are.
FilesOf(t) ==
    CASE t = "pi" -> <<"config", "settings">>
      [] t = "codex" -> <<"config", "rc">>
      [] OTHER -> <<"config">>
Files == Range(FilesOf(tool))

\* The settings each connect_<tool> writes; JSON's nested ones by their path.
Codex == {"model_provider", "model", "[model_providers.rootmode]"}
ClaudeCode == {"ANTHROPIC_BASE_URL", "ANTHROPIC_AUTH_TOKEN", "ANTHROPIC_MODEL"}
OpenCode == {"provider.rootmode", "model"}
PiModels == {"provider.rootmode"}
PiSettings == {"provider", "model"}
Crush == {"provider.rootmode"}
Goose == {"GOOSE_PROVIDER", "GOOSE_MODEL", "OPENAI_HOST", "OPENAI_API_KEY"}
Zed == {"provider.rootmode"}
ShellRc == {"ROOTMODE_GATEWAY_TOKEN"}   \* the guarded block, replaced whole

Sets(t, f) ==
    IF f = "settings" THEN PiSettings ELSE IF f = "rc" THEN ShellRc ELSE
    CASE t = "codex" -> Codex
      [] t = "claude-code" -> ClaudeCode
      [] t = "opencode" -> OpenCode
      [] t = "pi" -> PiModels
      [] t = "crush" -> Crush
      [] t = "goose" -> Goose
      [] t = "zed" -> Zed

\* Codex's and goose's files are edited line by line, the others parsed as JSON
\* and, when that fails, taken for empty (read_json_lenient).
ByLine(t, f) == t \in {"codex", "goose"} \/ f = "rc"
Read(f) == IF files[f].there /\ (files[f].whole \/ ByLine(tool, f))
           THEN files[f].keys ELSE Nothing

\* What each disconnect_<tool> takes out of what it read: the list its connect
\* put in, save that Codex keeps the model and two look at whose value it is.
IsOurs(k, keys) == k \in DOMAIN keys /\ keys[k].by = "us"
OpenCodeDrops(keys) == {"provider.rootmode"} \cup {k \in {"model"} : IsOurs(k, keys)}
CodexDrops == {"model_provider", "[model_providers.rootmode]"}
PiDrops(keys) == IF IsOurs("provider", keys) THEN {"provider", "model"} ELSE {}

TakesOut(t, f, keys) ==
    IF f = "settings" THEN PiDrops(keys)
    ELSE IF t = "codex" /\ f = "config" THEN CodexDrops
    ELSE IF t = "opencode" THEN OpenCodeDrops(keys)
    ELSE Sets(t, f)

Patched(f) == LET keys == Read(f)
              IN  [k \in DOMAIN keys \cup Sets(tool, f) |->
                       IF k \in Sets(tool, f) THEN Ours ELSE keys[k]]
UnpatchedByList(f) == \* mutant: every connect's list, whatever the tool removes
    Restrict(Read(f), DOMAIN Read(f) \ {"provider.rootmode", "provider", "model"})
Unpatched(f) == Restrict(Read(f), DOMAIN Read(f) \ TakesOut(tool, f, Read(f)))

\* write_text: the first write over an existing file keeps a copy of it.
Written(f, keys) == [there |-> TRUE, whole |-> TRUE, keys |-> keys]
Backup(f) == IF files[f].there /\ ~backups[f].there THEN files[f] ELSE backups[f]

\* The files of a connect or disconnect are written one after another; a write
\* that fails ends it with an error, what was written before it stays.
WriteText(fs, new) ==
    /\ files' = [f \in Files |-> IF f \in fs THEN Written(f, new[f]) ELSE files[f]]
    /\ backups' = [f \in Files |-> IF f \in fs THEN Backup(f) ELSE backups[f]]

FirstFiles == {{FilesOf(tool)[i] : i \in 1..n} : n \in 0..(Len(FilesOf(tool)) - 1)}

Operation == edited < MaxEdited /\ edited' = edited + 1 /\ UNCHANGED tool

Connect ==
    /\ Operation /\ UNCHANGED token
    /\ \/ WriteText(Files, [f \in Files |-> Patched(f)]) /\ connected' = TRUE /\ did' = "connect"
       \/ \E fs \in FirstFiles :
              WriteText(fs, [f \in fs |-> Patched(f)]) /\ UNCHANGED connected /\ did' = "error"

\* Goose's and Codex's missing files are left missing, as is a missing rc file.
Touched == {f \in Files : files[f].there \/ ~ByLine(tool, f)}
Disconnect ==
    /\ Operation /\ UNCHANGED token
    /\ \/ WriteText(Touched, [f \in Touched |-> Unpatched(f)]) /\ connected' = FALSE /\ did' = "disconnect"
       \/ \E fs \in FirstFiles :
              WriteText(fs \cap Touched, [f \in fs \cap Touched |-> Unpatched(f)]) /\ UNCHANGED connected /\ did' = "error"

\* "Invalidate the old token": the tools' files are not among what is changed.
RotateToken ==
    /\ Operation /\ token < MaxTokensIssued
    /\ token' = token + 1 /\ did' = "person"
    /\ UNCHANGED <<files, backups, connected>>

\* The person, or the tool itself: a setting of their own, one of ours changed
\* or removed, a slip that leaves the file unreadable, a deleted file.
Edited(f) ==
    LET F == files[f]
        Put(k) == [j \in DOMAIN F.keys \cup {k} |-> IF j = k THEN Person ELSE F.keys[j]]
    IN  {[F EXCEPT !.there = TRUE, !.keys = Put(k)] : k \in Sets(tool, f) \cup {"other"}}
        \cup {[F EXCEPT !.keys = Restrict(@, DOMAIN @ \ {k})] : k \in DOMAIN F.keys}
        \cup (IF F.there THEN {[F EXCEPT !.whole = ~@], Absent} ELSE {})
PersonEdits(f) ==
    /\ Operation
    /\ \E new \in Edited(f) : files' = [files EXCEPT ![f] = new]
    /\ did' = "person"
    /\ UNCHANGED <<backups, connected, token>>

ToolsInit ==
    /\ tool \in Tools
    /\ files \in [Range(FilesOf(tool)) ->
           {Absent, [there |-> TRUE, whole |-> TRUE, keys |-> [k \in {"other"} |-> Person]]}]
    /\ backups = [f \in Range(FilesOf(tool)) |-> Absent]
    /\ connected = FALSE /\ token = 1 /\ edited = 0 /\ did = "person"

ToolsNext == Connect \/ Disconnect \/ RotateToken \/ \E f \in Files : PersonEdits(f)
ToolsSpec == ToolsInit /\ [][ToolsNext]_toolsVars

(****************************** properties *********************************)
ByUs(keys) == {k \in DOMAIN keys : keys[k].by = "us"}

\* However the connects, half-done connects, edits and token changes before it
\* went, a disconnect that succeeds leaves nothing of ours in any file of the tool
\* but Codex's model line and the model of a pi pointed elsewhere, and leaves every
\* setting outside our own lists as it was in a file that could be read.
DisconnectUndoes ==
    [][did' = "disconnect" /\ edited' # edited =>
        \A f \in Files :
            /\ ByUs(files'[f].keys) \subseteq
                   (IF tool = "codex" \/ f = "settings" THEN {"model"} ELSE {})
            /\ (files[f].whole \/ ByLine(tool, f)) =>
                   \A k \in DOMAIN files[f].keys \ Sets(tool, f) :
                       k \in DOMAIN files'[f].keys /\ files'[f].keys[k] = files[f].keys[k]]_toolsVars

\* Module comment :10-11 and commands.rs:572: disconnecting "removes just what we
\* added".  TLC refutes it: settings of the person's go too, ours stay in two tools.
RemovesJustIts ==
    [][did' = "disconnect" /\ edited' # edited =>
        \A f \in Files : DOMAIN files'[f].keys = DOMAIN files[f].keys \ ByUs(files[f].keys)]_toolsVars

\* Module comment :15-17: a copy is kept "the first time a file is touched".  TLC
\* refutes it: a file that connect creates is first copied at the second write.
BackupIsTheirs == \A f \in Files : backups[f].there => ByUs(backups[f].keys) = {}

\* A tool shown as connected holds the token in force: rotating it makes it stale.
HoldsTheToken ==
    connected => \A f \in Files : \A k \in ByUs(files[f].keys) : files[f].keys[k].token = token
=============================================================================
