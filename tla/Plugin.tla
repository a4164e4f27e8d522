------------------------------- MODULE Plugin -------------------------------
(***************************************************************************)
(* internal/plugin: plugins are directories with a manifest, a module and   *)
(* an "enabled" marker that the CLI sets and removes.  A program loads the  *)
(* enabled ones into a WASMCompressor, which runs them on blocks in a host  *)
(* with a deadline and size limits.  Loading, commands, runs and package    *)
(* changes interleave: nothing locks the directory.  The plugin's own code  *)
(* and the wazero runtime are external and may do anything the host allows. *)
(***************************************************************************)
EXTENDS Naturals, FiniteSets, Sequences, SequencesExt, Selection

CONSTANTS
    Names,          \* well-formed plugin names, numbers in lexical order
    Manifests,      \* the manifests a package may bring, readable as TOML or not
    Payloads,       \* what a plugin may write
    Blocks,         \* the selected blocks: content type and size of the envelope
    MaxTimeoutMS, MaxMemoryMB, MaxInputBytes, MaxOutputBytes,
    MaxChanges,     \* bound: the changes of packages
    MaxWrites,      \* bound: the writes of one run
    None

Capability == {"code", "diff", "json", "log", "text"}

Manifest ==
    [name : Nat, version : {"semver", "other"}, api : {"v1", "v2"},
     compress : SUBSET (Capability \cup {"image"}), deferred : BOOLEAN, timeout : Nat, memory : Nat, maxInput : Nat, maxOutput : Nat]

\* "form" is what becomes of the bytes when they are decoded: "trailing" is a result with
\* more data behind it.  "text" names the text of a result.
Payload ==
    [bytes : Nat, form : {"invalid_utf8", "undecodable", "trailing", "result"},
     action : {"keep", "replace", "annotate", "reject", "other"}, text : STRING]

ASSUME PluginAssumption ==
    /\ Names \subseteq Nat /\ Names # {}
    /\ Manifests \subseteq Manifest
    /\ Payloads \subseteq Payload
    /\ \A block \in Blocks : block.type \in Capability /\ block.size \in Nat
    /\ Blocks # {}
    /\ {MaxTimeoutMS, MaxMemoryMB, MaxInputBytes, MaxOutputBytes} \subseteq Nat \ {0}
    /\ {MaxChanges, MaxWrites} \subseteq Nat
    /\ None \notin Manifests

VARIABLES
    dir,        \* dir[p]: the directory of plugin p, if it is there
    changes,
    cmd,        \* the enable or disable command in progress
    load,       \* the ListPlugins of a LoadWASMCompressor in progress
    loaded,     \* WASMCompressor.Plugins, as the program last loaded it
    stable,     \* history: directories not touched since the load began
    run         \* a Compress or a TestPlugin, and the host's run in it

pluginVars == <<dir, changes, cmd, load, loaded, stable, run>>

Info == [dir : Names, manifest : Manifests]

Directory == [manifest : Manifests \cup {None}, wasm : BOOLEAN, enabled : BOOLEAN]

NoDirectory == [manifest |-> None, wasm |-> FALSE, enabled |-> FALSE]

IdleCmd == [pc |-> "idle", plugin |-> CHOOSE p \in Names : TRUE, enable |-> FALSE]

IdleRun == [pc |-> "idle", op |-> "compress", block |-> CHOOSE b \in Blocks : TRUE,
            info |-> None, output |-> None, writes |-> <<>>, end |-> "none", reply |-> "none"]

PluginTypeOK ==
    /\ dir \in [Names -> Directory]
    /\ changes \in 0 .. MaxChanges
    /\ cmd \in [pc : {"idle", "mark"}, plugin : Names, enable : BOOLEAN]
    /\ load \in [pc : {"idle", "list", "done", "error"}, todo : SUBSET Names, found : SUBSET Info]
    /\ loaded \in Seq(Info)
    /\ stable \subseteq Names
    /\ run.pc \in {"idle", "run", "ended", "done"}
    /\ run.op \in {"compress", "test"} /\ run.block \in Blocks
    /\ run.info \in Info \cup {None}
    /\ run.output \in Payloads \cup {None}
    /\ run.writes \in Seq(Payloads) /\ Len(run.writes) <= MaxWrites
    /\ run.end \in {"none", "returned", "error"}
    /\ run.reply \in {"none", "error", "original"} \cup {payload.text : payload \in Payloads}

-----------------------------------------------------------------------------
(* Manifests and directories.                                                *)

Within(value, max) == 1 <= value /\ value <= max

\* ValidateManifest; a file that is not TOML is a manifest that does not validate.
ValidateManifest(m) ==
    /\ m.name \in Names
    /\ m.version = "semver"
    /\ m.api = "v1"
    /\ m.compress # {} /\ m.compress \subseteq Capability
    /\ ~m.deferred
    /\ Within(m.timeout, MaxTimeoutMS) /\ Within(m.memory, MaxMemoryMB)
    /\ Within(m.maxInput, MaxInputBytes) /\ Within(m.maxOutput, MaxOutputBytes)
    /\ m.maxOutput <= m.maxInput

Installed(p) == dir[p].manifest # None

\* InspectPlugin: the manifest must be valid and name its directory.
Inspectable(p) ==
    /\ Installed(p)
    /\ ValidateManifest(dir[p].manifest)
    /\ dir[p].manifest.name = p

PluginInit ==
    /\ dir = [p \in Names |-> NoDirectory]
    /\ changes = 0
    /\ cmd = IdleCmd
    /\ load = [pc |-> "idle", todo |-> {}, found |-> {}]
    /\ loaded = <<>>
    /\ stable = {}
    /\ run = IdleRun

Touch(p) == stable' = stable \ {p}

\* A package is unpacked over a directory, with or without its module, or deleted.
Install(p, manifest, wasm) ==
    /\ changes < MaxChanges
    /\ changes' = changes + 1
    /\ dir' = [dir EXCEPT ![p].manifest = manifest, ![p].wasm = wasm]
    /\ Touch(p)
    /\ UNCHANGED <<cmd, load, loaded, run>>

Uninstall(p) ==
    /\ Installed(p)
    /\ changes < MaxChanges
    /\ changes' = changes + 1
    /\ dir' = [dir EXCEPT ![p] = NoDirectory]
    /\ Touch(p)
    /\ UNCHANGED <<cmd, load, loaded, run>>

\* cachy plugin enable and disable: SetEnabled inspects, then writes or removes the
\* marker.
SetEnabled(p, enable) ==
    /\ cmd.pc = "idle"
    /\ Inspectable(p)
    /\ cmd' = [pc |-> "mark", plugin |-> p, enable |-> enable]
    /\ UNCHANGED <<dir, changes, load, loaded, stable, run>>

\* Writing fails when the directory is gone; removing a marker that is not there does
\* not.
Mark ==
    LET p == cmd.plugin
    IN /\ cmd.pc = "mark"
       /\ cmd' = IdleCmd
       /\ dir' = IF Installed(p) THEN [dir EXCEPT ![p].enabled = cmd.enable] ELSE dir
       /\ Touch(p)
       /\ UNCHANGED <<changes, load, loaded, run>>

-----------------------------------------------------------------------------
(* LoadWASMCompressor.                                                       *)

LoadCall ==
    LET entries == {p \in Names : Installed(p)}
    IN /\ load.pc # "list"
       /\ load' = [pc |-> "list", todo |-> entries, found |-> {}]
       /\ stable' = Names
       /\ UNCHANGED <<dir, changes, cmd, loaded, run>>

NextEntry(p) ==
    /\ load.pc = "list"
    /\ p \in load.todo
    /\ \A q \in load.todo : p <= q
    /\ UNCHANGED <<dir, changes, cmd, loaded, run>>

\* Mutant: the marker is not asked for.
ListPluginAlways(p) ==
    /\ NextEntry(p)
    /\ Installed(p) => ValidateManifest(dir[p].manifest)
    /\ load' = [load EXCEPT !.todo = @ \ {p},
                    !.found = IF Installed(p)
                              THEN @ \cup {[dir |-> p, manifest |-> dir[p].manifest]}
                              ELSE @]
    /\ UNCHANGED stable

\* inspectPluginDir, and the filter on Enabled.  A directory that has gone is passed
\* over; that its manifest names the directory is not asked here.
ListPlugin(p) ==
    /\ NextEntry(p)
    /\ Installed(p) => ValidateManifest(dir[p].manifest)
    /\ load' = [load EXCEPT !.todo = @ \ {p},
                    !.found = IF Installed(p) /\ dir[p].enabled
                              THEN @ \cup {[dir |-> p, manifest |-> dir[p].manifest]}
                              ELSE @]
    /\ UNCHANGED stable

\* One invalid manifest fails the whole listing, enabled or not, and so does one deleted
\* between inspectPluginDir's Stat and LoadManifest.
ListFails(p) ==
    /\ NextEntry(p)
    /\ Installed(p) => ~ValidateManifest(dir[p].manifest)
    /\ load' = [pc |-> "error", todo |-> {}, found |-> {}]
    /\ stable' = {}

\* Sorted by the name in the manifest; sort.Slice leaves equal names in any order.
LoadDone(plugins) ==
    /\ load.pc = "list"
    /\ load.todo = {}
    /\ \A m, n \in DOMAIN plugins : m < n => plugins[m].manifest.name <= plugins[n].manifest.name
    /\ load' = [pc |-> "done", todo |-> {}, found |-> {}]
    /\ loaded' = plugins
    /\ UNCHANGED <<dir, changes, cmd, stable, run>>

-----------------------------------------------------------------------------
(* Compress, TestPlugin and the host.                                        *)

CanCompress(info, block) == block.type \in info.manifest.compress

Matching(block) == {n \in DOMAIN loaded : CanCompress(loaded[n], block)}

Begin == run.pc \in {"idle", "done"} /\ UNCHANGED <<dir, changes, cmd, load, loaded, stable>>

\* Nothing but the error is left of a run that failed.
Failed == [IdleRun EXCEPT !.pc = "done", !.reply = "error"]

\* The original text is proposed.
Kept == [IdleRun EXCEPT !.pc = "done", !.reply = "original"]

\* RunWASM is entered unless the module cannot be read or the envelope is too large.
Enter(op, block, info) ==
    run' = IF dir[info.dir].wasm /\ block.size <= info.manifest.maxInput
           THEN [IdleRun EXCEPT !.pc = "run", !.op = op, !.block = block, !.info = info]
           ELSE Failed

\* Compress asks the first plugin that can, and no other.
Compress(block) ==
    /\ Begin
    /\ Matching(block) # {}
    /\ Enter("compress", block, loaded[Min(Matching(block))])

CompressNothing(block) ==
    /\ Begin
    /\ Matching(block) = {}
    /\ run' = Kept

\* cachy plugin test: whatever the block's type.
TestPlugin(p, block) ==
    /\ Begin
    /\ Inspectable(p)
    /\ dir[p].enabled
    /\ Enter("test", block, [dir |-> p, manifest |-> dir[p].manifest])

Running == run.pc = "run" /\ UNCHANGED <<dir, changes, cmd, load, loaded, stable>>

\* output_write: a payload over the limit is refused, and what was written before stays.
OutputWrite(payload) ==
    /\ Running
    /\ Len(run.writes) < MaxWrites
    /\ run' = [run EXCEPT !.writes = Append(@, payload),
                          !.output = IF payload.bytes > run.info.manifest.maxOutput THEN @
                                     ELSE payload]

\* The call of the run function ends; the buffer is as the last write left it.
CallEnds(end) == run' = [run EXCEPT !.pc = "ended", !.end = end]

\* The run function comes to its end.
PluginReturns ==
    /\ Running
    /\ CallEnds("returned")

\* It does not instantiate, exports no run function, or traps.
PluginFails ==
    /\ Running
    /\ CallEnds("error")

\* Mutant: the deadline is only noticed in calls of the host.
DeadlineAtHostCall ==
    /\ Running
    /\ run.writes # <<>>
    /\ CallEnds("error")

\* The deadline closes the module, wherever it is.
Deadline ==
    /\ Running
    /\ CallEnds("error")

\* What RunWASM accepts.  The decoder stops behind the first value.
Acceptable(output) ==
    /\ output # None
    /\ output.bytes # 0 /\ output.bytes <= run.info.manifest.maxOutput
    /\ output.form \in {"trailing", "result"}
    /\ output.action # "other"

\* The checks of the output, and what Compress makes of the result: any action but
\* "replace" is the original text.  TestPlugin shows the result as it is.
Decoded ==
    IF ~Acceptable(run.output) THEN Failed
    ELSE IF run.op = "test" \/ run.output.action = "replace"
    THEN [run EXCEPT !.pc = "done", !.reply = run.output.text]
    ELSE Kept

HostGoesOn == run.pc = "ended" /\ UNCHANGED <<dir, changes, cmd, load, loaded, stable>>

\* Mutant: whatever was written is handed on.
CheckOutputRaw ==
    /\ HostGoesOn
    /\ run' = [run EXCEPT !.pc = "done", !.reply = IF run.output = None THEN "no output"
                                                   ELSE run.output.text]

\* Mutant: the error of the call is not looked at.
CheckOutputLate ==
    /\ HostGoesOn
    /\ run' = Decoded

\* A run that ended with an error leaves no output, whatever it had written.
CheckOutput ==
    /\ HostGoesOn
    /\ run' = IF run.end = "returned" THEN Decoded ELSE Failed

PluginNext ==
    \/ \E p \in Names, m \in Manifests, wasm \in BOOLEAN : Install(p, m, wasm)
    \/ \E p \in Names : Uninstall(p)
    \/ \E p \in Names, enable \in BOOLEAN : SetEnabled(p, enable)
    \/ Mark
    \/ LoadCall
    \/ \E p \in Names : ListPlugin(p) \/ ListFails(p)
    \/ \E plugins \in SetToSeqs(load.found) : LoadDone(plugins)
    \/ \E block \in Blocks : Compress(block) \/ CompressNothing(block)
    \/ \E p \in Names, block \in Blocks : TestPlugin(p, block)
    \/ \E payload \in Payloads : OutputWrite(payload)
    \/ PluginReturns
    \/ PluginFails
    \/ Deadline
    \/ CheckOutput

PluginSpec == PluginInit /\ [][PluginNext]_pluginVars

\* The deadline's timer fires and the host goes on; a plugin owes nothing.
FairSpec == PluginSpec /\ WF_pluginVars(Deadline) /\ WF_pluginVars(CheckOutput)

-----------------------------------------------------------------------------
(* Properties.                                                               *)

\* A plugin's text is taken only from a run that returned in time, of a plugin that can
\* handle the block, and it is that of the last write within the manifest's limit: a
\* result, meant as a replacement; not an earlier one, and nothing of a run that trapped
\* or met the deadline (host.go, RunWASM; wasm_compressor.go, Compress).  A result with
\* data behind it counts: docs/wasm-plugin-architecture.md asks for output that is
\* "valid JSON", but RunWASM decodes the first value only.
AnswerHonest ==
    LET fitting == {n \in DOMAIN run.writes :
                        run.writes[n].bytes <= run.info.manifest.maxOutput}
        last == run.writes[Max(fitting)]
    IN run.reply \notin {"none", "error", "original"} =>
         /\ run.end = "returned"
         /\ fitting # {}
         /\ last.text = run.reply /\ last.form \in {"trailing", "result"}
         /\ run.op = "compress" => last.action = "replace" /\ CanCompress(run.info, run.block)

\* The list a compressor works with is right about every plugin that was left alone
\* since the load began: it has the enabled ones, once and as they are, and no other,
\* whatever was installed, enabled or deleted around them meanwhile (lifecycle.go,
\* ListPlugins; wasm_compressor.go, LoadWASMCompressor).
LoadComplete ==
    load.pc = "done" =>
        \A p \in stable :
            LET mine == Only(loaded, {info \in Info : info.dir = p})
            IN mine = IF dir[p].enabled THEN <<[dir |-> p, manifest |-> dir[p].manifest]>>
                      ELSE <<>>

\* Every run ends, also of a plugin that loops forever without calling the host
\* (host.go, WithCloseOnContextDone).
RunsEnd == run.pc = "run" ~> run.pc = "done"
=============================================================================
