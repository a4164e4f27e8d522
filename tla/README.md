# A verification of Cachy

Cachy is a local companion for LLM agents: a Go binary that proxies provider
traffic, a content-addressed store for originals that compression replaces (CCR),
a cache-safe compression library with WASM plugins, commands that point agents at
the proxy, and an Electron application that supervises the proxy. This directory
holds TLA+ models of its stateful parts, the TLC runs that check them on small
instances, and TLAPS proofs of the results that matter most for every instance.

`PROJECT.json` ties definitions to source lines (`map`), lists the runs, the
mutants that show each property can fail, the hazards and the findings.

## 1. The system

| Component | State | Operations | Talks to | What is hard |
|---|---|---|---|---|
| CCR object store (`internal/ccr/store.go`, `retention.go`) | a directory of objects named by SHA-256, temporary files | `Put`, `Get`, `Diagnostics`, `Cleanup` | the file system, shared by any number of processes, no lock | writers racing each other and a Cleanup; crashes between the temporary file and the rename; short writes; a directory that changes during the walk |
| Transparent proxy (`internal/proxy`) | per request: the handler's progress; per server: none | `transparentProxy` | client, upstream, telemetry | an upstream that breaks off or stays silent; a client that leaves; event streams |
| Telemetry (`internal/observability`) | a slice of records under a mutex | `Record`, `Cleanup`, `Snapshot` | called by every handler | completion order against start order; retention by count and by age |
| Desktop supervisor (`desktop/electron/supervisor.ts`) | `process`, `state` | `start`, `stop`, `restart`, `status`, exit and error events | the operating system, the renderer | awaits between check and spawn; late events of dead children; a child that cannot be killed; the listen address |
| Live-zone detection (`internal/compress/livezone.go`) | none | `DetectLiveZones` | pipeline | two providers' nesting; what may be touched without breaking the prompt cache |
| Compression pipeline (`internal/compress/pipeline.go`, `internal/tokens`) | the result under construction | `Apply` | compressors, counters, both untrusted | order of failures and proposals; accounting |
| Native compressors (`internal/compress/native_*.go`) | none | `Compress` | pipeline | loss that is not announced |
| Claude integration (`internal/install/claude.go`) | the user's `settings.json` | install, repair, uninstall, dry run | the user's editor | telling Cachy's settings from the user's after any history; torn writes |
| Codex integration (`internal/install/codex.go`) | a marked block in the user's `config.toml` | the same | the user's editor | the same, in a line-oriented file |
| WASM plugins (`internal/plugin`) | plugin directories, enabled markers, a loaded list | list, inspect, enable, disable, test, `RunWASM`, `Compress` | pipeline, wazero | stale lists, deadlines, limits |
| Admin API (`internal/admin`) | runtime configuration under a read-write lock | GET and PUT config, status, metrics, diagnostics | telemetry, the desktop, other clients | concurrent PUTs; answers that report a change they did not make; writers and readers that starve |
| Desktop window (`desktop/src`, `desktop/electron/main.ts`, `adminClient.ts`) | the dashboard's picture, the provider panel's field, calls in flight | open, Start and Stop button, type, Save | supervisor by IPC, admin API by HTTP | calls that overlap, fail or come back in another order; a picture that is out of date |
| CCR markers (`internal/ccr/marker.go`) | none | `RenderMarker`, `ParseMarker` | the store | texts that were changed and still pass validation |
| Doctor (`internal/doctor`) | none | checks of the integrations, the listen address and more | the user's files, the proxy's port | reading files that are being rewritten; advice that does not help; the port it probes |
| CLI, platform paths, recipes, release tooling, `pkg/` | none of their own | | | text and I/O |

What makes the parts correct, in one line each:

* **CCR**: an acknowledged original is found, whole, until retention removes it; no
  call leaves litter; retention does what its policy says.
* **Proxy and telemetry**: one truthful record per request, on every path; metrics that
  are true of the requests; events pass at once; nobody waits for a client that left.
* **Admin API and provider panel**: requests take effect one by one; what the panel
  calls saved is; every request settles.
* **Markers**: a marker leads to its original or to an error, never elsewhere.
* **Doctor**: it is right whenever it is run, and its advice helps.
* **Supervisor and window**: the state is true; no proxy runs unsupervised, but for one
  that could not be killed or was left behind when the application quit; every click is
  answered.
* **Compression**: only tool output is ever touched or shown; only savings are
  applied; the statistics add up; what the native compressors leave out they announce.
* **Plugins**: the loaded list is what was enabled; only a result that is complete, in
  time and within its limits is used; every run ends.
* **Integrations**: the user's settings survive every sequence of commands, and
  uninstall is the inverse of install.

## 2. The modules

```
CCRContract <--refines-- CCRStore <-- CCRMarkers <-- MCCCRStore   CCRStoreProofs
Selection <-- Telemetry;  Telemetry, Metrics <-- Proxy <-- MCProxy   ProxyProofs
Metrics <-- AdminRequests;  Telemetry, AdminRequests <-- Admin <-- Panels <-- MCPanels   PanelsProofs
AdminRequests <-- AdminContract <--refines-- Panels
Supervisor <-- Desktop <-- MCDesktop                    DesktopProofs
Selection <-- LiveZone <-- NativeCompressors <-- Compression <-- MCCompression   CompressionProofs
Selection <-- Plugin <-- MCPlugin                        CompressionProofs
ClaudeIntegration <-- MCClaudeIntegration               ClaudeIntegrationProofs
Selection <-- CodexIntegration <-- MCCodexIntegration   CodexIntegrationProofs
Selection                                               LoopProofs
```

(an arrow `A <-- B`: B extends A; a proof module extends the module in its row that
stands before the MC module. `CompressionProofs` extends two, `Compression` and `Plugin`:
a `WASMCompressor` is one of a pipeline's compressors. So that they can stand in one
module, `Plugin` calls its specification `PluginSpec`, and likewise `PluginInit`,
`PluginNext`, `PluginTypeOK` and `pluginVars`. `LoopProofs` holds what several of them
need.)

### CCRStore and CCRContract

`file` is the objects directory: a function from paths (one per original, plus a
set of temporary names) to what is there: the original, how many of its bytes, the
modification time. `put[p]` and `scan[k]` are the calls in progress of any number
of processes; `pc` is the system call they are at. Every system call of `Put` is an
action: Stat hit or miss, MkdirAll and CreateTemp, Write with Chmod and Close, a
short write, Rename, Rename refused because the target exists, the deferred Remove
and its failure, and a crash at any point, after which deferred functions do not
run. A walk reads the directory once and then visits its entries in WalkDir's order;
an entry that has vanished ends the walk with `ErrNotExist`, which the code turns
into an empty result. `Cleanup` and `Diagnostics` follow it. `Get` reads one file
and is a state function. `Damage` stands for whatever changes an object from
outside. Content hashes are taken to be collision free: an object's path *is* its
original.

`CCRContract` is the promise without the mechanism: `Store`, `Acknowledge`,
`Evict`, `Damage` on a set of originals. `ImplementsContract` maps `held` to the
objects that exist and `bad` to those for which `Get` reports corruption.

### CCRMarkers

A text is the record of its fields: whether it is framed, its version, its address
(algorithm, whose hash in which spelling, size) and how the size is written. A hash in
upper case passes validation and then names another path, or the same one on a file
system that folds case (`FoldsCase`); in both cases `Get` does not return the object,
because the address it computes from the content is in lower case. `Retrieve` is
`ParseMarker` followed by `Get` in the current state of the store, so that
`MarkersHonest` is checked at every moment of every race. The longest marker of a valid
address is shorter than `MaxMarkerLength`, so that check is left out; so is
`CanEmitMarker`, which nothing calls.

### Selection

`Only(s, wanted)` is the loop that appends the wanted items of a list to a new one, as
`applyRetentionPolicy` has it; it is a module of its own so that what it computes is
proved once.

### Telemetry and Proxy

`req[r]` is the goroutine of one request, `up[r]` the upstream's side and
`client[r]` what the client has seen; net/http's buffering and framing are external
and modelled from how the handler uses them: a response with a Content-Length that
comes out short is broken for the client, a chunked one is terminated normally when
the handler returns. Telemetry's operations hold the mutex from start to end, so
each is one step of the handler that calls it. The program never calls
`MemoryTelemetryStore.Cleanup` itself; `Prune` lets any caller do so. Header
filtering, path joining and logging are left out. `http.DefaultClient` follows
redirects; a redirect is part of "the upstream responds". `Metrics` is what the admin
API computes from a snapshot of the records; `MetricsHonest` compares it with the
requests themselves.

### Admin, its contract and Panels

`Admin` is the server. `call[k]` is a request and where its handler is; `rw` is the
`sync.RWMutex`, modelled from how Go implements it: writers are serialised, an announced
writer waits for the readers inside and keeps new ones out, and its `Unlock` lets in the
readers that wait. A read finds `Torn` if it happens during an assignment, which is what
a data race would mean. `handlePutConfig` assigns, computes its answer and unlocks in
three steps. `handleStatus` and `handleGetConfig` write their answer under the lock; it
is small, so net/http sends it after the handler has returned. The telemetry store has
a lock of its own, and each of its operations is one step. `AdminRequests` has what
needs no state: which requests are refused and with which status, and what the others
answer. Of the answers only the target and the numbers are kept; the rest never changes.

`AdminContract` is the promise: each request reads or changes the target and the
telemetry at one instant, as if requests came one by one. `ImplementsContract` lets a PUT
take effect with its assignment.

`Panels` is the server with its clients. The provider panel's field is set by typing, by
the answer to the load and by the answer to a save; `message` is whether the line below it
says that the target is saved. Requests and answers travel on connections of their own:
any order, and `fetch` may fail before the request arrives or after it was handled. It
sets no timeout and talks to the loopback interface, so it does not give up while a
handler runs. `odd` is a text that is a URL for `new URL()` and not for `url.Parse`, such
as `http:host`. `alone` records that no other PUT was under way since the last save
began; without it the field and the target may differ, since nothing tells the panel.

### Supervisor and Desktop

JavaScript runs to the next `await`: each action is what happens between two. A
child's life is what the operating system sees, so `exit` and `error` events are
late by any number of steps; `kill()` only sends a signal. `port` is the listen
address, which a dying child still holds, and which `cachy doctor` takes for a moment
to see whether it is free. `checks` says whether the constructor
was given a version check; `main.ts` gives none, and `NoOrphan` is about that
configuration (with a version check, two calls suspended in it both spawn: hazard
at `supervisor.ts:122`). When `kill()` returns false or Node reports an error of a child,
the child is kept and the state is "error", although it may be alive; the guard of the
next `start()` asks for "running", so a second child is spawned over it. `lost` is the
history of such children, and of those alive when the application quits; `NoOrphan` is
about all others, and section 5 says what the code does with these. Children are spawned in
one order, since nothing tells one that is not yet born from another.

`Desktop` puts the window before it. `view` is the kind of the dashboard's state,
`ask[k]` an IPC message on its way to the main process, `reply[k]` the runtime status
on its way back, with the state as it was before the admin API was asked. The button
is disabled while the dashboard is loading. A call of the window occupies a slot, one
of the supervisor's callers; with two slots a second click, were it possible, would be
a second call. Other callers stand for code of the main process that calls
the supervisor, among it `restart()`, which no IPC handler offers; `alone` records
that there was none. Of an error message only matters whether it speaks of a
permission, which the dashboard shows in place of the state. Closing the window quits the
application (`main.ts:102`): the supervisor and what was in flight are gone, the child runs
on, and a launch begins with a new supervisor that knows of no child. Section 6 has what
is left out of this.

### LiveZone, NativeCompressors and Compression

`LiveZone` has both providers' detection as operators on decoded requests (`AnyRequest`);
a text is a sequence of lines, of which the classification only needs some. `NativeCompressors`
has the five compressors of the package as operators on such texts. Paragraphs are cut
at empty lines as `strings.Split` cuts them, leftovers of longer gaps included; the
lines that announce an omission keep their counts: `Repeated[n]` and `Omitted[n]` are
constants, one line for each number, and no line of a request is one of `Repeated` (see
section 5 for a text that already has such a line). Apart from them stand two
definitions of what the announcements mean: a reader who puts the repeated items back,
and a count of the context lines behind each line of a diff. `Compression`
runs `Apply` block by block and compressor by compressor; what a compressor or an
exact counter returns is a free choice, the native compressors' results among the
choices, so the results hold for native compressors and plugins alike. Blocks of OpenAI messages are numbered by the parts that have
text (`livezone.go:93`), so their paths do not name the part in the request when
another part without text stands before it; `PathLeadsToText` is stated for
Anthropic requests, where the numbering is the request's.

### Plugin

`dir[p]` is a plugin's directory: its manifest, whether its module is there, and the
`enabled` marker. Packages come and go (external). `cachy plugin enable` and `disable`
inspect and then write or remove the marker, two steps. Loading lists the directories
and then inspects them one by one in the order of their names; one invalid manifest
fails the load. `Compress` takes the first loaded plugin that can handle the block and
enters the host, which reads the module as it now is, with the limits of the manifest
as it was loaded. A plugin in the host may write any number of results within the
bound, return, trap or loop; a write over the limit is refused and leaves what was
written before. How the call of the run function ended, by a return or with an error, is
kept in `run.end`, with the buffer as it then is; a step of its own (`CheckOutput`) looks at
that end, and at the output only when the plugin returned. An output is known by what
becomes of its bytes: not UTF-8, not decodable, a result, or a result with more data behind
it ("trailing"), which `RunWASM` takes for the result. `AnswerHonest` requires the return, and
admits trailing data openly, since the code does (section 5). A plugin disabled after the
load goes on being used, which no property forbids.

### ClaudeIntegration and CodexIntegration

A command reads the file, plans, truncates and writes; each is a step. The user may
edit before, after and in between, and the command may be killed. Claude's settings
are the four things the planner tells apart; Codex's file is a sequence of lines.
A torn write of Codex's file ends between two lines or inside one; what is there of a line
is then a setting or a comment to every command, also when it was to be a marker
(`CrashTorn`). Two commands at the same time are not modelled: the file is not locked, and the
second write wins as a whole. The doctor's checks are operators on the file, evaluated in
every state: an absent, an empty and an incomplete Claude file are all a warning.

## 3. The runs

| Run | Instance | Shows |
|---|---|---|
| `ccr_writers` | one original, two writers, one cleaner, two temporary names, crashes, errors, damage | `GetHonest`, `NoLeakedTemp`, `MarkersHonest`, `ImplementsContract` |
| `ccr_retention` | two originals of sizes 1 and 2, one writer, one cleaner, two policies, clock 0..2 | `RetentionExact` (`WalkComplete`, `PolicyObeyed`), `CallsReturn` |
| `ccr_policy_race` | violation | Cleanup reports success having done nothing |
| `proxy` | two requests, an event stream and a framed failure, clock 1..3, limit of one record | `RecordedOnce`, `TelemetryHonest` (`TruncationRecorded`, `MetricsHonest`), `StreamsPromptly`, `RetentionKeepsLatest`, `CancelReleases` |
| `proxy_truncation` | violation | a truncated body looks complete |
| `desktop` | a window with two slots, one other caller, three children, with and without version check | `StateTruthful`, `NoOrphan`, `AloneNoOrphan`, `RunningIsHonest`, `ClickAnswered` |
| `compression` | OpenAI and Anthropic requests of two messages, tool output of up to five lines, zero to two compressors | `HotZonesSafe`, `FirstSavingWins`, `StatsAccount`, `DetectionExact` (`AllTextSeen`, `PathLeadsToText`), `OmissionsAnnounced` (`RepetitionsAnnounced`, `DiffContextCounted`) |
| `claude` | two URLs of the user's, two of the proxy's, two edits | `ManagedURLRecorded`, `UserSettingsSurvive`, `DoctorTruthful`, `UninstallReverses` |
| `codex` | every file of up to two lines, two edits, two URLs | `OneBlock`, `UserLinesSurvive`, `DoctorTruthful`, `CommandsExact` (`UninstallReverses`, `InstallSettles`) |
| `codex_tables` | violation | `model_provider` lands in the user's table |
| `admin` | a window with two requests at a time, another client that reads, writes and is refused, a telemetry record that comes and goes | `SavedHolds`, `ImplementsContract`, `CallsSettle` |
| `plugin` | two directories, three packages, two package changes, two writes per run | `AnswerHonest`, `LoadComplete`, `RunsEnd` |

`proxy`, `compression`, `codex`, `admin` and `plugin` also check their module's `TypeOK`
(`PluginTypeOK` in `Plugin`);
for `CCRStore`, `Supervisor`, `Desktop` and `ClaudeIntegration` it is proved, as a theorem or
as a conjunct of the inductive invariant.

**Bounds.** Two writers are enough for every race on one object: they interact
through its path only, and each pair of racing steps is a pair of writers. Two sizes
make it matter which object is removed; three instants make one object expire while
a younger one does not. Two proxied requests complete in either order, and a limit
of one record makes the order visible. Three children let a restart happen while
the exit of the last but one is still under way; two slots let the window's calls
overlap if anything but the button kept them apart. The application may quit and be launched
again at any time and any number of times. Tool output of five lines has runs
of every length at either end and in the middle, and the five lines of `Repeated` and of
`Omitted` announce every number of omissions such an output can have. Two package changes are one before and
one during a load, an enable command or a run; two writes are an accepted and a refused
one in either order. Two compressors give every order of
failure, no saving and saving. Two URLs of the proxy are a repair with a changed
address. Three requests are two writers and a reader, or a writer between two readers; two
of them are the window's, so that a load and a save, or two saves, overlap. Two edits are one before and one during or after a command; a write torn inside a line counts
as one, since it leaves a line more. Where a result
is proved (section 4) the bound does not matter.

**Symmetry** is used in `ccr_writers` for writers and temporary names, which the
specification never tells apart; the run has no liveness property.

**Fairness.** `CCRStore`: weak fairness of each call in progress; the callers, the
clock, crashes and errors owe nothing. `Proxy`: the Go scheduler runs a handler that
can run, and a cancelled context fails a pending `Do` or `Read`; the upstream owes
nothing, since the code sets no timeout. `Desktop`: Node delivers the events of a child
that is dead or was never born, but owes no error of one that lives; a child that was started binds or exits, and a signalled child dies; the event loop takes
IPC messages and settled promises, and the version check and the request to the admin
API settle, by an error if not otherwise; the user owes nothing, neither a click nor a launch. `Panels`: the scheduler runs a handler that can run;
a `sync.Mutex` does not let a waiter starve (its starvation mode hands the lock to the
longest waiter), which is strong fairness of `Lock`, since other writers may come
between; the event loop runs what has settled; the other client, the user and the network
owe nothing. `Plugin`: the timer of
the run's deadline fires, and the host goes on after a run that ended; a plugin owes
nothing, not even to return.

**Deadlock** is checked except in `proxy`, `desktop` and `compression`, whose
instances end: all requests served, all children used, the result returned.

## 4. The proofs

Every theorem holds for all values of the constants that the `ASSUME`s of the modules
allow: any number of calls, requests, lines, objects or instants. Each safety invariant
rests on an inductive one that TLC checked on instances of section 3, or smaller ones, before it was
proved.

* **LoopProofs** has what the loops of the code compute. The provers cannot instantiate
  the library's induction theorems, whose hypothesis is an operator; but the set of
  counterexamples of a claim about numbers is a set, which has a least element
  (`LeastNumber`, from the well-foundedness of `<`). So `Induction` is a lemma about
  sets of numbers, and recursive functions can be reasoned about. From it follow: the
  items `Only` keeps are the wanted ones, all of them and in their order
  (`OnlyPlaces`), and it distributes over concatenation (`OnlyConcat`); a sum over a
  finite set is defined (`SumExists`), does not depend on the order (`SumTake`), is no
  more than the sum over a larger set (`SumFewer`) or than the bound of its items allows
  (`SumBound`), changes with one of its items (`SumChange`), and counting by kinds and
  adding up is counting (`SumKinds`); the items of a flattened sequence are items of
  its parts (`FlattenPlaces`), and a loop that flattens appends one part at each turn
  (`FlattenTurn`), which makes it a function of the beginnings of its input
  (`PrefixTurn`); and a sequence of parts that each item closes is the same as one in
  which each item opens its part (`Shifted`).
* **CCRStoreProofs** proves, for any originals, sizes, writers, cleaners,
  temporary names and policies: type correctness (`TypeCorrect`), `GetHonest`
  (`StoreHonest`), `NoLeakedTemp` (`StoreLeaksNothing`) and the refinement
  (`StoreImplementsContract`). `GetHonest` is not inductive: it does not say why the
  file a rename is about to install is whole. The invariant adds `Ownership` (a
  temporary name belongs to at most one call, and is not abandoned while it does),
  `ReadyToRename` (at the rename, the temporary file is whole or gone),
  `ObjectsWhole` and `AckedPresent`. The refinement then goes action by action:
  only a rename, a removal, an acknowledgement or damage is visible in the
  contract, and each touches one original.
  `MarkersHonest` (`MarkersLeadBack`) follows from the same invariant by cases on how a
  text spells its hash. `RetentionExact` (`RetentionIsExact`) has an invariant of its
  own, `ScansInv`: what stood in the directory since the walk began and still stands has
  been seen or is yet to be visited (`Walked`), with the size and time that were noted
  of it, and the candidates of a Cleanup were chosen by its policy from what was noted,
  and each has since been removed, is yet to be removed or has failed (`Applied`). That
  the rest is within `MaxBytes` is then a statement about sums over two sets of files.
* **ProxyProofs** proves `RecordedOnce`, `TelemetryHonest`, `StreamsPromptly` and
  `RetentionKeepsLatest`. `RecordedOnce` needs to know that no two records are of one
  request, that a pruned request is not recorded again, and that a request has one only
  when its handler is through (`OneRecord`); `TruncationRecorded` that the record agrees
  with what the handler saw (`RecordsAgree`), that an end without error is the end of the
  whole body, and that a failure has a cause (`Flow`). Retention maps the kept records
  back to their places in the old slice (`KeepsLatest`), which the theory of `Only` gives.
  For `MetricsHonest`, `OneRecord` makes records and reported requests correspond one to
  one, so that counts of the one are counts of the other (`CountRecords`); the failures by
  kind add up by `SumKinds`, and if every request had been faster than the average, the
  sum would be too small for it (`SumBound`).
* **PanelsProofs** proves the refinement of `AdminContract` (`PanelsImplementContract`)
  and `SavedHolds`. The invariant is the lock: there is one writer, and while it works
  nobody reads (`Locked`), so no read finds `Torn` and the assignment is the instant at
  which a PUT happens; a handler only goes on with a request that was not refused
  (`AdmittedAt`). `SavedHolds` adds that while the last save is alone it is the only PUT
  and the target in its answer stays the server's (`AloneSaving`).
* **CodexIntegrationProofs** proves all of the module's properties for files of any
  length: `OneBlock`, `UserLinesSurvive`, `DoctorTruthful` and `CommandsExact`. The
  invariant is that file and plan have one of three shapes: only lines of the user's; a
  whole block with lines of the user's around it; or, after a torn write, a block without its end at the
  end of the file (`Shape`). For each, what the planner removes is exactly Cachy's lines;
  `Planned` and `Kept` carry that from the read to the write.
* **CompressionProofs** proves `HotZonesSafe`, `FirstSavingWins`, `StatsAccount`,
  `DetectionExact` and `OmissionsAnnounced` for every set of decoded requests, any
  compressors and any token counts, negative ones too.
  Detection is followed through its loops: every block that is selected was cut from a
  tool's output, and for Anthropic requests its path leads to its text (`Cut`,
  `Detected`). The invariant of `Apply` says of every block that it is unchanged and was
  offered nothing that saves, or that it was replaced by the last offer, the only one that
  saves, and that it is the latter exactly when its decision is on file as applied
  (`InvSettled`); blocks further on have not been offered at all (`InvOffers`). The
  statistics follow from how a sum changes with one of its items (`SumChange`).

  That detection misses no text and repeats none (`AllTextSeen`) is a statement about
  numbers of things, proved by pairing them off one to one (`Paired`): the parts of a
  message with their places (`PairedParts`); then, without the empty ones, the texts and
  the blocks that the loops keep (`PairedOnly`); then the messages one behind the other,
  whose places differ in the message (`PairedFlatten`); the blocks of a system prompt
  stand in front and are not counted (`PairedSeen`).

  `OmissionsAnnounced` is about the native compressors alone and holds for texts of any
  length, as long as there is a marker for each number up to the length of the text, no
  two numbers have the same and none is a line of the text (`MarkersAssumption`,
  `RequestsAssumption`). `collapseAdjacent` is followed item by item: what a reader
  restores from the output so far has the keys of the items so far, and a marker stands
  behind an item of a key that is not empty (`Folding`, `Folded`); a run that is still
  open has been announced in advance, since its length is known when it begins. For code,
  dropping blank lines afterwards leaves each marker the line it speaks of (`Thinned`).
  For prose, the output must be cut again before it is read: paragraphs that the
  splitting loop can produce, and only those, are found again when they are joined
  (`ParagraphsSound`, `JoinSplit`), and folding them leaves such paragraphs. For a diff,
  the invariant of the loop is that the output so far is each change behind the
  announcement of the context before it (`DiffSoFar`), which `Shifted` turns into the
  order in which the property counts them.

  Of plugins it proves `PluginTypeOK`, `AnswerHonest` and `LoadComplete`, for any plugin
  directories, packages, commands, changes and whatever a plugin writes. `AnswerHonest`
  needs to know of a run that has no answer yet that the buffer holds the last write that
  fitted, or nothing when none did (`Buffered`), and that the plugin was chosen for the
  block (`Suited`); that the run returned is then what the check asks before it looks at the
  buffer. `LoadComplete` needs of a listing that is still going on
  (`ListGood`): what it has found in a directory nobody touched is what is there and
  enabled, it has found every such plugin it has passed, and it will not come by the same
  directory again; and that a marker only stands in a directory that is there
  (`MarksGood`), since the others are never listed. Sorting may put the list in any order;
  what a compressor finds of one directory in it is the same (`OnlyOne`).
* **DesktopProofs** proves, of the supervisor alone, `StateTruthful` and `NoOrphan` for any
  number of calls and children, failing kills and quits. The strengthening says that without a version
  check no call is suspended inside `start` (`NoSuspendedStart`) and that a living supervised
  child that is not `lost` makes the state "running" (`AliveIsRunning`), which is why `start`'s
  first guard sees it. `lost` takes in a child only where the code gives it up alive; without
  that exception the invariant fails at the next `start()`. Of the application it proves that every step of the application is a step of
  `Supervisor` or leaves it alone (`DesktopDrivesSupervisor`), so that the two results
  above hold for it, and `AloneNoOrphan` (`DesktopAloneNoOrphan`) for any number of
  slots and children, with a version check or without. The argument is the disabled
  button: a call of the window is in one phase at a time (`OnePhase`), at most one slot
  is in use, and none unless the dashboard is loading (`OneWindowCall`). So while a
  `start()` is suspended in its version check nobody can spawn, and what its guard saw
  is still so (`AloneSuspendedStart`, `AloneAliveIsRunning`).
* **ClaudeIntegrationProofs** proves `ManagedURLRecorded` for any URLs, and
  `UserSettingsSurvive` and `UninstallReverses` under the assumption that the
  user's URLs are none of the proxy's, and under the same assumption that the doctor is
  right (`ClaudeDoctorTruthful`). The assumption is needed: see section 5. The invariants speak of the file *and* of the plan of a command in
  progress, since the file is written from a plan made earlier.

**Only model-checked** are the six liveness properties (`CallsReturn`, `CancelReleases`,
`RunningIsHonest`, `ClickAnswered`, `CallsSettle`, `RunsEnd`): they rest on fairness,
hence on `ENABLED`, which is outside the prover's reach. Every safety property that a
passing run checks, invariant, action property or refinement, is also a theorem.

## 5. Findings

1. `retention.go:146`: an entry that vanishes during the walk, such as the temporary
   file of a concurrent `Put`, makes `Cleanup` succeed without having considered
   any object (`ccr_policy_race`).
2. `upstream.go:50`: a chunked upstream body that breaks off reaches the client as a
   complete response; only telemetry knows (`proxy_truncation`).
3. `codex.go:154`: the block is appended, so behind a table of the user's its
   `model_provider` line is a setting of that table (`codex_tables`).

One more disagreement with a document has no run of its own: `RunWASM` decodes the first JSON
value of a plugin's output and never looks behind it (`host.go:119`), while
`docs/wasm-plugin-architecture.md:107` says "Output must be valid UTF-8, valid JSON" and that
the host rejects malformed output. The model has such outputs, and `AnswerHonest` counts
their results among those that are used; were "trailing" not admitted there, the run
`plugin` would end with a counterexample.

Not findings, since no document says otherwise, but worth knowing: a living child whose
`kill()` returned false, or of which Node reported an error, is replaced by the next
`start()` and then runs on with nobody to stop it (`supervisor.ts:161`, `supervisor.ts:145`,
against the guard at `supervisor.ts:112`); quitting the application leaves the proxy
running and holding its address, where the next launch can neither see nor stop it
(`main.ts:102`); a Codex file whose write was torn inside the BEGIN line keeps a comment that
no command removes. `compressDiff` drops
a single line of context without announcing it (`native_structured.go:52`); a text that
already holds a line like "[repeated 2 identical lines omitted]" cannot be told from a
folded one; a plugin that was disabled goes on running in a program that has loaded it;
while the admin API refuses the desktop's token, the dashboard offers to start a running
proxy and not to stop it (`status.ts:66`). Cachy tells its Claude URL from the user's by
value (`claude.go:108`): a user who had already pointed Claude at the proxy's address
loses that setting to an install followed by an uninstall (give `UserURLs` and
`ProxyURLs` a common element in `Claude.cfg`, and `UserSettingsSurvive` fails). For a Claude file
that is not JSON, and for one with a URL of the user's, the doctor recommends a repair
that cannot satisfy it. The doctor's listen check fails when the proxy itself is running,
and can make a proxy that is just starting exit. The diagnostics panel reads
`recent_failure_categories`, `proxy_listen_address` and `config_dir`, where the server
sends `failure_categories`, `ports` and `paths` (`adminClient.ts:15`, `server.go:63`). Two
saves at a time may leave the panel showing one target and the server with the other. A
PUT changes what the admin API reports, not where a running proxy sends its requests; and
so far only tests build the admin server, and `ServeProxy` gives the proxy no telemetry
store.

## 6. What is not modelled

Text handling without state (headers, paths, recipes, log formatting, URL syntax, token
estimation), the doctor's checks of a single value (version, paths, target, credentials)
and its request to the provider, flag parsing, build-time tools (release), the aliases in
`pkg/`, the integration panel, which shows a fixed text, and the fields the diagnostics
panel displays. Of the window: reloading the page while a call is in progress, and macOS,
where closing the window does not quit the application (`main.ts:103`). `MemoryTelemetryStore` never prunes by itself; without a caller of
`Cleanup` it grows without bound, for which there is no property to state. Of the release tools: the writers of an archive
are closed by deferred calls whose errors are ignored (`archive.go:89`), so a full disk
can leave a truncated archive that is reported as written.

## 7. Plan

Done: the store, its contract and proofs, and the markers; proxy, telemetry and metrics;
supervisor and window with proofs; the admin API, its contract and the provider panel;
detection, native compressors and pipeline; both integrations and the doctor's checks of
them; plugins; and the proofs of section 4, which reach every safety property the passing
runs check.

What is left: a model of the parts section 6 names, should they come to keep state.
