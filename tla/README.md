# comfy-shell-v3: TLA+ specifications and proofs

comfy-shell-v3 manages ComfyUI on one GPU machine. A FastAPI control plane and
a command line (`comfyctl`) act on the same workspace directory; shell scripts
start the control plane and long downloads in the background. There is no
daemon that owns the workspace: everything is files, symlinks, process ids and
short-lived locks, changed by whoever runs a command. That is where the hard
behaviour is, and what these modules are about.

## Inventory

| Component | State | Operations | Interacts with | What makes it correct |
| --- | --- | --- | --- | --- |
| Workspace lock (`lock.py`) | flock on `run/workspace.lock` | non-blocking acquire, release | every handler that changes the workspace | one locked section at a time; released on every path |
| Links and `state.json` (`runtimes.py`, `versions.py`, `envs.py`, `state.py`, `workspace.py`) | `current`, `current-env`, `state.json` | `use_runtime` (with rollback), `use_version` (without), `link_models`, `init_workspace` (no lock) | service control, plugins | the two links and `state.json` agree; no switch under a running ComfyUI |
| Service control (`process.py`) | `comfyui.pid`, `comfyui.meta`, the process | `start`, `stop`, `status` | the links, the kernel | a running ComfyUI is recorded; at most one; it runs what is selected; `stop` signals nothing else |
| Runtime registry (`runtimes.py`) | `runtimes/`, `runtimes.json` | `import_runtime`, `stage_runtime_from_zip` | the links | a registered runtime is complete; a failed import leaves nothing |
| Version store (`versions.py`, `archives.py`) | `versions/`, temporary archives | `fetch_version` | the links | a version directory is complete and has its meta |
| Model store (`models.py`, `catalog.py`) | `models/`, per-file locks, temporary files | downloads, seed merge, `inspect`, `missing` | links (seed merge), background download | a final file is verified; nothing is lost in a merge; one download per file |
| Background download (`scripts/catalog.sh`) | start lock directory, pid, active and status files | `download-bg`, `download-bg-status`, the runner | model store | one background download per workspace; its end is reported |
| Plugins (`catalog.py`) | `custom_nodes/` of the current runtime | install, update | links, service control | installed means complete |
| Catalogue enrichment (`catalog.py`) | catalogue TOML files | `enrich --write` | none | no update is lost; values are kept unless `--overwrite` |
| Items (`item_service.py`, `item_repository.py`, `unit_of_work.py`) | a table with version and soft-delete columns | create, get, list, update, delete | PostgreSQL | compare-and-set on the version; unique live names; pages neither skip nor repeat |
| Lifecycle and health (`core/lifecycle.py`, `main.py`) | provider and check registries | startup, shutdown, readiness | integrations | what was started is shut down, in reverse, once |
| Control-plane scripts (`dev.sh`, `deploy.sh`, `lib/`) | `run/api.pid`, `run/api.meta`, the port | start, stop, restart, compose-full up and down | the API process | one API, the recorded one; compose-full not beside it; a start that is ready speaks of it |
| Integrations (`integrations/`) | connections, in providers | startup that may fail, shutdown that may raise | lifecycle | their life cycle only |
| HTTP layer (`middleware.py`, `context.py`, `security.py`, `operations.py`, `routes/`, exception handlers) | the requests on the event loop, their context variables, the worker threads | one request from its arrival to its answer | every handler; health checks | an answer is its own request's and one the operation declares; probes are answered whatever handlers do |
| Configuration, command line, release scripts | none of their own | | | not modelled, see below |

What is hard here: API threads and command lines interleave between two file
operations; a handler can be killed, or meet a full disk, between any two of
them; a ComfyUI ends when it likes, its pid is a zombie until its parent reaps
it, and later belongs to someone else. `PROJECT.json` lists the hazards, each at
its line.

## Modules

| Module | What it is |
| --- | --- |
| `Workspace` | the core: lock, links, `state.json`, service control, process table |
| `ServiceControl` | what the operator is promised: a service that runs what is selected, and a selection that changes only while nothing is served, by a switch that answers `ok`, by the low-level path, or by one that was cut short and is on record as such |
| `WorkspaceRefinement` | the mapping from `Workspace` to `ServiceControl` |
| `WorkspaceProofs` | theorems about `Workspace`: the lock and the service, the selection, the refinement |
| `DownloadBg` | background downloads of `catalog.sh` |
| `DownloadBgProofs` | theorems about `DownloadBg` |
| `ModelShelf` | what the catalogue promises about model files: usable ones stay usable, a download that succeeds leaves all it was asked for |
| `ModelStore` | the shared `models/`: catalogue and manual downloads, the merge of a runtime's own models; implements `ModelShelf` |
| `ModelStoreProofs` | theorems about `ModelStore`, the refinement of `ModelShelf` among them |
| `ItemLedger` | what the items resource promises: each change in one step, at the version its client read, and told in that step |
| `ItemStore` | the items of one owner as transactions change them, and the walk through their pages; implements `ItemLedger` |
| `ItemStoreProofs` | theorems about `ItemStore`, the refinement of `ItemLedger` among them |
| `LockedCommand` | what commands under the workspace lock have in common: the lock, steps that fail, kills, tools that outlive their command |
| `RuntimeRegistry`, `VersionStore`, `Plugins` | import and stage; fetch; install and update, each on top of `LockedCommand` |
| `Installers` | the three composed, beside the start of ComfyUI |
| `InstallersProofs` | theorems about `Installers` and the modules under it |
| `Lifecycle` | the lifespan of an API process and its providers |
| `ApiHost` | what the scripts promise who runs one command after the other: one API at most, and what a command says of it is so |
| `ApiService` | the scripts that start, stop and replace API processes, composed with `Lifecycle`; implements `ApiHost` |
| `ApiServiceProofs` | theorems about `ApiService`, the refinement of `ApiHost` among them |
| `HttpApi` | the way of a request through one API process, and what its operations declare |
| `HttpApiProofs` | theorems about `HttpApi` |
| `CatalogEnrich` | `enrich` on the text of the catalogue's files |
| `CatalogEnrichProofs` | theorems about `CatalogEnrich`, among them what one line edit does to any text |
| `MC...` | the TLC instances |

### Workspace

An actor is a thread of the API process (FastAPI runs its sync routes in a
thread pool) or a `comfyctl` process. `pc[a]` is where its handler stands, and
`pid`, `target`, `old` are the handler's local variables; everything else is
what the files and the kernel hold:

| Variable | In the code |
| --- | --- |
| `lock` | the flock of `run/workspace.lock` |
| `current`, `currentEnv`, `linked` | the two symlinks; the targets whose `models` is the shared link |
| `state` | `state.json`: does it exist, and its runtime, version, path and env keys |
| `pidFile`, `meta` | `run/comfyui.pid`, `run/comfyui.meta`; a meta that was truncated and not written is not `readable` |
| `proc`, `listener` | the process table (free, live, signalled, zombie, foreign; code, interpreter, parent), and who has the ComfyUI port |
| `reply` | what the last locked handler answered |
| `orphans`, `switchLeft`, `faults` | history: ComfyUIs an interrupted start left, whether an interrupted switch left the selection half changed, faults so far |

A runtime and a version are both a *target*, and its env has its name: the code
never combines them otherwise. One action is what a handler does between two
points where another actor, the kernel or a crash can intervene. `start` is
`Start` (checks), `StartSpawn` (Popen), `StartWritePid`, `StartWriteMeta`,
`StartReturn`; `stop` is `Stop`, `StopSignal`, `StopGone` or `StopTimeout`,
`StopUnlinkPid`, `StopUnlinkMeta`; `use_runtime` and `use_version` are one
action per link, models link and `state.json`, and the `except` clause of the
first is `UseRuntimeRaises`, `RestoreCurrent`, `RestoreEnv`. The checks at the
head of a handler are one step: they write nothing. A lock that is busy changes
nothing and is not an action.

Zombies decide two of the results, so they are modelled as CPython and the
kernel treat them. A child that has ended stays a zombie until a later `Popen`
of the same process polls it (`Reaped`) or its own `Popen` object goes
(`Settled`); a `start` still sleeping holds its object, so nobody else polls
that child (`Held`). `is_running` runs `ps`, hence polls (`Inspected`). When a
process ends its children pass to init (`Inherited`).

The environment may kill the API or a command line at any step (`Kill`), fail
any write (`StartWriteFails`, `SwitchWriteFails`; a cut-short write can leave a
truncated file, `Torn`), let ComfyUI end, bind, or have its pid reused. A pid
is not reused between the inspection of `stop` and the `os.kill` right after
it: `pid_max` pids must be handed out first (guard of `Recycle`).

### DownloadBg

Commands are invocations of `catalog.sh download-bg`; each has its download,
`job[c]`, and runs once. They take the start lock with `mkdir`, look for a live
runner in the active file and in the download's own pid file, and otherwise
write the status, start a runner and record it. `child[c]` is the runner's pid.
The status, pid and active files are `status`, `pidFile`, `active`; the log and
the runner's script are left out, since a runner is recognised by its script's
name, which is the download's (`Matches`).

`release_download_bg_start_lock` is called by the function, by the RETURN trap,
which bash runs when the function returns, and by the EXIT trap, which it runs
when the script ends: `Release` three times. A command can be interrupted or
fail at any step (`Cut`; the EXIT trap runs) or be killed (`KillCommand`; no
trap runs). A runner reports with `mv` of the status file, then looks whether
the active file names it (`FindActive`) and only then removes it
(`ClearActive`), and ends after that (`ExitRunner`). Pids are used again, by
runners and by foreign processes. `Answer(d)` is what `download-bg-status` prints; it changes nothing.

History: `ended[d]` is how the last runner of `d` ended, `overlap` whether a
command has ever taken the lock while another was at work, `cutShort` the
downloads whose start was cut short after its first write. The three safety
properties about runners are conditional on these: `download_bg_twice` shows
what happens otherwise. `StartLockIsHeld` is conditional on nothing having been
killed. A runner whose own write of the status fails is not modelled (it has
`set +e` and goes on).

### ModelStore

`final[m]` and `tmp[m]` are a destination and its `.<name>.tmp`, `seed` and
`link` the selected runtime's own `models/` and what that path is; under the
name of a model the runtime may have a file or a directory. File
contents are the five the code tells apart: good, of the declared size with
other bytes (`sized`), of another size (`short`, also a file being written), a
directory, absent. `queue[a]` is what a command still has to do, the models of
a workflow one after the other.

A catalogue download looks at the destination, takes the file's flock or fails,
looks again, fills the temporary, verifies it, renames it, verifies the
destination, and releases (`Look` to `FinalVerify`). Hugging Face files are put
at the destination by the library and verified there (`HubFetch`, `HubVerify`,
`HubUnlink`). `hf_download` is `ManualStart` and `ManualFetch`: the same lock, no
verification. `link_models` is `LinkStart`, `ValidateSeed`, per directory the `mkdir`, which raises
on a file (`MergeDir`), per file the test and comparison of the target (`MergeOne`)
apart from what then becomes of the seed's file (`UnlinkSeed`, `RenameSeed`), the
`rmtree` and the link, under the workspace lock, which downloads do not take. Any
operation of a merge may raise (`LinkRaises`): what has moved stays moved. The merge
walks the files of the seed in any order; what a directory of the seed has in it
is left out. Each entry has a destination of its own. `Kill` ends a command
anywhere: its flocks go, its files stay.

`cast` is which actors take part in a behaviour; one run covers two downloads, a
download beside a manual one, two merges, and a download beside a merge. Beside each
other a merge and a download can undo each other's work, so of the last only what
holds nevertheless is claimed: `SeedKept`, with the condition `OnlyAdded`, and what
downloads promise of their own files. In the refinement `usable` is what
passes verification, and `granted[d]` what a successful answer was about.

### ItemStore

One action is what a request does between two waits: the precheck of the name,
the `UPDATE ... WHERE version` (which first waits for a transaction that has the
row), the unique index on live names (which waits for one that has the entry),
the commit. `rows` is what is committed, `write[r]` what a transaction has
written. The rows are numbered in the order of the listing. PostgreSQL's part
(READ COMMITTED, row locks, unique index entries) is modelled from how the
statements use it. Answers may be lost and the request sent again; a walk
through the pages runs beside the requests.

### RuntimeRegistry, VersionStore, Plugins, Installers

`pc`, `work` and `lock` are a command, what it works on, and the workspace lock.
Each copy, clone, checkout, rename and write is a step that can fail
(`ImportFails`, `ImportFailsLate`, `StageFails`, `FetchFails`, `FetchFailsLate`,
`InstallFails`: what the code's `except` clauses clean up is in them) or at
which the command is killed; an `rsync` or `git` may then go on as an orphan.
`left` is history: what kills, and the two failures past a clean-up, have left.
A runtime tree is absent, partly copied or whole; a version directory holds a
commit and its meta names one, several commits may share the digits that make
the id; a plugin is absent, a file, no clone, part of a clone, at its default
branch, or at its ref. Installing plugins takes the lock once per plugin,
updating once for all. `rmtree` and the creation of a directory by a tool are
one step.

### Lifecycle, ApiService

`phase[p]` is how far the lifespan of an API process has come and `started[p]` is
`LifecycleProviderRegistry._started`. Around it uvicorn (external) binds the port
when the startup is done, and unbinds before the shutdown. The scripts' steps are
those of `start_api` (look, port, spawn, pid file, meta file, look again after a
second, wait for `/health`), `stop_api` (look, kill, wait for the exit, wait for the
port) and `up_full`/`down_full`; `restart` is the one after the other. Timeouts may
strike at once. `Owned` is what the scripts' identity check sees: the meta file
names the pid, and it is an API. Who has the port they ask `lsof`, and where there is
none the port counts as free (`PortOwner`). The compose-full API has its own network and
port. Pids are used again by others, another program may take the port, an API
may crash anywhere, and Ctrl-C may end a script anywhere.

`ApiHost` knows of one API, whether it serves, whether compose-full runs, and what each
command has said last; pid file, meta file, port and positions are not in it. Its
`Trouble` is two commands at once, or an interrupted one, after which the scripts promise
nothing. `Host` maps the process that is alive to its `live`, and `answer` to its `told`.

### HttpApi

`pc[r]` is where a request is: `Receive` is the middleware up to `call_next`
(which reads the two id headers, sets `request.state` and the context variables,
and refuses a bad header itself), `Route` starlette's routing and the reading of
a body, `Authenticate` and `GetService` the sync dependencies, `Validate`,
`Call` (a sync handler gets a worker thread), `Work` (the handler ends), `RunCheck`
and `Ready` the readiness checks one after the other, `Respond` the middleware
after `call_next`. An error goes through the exception handler of its kind
(`AppError`, `ValidationError`, `HttpError`); what nothing handles is answered
outside the middleware (`Unhandled`). What a handler does is in the other
modules, so here it ends in any of the ways its code has: `Raises(o)` is the set
of codes that the calls of a route, followed to their ends, raise, and
`Responses(o)` what `operation_registry` declares. The two were read from
different files, which is what `AnswersFollowContract` compares.

`ctx[r]` are the context variables, from which a success takes its ids;
`Own(r)` are those of `request.state`, from which an exception handler does. An
id is told by where it came from: a request's header, or `new_context_id`.
`held` are the handlers that have a thread. A dependency that takes a thread for
a moment needs one to be free then. `health[i]` is what a check would find now,
`silent` that it would not answer in time; `seen[r][i]` is history: what the
check could have found since `r` came.

### CatalogEnrich

A catalogue file is a sequence of lines: `schema_version`, headers with and without
a trailing comment, fields. `Meaning` is what `tomllib` reads in it, `SetField`
and `UpdateLines` are the line edit of `update_model_catalog_lines`; the property
compares the two. `Home[m]` is the file that a model is in (a catalogue that has one
in two files does not load). A command loads the catalogue (`Ask`), measures every
model (`Measure`), and then for each file reads it (`Read`), edits the section of each
model that is to change (`Edit`), has `tomllib` read the result (`Render`), opens the
temporary, cutting it down (`OpenTmp`), fills it and renames it. Inodes are modelled
because a second command's open temporary can be the published file: there is one
for each name, one for each temporary and one for each open file, and `OpenTmp` takes
one that is free. `todo[c]` are the models that `c` has yet to write and `edits[c]`
those it has yet to edit in the text it has; `Fault` ends a command anywhere, with the
answer `cut`.

History: `disturbed[c]` says that another command was writing one of `c`'s files while
`c` was at work, `clash` that this has ever happened to two that write. Left out are
multi-line values and headers of any other form (`[models."x"]`, a table of something
else), which a line edit could mistake. A fill is one write: a text longer than the buffer
is several, which only a second writer of the same file could tell apart.

## Runs

| Run | Shows |
| --- | --- |
| `workspace_faults` | two API threads, one command line, two pids, two runtimes, one version, one crash or failed write: every safety property and the refinement of `ServiceControl`, in which only a switch that was cut short changes the selection without an answer `ok` |
| `workspace_release` | under fairness of started handlers, the lock is always given up; `state.json` does not exist at first |
| `workspace_orphan` | violation: a switch under a ComfyUI that a cut-short start left |
| `download_bg` | three commands for two downloads, one interrupt or failed write, one kill, one foreign process: at most one runner, the active file names it, `download-bg-status` tells the truth, and a start lock without a command that will remove it is left only by a kill |
| `download_bg_twice` | violation: the second removal of the start lock lets two commands in at once and two downloads run |
| `model_store` | what is published was verified, a download's success is about its own bytes, `missing` lists what is neither usable nor on its way, a merge that fails, raises or is killed loses no file, one that meets two files in conflict has moved none, a merge that was cut short is completed by the next ones, downloads are retried to the end, and downloads implement `ModelShelf` |
| `model_seed_race` | violation: a merge renames over a model that a download published since it looked |
| `item_store` | names stay unique, no change is made twice or at another version than the one read, nobody waits in a circle, everybody is answered, the walk misses and repeats nothing; `ItemLedger` is implemented |
| `installers` | what is listed is whole, failures leave nothing that a later command refuses or lists, retries get through, a running ComfyUI keeps its plugins |
| `control_plane` | providers unwind in reverse and completely; while commands come one by one the API that lives is the recorded one, and not beside compose-full; `ApiHost` is implemented |
| `http_api` | one request for any operation beside one that may hold the only thread for good, two dependencies that come and go: every answer is its own request's and one its operation declares, readiness tells what the checks could find, probes are answered |
| `catalog_enrich` | after `enrich` the files say what was announced and nothing else has changed; after a failure, each file all or nothing of it |

Bounds. In `workspace_faults` two threads are needed because they share a parent
(one reaps what the other started) and a command line because it has another; a
third actor of a kind only waits for the lock. Two pids let a new service run
beside an orphan or a foreign process; two runtimes and a version let a switch
go from each kind to each. One fault reaches every single cut-short handler; the
same run with two faults (6.2 million states) finds nothing more. Threads, pids
and runtimes are symmetric, no property names one. The runs with liveness
allow no symmetry and are small. In `download_bg` a third command is the one
that meets what two left behind; a pid for the runner and one for its successor
are enough for a record to name a pid that is used again. `model_store` has a
local copy that declares size and digest and a Hugging Face model, in one
workflow, so that a command goes on past what another has done; every initial
content of `models/` and of the seed, directories among them, one kill, one bad answer
or raising operation (with a kill, a cut and a fault in its repair); a `url`
model takes the local copy's steps and checks less. `RetryCompletes` says
something of the first model of the workflow only: the second is the Hugging Face one,
which it exempts. `item_store` has three
rows so that a page ends between two others while items come and go, two names
so that two renames can swap, three requests, versions up to 3, one lost answer.
In `installers` a registered and a free name, two commits that share their
digits under one ref and not under the other, two plugins; two failures and one
kill let a repair fail too. Runtimes, versions and plugins share the lock and
nothing else, so a behaviour works on one of them (`shift`). In `control_plane`
two pids, two providers, two faults and one interrupt; once two commands are
at work at once, or one was interrupted, no more begin, since `OneRecordedApi`
promises nothing from there. In `catalog_enrich` two files, one with two models
in several orders, a workflow over both files, every local content (absent,
empty, as declared, other), two commands and one cut (4.6 million states); its layouts satisfy
the hypothesis `CommentsFirst` of the theorems, which TLC evaluates. In `http_api` one request
asks for anything and the other stops ComfyUI, whose handler may hold the thread:
a second request of another kind differs only in the codes it may end with, and
ids and threads do not look at those. One thread makes the pool run out; two
checks, one required, and two changes of what they find let one come back while
the other is looked at.

The type invariant of `Workspace` is checked in its run; those of `DownloadBg`,
`ModelStore`, `ItemStore`, `Installers`, `ApiService`, `HttpApi` and `CatalogEnrich` are
proved, and the runs are left to the other properties.

Fairness. Weak fairness of the steps of a handler that has begun (`Workspace`,
`ModelStore`, `ItemStore`, `Installers`): they are calls that return,
sleeps and bounded polls; in `ItemStore` a wait ends when the other transaction
does, as the database wakes its waiters. None of requests, runners, ComfyUI or
the kernel. `RetryCompletes` and `RetrySucceeds` say that retries get through, so
they assume retries: strong fairness of asking for the workflow, or for the
runtime, again. It is strong because another command may hold the lock each time
but not always. `MergeCompletes` assumes in the same way that a link that was not made is
asked for again: the fairness of a merge in `ModelStore` includes its start. In `HttpApi` only `Loop` is fair, the steps that the event loop takes by
itself: it runs what is ready, and a check comes to its end or its timeout. No
handler is assumed to end and no thread to come free, so `ProbesAnswered` does
not rest on either.

## Known divergences

Three are runs of their own: `workspace_orphan`, `download_bg_twice` and
`model_seed_race`. The others were met while modelling. The first four are
properties stated in `Workspace`, each refuted by TLC (add it to a configuration
like `workspace_faults.cfg`).

- `EnvFollowsCurrent`: `use_version` has replaced `current` when `link_models`
  refuses, and puts nothing back.
- `EarlyExitIsReported`: a ComfyUI that ends at once is a zombie of the caller,
  `start` answers `stale` instead of an error.
- `TimeoutMeansRunning`: `stop` times out on a zombie that nobody polls.
- `SwitchIsRemembered`: `init_workspace` writes `state.json` without the lock and
  may erase what a switch has merged.
- A `download-bg` that is killed between its `mkdir` and its release leaves the
  start lock for ever, and every later start is refused.
- A catalogue download that is killed leaves its temporary file, and
  `list_missing_models` takes it for a download at work: the model is neither
  usable nor listed until it is downloaded again (`MissingOrDownloading` speaks of
  no kills).
- `start api` on an API that lives but does not serve, or no longer does, prints
  that it runs and returns 0 without asking `/health` (`dev.sh:66` promises the
  health check); so `ApiHost` promises no more of an answer "running" than that there is
  an API, and `ReadyIsServing` speaks of starts that waited.
- `wait_for_api` asks the port: the `/health` of another listener counts.
- Nothing excludes two `dev.sh start` at once; each starts an API, and the pid
  file names one. A foreground `dev.sh run` is not recorded, and compose-full
  comes up beside it.
- A fetch that is killed while it rewrites a version's meta makes `list_versions`
  raise for every version; one killed earlier leaves `.extract-<ref>`, which is
  listed as a version.
- An `import_runtime` that fails after its copies leaves a directory that refuses
  the name from then on (`stage_runtime_from_zip` removes it).
- A killed plugin clone is reported as installed and never repaired.
- A Hugging Face file whose download was killed before its verification refuses
  every later download.
- A directory of the seed whose name is a file in `models/` passes
  `validate_seed_models` (`models.py:75`: only files are looked at), and
  `merge_seed_models` raises at its `mkdir` (`:98`) when other files may have moved.
  `ConflictMovesNothing` names this as the one way in which a failed merge has moved
  something.
- Beside a manual or a Hugging Face download, the only copy of a seed file may go: the
  download replaces or removes the target between the comparison (`models.py:107`) and
  the unlink (`:108`). `SeedKept` exempts those downloads (`OnlyAdded`).
- `docs/architecture.md:383` says that an ordinary directory `current/models` is refused
  and never migrated; `docs/architecture.md:247` says that it is merged unless names
  conflict, and that is what the code does.
- `enrich`: two commands that write one file at once lose an update, and may
  publish a file that is cut short until the second has filled it. A field of
  the *next* model is replaced when that model's header has a trailing comment,
  which `update_model_catalog_lines` does not take for a header (so `CommentsFirst`
  speaks of files in which no such header is below a plain one). An empty model
  file is written as `size_bytes = 0`, which the catalogue then refuses to load.
- Six pairs of an operation and a code are answered and not declared
  (`Undeclared` in `HttpApi`).
- `CONFIG_INVALID` (`archives.py:20`, `:28`) is raised and not registered, though
  `docs/contracts/extension-contract.md:31` says that codes are: the handler of the
  error raises in its turn, and the client is told `INTERNAL_ERROR`.
- With both id headers bad, the answer repeats the bad trace id
  (`middleware.py:65`: the second test is an `elif`).
- A 500 that no handler made has no `X-Request-ID` header
  (`docs/contracts/api-contract.md:9`): it is answered outside the middleware.
- The dependencies `get_current_principal` and `get_item_service` are sync and
  share the worker threads with the ComfyUI handlers. When long downloads hold all
  of them, requests for items wait too, though their own handlers are async.

## Proofs

Every theorem holds for all values of the constants: any sets of actors, names,
pids, models or requests, any bound on faults, kills and retries. The assumptions
are those named in the modules: distinct kinds are distinct, sentinels are no
values, sequences are sequences. `InitialRowsAssumption` says of the table at the
start what the unique index and the migration enforce. A theorem that needs more
says so in its statement. The safety proofs have one shape: a type invariant, an inductive
invariant that says what a process at each location relies on, one step per
action, and the property from the invariant.

`WorkspaceProofs`:

- `Typed`: `TypeOK`.
- `Exclusion`: `LockExclusion`. It is inductive by itself (with `TypeOK`): each
  step of an actor is a `LockStep`, and `Kill` frees the lock of the dead.
- `Inductive`: `ServiceInvariant`, the strengthening the next three need.
  `ServiceIsRecorded` speaks of free locks only and says nothing about a start
  that has spawned and not yet recorded, so it is not inductive. The invariant
  says what each location relies on: nothing runs from the moment `is_running`
  was false until Popen, during a switch and while `stop` unlinks; what runs is
  recorded or is the child of the one start that has yet to record it. The
  argument is `NoNewService`: every step but `StartSpawn` leaves the set of
  services as it is or smaller and changes nothing about them.
- `RunsSelection`, `IsRecorded`, `Remembered`: `ServiceRunsSelection`,
  `ServiceIsRecorded`, `NeverForgotten`.
- `SparesStrangers`: `SignalsOnlyComfy`, from the invariant that between the
  inspection and the kill the pid is of no foreign process.

- `SwitchesAreWhole`: `SwitchInvariant`. Half way through a switch the selection is
  not whole, so the invariant says which parts each location has replaced, and
  that what `use_runtime` found, and would restore, was whole.
- `SelectionWhole`: `SelectionIsWhole`, assuming `~FreshWorkspace`. In a workspace
  without a `state.json` it is false: `init_workspace` may write over what a switch
  has merged (see the divergences).
- `Implements`: the refinement of `ServiceControl`. While `use_runtime` is at work the
  selection is the one it would restore, so a runtime is selected in the step that
  answers `ok`, and a failure that restores it changes nothing; a kill or a failing
  restore is a `Cut`. `use_version` moves the selection at its first link. A service
  begins with what the links name.

`DownloadBgProofs`:

- `TypeCorrect`, with what a runner that has reported knows.
- `RecordIsKept`: `SectionIsSingle` and `RecordInvariant`: from the look at the active
  file to the spawn no runner is at work, then only the child of the one start,
  until the active file names it. From it `AtMostOneRunner` (`OneRunner`) and
  `ActiveIsRunner` (`RunnerIsActive`).
- `StatusTellsTruth`: `AnswerIsTrue`, from `AnswerInvariant`, which says the same of
  the files of each download, at every step of its starter and its runner.
- `StartLockHasHolder`: `StartLockIsHeld`, inductive by itself. It is what remains for
  safety of the promise that start locks go: who has to remove one is still there.

`ModelStoreProofs`:

- `TypeCorrect`, with `HeldInvariant`: a download is past its second look only with
  the flock of its model, a merge past its beginning only with the workspace lock.
- `PublishedWasVerified`: from the verification to the rename the temporary is the
  verified one, since every writer of it needs the same flock.
- `MissingAreListed`: every temporary has its writer, while nothing was killed.
- `SeedsAreKept`: for every cast. `SeedInvariant` says that what a merge is about to
  unlink is still in `models/`: a download that is on its way to publish under that name
  has found nothing there, and so did not find what the merge has compared.
- `ConflictsMoveNothing`: while no operation has raised and only merges run, one that has
  begun has no conflict of files before it, and one that has failed met a conflict,
  which then is still there, or a directory of the seed (`MergeInvariant`).
- `DownloadsAreOwn`: where no merge takes part. Beside each other a merge writes over
  what a download has published, which `model_seed_race` shows.
- `DownloadsKeepTheShelf`: the refinement of `ModelShelf`, of behaviours of downloads:
  only the holder of the flock changes the file, and only from nothing.

`ItemStoreProofs`:

- `StoreInvariant` is inductive: a request that has written its row has it alone and
  wrote what the row still allows; each name, committed or about to be, is one
  row's. `NamesAreUnique`, `ChangesAreMadeOnce` follow.
- `NobodyWaitsInACircle`: a wait at the index is for an older client's row. `Before` is
  that order, extended only by a request that begins, at a maximal place;
  every set of requests has one that waits for none of the set.
- `WalksAreComplete`: above the cursor all that was listable all the while is returned.
- `RequestsKeepALedger`: the refinement of `ItemLedger`: the commit is the change, and
  each refusal has its reason in the ledger at the step that tells it.

`InstallersProofs`, over the three components at once:

- `TypeCorrect`, with `LockInvariant`: between `TakeLock` and `End` the lock is had.
- `ListsAreTrue`: `ListedIsTrue`, from what a command has copied at each position.
- `PluginsAreQuiet`: the action property `QuietPlugins`: who changes plugins has seen
  no ComfyUI, and has the lock that a start needs.
- `NothingIsLeft`: `FailureLeavesNothing`. `LeftInvariant` says of everything that is not
  registered, described or pinned who is still to clear it up.

`ApiServiceProofs`:

- `Typed`: `TypeOK`, with what a stop relies on, that it has read a pid.
- `Unwinds`: `ProvidersUnwind`, from `LifespanInvariant`: a process that is ready
  has started the whole order (a prefix of the same length), and one that has the
  port is serving.
- `Records`: `OneRecordedApi`, from `ScriptInvariant`: commands are one at a time,
  nothing lives from the moment `start` or `up` has looked until the spawn, only
  the spawned process until it is recorded, and a stop that has looked works on
  the recorded process until it removes the files. `NoNewApi` says that only a
  spawn brings an API about; `LookIsRight` that a command which sees no API is
  right, since each that lives is recorded.
- `ReadyServes`: `ReadyIsServing`, from both: at the end of the wait the port is
  somebody's, not a stranger's, hence a serving API's, hence the recorded one's.
- `Implements`: `ImplementsApiHost`. A process is alive alone (`OneApi`, from
  `ScriptInvariant`), so what `CHOOSE` picks for `live` moves only when it does
  (`AlikeStays`). Then one lemma per kind of step: `ProcessHosts` maps what a process does,
  `TalkSpeaks` the steps that end in an answer, `StepHosts` those that create an API or
  compose-full. For `stopped`, `ScriptInvariant` says that no API is left when a stop
  waits for the port.

`HttpApiProofs`:

- `TypeCorrect`: no path makes an answer of another shape.
- `IdsAreOwn`: `AnswersAreOwn`: from the middleware on the context variables equal
  `request.state`, so it does not matter which an answer takes its ids from.
- `ContractIsKept`: `AnswersFollowContract`, from the tables (`RaisedMayBeAnswered` and the
  lemmas before it) and `ContractInvariant`, which says what can be at each place.
- `ReadyTellsTruth`: `ReadyIsTrue`, for any list of checks and any number of changes.

`CatalogEnrichProofs`, assuming `CommentsFirst`: in no file is a header with a trailing
comment below one without. Where one is, `FilesSayWhatWasAnnounced` is false (see the
divergences).

- `UpdateLinesSays`: what the line edit does to any text of any length. A text and its
  edited form are related by where the lines of the one are in the other (`Embeds`), an
  order-preserving map that keeps headers, so each line keeps its owner (`EmbeddedOwners`)
  and the one new or replaced line is in the section of its model (`SectionOwners`: the
  end that is found is the next header of any kind, which is where `CommentsFirst` is
  needed). No induction is: an update is two edits.
- `TypeCorrect`, from `Structure`: an inode belongs to one file (its text, its temporary,
  or one that is open under that name), which survives any interleaving of commands on
  one file, and by counting there is a free one for each temporary (`FreshInode`).
- `ModelsStay`: every text of a file, also one that two commands have written over each
  other, has the headers of that file's models and no others. `Fill` writes over what
  another has left, so the invariant `Fine` says this of every text that a file, a
  temporary or an open file may have (`OverwrittenFine`).
- `FilesSayAlways`: `FilesSayWhatWasAnnounced`. `Undisturbed` says, at each position of a
  command that nobody disturbs, which of its files say what it announced, what the
  text it has in hand says, and that its temporary is its own; `OtherStepGood`
  that steps of others leave all of that, since they write other files
  (`FilesApart`, from `Recorded`: the histories have every pair at work at once). That
  none fails without a reason needs `GoesOnLoading`.
- `LoadsAlways`: `GoesOnLoading`, for every reader of the catalogue: between the
  loading of a command and its end no file is in a state that does not load.

Only model-checked: liveness (`LockIsReleased`, `RetryCompletes` and `MergeCompletes` of
`ModelStore`, `RetrySucceeds` of `Installers`, `Answered` of `ItemStore`,
`ProbesAnswered`), which is out of the prover's reach. Every safety property that a
passing run checks is proved. The runs that show a violation are counterexamples and
have nothing to prove.

## Not modelled

Configuration and command line keep no state: a command is one call of a handler.
Of the HTTP layer, CORS, paging parameters and the OpenAPI document are left out,
and so is the case of `map_integrity_error` that answers `RESOURCE_CONFLICT`: no
request can break the constraint it stands for. Catalogue schemas, hashes and archive
contents are data. Probes of sources, and what the integrations do between
startup and shutdown are I/O. Release, k8s and remote scripts are sequences of
external commands; of `deploy.sh` only compose-full is modelled, since it
excludes the local API. `status` reads the pid and the meta file without the
lock; its answer can mix two states, but nothing acts on it, and it is one step
here. `prepare_env` writes only under `envs/`. `init_workspace` writes `state.json` in one
step here; between its truncation and the write a reader would find it empty. A runner
and the download it waits for are one process in `DownloadBg`. A request of
`ItemStore` sends the version it read when it was asked; the API takes any number. The
fetch, checkout and pull of a plugin's update are one step of `Plugins`, so an update that
fails after its checkout, or whose `git` outlives a kill, is not there. Of the lifespan are
left out the validation of the health registry, which cannot raise with the timeouts
that are registered, a check that fails to register after its provider has started, and
that uvicorn skips the bind after a SIGTERM during startup. A write of `dev.sh` that
fails under `set -e` is an `Interrupt`. `state.json` keeps
`current_runtime` after a `use_version` and the other way round; nothing reads
them back.

## Plan

Modelled: everything in the module table. Proved: every safety property that the runs
check, and the refinements of the four abstract specifications. Left: the foreground `dev.sh
run`, which is not recorded, as an actor of `ApiService`.
