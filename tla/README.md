# A formal model of sbctl

sbctl serves the contents of a support bundle (a tar archive of JSON files
collected from a Kubernetes cluster) as a read-only Kubernetes API, so that
`kubectl` can be pointed at it. This directory models the parts of it where
order matters: how a bundle gets to disk and is searched, how the server comes
up, the request handlers that look at the extracted files step by step, the
goroutine that deletes those files when an interrupt arrives, the life of the
command around them and the terminal of its shell. Everything is translated from
the Go source; `PROJECT.json` names the lines each definition stands for.

## Inventory

| Component | Source | State | Operations | What makes it correct |
|---|---|---|---|---|
| Resource tables and decoding | `pkg/util`, `pkg/sbctl/compatibility.go`, `pkg/k8s` | none | name mapping, wrapping bare arrays, `Decode`, `ToUnstructuredList` | nothing of a file is lost; a value is never nil without an error |
| Resource handlers | `pkg/api/server.go` 256-659, 744-1375 | none of their own; the extracted files | four lists, four gets | lists sound and complete, gets agree with lists, no unexplained 500 or panic; each answer is one a single look at the bundle gives |
| Discovery, version, logs | `server.go` 175-254, 661-741, `logs.go` | none | API groups and resources, version, pod logs | discovery names what the bundle holds, once; a log is the one asked for |
| Server start-up | `server.go` 97-173, `client.go` | listener, kubeconfig file | listen, serve, poll until ready, write config | ready before anyone uses it; ends by its deadline |
| Session of `serve` and `shell` | `cli/serve.go`, `cli/shell.go` | `kubeConfig`, `bundleDir`, `deleteBundleDir`, the files on disk, the terminal | RunE, the signal goroutine, deferred calls | user's files kept, generated files removed, an interrupt ends it |
| Terminal of the shell | `cli/shell.go` 160-213 | pty, window-size channel, raw mode | resize, echo skipping, two copies | no resize lost, never stuck, no send on a closed channel |
| Extraction and search | `pkg/sbctl/support-bundle.go` | the bundle directory | `ExtractBundle`, `FindClusterData` | the directory is what the archive says; fails only for a reason; the root-most resources |
| Download, token | `cli/download.go`, `cli/token.go`, `pkg/config` | a file | token, vendor API, signed URL, copy | an old file survives an early failure; what is reported is whole; the right token |
| Table rendering | `toTable` in `server.go` | none | layout | - |
| Request logging | `middleware.go` | none | printing | - |
| Command line | `root.go`, `version.go`, `main.go` | none | registration | - |

How they interact. `serve` and `shell` obtain a bundle (a directory, an archive
that is extracted, or a URL that is downloaded and extracted), search it for
`cluster-resources`, start the API server on it and write a kubeconfig. The
server answers each request on a goroutine of its own; handlers share nothing
but the files. Meanwhile a goroutine waits for an interrupt, deletes the
kubeconfig and, unless it is the user's own directory, the bundle, and calls
`os.Exit`, while handlers still run. `shell` also does that cleanup in a
deferred call. The three variables the cleanup reads are shared without
synchronisation.

The hard behaviours are therefore: a handler's several accesses to a bundle that
is disappearing (probe, list, stat, read); the fall-backs a handler takes when a
probe fails; the merge of files of different types; an interrupt between any
two steps of RunE; a poll that races with its deadline and with a server that
stops; window-size signals the runtime drops; archives whose entries repeat or
contradict one another; two downloads into one file. `PROJECT.json` lists each
hazard at its line.

## The modules

| Module | What it is |
|---|---|
| `Resources` | what files hold, and the pure functions over them |
| `ApiServer` | the eight list and get handlers, per client, with the concurrent cleanup |
| `Listing` | the abstract server: each request answered in one step, from the whole bundle |
| `ApiServerListing` | the refinement mapping from `ApiServer` to `Listing` |
| `Startup` | `StartAPIServer`, then the discovery, version and log handlers |
| `Session` | RunE of `serve` and `shell`, the signal goroutine, the shell |
| `Pty` | `startShellAndWait`: the goroutines around the shell's pty |
| `Bundle` | `ExtractBundle` and `FindClusterData` |
| `Download` | `sbctl download`, several at once, and the token they send |
| `MCApiServer`, `MCStartup`, `MCBundle`, `MCDownload` | small instances for TLC |
| `ApiServerProofs`, `ApiServerComplete`, `ApiServerAnswers`, `StartupProofs`, `SessionProofs`, `PtyProofs`, `BundleProofs`, `DownloadProofs` | theorems |

**Resources.** A file is a record: its JSON form (a typed list, a bare array with
or without kinds, an object unknown to the scheme, or invalid), the list type it
names and the set of objects it holds. `Decode` follows the Go function's four
attempts, with its one surprising result: an empty array nothing wraps gives a
nil object *without* an error. `Merge` is the type switch of the handlers that
list all namespaces, in which a type assertion may panic and the default case
replaces the result.

**ApiServer.** `bundle` is what was extracted, `files` and `dirs` what is left of
it. Each client makes one request; `pc`, `dir`, `ns`, `todo`, `single`, `result`
are the handler's program counter and locals. One action is one access to the
file system with the computation that follows it:

| Action | Code |
|---|---|
| `Refuse` | path parameters that are no file names; selectors that do not parse |
| `CallDirList`, `CallFileList`, `CallOtherList` | the switch over the resource in the two list handlers |
| `CallOneFile` | entry of the other six handlers |
| `ProbeDir`, `ProbeFile` | `pathExists` / `fileExists` and the fall-back to custom resources |
| `ReadDir`, `ReadDirFails` | `getJSONFileListFromDir`, and `<dir>.json` in its place |
| `LoopStat`, `LoopDone` | the loop over file names |
| `Stat` | the `fileExists` of the one-namespace lists |
| `ReadList`, `ReadGet`, `ReadFails` | `readFileAndLog`, `Decode`, filters, merge, answer |
| `StartCleanup`, `RemoveFile`, `RemoveDir`, `Exit` | the signal goroutine, one unlink at a time |

**Listing.** The server as a client sees it. For a request the bundle holds a set
of objects; an answer is exact as long as nothing is deleted and the bundle can
be read for it, and in any case holds nothing that was not asked for.
`ApiServerListing` computes from the bundle and the request what `ApiServer` should answer,
without directories, probes or program counters, and `AnswersAtOnce` says that
every behaviour of the handlers is one of `Listing`.

**Startup.** `main` is where `StartAPIServer` is, `serve` the goroutine in
`server.Serve`, `expired` the context. The readiness poll is a request like
any other: the client `"poll"` of the same handlers, so that what it answers is
what `GetResources` finds in the bundle.

| Action | Code |
|---|---|
| `Listen`, `SpawnServer` | `net.Listen`, the goroutine that serves |
| `Poll`, `Polled`, `Expire`, `TimeOut` | the `select` of the readiness loop and its two channels |
| `CreateConfigFile` | `createConfigFile`: creation and write, each of which may fail |
| `ServeFails`, `ServePanics` | `server.Serve` returns; `log.Panic` |
| `GetAPI`, `GetResources`, `GetAPIs`, `GetVersion`, `GetNotFound` | the handlers of `/api`, `/api/v1` and `/apis/{group}/{version}`, `/apis`, `/version`, the rest |
| `GetLog` | `getAPIV1NamespaceResourceLog`, one read per step |
| `Invalid`, `Refuse` | `validatePathParameters`; a connection that fails |

**Session.** `main` and `hand` are the positions of the two goroutines, `disk`
the set of files that exist: the user's own bundle, the downloaded archive, the
extracted directory, the kubeconfig, the shell's log. The assignment of a string
is two steps with `"torn"` in between, since the Go race it is part of lets the
signal goroutine read half of it; a reader of a torn string follows a bad
pointer (`Crash`) or names a path nobody made. Every fallible call may fail.
`"serve"`, `"run"` (`shell -c`) and `"tty"` (`shell`) share the module, since
their RunE differ only in the log file, the child and the deferred calls.

**Pty.** `After` is the order of `startShellAndWait`'s steps, its deferred calls
included; `resizer` the goroutine that ranges over `ch`; `raised`
and `Deliver` the runtime, which drops a signal when `ch` is full. The text on
the pty is counted in units of the set-up's length, of which `io.CopyN` throws
away `Skipped` = 2; `Echoes` is how much a shell may write before it waits.
`Resize`, `TypeCtrlD`, `Echo`, `ReadCtrlD` and `ChildExits` are the user and the
shell, which are no code of the repository.

**Bundle.** `tree` maps the paths below the bundle's directory to a directory, a
link or a file, which names the entry it was written from and whether all of it was.
`Open`, `NextFile`, `SkipEntry`, `BadHeader`, `EndOfArchive`, `MkdirAll`,
`CreateFile` and `Copy` are the calls of `ExtractBundle`, `Visit` is one call of
the walk function, in the order `filepath.Walk` makes them. A directory of the
user's starts at the walk; it may hold empty directories and links, be a link
itself, and `tree` then has what is seen through a link too, which the walk does not
visit (`Reached`). Paths are sequences of names; the length of their
strings, which the search compares, is a constant with the two assumptions all
strings meet (`LengthAssumption`, `LengthOfRoot`).

**Download.** Each download resolves its token, makes its two requests, empties
`support-bundle.tgz` and writes the parts of the body at its own offset, as two
processes with two file descriptors on one file do; `creator` is who emptied it
last. `Fail`, `CopyEnds` and `Interrupt` are the ways to end early.

## What is checked

| Run | Bounds | Shows |
|---|---|---|
| `ApiServer_requests` | 1 client, 5 bundles of 2 namespaces, 52 requests, 3 objects | `TypeOK`, `ListSound`, `ListCoversSurvivors`, `FailuresExplained`, `EveryRequestAnswered`, `AnswersAtOnce` |
| `ApiServer_pairs` | 2 symmetric clients, 4 bundles, 34 requests: lists and gets of the same resources | `GetAgreesWithList` |
| `ApiServer_custom` | a custom resource in 2 namespaces | `ApisListComplete` is violated |
| `ApiServer_cronjobs` | one batch/v1 cron job | `BatchVersionRespected` is violated |
| `Startup` | 1 client beside the poll, 8 bundles, 10 requests, 4 group versions | `TypeOK`, `ReadyMeansUsable`, `GroupsOnce`, `LogAsAsked`, `LogNotFoundIsTrue`, `StartEnds` |
| `Session_all` | 3 commands x 3 kinds of location | `TypeOK`, `DirectoryKept`, `CleanAfterServing`, `FilesLiveWhileServing`, `ShellTidies`, `ShellRemovesBundle`, `ArchiveLostOnlyEarly`, `InterruptEnds`, `ShellEnds` |
| `Session_archive` | an archive, `serve` and `shell` | `ArchiveKept` is violated |
| `Pty` | 2 terminal sizes, shells that echo 2 or 3 units | `TypeOK`, `NoLostResize`, `NoSendOnClosed`, `SizeSettles`, `ReachesWait`, `EndsWithShell`, `CtrlDEnds` |
| `Pty_ctrl_d` | a shell that echoes 1 unit | `CtrlDEnds` is violated |
| `Bundle` | all archives of 1 to 3 of 14 entries, 9 directories with 2 names | `TypeOK`, `ExtractedSoFar`, `ExtractsIffSound`, `FoundIffThere`, `NotNested` |
| `Bundle_root` | one directory with two `cluster-resources` | `RootMost` is violated |
| `Download` | 2 downloads of bundles of 2 and 1 parts, an earlier file of 3, 128 environments | `TypeOK`, `ReportedIsWhole`, `EarlierFileKept`, `TokenSent` |

Why the bounds are enough. Handlers share only the file system and read it, so a
second client matters only to the property that relates two answers. Two
namespaces give the merge its three cases (none, one, several files), and a
deletion before, between and after them; three objects give equal names in two
namespaces and two names in one. The five bundles hold each JSON form, each kind
of fall-back, an empty directory beside a file, and each way to fail. The eight
bundles of `Startup` are those of a server that starts, with each log missing or
unreadable, and each reason for which the poll never succeeds. `Session` is
finite as it stands. In `Pty` two sizes tell a stale size from the current one,
and the echoes are what `Skipped` throws away and one unit more. Three entries
are enough for a repeat, for a file and a directory of one name in either order,
and for an entry that goes wrong after two that did not; the paths put
`cluster-resources` at depths one to three, one within another, and as a file; among
the user's directories one has it empty, and four have a link: the bundle's location,
a directory on the way, `cluster-resources` itself, and one beside a bundle.
Two downloads are enough for one to empty the file of the other; an earlier file
that is longer than both shows what is left of it.

The runs do not check for deadlock: the process ends, each client makes one
request, and `serve` waits for an interrupt that need not come.

### Fairness

Every system call is taken to return, and Go to run a runnable goroutine: weak
fairness of each handler (`EveryRequestAnswered`), of the main and the signal
goroutine (`InterruptEnds`, `ShellEnds`), of `StartAPIServer` and the goroutine
that serves, and of the goroutines of `Pty`. Time passes (`Expire`). Strong
fairness is stated three times:

- `TimeOut`: when the poll's timer and the context are both ready, `select`
  chooses between them at random, so that the deadline is not passed over for
  ever however often a poll is answered in between.
- `SendFirst`: a goroutine that waits to send is handed the place the next
  receive makes, before a later signal can take it.
- `Stop`: `signal.Stop` waits for a moment without a signal in delivery; a user
  who resizes the terminal at every instant could deny it that, and does not.

Of the environment nothing is promised: no interrupt, no cleanup, no end of the
shell. The one exception is a shell that has been typed a Ctrl-D: `Shell` says
that it goes on to echo and to read.

### What the properties leave out

They deliberately stop where the code does. `ListCoversSurvivors` is
about lists whose files can be merged (`Mergeable`) - without that it is
`ApisListComplete`, which fails - and, while the bundle is deleted, not about
`<dir>.json` beside a directory of the same name. `FailuresExplained` is about
readable resources (`Served`) until the cleanup starts: from then on a file may
vanish between a check and a read and the answer is a 500. `AnswersAtOnce` asks
for an exact answer under the same two conditions. `GetAgreesWithList`
compares handlers that look in the same file; `/apis` gets of a resource in
`<name>.json` find it where the list, which only looks for a directory, answers an
empty list. It also stops at `Searched`: `/api/v1` lists cluster roles and their
bindings, but its get has no case for them and finds none (`server.go:279`,
`453-477`). kubectl asks for these under `/apis`. `CleanAfterServing` starts when `StartAPIServer`'s result is stored.
Before that an error makes `serve` leave the extracted directory, and both commands
always leave the downloaded archive; `shell`, which has deferred its cleanup,
removes the directory whichever step fails (`ShellRemovesBundle`), except one that
`downloadAndExtractBundle` has made and not returned. `LogAsAsked` says which log is answered while
nothing is deleted; during the cleanup the log may be gone and the file of
collection errors not yet. `ReportedIsWhole` is about downloads of one bundle:
two of different bundles mix in the one file, for which the code does nothing and
promises nothing. `NotNested` is what the shortest path does guarantee, and less
than the comment beside it claims (`RootMost`).

`FoundIffThere` says what the search takes for cluster resources, which differs
with where the bundle comes from. It takes any directory of that name, so that an
empty one counts in a directory of the user's; of an archive only regular files
are extracted, so that a directory entry alone does not. It follows no link: when the
location given is itself a symbolic link, spelled without a slash at its end,
`os.Stat` takes it for a directory and the walk visits just the link, and the command
fails for want of cluster resources. `LengthOfRoot` supposes a location spelled
as `filepath.Clean` would, without that slash: with one, a bundle's own directory
called `cluster-resources` has a longer string than the model gives it.

`TokenSent` allows either of `REPLICATED_API_TOKEN` and the profile's token. The code
looks at the variable first, also when `--profile` is given (`token.go:19`); the
comment above it (`token.go:11-13`) names the flag, `SBCTL_TOKEN` and the
configuration only. `CleanAfterServing` and `ArchiveLostOnlyEarly` take a torn string
to name nothing; half of a location could by coincidence be the path of something
else, and would be deleted. That a server which stops ends the process
(`server.go:146`) is one action, `ServePanics`, and no property.

A definition commented "Mutant:" is a plausible bug of the definition after it;
no specification uses it. `PROJECT.json` pairs each property of a passing run with
one that violates it.

### Disagreements found

1. `ApiServer_custom`: `getAPIsClusterResources`, commented "This one below here
   needs to stay complete", loses all files but the last of a resource outside
   its switch (`server.go:1060`).
2. `ApiServer_cronjobs`: `getAPIsNamespaceResource` says "we cannot return a
   batch/v1/cronjobs object" for batch/v1beta1, and does (`server.go:1359`).
3. `Session_archive`: "let's make sure we don't mess up user's real files", but
   between `deleteBundleDir = true` and the result of `os.MkdirTemp` an interrupt
   deletes the user's archive (`serve.go:81`, `shell.go:106`). There is no other
   way to lose it: `ArchiveLostOnlyEarly` holds, and is proved.
4. `Bundle_root`: "We want the one at the root, so find the file with the
   shortest name": a `cluster-resources` deeper in the tree has the shorter path
   when the names above it are short enough (`support-bundle.go:102`).
5. `Pty_ctrl_d`: "Press Ctl-D when done to exit from the shell", but until the
   shell has written twice the length of the set-up nothing the user types is
   passed on; a shell that echoes it once and has a short prompt, such as dash,
   never writes that much (`shell.go:206`).

## What is proved

The theorems hold for every value of the constants that satisfies the named
assumptions, with any number of clients, entries, objects and sizes.

**ApiServer** (selectors match objects, the empty one all of them; files lie in
the bundle's directories; a request has a namespace exactly when its route does):

- `TypeCorrect`: `Spec => []TypeOK`. By one step per action, from lemmas on
  `Decode`, the two filters and `Merge` returning values.
- `ListsAreSound`: `Spec => []ListSound`. The property speaks of answers only; the
  invariant also bounds the list being built, and ties a handler's current
  directory and file to its request.
- `ListsAreComplete`: `Spec => []ListCoversSurvivors`. The invariant says of each
  program counter where a handler that started from an intact bundle must be
  looking, that every surviving file is still to come, being read, or already in
  the result, and that the result has the one type the files decode to, so that
  the merge never replaces it.
- `FailuresAreExplained`, `GetsAgreeWithLists`: `Spec => []FailuresExplained`,
  `Spec => []GetAgreesWithList`. Both properties speak of answers given at
  different times, so the invariant (`ExactInv`) has to say what an answer says of the
  bundle, not of the files as they were then. While there is no cleanup, the files
  are the bundle's (`Intact`); after its probes each handler is in the
  directory the request's objects are in (`Settled`), and a list's loop has
  gathered exactly the chosen objects of the files it is through with
  (`Gathered`). Hence each response is `Right`: it holds the objects the bundle has
  for the request, and fails only if the request or one of its files is at fault.
  Two answers that are right about one bundle agree.
- `ImplementsListing`: `Spec => AnswersAtOnce`, the refinement. `StartCleanup` is
  `Delete`, `Exit` is `Exit`, a step that replies is `Answer`, and each other
  access to the disk, each removal of a file included, is a stutter. That a reply
  is one `Listing` allows follows from `Right` and the soundness of lists
  (`MatchInv`).

**Session**, with any of the commands and locations: `TypeCorrect`,
`DirectoriesAreKept` (`DirectoryKept`) and `SessionsCleanUp`
(`CleanAfterServing`). `SessionInv` has five parts: what never happens to a
directory (`Kept`), what the shared variables name at each step before the server
runs (`Owned`), what the main goroutine (`Serving`) and the signal goroutine
(`Handling`) have already removed, and where each can end (`Ending`). Two
goroutines removing the same files is harmless because neither creates any once
the server runs. `ServedFilesLive` (`FilesLiveWhileServing`) adds which goroutine
may have removed what (`Living`), `ShellsTidyUp` (`ShellTidies`) which deferred
calls are still to run (`Tidying`). `ArchivesAreLostOnlyEarly`
(`ArchiveLostOnlyEarly`, an action property) and `ShellsRemoveBundles`
(`ShellRemovesBundle`) need what `deleteBundleDir` and `bundleDir` hold
together at each step (`Marking`): for an archive, `bundleDir` names the user's file
while the mark is set only around `os.MkdirTemp`, and whenever the extracted
directory exists, either that is so or both variables name it. `Leaving` then says
that the deferred cleanup is past it at the end.

**Startup** (the bundle's groups and files have their types; a group with the core
version holds nothing else): `TypeCorrect`, `ReadyServerIsUsable`,
`GroupsDiscoveredOnce`, `LogIsTheOneAskedFor`, `MissingLogIsMissing`. A server is
announced only after a poll of `/api/v1` was answered 200; since the answer
is a function of a bundle that has not changed, later clients get the same
(`StartInv`). For `GroupsOnce`, dropping the groups that are just `v1` drops
exactly the version `v1` (`FilteredVersions`), which uses the assumption. The log
file a handler has not found stays gone while it looks for the other (`LogInv`).

**Pty** (any sizes, any shell): `TypeCorrect`, `ResizesAreNotLost`,
`ChannelIsNotSentOn`. A dropped signal is harmless because it finds another in
the channel, whose resize reads the size later (`ResizeInv`); the channel is
closed only after `signal.Stop`, from when on no signal is raised (`SignalInv`).

**Bundle** (paths closed under ancestors, the two assumptions on their lengths,
user's directories that are trees, links included): every invariant of its
run.

- `TypeCorrect`; `FoundIsNotNested` (`NotNested`): the directory kept is the
  shortest of those visited (`WalkInv`, about the `Candidates`, which are not behind a
  link), and one that lies in or beside another on its way to the root is
  longer than it. What lies above or beside a directory the walk has reached is
  reached too (`AboveIsReached`).
- `ExtractionIsTheArchive` (`ExtractedSoFar`): at each entry the files are those
  of the entries before it, and while one is copied, its own (`FilesInv`); the
  directories are those on the way to a file or to the one about to be created
  (`TreeInv`).
- `ExtractionFailsIfUnsound` (`ExtractsIffSound`): a failure names the entry it is
  for, and for `MkdirAll` and `OpenFile` the earlier entry it contradicts, by
  `FilesInv` and `TreeInv`; conversely, no file of a tree lies below another, so
  no two entries of a completed archive do (`SoundInv`).
- `SearchFindsWhatIsThere` (`FoundIffThere`): a search has found something exactly if
  there are candidates. In an extracted archive there are no links, every directory
  but the bundle's own is on the way to a file, and everything on the way to a file is
  a directory, so that the candidates are those on the way to an entry's path; the
  tree of a directory of the user's stays as it was.

**Download** (any number of downloads, bundles and configurations):
`TypeCorrect`, `TokenIsSent` (`TokenSent`: what `resolveToken` takes is chosen, by
`ResolvedIsChosen`, and kept), `EarlierFileIsKept` (`EarlierFileKept`) and
`ReportedFileIsWhole` (`ReportedIsWhole`, of downloads of one bundle). For it, `FileInv` says how far a
download has come (`Progress`) and that the parts written since the file was
emptied last are in it, whichever download wrote them (`Written`): the others write
the same parts at the same places, and none writes beyond the end.

Only model-checked are the liveness properties (`EveryRequestAnswered`,
`InterruptEnds`, `ShellEnds`, `StartEnds`, `SizeSettles`, `ReachesWait`,
`EndsWithShell`, `CtrlDEnds`), since the prover does not reason about
fairness. Every other property of a passing run is proved.

## Not modelled

- Table rendering: `toTable` lays the objects of an answer out by a printing
  library, and answers the objects as they are when that fails. `ApiServer`'s
  answers are sets of objects, which both layouts hold. `crdPrinterColumns` reads
  one more file for it, whose absence changes columns and never rows.
- Request logging and the command line: they print and register, and keep no
  state another part reads.
- `selfsubjectaccessreviews`, which answers what it is sent; the order of items
  in a list; the kinds `Decode` stamps on items and the wording of errors: no
  handler decides by them.
- The contents of files and responses beyond what the properties tell apart: the
  objects of a file, the group versions it names, the parts of a download.
- The number of open files and connections: any call may fail for want of them.

## Plan

Composition of `Session` with `Startup` and `ApiServer`: a handler dies only by
`os.Exit`, and the bundle it serves is the one the session extracted.
