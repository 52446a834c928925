# A TLA+ model of bottle

`bottle` is the Go library behind the zpkg tools. It publishes prebuilt packages ("bottles") to an
OCI registry, finds, resolves and verifies them, and installs them into a store that many machines
may share. This directory holds TLA+ modules translated from its source, the TLC configurations
that check them, and the theorems that TLAPS proves about them. `PROJECT.json` maps every
definition to the lines it models.

    tlc -workers 2 -config StoreShared.cfg MCStore      # one run
    tlapm StoreProofs.tla                               # the proofs of one module

## Inventory

The package is one flat directory. Its parts, by what they keep and what they do:

| part | source | state it keeps | operations | hard because |
|---|---|---|---|---|
| publishing | `oci.go` (`push`, `pushReferrer`, `mergePlatformIntoIndex`), `ensure.go` | layers, manifests, referrers, platform tags and the version index, all in a registry | `Push`, `PushWithReferrers`, `EnsureIndexed` | one job per platform rewrites the same index, and the registry has no lock or compare-and-swap |
| registry reads | `oci.go` (`PullFile`, `resolvePlatform`, `ListTags`, `VerifyBottleDigest`) | none | pulls, listings, annotations | caches and mirrors may lag, lie or fail |
| blob transfer | `blobfile.go`, `blobfile_disk.go`, `fetchblob.go` | one staged file, an offset, a retry counter | `fetchBlobFile` | transfers are cut, resumed, restarted, or continued with other content |
| bottle fetch | `pkgx.go` (`fetchBottle`, `verifyPulledDigest`) | the staged file it returns | fetch through a cache, an OCI dist or an HTTP dist | bytes of one registry checked against signatures of another; partial failure falls through |
| bottle store | `pkgx.go` (`InstallFor`, `renameOrExplain`, `writeABILinks`), `storepath.go`, `storeplatform.go`, `store.go` | directories, the platform marker, ABI links; views outside it | install, resolve a path, link a view, report what a lock keeps | shared by concurrent, unlocked processes that may die anywhere |
| install and stubs | `closure.go`, `closure_macho.go`, `glibc.go`, `install.go` | the closure being completed; stubs, loader and shell in a prefix | complete a closure round by round, write stubs | cycles, kernels, outages, closures that share bottles |
| extraction | `extract.go`, `decompress.go` | a directory being filled | `Extract` | links and names in archives |
| trust | `trust.go`, `verify.go`, `attest.go` | the trust set, read from the environment; attestations in registries | attach, mirror, count distinct trusted signers against a threshold | listing order, duplicates, revoked keys, a tag that moves |
| versions | `pkgx.go` (`ParseVer`, `cmpVer`, `satisfies`, `selectVersions`), `versionstring.go`, `notpublished.go`, `fromtags.go` | none | parse, compare, constrain, select | two spellings of one version; flavors, rebuilds and variants; listing order |
| resolution | `pkgx.go` (`collectGraph`, `ResolveClosureFor`, `pickVersionForAll`), `abilines.go` | the walk's queue and sets | constraints, then versions | cycles, conflicts, two ABI lines of one project |
| build identity | `concrete.go`, `concretewire.go`, `distinguish.go` | an annotation beside a tag | hash a build's inputs, check a description, meet constraints on options, tell builds apart | anybody may rewrite an annotation; a hash stands for its inputs |
| build records | `builds.go`, `buildorder.go` | none | join store and registry, order, name a build by a prefix | two sources read at two times; a partial order given to a sort |
| catalogue | `catalog.go`, `search.go` | one signed document in a registry | publish, fetch, browse, search, trees of dependencies, reasons | cycles, diamonds, names that are not listed, forged documents |
| withdrawn, deprecated | `withdrawn.go`, `deprecated.go`, `deprecatedlines.go` | lists read from files | rank and set aside versions and builds | precedence of rules |
| locks | `lock.go`, `store.go` | a file | write, read, say what of a store is live | names compared as strings |
| recipes | `hcl.go`, `hclfuncs.go`, `yamltohcl.go` | none | parse and translate | text |
| sources, services, platform, configuration | `source.go`, `service.go`, `config.go`, `host.go`, `certs.go`, ... | none | pure functions, glue | little |

How they interact: a factory job calls publishing for each platform of a version, and an
`EnsureIndexed` pass follows the batch. A user's command resolves a closure (catalogue, versions,
recipes), and `InstallFor` calls `fetchBottle` for each bottle. `fetchBottle` pulls a blob by
resumable transfer from the cache or the dist, checks it against the signatures the dist
advertises, and hands it to the store, which unpacks it and renames it into place. Processes share
nothing in memory: they meet in the registry's index and in the store's directory.

What makes each part correct:

* publishing: nothing is named before its attestations are there; whoever was told that its
  platform is published stays listed; platforms of older releases are kept;
* transfer and fetch: what is accepted is one blob from end to end, and the signed one; a dist that
  can serve is not refused because of a cache or of cut transfers; nothing staged is left behind;
* store: directories appear whole, once and for good; success means that what was asked for is
  there; aliases are not lost;
* trust: the verdict is a function of the set of attestations; a key counts once and a revoked one
  never; what is attached later takes no acceptance back;
* completion and stubs: what a closure lacks is brought or said, nothing else is brought, and a stub
  finds what its program loads;
* builds: a listing has each build once, drops none for a sibling, and says of it what its hash was computed from; a prefix that
  named a build does not come to name another;
* catalogue: the trees are whole, the reasons are real and shortest;
* versions and resolution: the answer does not depend on listing order, satisfies every
  constraint, and closes under dependencies and needed libraries.

## Modules

| module | models | theorems in |
|---|---|---|
| `IndexPublish` | publishing: one action per registry call | `IndexPublishProofs` |
| `VersionListing` | what a version tag promises its readers (abstract) | |
| `BlobTransfer` | the resumable transfer of one blob, as operators and actions over its state | `BottleFetchProofs` |
| `BottleFetch` | `fetchBottle`, composed with `BlobTransfer` (EXTENDS) | `BottleFetchProofs` |
| `Store` | concurrent `InstallFor`, the paths, marker, ABI links and views | `StoreProofs` |
| `BuildStore` | what a store promises its readers (abstract) | |
| `Versions` | which version a set of constraints resolves to | `VersionsProofs` |
| `Resolve` | the walk over the recipes, a version for each project, the split into ABI lines | `ResolveProofs` |
| `Trust` | attaching, mirroring and counting signatures while tags move | `TrustProofs` |
| `Completion` | `CompleteClosureFor` on both binary formats | `InstallProofs` |
| `Stubs` | what is staged for a completed closure (EXTENDS `Completion`) | `InstallProofs` |
| `Ranking` | sets and parts of sequences put in an order, as operators | `BuildsProofs` |
| `Concrete` | the identity of a build, as operators: canonical form, annotation, options, lines (EXTENDS `Ranking`) | `BuildsProofs` |
| `Builds` | the listing of the builds of a version (EXTENDS `Concrete`) | `BuildsProofs` |
| `Locks` | locks and the report of what they keep, over the store and registry of `Builds` (EXTENDS) | `BuildsProofs` |
| `Catalogue` | the catalogue: published, fetched, browsed, searched, walked (EXTENDS `Ranking`) | `BuildsProofs` |
| `MCIndexPublish`, `MCBottleFetch`, `MCStore`, `MCVersions`, `MCResolve`, `MCTrust`, `MCInstall`, `MCBuilds`, `MCCatalogue` | instances for TLC | |

### IndexPublish

State in the registry: `layers`, `manifests`, `referrers`, `tags` (the platform tags
`<ver>--<os>-<arch>`) and `index` (the version tag). Each publisher has a `pc`, the index it is
composing (`idx`), the tags it has still to resolve (`todo`) and its `attempt`. `PushLayer`,
`PackManifest`, `PushReferrer` and `TagPlatform` are `push`. `ReadIndex`, `ListTags`, `FetchTag`,
`WriteIndex`, `Verify` and `Confirm` are the loop of `mergePlatformIntoIndex`: read, merge every
platform tag over what was read, put oneself in, write, read back, wait (`indexSettle`), read
again. `EnsureIndexed` looks once more and, if need be, enters the same loop. `Abort` is the death
of a job between any two calls (a call whose reply is lost is the call followed by `Abort`), and
`Rerun` starts it over. `racers` is auxiliary: the writers in flight when a settle window opened.
`env` fixes for one behaviour which reads may fail, whether jobs die, whether the settle window
outlasts the writes in flight, and whether `EnsureIndexed` runs after the batch, as its comment
asks.

`Secured` is the set of publishers that may rely on being listed: those that `EnsureIndexed`
answered, and where the settle window suffices also those that `push` answered. Both need that
reads do not fail.

### BlobTransfer and BottleFetch

A blob is a sequence of blocks. `Responses(offset)` is everything a registry may answer to a range
request: a refusal, the whole blob from its start (200), the rest (206), each of them complete or
cut anywhere, and each possibly of another blob. `HonestResponses` is what a registry that has the
blob and honours ranges may answer: at least one more block, the last one only in a transfer that
ends well. `Receive` writes a response where the file ends, or from the start after a 200;
`Resumes`, `GivesUp` and `NextAttempt` are the retry loop, and `Intact` the size and digest checks.
`parts` is auxiliary: the blobs whose pieces are in the file (`Origins`), which only the registry
knows. With it `PiecesBelongTogether` speaks of a file that nobody has checked yet: as long as all its
pieces are of one blob, it is the beginning of that blob, as long as is counted.

`BottleFetch` adds the configuration (`verify`, `oci`, `cache`), the cache first and then the dist,
the check of `verifyPulledDigest` against what the dist signed (`Verified`), the removal of the
staged file on each exit (`Discard`), and the plain HTTP path with its codecs. Errors of the local
disk while the file is rewound and hashed are left out.

### Store

State on disk: `store` (the tree in each directory, `v<version>` or `v<version>-h<hash>`), `marker`,
`abi` (the `abi-<soname>` links) and `view` (the `v<version>` links of a view outside the store).
`Mark`, `WriteMarker`, `CheckPrefix`, `Fetch`, `Extract`, `Rename`, `Annotate`, `Unlink` and `Link`
are `InstallFor` in its order; every call on shared files is a step of its own. Unpacking into the
private temporary directory is one step that is seen only through what the rename moves. `Fail` is
any error return, with the deferred removal; `Crash` is death, without it. `LinkView`,
`RemoveAlias` and `WriteAlias` are `LinkView`. `StorePrefix` contains `ResolveBuild`. A view is
modelled as holding links only; the refusal of a real directory in its place is not. Names of
projects are taken as valid: the early return of `ValidateProjectName` is left out.

### Versions

`listed` is what the registry lists, `here` what of it has a bottle for the platform, `other` what a
second distribution lists. A version string is its numbers, a letter and a rebuild counter; a tag
adds a leading `v`, a variant's hash and a glibc. `ListTags`, `NotCarried`, `ListingFails`,
`Selected` and `OtherLists` are `versionsForSourced` with its fallbacks. `Consider` is one turn of
the loop of `selectVersions`, for the tag the registry lists next, whichever that is; `SameKey` is
`numericKey` and `Supersedes` is `supersedes`. `Unsatisfying`, `Ambiguous`, `NotHere`,
`LookupFails`, `Take` and `GiveUp` are the turns and the end of the loop of `pickVersionForAll`,
newest first, equal versions in any order (the sort is not stable). `TagSpellings` and `Turn` are
`tagSpellings` and the order of its result. Tags that `isVersionTag` refuses are not among `listed`;
leading zeros, and what may follow a letter, are left out.

### Resolve

`asks` is who asks for what under which constraint (`Requested` is the user): the recipes, which do
not depend on versions. `registry` is what the platform has of each project, its end-of-life
versions, the libraries (sonames) each version declares, and whether every call succeeds and no
version is ambiguous (`reliable`); both are chosen once. `Skip`, `Visit` and `Unread` are the loop
of `collectGraph`, with `Added` and `Blamed` for its closure `add`, which fills `constraints` and
`askedBy` side by side; `Walked` ends it. `PickOne`, `Unsatisfied` and `StartSplit` are a turn of the
loop of `ResolveClosureFor`. `Join`, `TryNext`, `Alone` and `DeadDemand` are `partitionConstraints`,
one pick at a time, and `OneGroup`, `NextLine`, `NoLine`, `Hold` and `Overlap` are `pickABILines`
with `sonamesDisjoint`. A pick is the newest version that is published and meets the demands,
supported lines first, which is what `AnswerIsNewest` says of `Versions`; without `reliable` each
pick may fail or succeed. `closure` is a set of versions per project: the order of the lines, which
decides who leads on PATH, is left out, as are the edges that `GraphFor` keeps for display.
`Sorted` is `sortedKeys`, any enumeration of a set of projects.

### Trust

Each of two registries (`origin`, `mirror`) has a `tag` and the referrers of each manifest (`refs`).
`Republish` moves the tag, `AttachReferrer` attaches to a manifest whether or not it is still named,
`FetchAttestations` and `MirrorPush` copy a manifest with its attestations. The client does `Load`
(`LoadTrustSet`: its keys are the defaults or those of the environment, then extra ones, a revoked
one among them allowed), `Resolve`, `List`, `Fetch`, `Count` for one signature after another in any
order, `Counted`, and for a listing by tag `BuilderFrom`; it may `Ask` again, and `CallFails` is any
registry call that does. A signature is by one key over a payload that names one bottle; the key id
beside it is what its pusher wrote, and is only tried first. A referrer may lack its layer or its
annotation. `vouched` is auxiliary: what was accepted, where.

### Completion and Stubs

A bottle has a version, what its binaries load (`Needs`, or on darwin `Refs`), what lies in its lib
directories (`Ships`) and what its manifest lists (`Declares`). `Resolve` is the resolver's answer and
`InstallDeclared` the installation of it; then, by rounds, `Scan` looks once at what is loaded and not
offered, `Implicit` resolves and installs the implicit roots (the C runtimes, the C library pinned to
one that the kernel runs), `ProvideSoname` or on darwin `ProvideReference` looks for a provider of one
missing name after another in any order, and `EndRound` goes on while something was added and rounds
remain. `Outages` are bottles that cannot be had while one is looked for. On ELF a soname is looked
for in the closure; on Mach-O a reference is looked for in the whole store, through links that lead
to directories without a hash. `Newest` is the newest of a set of bottles; `ResolveClosureFor` answers
with the newest of each root and what those depend on, one version of a project; and `Ordered`, given
as a constant, puts the bottles of such an answer in an order, as the resolver does.

`Stubs` writes the stubs of the closure, bottle by bottle (`StubBins`), over those an earlier closure
left in the same prefix, with the library path of this closure, and then the loader and the shell
(`SetupScratchRootfs`). What the code does that one may not expect, and the model keeps: bottles
that an implicit root brings are not in `installedVer` (`recorded`), so one may be appended twice; a
want is known by project and soname, whether it goes through a major or an ABI line; the loader is
looked for in the whole store; eight rounds end in silence; a stub that cannot be written is
gone by then, those before it stay and the rest is given up (`StubBinsStops`).

### Concrete, Builds and Locks

`Concrete` has no state. `Canonical` writes every part with its length before it, of which the count
of a list of values is what a mistake could lose; `Hash` is a function of that form without
collisions; `SpecOf` and `VerifySpec` read an annotation and check it against the hash of the tag;
`ParseConstraints` and `Satisfies` are what is asked of options, and `Distinguish` the lines of
several builds. What the code sorts or filters is given by the places of its elements (`Ranked`,
`Kept`): each stands behind as many as come before it, equals in the order in which they came.
`BuildsAssumption` asks that specs and questions are made of `Words`, and that tags, directories and
withdrawals have the form the code gives them; of what is written or published it asks nothing else.

`Builds` lists the builds of one version call by call: `ListInstalled`, `ListPublished` (which may
fail and then leaves what is here), `Describe` for one row after another, `Return`. What is listed
as published is what `VersionsFor` answers with: the tags of the registry, of any platform, folded so
that one spelling of each build is left (`SelectVersions`, for every order in which they may be
listed, `OneBuild` being the equality of `numericKey`), of which the code then keeps those that are
spelt as the version is; or, where the registry has no tags, the versions of the second distribution.
The dist is taken to be a registry; one over HTTP has versions without hashes only.
Then a part of a hash may be given (`Name`), while others `Push` a tag or another annotation and
`Install`. `SortBuilds` is the stable sort, each row taking its place among those before it
(`Insert`), with the rank that replaces the partial order of closures. `WithdrawalOf` and
`PreferNotWithdrawn` say which builds are set aside and why. A directory of an older release, which has no hash, makes `BuildsOf` panic
(`"panicked"`).

`Locks` adds `TakeLock` (a version that is published is locked, written and read back by
`RenderLock` and `ParseLock`), `ReadLock` of any file, and `ScanStore` and `LiveFromLocks` over the
store of `Builds`. A version is a tuple there, so that the name of a directory, which has a hash,
is another string than a version.

### Catalogue

`published` is the signed document behind the moving tag, `held` what a reader took of what a
registry served (`FetchCatalog`: signed and readable, or nothing). `DepTree` begins a tree downwards
or upwards; `Visit` shows the next name of the innermost level (its recursion is `walk.stack`), whose
fresh names were marked when the level was entered (`Level`); `Ascend` leaves a level. `WhyDepends`,
`Look` and `NoReason` are the breadth-first search with its queue and predecessors, and `Retrace` is
one step of the way back along these. `Children`, `Complete`, `ProvidersOf` and `Search` are operators
over the document. `Search` puts the query into lower case (`Lower`) and `Score` compares it with
names and summaries in lower case but with commands as they are. `MarshalCatalog` sorts projects and
the platforms of each, and writes an empty list as `null`, which `UnmarshalCatalog` takes, without a
date, for no catalogue at all. A string is a model value with a place in an order (`TextOrder`) and
the relations `Begins`, `Inside` and `InName` between strings; a name is the sequence of its
segments. That `displayText` strips control characters from what is shown is left out. What is
needed by a project, or needs it, is a set that is gone through in the order of names (`ByName`):
`CatalogueAssumption` asks that a factory lists a project once, and what that needs once, as a recipe
does. Of a hand-made document that repeats a dependency, `walkGraph` would show it, and all that is
below it, as often.

## Runs

| run | states | shows |
|---|---|---|
| `publish_all` | 312k | two publishers, one with two attestations and one with one, beside a platform that predates platform tags; four environments, deaths anywhere, one rerun each: `AttestedBeforeListed`, `SecuredListed`, and the refinement `ListingKept` |
| `publish_race` | 78k | three fair publishers on a new version and a settle window that is too short: `ReconcileConverges`, `EventuallyListed` |
| `publish_legacy_lost` | violation | one failed read of the index drops the platforms that have no platform tag |
| `fetch` | 26k | a fetch in every configuration: `ResumesAtEnd`, `PiecesBelongTogether`, `OnlySignedAccepted`, `ServedWhenServiceable`, `StagedOnce`, `FetchEnds` |
| `store_shared` | 324k | two installers and two viewers on an empty, a hashed and an unhashed store: `InstalledWhole`, `Answered`, `ViewKept`, and the refinement `OnlyGrows` |
| `versions` | 120k | every listing of no, one or two of ten tags, or of those beside 1.0, in every order and with every choice of bottles: `SelectionOrderFree`, `AnswerIsNewest`, `TagNamesPick`, `PublishedIsFound` |
| `resolve` | 37k | an application, its dependency and a contested library in every graph of them: `WalkComplete`, `BlameRight`, `EveryDemandMet`, `OnlyForCause` |
| `trust` | 1.3M | attestations by a key of ours, a friend's and a revoked one, in three configurations: `VerdictIsCount`, `AcceptedStays`, and the action property `MirrorIsWhole` |
| `install` | 11k | closures completed and staged one after another on five machines: `NeverSilent`, `NothingInVain`, `KernelRuns`, `StubsRun`, and `Completes` |
| `builds` | 30k | listings of builds while others publish and install: `NothingOverlooked`, `DescribedTruly`, `NamesHold`, `OrderStands`, `ChosenSoundly`, `RowsTellApart` |
| `locks_live` | violation | a version is locked and a build of it installed, and the report calls it dead |
| `catalogue` | 96k | trees, reasons, names and search in every graph of ten dependencies: `WholeTree`, `ReasonIsShortest`, `Browsable` |

The type invariants of the modules with proofs, `LegacyKept`, `TemporaryGone` and `LinesApart` are in
no run: the theorems below establish them for every instance.

### The two disagreements that are run

* `publish_legacy_lost`: `fetchOrNewIndex` (`oci.go:1089`) takes any failed read of the version tag for
  a version nobody has published; what has no platform tag is dropped from the index by the next
  write, although `oci.go:980` says that the contents are still merged in.
* `locks_live`: `LiveFromLocks` (`store.go:211`) compares the version of a lock with the name of a
  directory, and since every directory has a hash in its name, nothing that is installed today is
  ever live, although `store.go:189` says that a lock is a root set.

### Disagreements met and not run

Met while translating the code, with the model following the code; no run is spent on them.

* `oci.go:1018`: `indexHasManifest` compares digests and not platforms, so of two platforms whose
  bottles are the same bytes one may be missing and be reported as listed. `OneJobPerPlatform` in the
  proofs excludes this case.
* `pkgx.go:2098`: with two builds of a version installed, an install whose prefix is ambiguous may
  succeed without the prefix it asked for being there.
* `pkgx.go:2470`: an ABI link names `v<version>`, and installs create `v<version>-h<hash>` only.
* `pkgx.go:1501`: the shorter spellings of a version are rebuilt from its numbers, without its letter:
  1.1.1w may be answered with the bottle of 1.1.1.
* `pkgx.go:1828`: a pick that failed because a call failed starts a split like one whose demands
  exclude each other.
* `trust.go:363`: the threshold is compared with all configured keys, revoked ones included, although
  `trust.go:335` says that one nobody could meet is refused.
* `closure_macho.go:339`: completing a Mach-O closure for another platform asks for the bottles of the
  host; `closure.go:344` says that all happens in the target's terms.
* `install.go:274`: of two lines of a project the one that comes last, the older, owns a program that
  both have; `abilines.go:40` says that the newest leads.
* `builds.go:112`: a directory without a hash makes the listing panic (`storepath.go:113`), while
  `install.go:171` expects such directories.
* `builds.go:122`: a bottle published under a bare tag is installed in a directory named by its digest
  and is listed as two builds.
* `distinguish.go:69`: two builds that differ by recipe only get the same line when a third, or one
  that nothing describes, differs from them in something else, although the comment above it says that
  the recipe must not be silent. `RowsTellApart` asks for the recipe in every other case.
* `builds.go:187`: where the registry has no tags of a project, the versions of the second
  distribution are listed (`pkgx.go:869`) and marked as published, although `builds.go:27` says that
  this means that the registry carries it.
* `builds.go:194`: a listing keeps one spelling of a build (`pkgx.go:1137`) and is then searched for
  the one that was asked for, so that a build which is published under both may be missing, although
  `builds.go:90` says that every build is listed. `NothingOverlooked` excuses a tag only while another
  spelling of the very same build is there; and since a part of a hash may name another build while
  one is missing, `NamesHold` has the condition that no build with a hash is spelt twice, which the
  comment of `MatchBuild` (`builds.go:289`) does not.
* `builds.go:91`: the builds are said to be those published for a platform, and tags span all of them
  (`pkgx.go:830`).
* `pkgx.go:1099`: of two tags of one build with a hash the first that is listed is kept, although the
  comment above says that the choice never depends on the order. In `Versions` the hypothesis
  `OneSuffixedTag` excludes it; `SelectVersions` in `Builds` allows each.
* `search.go:102`: a command is compared as it is with a query in lower case (`search.go:69`), so that
  one with a capital is never found as an exact match, although `search.go:50` says that a command
  called exactly what you typed is what you meant, every time. `Browsable` puts first those that have
  a command spelt as the query is in lower case.
* `concrete.go:497`: an exact request compares numbers of values, repeated ones included, so `x:=1,1`
  is met by a build whose `x` is 1 and 2, although `concrete.go:484` calls `:=` an equality. No
  question of the `builds` run repeats a value.
* `buildorder.go:53`: since dominance is not transitive, a build may stand before one that is later;
  `OrderStands` states what the rank does give.
* `catalog.go:391`: under a depth limit a project that is marked at the limit is a repetition where it
  is nearer, so a part of the tree that is within the limit is not shown. `WholeTree` states the whole
  tree only without a limit.
* `catalog.go:470`: the comment says that versions and platforms are sorted (`catalog.go:464`), and
  versions are left in the caller's order.

### Bounds, and why they are enough

* `publish_all`: two publishers are what every pairwise race needs; `MaxAttempts = 2` reaches both a
  successful retry and exhaustion (the code has `indexRetryAttempts`, a larger constant);
  `MaxReruns = 1` lets a job meet its own leftovers; the legacy platform has no job. `publish_race`
  has three publishers, because only a third makes two rivals clobber one publisher in turn, and as
  many attempts as publishers, which is the least with which `ReconcileConverges` holds.
* `fetch`: a blob of three blocks is cut at its start, in the middle and before its end; a second one
  of the same size that differs in the middle block, and a shorter one, let pieces of different
  blobs meet. `Retries = 2` lets a transfer be cut twice and finish.
* `store_shared`: one version with two builds (`cuda`, `plain`) and a bare tag that may have named
  either, so that requests with and without a build, equal or different, meet. One ABI and one
  platform are enough, because no property relates several. Installers, and viewers, are
  interchangeable, which is the symmetry the configuration declares; the one temporal property it
  checks is an action property. The dist says what it serves (OCI) or not (HTTP, where the
  directory's hash is that of the source).
* `versions`: the ten tags are one of each kind (a spelling shorter and longer, a higher release with
  a leading `v`, a rebuild, two variants, the host's glibc and another). Three tags of one build
  are enough for an order to matter beyond a pair, and two rivals beside 1.0 are enough for a best
  candidate to be absent, deprecated or deleted. The five requests use every operator, an
  alternative and two constraints at once.
* `resolve`: the application and its dependency may ask for each other, the library may ask for the
  application, and all three (with the user) may ask for the library: cycles of two and three
  projects, a diamond, and projects queued twice. The demands `old`, `mid` and `new` on three
  versions agree, overlap in one version, or exclude each other, and three demands make groups of
  more than one. The newest version has libraries of its own or not, and the middle version may
  be absent or on an end-of-life line.
* `trust`: two keys of the project (one retired), a friend's and a revoked one; up to three of six
  attestations on one manifest: by two trusted keys with each other's key id, by the revoked key,
  over another bottle, without a layer, and a provenance statement. `MaxSignatures = 2` is reached and
  exceeded (the code has 32). The thresholds ask for two of three trusted keys, for one beside a revoked
  one, and for two where the one key there is was named twice.
* `install`: a library with two lines of which the second application needs the older, what that needs
  in turn, a runtime that has a dependency, three C libraries with floors for two kernels, a soname
  of the driver and one nobody ships; with and without what releases without hashes installed, with
  and without outages. `MaxRounds = 4` is one more than any of these closures takes (the code has
  8); `MaxTry = 2` is the number of lines of a library (the code has 40); `MaxInstalls = 2` lets one
  closure be staged over another.
* `builds`: six specs, of which two differ only in where a list ends, two in an option, and three are
  partly ordered, and a first one of another recipe; six worlds, with withdrawals of a version, of a
  build and of both, with tags for `1` and `1.0` of a build with and without a hash, and with a registry
  that has nothing, where the second distribution has the version or not. One push or
  install while two listings run (`MaxPushes = 1`, `MaxAsked = 2`) is what a stale listing needs.
  `locks_live` has no listing, since locks take no part in one (`Unlocked`).
* `catalogue`: ten possible dependencies, each there or not, among five projects and a name that is
  not listed make cycles of two and three, diamonds, chains and short cuts; depths none, two and
  three. Graphs are those of one document, so that nothing else is bounded. One project has a command
  with a capital, and one a summary, and they are searched for with and without capitals, with
  spaces, and with nothing.

Every run sets `CHECK_DEADLOCK FALSE`, because what it models ends: jobs, installs, fetches, questions
and listings.

### Fairness

`publish_race` assumes weak fairness of each publisher's steps: jobs are processes of their own that
run unless killed, registry calls are bounded by timeouts, and killing is switched off in that run
(with it nothing needs to be listed). `fetch` assumes weak fairness of the fetch: a single goroutine
whose calls return, with a response or an error. No fairness is asked of what a registry answers:
`FetchEnds` holds although each answer is chosen freely.
`install` assumes weak fairness of the installer once it was started (`Continue`): it is one goroutine
whose calls return; nothing is asked of when a closure is begun, or of what is out of reach. The other
runs state safety only.

## Proofs

The modules with theorems use no RECURSIVE operator; constants are constrained by one named
assumption per module (`PublishAssumption`, `TransferAssumption`, `FetchAssumption`,
`StoreAssumption`, `VersionsAssumption`, `ResolveAssumption`, `TrustAssumption`, `BuildsAssumption`,
`CompletionAssumption`, `StubsAssumption`, `CatalogueAssumption`), which TLC evaluates in the runs.
The theorems hold for every number of publishers, platforms, attestations, blocks, retries,
installers, viewers, versions, builds, tags, projects, demands, keys, bottles and rounds, and for
every catalogue, forgery and query. Where a theorem needs more than that, it is
a named hypothesis of the theorem, and this list says which.

* `IndexPublishProofs`: `TypeCorrect`, `AttestedBeforeListedHolds`, `LegacyKeptHolds`,
  `SecuredListedHolds` and the refinement `ListingKeptHolds`. Of the last two the hypothesis is
  `OneJobPerPlatform`: no two jobs share a platform or a manifest (two platforms with the same
  bytes would, see above). `SecuredListed` alone is not inductive. It has to be known that every index a rival
  is composing, once it has read the tags that it has still to read, contains the secured platform:
  either the rival's copy has the entry, or the tag is still in its `todo`, or it is among the
  `racers` whose writes the settle window waits out. `ReconcileConvergesHolds` is a counting argument
  (`RivalsInv`): only a write composed from a listing that predates a publisher's tag can leave its
  platform out, each rival has one such write in flight at most, and none starts another. So the
  rivals that are left, an overwriting not yet noticed and the attempts used up are together fewer
  than the publishers; whoever has as many attempts as there are publishers is listed. Its hypotheses
  are `OneJobPerPlatform` and that there are finitely many publishers.
* `BottleFetchProofs`: `TypeCorrect`, `ResumesAtEndHolds`, `PiecesBelongTogetherHolds`,
  `OnlySignedAcceptedHolds`, `ServedWhenServiceableHolds`, `StagedOnceHolds`. For
  `PiecesBelongTogether` every response is shown to leave a file whose parts are of one blob a
  beginning of that blob: a 200 replaces all of it, a 206 adds what lies behind the count, and a cut
  at any block leaves the count where the file ends. The invariant says what
  is held in each phase, that the file is as long as the count and a piece of the wanted blob where
  the registry is honest, what a result was checked against, and for `ServedWhenServiceable` that
  each cut attempt has moved a block, so that attempts never run out before the blob does.
* `StoreProofs`: `TypeCorrect`, `InstalledWholeHolds`, `AnsweredHolds`, `TemporaryGoneHolds`,
  `ViewKeptHolds` and the refinement `OnlyGrowsHolds`. The invariant adds that what is about to be
  renamed is whole and is the bottle that was fetched (`WorkInv`), that an installer past its rename
  has satisfied its request (`AnswerInv`), and that a viewer past its check links an installed build
  (`ViewerInv`); `StoreSteps` shows that only a rename onto an empty directory changes the store.

* `VersionsProofs`: `TypeCorrect`, `SelectionOrderFreeHolds`, `AnswerIsNewestHolds`,
  `TagNamesPickHolds`, `PublishedIsFoundHolds`, for any listing, requests and distributions. While
  tags are folded, the candidates are sound (each is a listed tag of this host, one per build) and
  cover what was read (each tag read is represented, by nothing that it beats); during the search
  every candidate that was tried and could be installed is on an end-of-life line, and the
  fallback is the newest of those (`SearchInv`). `SelectionOrderFree` has as hypothesis that a
  build carries one suffixed tag at most, since two exclude each other in the order of the listing.
* `ResolveProofs`: `TypeCorrect`, `WalkCompleteHolds`, `BlameRightHolds`, `EveryDemandMetHolds`,
  `LinesApartHolds`, `OnlyForCauseHolds`, for any recipes, registries and requests. The walk keeps
  what was visited or queued inside the least closed set of projects, and the demands equal to
  those of the visited (`WalkInv`); when the queue is empty, the visited are closed and so are that
  set. During a split each demand is still to be placed or in a group, and each line meets its
  group (`SplitInv`), so that the lines together meet all; what is chosen fits (`ChoiceInv`).

* `TrustProofs`: `TypeCorrect`, `VerdictIsCountHolds`, `AcceptedStaysHolds` and the action property
  `MirrorIsWholeHolds`. While signatures are counted, the signers found are the trusted vouchers
  among those counted so far (`CountInv`), so the order of a listing and repeated signatures do not
  matter; whatever was accepted has enough vouchers still attached where it was accepted, and so in
  every later listing (`VouchedInv`); a copy in progress has fetched all that was listed and can be
  carried (`MirrorInv`).
* `BuildsProofs`: `NothingOverlookedHolds`, `NamesHoldAlways`, `OrderStandsHolds`,
  `DescribedTrulyHolds`, `ChosenSoundlyHolds`, `RowsTellApartHolds` and `LocksImplementBuilds`, by
  which all of them hold beside locks. The comparison of hashes is a strict total order
  (`HashTotal`, `HashTransitive`), and arranging rows by how many stand before each has each of them
  once, in order (`RankedSorts`, `CollectSorts`). What a listing started from is still there and
  what a prefix named is known to every later listing (`CallInv`, `NamedInv`); the rows with a time
  are the installed ones, those marked published were published (`RowsInv`). `DescribedTruly` has
  `NoCollision` as hypothesis: no two specs that may be written have one digest unless they are of
  one build, which is what a digest is for and what `Canonical` must not defeat; TLC checks the
  latter. For `NothingOverlooked` a tag of the version that was there when a listing began is
  stood for in whatever the folding leaves, in any order (`StandsIn`), and what is left and spelt as
  the version is has its row (`PublishedRows`). For `OrderStands` the four orders are shown to be strict and total on rows with different
  hashes (`LessOrders`), which is what the sort needs; inserting keeps a sequence ascending
  (`InsertAscends`), so a sort has all that was sorted, ascending (`SortSorts`); two ascending
  sequences of the same rows are one (`OneAscending`); and ranks do not depend on places
  (`RankUnmoved`). A build that is later, and has nothing before it that is not before the other,
  has fewer above it (`LaterRanksBefore`). `ChosenSoundly` has as hypothesis `AskedOnce`: no exact
  request repeats a value, since with one that does it is false (`concrete.go:497` above). Of two
  tokens that contradict each other the closest two are neighbours among those of their name, so
  that the code, which compares a token with the last one of its name, sees them (`NoContradiction`,
  by the least distance); values without repetitions are known by their set and number
  (`SortedAlike`), so that what the code compares is what was asked (`MetIs`, `SatisfiesIs`). For
  `RowsTellApart` the axes are the same for every line, so parts of two equal lines stand in the
  same places (`PartsTell`), and what is on no axis is the same in all builds
  (`DifferingVariantsAre`, `DifferingDepsAre`). The recipe is the last resort: if no build of the listing
  differs on another axis, every line consists of it alone (`LastResort`, `NothingElse`), so two
  equal lines have one (`RecipeTold`).
* `InstallProofs`: `NothingInVainHolds`, `KernelRunsHolds`, `NeverSilentHolds` and `StubsRunHolds`. What
  was looked for is in the closure or was warned about, and in a round that has brought nothing all
  that is missing was looked for or is still to be (`SonamesInv`, `ReferencesInv`), so that a round
  that ends without a change leaves no gap unsaid. That nothing is brought in vain follows, since a
  bottle is taken only for a soname that was missing when the round began and stays for the reason it
  came for however the closure grows (`ReasonStands`). `NeverSilent` has as hypothesis
  `DarwinAtHome`, that a closure for darwin is completed on its own platform: the code asks for the
  manifests of the host (see `closure_macho.go:339` above). `StubsRun` has `RootsShip`: every
  version of an implicit root ships the sonames it is the root for, which the maps of the code
  take for granted.
* `BuildsProofs` also holds the theorems about `Catalogue`, at its end, since both put sets in an order
  and the lemmas about that (`RankedSorts`, `KeptIs`) serve both: `ReasonHolds`, `WholeTreeHolds` and
  `BrowsableHolds`. Under all three lies `HeldInv`: what is published lists a project once, and what a
  reader holds is one sound catalogue (`Sound`: no bad name or version, no project twice), because a
  reader takes only what was published, and sorting (`MarshalKeeps`) and cleaning (`UnmarshalIs`)
  leave it so. What is reached from a set in n steps (`Within`) is the value of a recursive function,
  of which no closed form can be proved by induction here; `WithinNext` and `WithinStep` give what one
  step adds, and the rest is argued from the least number at which something is reached.
  * `ReasonHolds`: the distance of a project (`Away`) is unique. While a search runs, the queue is first
    what is k away and then what is k + 1 away, all within k was found, and nothing else was found but
    what is in the queue (`Searching`, by `Frontier`); every predecessor is one nearer (`Ways`). So the
    way back loses one step at a time (`Retracing`) and is as long as its ends are apart, which no
    path undercuts; and when the queue is empty, what was found is closed under dependencies
    (`SearchEnds`), so that no number of steps reaches the end that was asked for (`Told`).
  * `WholeTreeHolds`: the invariant `Tree` says what is on the stack, what was descended into (`Opened`:
    the root, and each line that is no repetition), what is marked and what was shown. No project is
    on the stack twice or to be descended into from two levels (`LevelsApart`), no edge has two lines
    (`OpenedOnce`), what is still to be shown was not (`Due`), and what is marked was descended into
    or will be (`Marked`). Without a limit, all below whatever was descended into is shown or still to
    be shown (`Covered`). When the stack is empty this makes the set that was descended into closed and
    all of it reached (`AllOpened`). With a limit, a line is within as many steps as its level.
    That all that is reached is reached within as many steps as there are names (`WithinAll`) is a
    counting argument: a step that adds nothing is the last (`WithinClosed`), and every other one adds
    a name.
  * `BrowsableHolds`: a child of a heading is a prefix with one segment more of some project below it
    (`ChildrenAre`), each project is a child of its own name without the last segment (`HeadingIs`),
    and in a search what has the score of a command comes before all else (`ScoreIs`), so that the
    part of the order that it makes up is the first (`PartComesFirst`, `Found`); a query that is empty
    once it is trimmed finds nothing, and nobody provides it (`Searched`).

Only model-checked, and why:

* `EventuallyListed`, `FetchEnds` and `Completes`: liveness under fairness is out of the prover's reach.
* That a hash stands for one build (`NoCollision`) in the instance at hand.

Every invariant and every action property of the passing runs is stated by a theorem. Where induction
over numbers is needed, it is by the least counterexample (`Least`), since the induction theorems of the
library take an operator as a parameter, which the provers cannot instantiate.

## Not modelled

* The parsing and rendering of recipes, unit files, ELF and Mach-O files, manifests and lock files as
  text; the characters of version strings, names, keys and messages. They are sequential functions
  over text or bytes, which tests of the repository reach.
* `extract.go`: unpacking is one step of a private directory in `Store`; which paths an archive may
  reach is a function of its entries.
* `source.go`: one download and one check of a file.
* The in-memory transfer of the wasm build, which neither resumes nor stages anything.
* `service.go`, configuration, certificates and glue to the operating system.
* Of what is modelled: errors of the local disk during a transfer, the order of lines in a closure
  that `Resolve` answers, finding the primary program of a bottle, staging under another root,
  removing what is dead in a store, and the age of a lock.

## Plan

Done: `IndexPublish` with `VersionListing`; `BlobTransfer` and `BottleFetch`; `Store` with `BuildStore`;
`Versions`, `Resolve`; `Trust`; `Completion` and `Stubs`; `Concrete`, `Builds` and `Locks`; `Catalogue`.

Next, in this order:

1. `Trust` in place of `Verified` in `BottleFetch`, and a closure of `Resolve` in place of `Starts` in
   `Completion`: each is given by its properties today.
2. `Extract` and `Sources`.
