# Micromize and Sigward in TLA+

Micromize hardens containers with BPF-LSM programs that refuse what a container
should not do; Sigward attests what a container executes against the SBOM
attached to its image. Both are agents built on Inspektor Gadget: a gadget is a
set of BPF programs with their maps, an operator is Go code that Inspektor
Gadget calls on the events of a data source. This directory models the parts of
them that keep state over time, checks them with TLC and proves about them with
TLAPS.

## The system

| Component | Code | State | Operations |
|---|---|---|---|
| SBOM fetcher | `internal/sbom/sbom.go` | result cache (`sync.Map`), singleflight group | `FetchForImage`, and below it the resolution of the image, of its attestation tag, and the DSSE envelope |
| Image reference | `internal/sbom/sbom.go`, `internal/attest/ima.go` | none | `ImageRefFromOCIConfig`, `ImageRefFromDockerConfig`, `NormalizeImageRef` |
| SBOM document | `internal/sbom/sbom.go`, `internal/attest/ima.go` | none | `ParseFiles`, the loop of `populateExpectedHashes` that fills an inner map |
| IMA operator | `internal/attest/ima.go` | `innerMaps` (`sync.Map`), descriptors, the kernel's `expected_hashes` | `handleContainerCreated`, `populateExpectedHashes`, `handleContainerRemoved` |
| Sigward gadget | `gadgets/sigward` | reads `expected_hashes` | `bprm_check_security`, `mmap_file`, both by `attest_file` |
| cap-restrict gadget | `gadgets/cap-restrict` | `catch_at_cap`: thread to flags and system call | tracepoints of clone, unshare, setns; `capable`, `kernel_module_request` |
| fs-restrict gadget | `gadgets/fs-restrict` | `container_state`: process to INIT | fork, exec, exit tracepoints; `file_open`, `bprm_creds_for_exec` |
| ptrace-restrict, socket-restrict | `gadgets/ptrace-restrict`, `gadgets/socket-restrict` | none | four LSM hooks |
| Registry, context and runtime managers | `internal/gadget`, `internal/runtime` | registered gadgets; one goroutine per running one | `Register`, `RunAll`, `RunGadget`, `Close` |
| Agents | `cmd/micromize`, `cmd/sigward` | cancellable context, deferred clean-up | start-up, signal, shutdown |
| Namespace filter | `internal/utils`, `internal/k8s` | none; computed once at start-up | `BuildNamespaceFilter`, `AppendNamespaceExclusion`, `ListExemptNamespaces` |
| Event operators | `internal/operators` | `outputMu`, around printing | enrichment with a reason, formatting, printing |
| Logger, embedding | `internal/logger`, `cmd/*/embeds*.go` | a log level | none at run time |

How they interact. Inspektor Gadget announces containers to the IMA operator's
subscriber, CREATED and REMOVED, on its own goroutines. CREATED works out the
image, calls the fetcher (which may take until the 30 s deadline, and shares one
registry fetch among concurrent callers of the same image), parses the SBOM,
fills a new BPF map and puts it into the map of maps under the container's mount
namespace id. REMOVED deletes that entry and closes the map. The LSM programs,
meanwhile, look up the current namespace for every execution and every executable
mapping. There is no lock between two handlers; what they share is the fetcher's
cache and group, the `sync.Map` of inner maps, and the kernel's map.

An agent's process sets all this up in `run()`: it works out the namespace
filter, asks the Kubernetes API for exempt namespaces once, registers its
gadgets with their parameters, starts a goroutine for each, and waits for its
context, which a further goroutine cancels on a signal. The programs of a
running gadget submit events to a ring buffer of the gadget's own; a goroutine
of Inspektor Gadget takes them from there and calls the operators, the last of
which prints under a mutex that all gadgets share.

What is hard here:

- handlers of the same container or namespace interleave, and the long fetch
  lets REMOVED overtake CREATED;
- mount namespace ids are reused, and REMOVED acts by id;
- tags move, attestations appear and disappear, any read fails or times out,
  and followers share the leader's fate;
- answers, also "there is no SBOM", are remembered for the life of the process;
- both maps have limits, as have paths, and userspace and BPF must agree on keys;
- an inner map must be complete before it is visible and must be closed once;
- the other gadgets judge by what they have noted about a process or thread
  earlier, and must unlearn it at every exit, execution and reuse of an id;
- a signal can come at any point of start-up, also while the API does not
  answer; start-up can fail with some gadgets started; labels change meanwhile;
- several gadgets share one map of parameters and one mutex, and what a full
  ring buffer means differs from gadget to gadget.

## Modules

| Module | What it is |
|---|---|
| `FetchContract` | abstract: what `FetchForImage` promises its callers |
| `SbomFetcher` | `FetchForImage` with cache, singleflight and registry reads |
| `AttestPolicy` | abstract: what the operator promises the kernel side |
| `ImaOperator` | the CREATED and REMOVED handlers, step by step |
| `ImageRef` | which image an event is about |
| `SbomDocument` | from an SPDX document to the table the kernel consults |
| `SbomListing` | abstract: what an SPDX document says of the files of an image |
| `SbomGrowth` | documents grown file by file, to compare the two |
| `SigwardGadget` | what the two LSM programs decide |
| `Sigward` | composition of all of these |
| `FsRestrict` | which opens and executions fs-restrict refuses, over the lives of processes |
| `CapRestrict` | which capability checks cap-restrict refuses, over the calls of threads |
| `NamespaceFilter` | which namespaces an agent asks Inspektor Gadget to watch |
| `AgentContract` | abstract: what an agent promises the node |
| `Agent` | `run()` of both agents, the registry, the gadgets' goroutines, signals, restarts |
| `RestrictHooks` | what the programs of ptrace-restrict and socket-restrict decide |
| `EventOutput` | events from the ring buffers to standard output |
| `Micromize` | composition of `Agent`, `RestrictHooks` and `EventOutput` |
| `*_proofs` of `SbomFetcher`, `ImaOperator`, `FsRestrict`, `CapRestrict`, `Agent`, `Micromize`, `SbomDocument`, `Sigward` | theorems |
| `MC*` | instances for TLC |

### SbomFetcher

A caller's `pc` names the point it has reached in `FetchForImage`; each action
runs to the next point at which another goroutine or the registry can intervene:
the cache lookup (`CacheHit`, `CacheMiss`), entering `group.Do` (`LeadFetch`,
`JoinFetch`), the two registry reads (`ResolveImage`, `FetchAttestation`) either
of which may fail (`FetchFails`), `cache.Store` (`Store`), the release of leader
and followers (`Finish`), the return (`Return`). Between the miss and `group.Do`
nothing rereads the cache, so a second fetch of a cached image is possible, and
modelled. The registry is external: `MoveTag` points an image elsewhere,
`Attach` changes what a digest's attestation comes to. A manifest, its envelope
and its statement are addressed by content, so what they come to is fixed when
the attestation tag is resolved, and `AttestationOutcome` says it in one step.
`pointed` and `attached` are history: everything a tag or an attestation has
ever been. `Genuine` is what may be believed of an image given that history.

### ImaOperator

A handler is one running call of the subscriber; its `hpc` is the external call
it makes next. `outer` is `expected_hashes`, `tracked` is `innerMaps`, `fd` the
open descriptors, `content` the document whose hashes an inner map holds.
Filling a map is one step with making it, because nobody else can see it yet. A
kernel map lives while a descriptor or the outer map refers to it (`InKernel`),
and its id is then free for the next `ebpf.NewMap`. The runtime is external:
containers start, exit and are announced; CREATED may come up to `MaxCreated`
times (the subscriber is called again for containers that exist when a gadget
attaches, and `ima.go:226` speaks of repeated CREATED events). Two constants say
how well-behaved events are: `SerialEvents`, that REMOVED is handled only after
the container's CREATED; `FreshNamespaces`, that an id is not reused before the
REMOVED that frees it. The code enforces neither; `ima_any_order` assumes
neither, `ima_orderly` and the theorems that say `Orderly` assume both,
`CleanedUp` the first alone. Without `FreshNamespaces` a late REMOVED takes the
policy of the container that has the id now; no property speaks against that,
since the code promises no container a policy.

### ImageRef, SbomDocument, SigwardGadget

Pure operators over names split at slashes. Lengths are counted in components
where the code counts bytes: every comparison and every cut (63 bytes and NUL
on the kernel side, fewer than 64 in userspace) is kept, with a limit of four.
The two loops, over the files of a document and over those that are kept, are
recursive functions of the number of files done. `SbomListing` says the same
without keys, tables or loops: a file vouches for a path if it is executable by
type or place, spells it in one of four ways and carries a usable first SHA256;
a document says of a path what the last such file says, and has a place for it
if one comes before the table is full. `SbomGrowth` compares the two.
`SigwardGadget` returns the hook's verdict and the type of the submitted event;
whether the ring buffer has room is an argument.

What a reference means is defined apart from `NormalizeImageRef`: `Whole` says
which references are complete, `IsNameOf` by which shorter names runtimes write
an image of Docker Hub. A container that was created by an image's id is named
by no reference and is outside of that.

### Sigward

`Sigward` extends the operator and instantiates the fetcher with
`Callers <- Handlers`: `CreatedFetches` joins the delivery of an event with the
call of `FetchForImage` for the image the event names, `FetchReturns` joins the
answer with what the handler does with it. Everything else is a step of one
part. `Pulled` is the image each container was really created from;
`EventsNameImages` assumes that its event names that image, in one of the ways
`IsNameOf` allows, and what the properties say is about `Pulled` and not about
the name the operator arrived at. `runs` is a history variable: the digest a
container was pulled by.
`Against`, what an SBOM speaks against, is defined by its document as
`SbomListing` reads it, so that `JudgedByOwnImage` compares the verdicts of the
LSM programs with the text of the SBOM and not with the table made of it.

### FsRestrict

A process is a tgid with its pid namespace, whether its first thread is there,
and how many others are. The kernel side is external, and each of its actions
contains the program attached to it: `Fork` with the insertion into
`container_state` (or its failure when the map is full), `SchedProcessExec` and
`LeaderExit` with the deletion, `ThreadExit` without. An execution is two steps,
the hook that judges it and the tracepoint that reports it, and may fail between
them. `setup` and `crowded` are history: which processes are being set up, and
which of those there was no room for. `verdict` is the last answer that
`file_open` had to give, with whether the ring buffer had room; a refused
execution changes nothing and has no step.

### CapRestrict

A thread is in user space, in a namespace call or in another call, and makes any
checks in it. The three entry programs are one action, `Enter`, because they
differ only in what they record (`ToBeRecorded`). `lsm/capable` is split by its
returns: `CapablePasses` before the record is looked up, `CapableUncaught`
after, `CapableModule`; and where it finds a record, in two, because its fields
are read after it was deleted: `CapableTakes` leaves the thread with a pointer
to the element (`taken`), `CapableCaught` reads through it. In between another
thread may make a record, and the map, which is preallocated, may use the
element for it (`WriteElement`). `latest` is the history the records are
compared with, `pending` the recorded calls that have not been judged, `raced`
the threads to which that has happened. The event of a
module load is reserved without its field `syscall` being set, so that field is
any system call, or none (`CapableModule`).

### NamespaceFilter

A filter is a comma-separated string in the code, of which neither order nor
repetition matters; here it is a set of terms, "include ns" or "exclude ns".
A segment that is empty once trimmed is `Blank`, and so is a name that is not
given. `Monitors` is Inspektor Gadget's reading of the filter, external.

### Agent

One process at a time, of either product: `config` is what it was started with
(flags, environment, the kernel's list of LSMs), chosen anew at every `Start`.
`pc` names the call that `run()` makes next; every call that can fail has both
outcomes, and a failure leads through the deferred calls that are in place by
then: `close` and `cancel`, or `cancel` alone. `registry` and `task` are the
registered parameters and the goroutines of `RunAll`, each with the parameters
it was started with. `StartGadget` takes the gadgets in any order, as the range over a Go map
does, and `CreateContextFails` ends the loop wherever it is. `Attach` and
`GadgetEnds` are what Inspektor Gadget does within `RunGadget`, at any time.
`Signal` before `signal.Notify` ends the process; after it, the channel holds
one signal, and `HandleSignal` receives one only. `labelled` is the cluster:
which namespaces carry the exempt label at the moment; `exempt` is what the one
listing returned. `Kill` is a crash; nothing is persisted, so the next `Start`
is a restart, also with other flags.

Sigward and Micromize differ in `SelfNamespace` (Sigward does not exempt
itself), in `Enabled` (one gadget), and in the host's pid namespace id, which
only Micromize reads.

### RestrictHooks, EventOutput, Micromize

`RestrictHooks` has the four programs as operators from a call, the verdict
before, whether the container is discarded, room in the ring buffer and
`enforce`, to a verdict and an event type. `EventOutput` has a ring buffer and a
goroutine per gadget: an event is taken, enriched and formatted, and then printed
under `outputMu`. `Micromize` lets containers make calls at any time; an
attached gadget judges by the parameters its task has and by the room its own
ring buffer has. When a gadget ends, its ring buffer goes; when the process
ends, everything does. A refusal without an event changes nothing and is in
`Outcome`, over which the invariants quantify.

## Properties and runs

| Run | Instance | Shows |
|---|---|---|
| `fetcher_safety` | 3 callers, 2 images, 2 digests of which one is sha256, 1 registry change | `CacheIsGenuine`, `OneFlightPerImage`, and that `SbomFetcher` implements `FetchContract` |
| `sbom_document` | `SbomGrowth`: all documents of up to 3 files out of 30, table of 2, keys of 4 components | `LookupFindsLatest`: a short path finds the last hash listed for it, unless the table was full before; long paths find only an entry for their prefix; a full table forgets nothing |
| `ima_any_order` | 3 handlers, 2 containers, 2 namespaces with room for both, 2 CREATED each | descriptors have one owner, installed maps are whole and private, whatever the order |
| `ima_orderly` | the same with room for 1 entry, events in order | removal leaves nothing behind; `AttestPolicy` is implemented |
| `ima_overtaken` | 2 handlers, 1 container | violated: REMOVED during the fetch leaves an entry for good |
| `sigward_two_images` | 2 handlers, 2 containers with different SBOMs for one file, one of them named by a short name, every registry, 1 change of a tag or an attestation | what a container is refused is nothing, or exactly what one SBOM of its own image speaks against; unless the image's tag has moved, that SBOM is the manifest's that it runs |
| `sigward_events` | 3 handlers, 1 container, fairness | an event taken up is done with |
| `sigward_moved_tag` | 1 handler, 1 container, 1 registry change | violated: the SBOM in force may belong to another manifest than the one running |
| `fs_restrict` | 2 processes and the runtime, 2 pid namespaces, 1 more thread each, room for 1 record | no record outlives its process; who is exempt is who is being set up; opens are judged by that |
| `cap_restrict` | 2 threads, room for 1 record | a recorded call's first judged check is refused; one event per call, which names it but for the race for the element; a record is of the latest call, also in a full map |
| `micromize` | 5 configurations (the chart's; audit mode with an include list; a blank label with an exclusion; a kernel without BPF LSM; Sigward), 3 containers, 6 calls, ring buffers for 1 event, 1 namespace that is relabelled | who is watched and with which parameters; start-up is all or nothing; what the two gadgets refuse and let pass; what is printed is true; `Agent` implements `AgentContract`; a signal ends the agent; events come out |
| `cap_stale` | 1 thread, hence no race | violated: an event may name another call than the one that made the check |

Why the bounds suffice. Three callers are a leader, a follower, and one that
arrives between the flight and the cache or asks for the other image; the
contract relates calls of one image pairwise. Three handlers are two CREATED and
a REMOVED of one namespace, and two containers with two namespaces let an id be
reused while the first owner's events are pending; four map ids are one more than
handlers can hold beside what is recorded, and `MaxRunning` below the number of
namespaces makes the outer map overflow in `ima_orderly`. In `sbom_document` three files exceed a
table of two, and names cover one, two, three components, all prefixes, and both
sides of the limit. In `fs_restrict` two processes and room for one meet a full
map, one further thread makes a process survive its first one, and every tgid,
the runtime's too, is used again. In `cap_restrict` a thread enters a full map
with and without a record of its own, and one makes a record while the other
reads the element of the one it has taken; no action relates three threads. The
number of calls, forks and checks is not bounded. In `sigward_two_images` the
change meets every point of a fetch and of a container's life, and of the two
images the tag of one stays. In `micromize` a ring buffer for one event is full after the
first, so both gadgets meet a full one while the other's goroutine holds the
mutex; the configurations are chosen so that each term of the filter decides
about some container: the agent's own namespace by `POD_NAMESPACE`, by the
service account and by default, names included and excluded, a namespace exempt
at one start and not at the next, a digest that is filtered, and one container
without Kubernetes. Of the four gadgets two are enabled, since their tasks
differ in nothing but the parameters; the theorems are about any set of
configurations. Lives, labels, signals and calls are not bounded.
Symmetry is used on callers, images, SBOMs, handlers, map ids, manifests,
namespaces, processes and threads in safety runs only; no action or property of
the run that uses it names one of them.

The three violations are disagreements between the code and what it or its README
says. `ima_overtaken`: REMOVED logs "Cleaned up expected_hashes for removed
container" (`ima.go:273`) while the container's own CREATED handler has yet to
install the entry; nothing removes it afterwards. `sigward_moved_tag`: README
line 44 speaks of the SBOM attached to the container's image; the code resolves
the reference again by tag (`sbom.go:303`) when the event is handled.
`cap_stale`: `gadget.yaml:29` describes the event's system call as the one
triggering the check; a record left by a call that made no check is taken by a
check of a later call (`program.bpf.c:113`), which is refused on its account.

### Fairness

`sigward_events` assumes weak fairness of each handler's next step and of each
step of a fetch. A handler is a goroutine and the Go scheduler runs every
runnable goroutine; a registry read ends because its context has a deadline of
30 s (`ima.go:109`), which `FetchFails` stands for; a follower waits for a leader
that has such a deadline. A credential helper is a program of its own that the
deadline need not stop; it is assumed to end. Nothing is assumed of the runtime, the registry or the
gadget: containers need not exit, maps need not become ready, events need not
come.

`micromize` assumes weak fairness of `run()`'s next step and of the goroutine
that waits for signals: the Go scheduler runs both, and a call of the Kubernetes
API ends when its context does. That the calls into Inspektor Gadget return
which `run()` makes itself, to create the managers and to close the runtime, is
assumed too. It does not assume that the API answers
(`ListAnswers`, `ListFails`) nor anything of the gadgets. Of each printing
goroutine it assumes weak fairness of its steps, and strong fairness of `Lock`,
since others take and release the mutex in between: a `sync.Mutex` hands itself
over to whoever has waited for a millisecond and starves nobody. A write to
standard output is assumed to return, with or without an error; a reader of the
output that stops reading for good is outside of that, and all printing then
stops.

## Proofs

For every number of callers, images, handlers, containers, namespaces and maps:

- `SbomFetcher_proofs`: `TypeCorrect`, `CacheSound`, `FlightsSound` and
  `Refinement` (`Spec => KeepsContract`), from `DistinctValues` and
  `ChangesAssumption`. The inductive invariant `IInv` adds to the three checked
  invariants that the history covers the present (`HistoryIsComplete`) and what
  a leader carries from step to step (`CallsAreSound`): the digest it has
  resolved was one of the image's, what it is about to store is genuine, and a
  success it is about to hand out is in the cache already. Without the last,
  neither the order "remember, then answer" nor the contract's `Answer` follows.
  `AnswersSound` adds that an SBOM a call returns, fetched, waited for or cached,
  is one the registry has stood for under the image it was asked for.
- `ImaOperator_proofs`: `TypeCorrect`, `DescriptorsSound`, `InstalledWhole`,
  `MapsPrivate` from `OperatorConstants`, for events in any order. `IInv` adds
  `HandlersAreSound`: the event of a running handler names a container with a
  namespace, and the map a handler holds contains its document. For the map
  invariants the point is that a map a handler has yet to install is nobody
  else's, neither recorded nor installed.
- `CleanedUp` assumes `SerialEvents` in addition and rests on `SerialInv`: a
  container whose CREATED is being handled is still there, and whatever is
  installed or recorded belongs to a container that is there, or its removal is
  under way. `ima_overtaken` shows that `SerialEvents` cannot be dropped. That
  namespace ids are fresh is not needed: with a reused one, the earlier owner's
  REMOVED takes the later owner's entry, which leaves too little and not too
  much. For the same reason `Refinement` (`Spec => KeepsPolicy`) does need it; it
  assumes `Orderly`, both, and rests on `OrderlyInv`, by which containers that are
  there have namespaces of their own.
- `SbomDocument_proofs`: `ShortPathsFindTheirOwn`, `LongPathsFindTheirBeginning`
  and `ListedFilesStay`, from `SizesAssumption`, `ComponentsAssumption` and
  `GrowthConstants`: documents of any length, names of any components, any
  limits. The loops are unfolded by one turn, and an induction over turns (a
  least turn at which a table is wrong, by the well-foundedness of < on the
  naturals) shows that after each one the table holds exactly the names that
  found room, each with the last hash usable for it, and is full before any name
  is left out (`Tells`). `ClaimMeans` makes that a statement about paths:
  normalisation turns precisely the four spellings of a path into its key.
  `KeysAreNames` bounds the keys, so that a path cut to size by the kernel meets
  none but those of names that end where it was cut. `LookupMeans` puts it together for any one document, and
  `Sigward_proofs` uses it.
- `Sigward_proofs`: `OwnImage` (`JudgedByOwnImage`) from `Orderly`, the
  assumptions of the two components and `SystemConstants`, which ties them
  together. Every step of the composition is a step or a stutter of the operator
  (`HostsOperator`) and of the fetcher (`HostsFetcher`), so their invariants hold
  in it. `ImagesMatch` is what neither part can say alone: a handler's call is
  for the image of the container it handles, what the handler carries on is an
  SBOM of that image, and the map of a namespace was filled from an SBOM of the
  image of the one live container in it, image meaning the reference the
  operator arrived at. `RefusedBySbom` then reads the gadget's
  verdicts, and `LookupMeans` the table they come from: what such a map refuses
  is what the document of its SBOM speaks against. Without `Orderly` the
  namespace of a handler's container may be another one's by the time the map is
  installed. `OwnName` closes the gap between the name a handler arrives at and
  the image: the loops over annotations and data roots give a name that some
  place has written (`FirstNonEmptyIs`), and `NormalizeImageRef` makes every name
  of an image its whole reference (`NamesAreNormalized`). `UnmovedTags` (`UnmovedTagKeepsManifest`) adds that a container runs
  a manifest its tag has named (`RunsAreNamed`): with a tag that has named one
  only, the SBOM in force was attached to that one, so the moved tag of
  `sigward_moved_tag` is the only way to another manifest's SBOM, whatever other
  images share the handlers, the fetches and the cache. `PolicyWithin` and
  `FetcherWithin` carry the contracts of the two parts over to the composition.
  The module extends `SbomDocument_proofs` for its lemmas; the variable of
  `SbomGrowth` that comes with it is in none of its theorems.
- `FsRestrict_proofs`: `TypeCorrect`, `ExemptionExact` and `OpensJudged` from
  `FsConstants`. `IInv` adds that a process being set up has its first thread
  (`SetupIsAlive`), which is why a tgid that is free carries nothing over to
  its next process. `FsRestrict`'s `OpensAreJudged` follows from
  `ExemptionIsExact` at the step that gives the verdict.
- `CapRestrict_proofs`: `TypeCorrect`, `FirstCheckRefused` and `OneEvent` from
  `CapConstants`. `IInv` adds that a recorded call has its record until a check
  takes it, and that the check is then about to refuse (`PendingIsRecorded`), and
  that the element it is about to read holds the thread's latest call unless
  another thread has made a record since (`TakenIsLatest`); the two action
  properties follow.
- `Agent_proofs`: `TypeCorrect`, `Configured`, `StartsAll` and `Refinement`
  (`Spec => KeepsContract`) from `AgentConstants`, for any set of configurations,
  containers and namespaces. `IInv` says that the filter is at every point made
  of the flags and of what has been listed so far (`FilterBuilt`), that
  parameters are made from that filter (`Registered`) and that every task has
  those its gadget was registered with (`Running`); `NothingBefore` is why
  nothing of it changes once they are made. `MonitorsWanted` says that Inspektor
  Gadget's reading of the filter is what flags, environment and labels mean, and
  with it all gadgets have one scope (`OneScope`), which is the contract.
- `Micromize_proofs`: `HostsAgent` shows that a behaviour of the composition is
  one of `Agent`, which carries the theorems over (`AgentWithin`);
  `OnlyForbidden` and `ForbiddenRefused` follow from what a task's parameters
  are and from the four programs case by case; `Truth` rests on
  `EventsTruthful`: every event in a ring buffer or with a goroutine is true by
  the configuration and exemptions of this life, which stay until the process
  ends, and the events go with it.

Only model-checked: `EventsAreHandled`, `SignalEndsAgent` and `EventsComeOut`
(liveness under fairness is outside TLAPS).

## What is not modelled

- Credentials, HTTP, JSON and base64: each read succeeds, finds nothing or
  fails. The code has no step that verifies an envelope's signature, so there is
  none in the model.
- What a container executes before its policy arrives: the code imposes no
  order between the two, and `JudgedByOwnImage` admits a container without a
  policy.
- Restart of the agent in the models of its parts: nothing is persisted, so it
  is `Init` there; `Agent` and `Micromize` have it.
- In `EventOutput`: times, process evidence, capability, file and module names,
  image names, layout; the data source "containers", which has no event type.
- The word "blocked" of the texts in audit mode. They say so whatever `enforce`
  is (`output.go:31`); `TextsTellTheTruth` asks for a refusal only while
  enforcing.
- The hooks of fs-restrict and cap-restrict within `Micromize`: they have
  modules of their own, with their own history of processes and threads, and
  their product with an agent's life is more states than it is worth.
- That a gadget which cannot be run, or ends by itself, is missing: its goroutine
  logs it (`registry.go:78`), nothing restarts it, and `AllOrNothing` is only
  about the goroutines that `RunAll` starts.
- What Inspektor Gadget's local runtime does in `Close` while gadgets run, and
  how containers enter and leave its filter map: external. `Agent` lets a gadget
  end at any time, and judges a container by its namespace and digest at once.
- The "!" that `--filter-image-digest` allows in front, which is cut off.
- A namespace called `micromize` when the agent runs in another one: the flag's
  help says that it is left out by default, the code leaves out the namespace of
  the agent (`root.go:135`), and that is what is modelled.
- Logging, embedding, charts and test programs: no logic of the running system.

## Order of work

The parts were modelled in the order fetcher, operator, gadget, their
composition; then the gadgets that keep a history; then the agent and what is
around it. What could follow is `fs-restrict` and `cap-restrict` within
`Micromize`, with one of their processes each, for the ring buffer's part in
their verdicts.
