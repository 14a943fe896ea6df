---------------------------- MODULE ImaOperator ----------------------------
(***************************************************************************)
(* internal/attest/ima.go: the containers data source's subscriber. A      *)
(* CREATED event fetches the image's SBOM and installs a private BPF map   *)
(* of its hashes in the gadget's map of maps; a REMOVED event takes it out *)
(* and closes it.                                                          *)
(*                                                                         *)
(* A handler is one running invocation of the subscriber. The code does    *)
(* not serialise invocations: FetchForImage may hold one for 30 s while    *)
(* others run. A handler's pc is the call it makes next: fetch             *)
(* (FetchForImage), newmap (ebpf.NewMap), put (outerMap.Put), swap         *)
(* (innerMaps.Swap), untrack (innerMaps.LoadAndDelete, after               *)
(* outerMap.Delete).                                                       *)
(*                                                                         *)
(* External: the container runtime, which starts, exits and announces      *)
(* containers; the kernel's maps; and what the fetch answers, which        *)
(* Sigward.tla joins with SbomFetcher.                                     *)
(***************************************************************************)
EXTENDS Naturals, FiniteSets

CONSTANTS
  Handlers,
  Containers,
  MntNs,         \* mount namespace ids; the kernel reuses them
  MapIds,        \* kernel objects an ebpf.NewMap may return
  Sboms,         \* SPDX documents a fetch can return
  Attestable,    \* those that parse and list at least one executable file
  None,          \* no container, no namespace, no map, no document
  MaxRunning,    \* MAX_RUNNING_CONTAINERS: room in expected_hashes
  MaxCreated,    \* bound: CREATED events per container
  SerialEvents,  \* TRUE: REMOVED comes only after the container's CREATED is handled
  FreshNamespaces \* TRUE: no id is reused before the REMOVED that frees it

ASSUME OperatorConstants ==
  /\ Attestable \subseteq Sboms
  /\ None \notin Containers \union MntNs \union MapIds \union Sboms
  /\ IsFiniteSet(MntNs)
  /\ MaxRunning \in Nat /\ MaxCreated \in Nat
  /\ SerialEvents \in BOOLEAN /\ FreshNamespaces \in BOOLEAN

VARIABLES
  life,     \* container -> "absent", "running", "exited" or "removed"
  ns,       \* container -> its mount namespace
  created,  \* container -> CREATED events delivered
  ready,    \* GetVar("map/expected_hashes") finds the map
  hpc,      \* handler -> the call it makes next
  hk,       \* handler -> the container of its event
  hdoc,     \* handler -> the document its files come from
  hmap,     \* handler -> the inner map it holds privately
  outer,    \* expected_hashes in the kernel: namespace -> inner map
  tracked,  \* innerMaps (sync.Map): namespace -> inner map to close later
  fd,       \* inner maps the process holds a descriptor for
  content   \* inner map -> the document whose hashes fill it

containerVars == <<life, ns, created>>
handlerVars == <<hpc, hk, hdoc, hmap>>
mapVars == <<outer, tracked, fd, content>>
vars == <<containerVars, ready, handlerVars, mapVars>>

Init ==
  /\ life = [k \in Containers |-> "absent"]
  /\ ns = [k \in Containers |-> None]
  /\ created = [k \in Containers |-> 0]
  /\ ready = FALSE
  /\ hpc = [h \in Handlers |-> "idle"]
  /\ hk = [h \in Handlers |-> None]
  /\ hdoc = [h \in Handlers |-> None]
  /\ hmap = [h \in Handlers |-> None]
  /\ outer = [m \in MntNs |-> None]
  /\ tracked = [m \in MntNs |-> None]
  /\ fd = {}
  /\ content = [x \in MapIds |-> None]
-----------------------------------------------------------------------------
(* Containers and the gadget, as far as the operator sees them *)

\* A namespace is gone from the kernel when its container has exited; its
\* id may then name a new one.
Start(k, m) ==
  /\ life[k] = "absent"
  /\ \A j \in Containers : ns[j] = m => life[j] \notin
       IF FreshNamespaces THEN {"running", "exited"} ELSE {"running"}
  /\ life' = [life EXCEPT ![k] = "running"]
  /\ ns' = [ns EXCEPT ![k] = m]
  /\ UNCHANGED <<created, ready, handlerVars, mapVars>>

Exit(k) ==
  /\ life[k] = "running"
  /\ life' = [life EXCEPT ![k] = "exited"]
  /\ UNCHANGED <<ns, created, ready, handlerVars, mapVars>>

\* The gadget is loaded: its maps become variables of the gadget context.
MapReady ==
  /\ ~ready
  /\ ready' = TRUE
  /\ UNCHANGED <<containerVars, handlerVars, mapVars>>
-----------------------------------------------------------------------------
(* handleContainerCreated *)

Busy(k) == \E h \in Handlers : hk[h] = k

Idle(h) ==
  /\ hpc' = [hpc EXCEPT ![h] = "idle"]
  /\ hk' = [hk EXCEPT ![h] = None]
  /\ hdoc' = [hdoc EXCEPT ![h] = None]
  /\ hmap' = [hmap EXCEPT ![h] = None]

\* The event is delivered and its image reference worked out.
Created(h, k) ==
  /\ hpc[h] = "idle" /\ life[k] \in {"running", "exited"}
  /\ created[k] < MaxCreated
  /\ created' = [created EXCEPT ![k] = @ + 1]
  /\ hpc' = [hpc EXCEPT ![h] = "fetch"]
  /\ hk' = [hk EXCEPT ![h] = k]
  /\ UNCHANGED <<life, ns, ready, hdoc, hmap, mapVars>>

\* The event's config field cannot be read or its JSON does not parse.
CreatedUnreadable(k) ==
  /\ life[k] \in {"running", "exited"} /\ created[k] < MaxCreated
  /\ created' = [created EXCEPT ![k] = @ + 1]
  /\ UNCHANGED <<life, ns, ready, handlerVars, mapVars>>

\* Mutant of Fetched: no check that the SBOM lists any file.
Fetched_unchecked(h, s) ==
  /\ hpc[h] = "fetch"
  /\ hpc' = [hpc EXCEPT ![h] = "newmap"]
  /\ hdoc' = [hdoc EXCEPT ![h] = s]
  /\ UNCHANGED <<containerVars, ready, hk, hmap, mapVars>>

\* FetchForImage answers an SBOM that ParseFiles finds files in.
Fetched(h, s) ==
  /\ hpc[h] = "fetch" /\ s \in Attestable
  /\ hpc' = [hpc EXCEPT ![h] = "newmap"]
  /\ hdoc' = [hdoc EXCEPT ![h] = s]
  /\ UNCHANGED <<containerVars, ready, hk, hmap, mapVars>>

\* It answers an error, or nothing, or an SBOM that does not parse or lists
\* no executable file: the handler logs and returns.
NothingToInstall(h) ==
  /\ hpc[h] = "fetch"
  /\ Idle(h)
  /\ UNCHANGED <<containerVars, ready, mapVars>>

\* Mutant of NoInnerMap: waits for the gadget's map instead of giving up.
NoInnerMap_waiting(h) ==
  /\ hpc[h] = "newmap" /\ ready
  /\ Idle(h)
  /\ UNCHANGED <<containerVars, ready, mapVars>>

\* populateExpectedHashes up to the inner map; the map variable is missing,
\* or ebpf.NewMap fails
NoInnerMap(h) ==
  /\ hpc[h] = "newmap"
  /\ Idle(h)
  /\ UNCHANGED <<containerVars, ready, mapVars>>

\* A kernel map lives while a descriptor or the outer map refers to it.
InKernel(x) == x \in fd \/ \E m \in MntNs : outer[m] = x

\* Mutants of NewMap: the map is installed first and filled afterwards; one
\* map is shared by all containers with the same SBOM.
NewMap_early(h, x) ==
  /\ hpc[h] = "newmap" /\ ready /\ ~InKernel(x)
  /\ fd' = fd \union {x}
  /\ content' = [content EXCEPT ![x] = hdoc[h]]
  /\ hmap' = [hmap EXCEPT ![h] = x]
  /\ outer' = [outer EXCEPT ![ns[hk[h]]] = x]
  /\ hpc' = [hpc EXCEPT ![h] = "put"]
  /\ UNCHANGED <<containerVars, ready, hk, hdoc, tracked>>
NewMap_shared(h, x) ==
  /\ hpc[h] = "newmap" /\ ready
  /\ InKernel(x) => content[x] = hdoc[h]
  /\ fd' = fd \union {x}
  /\ content' = [content EXCEPT ![x] = hdoc[h]]
  /\ hmap' = [hmap EXCEPT ![h] = x]
  /\ hpc' = [hpc EXCEPT ![h] = "put"]
  /\ UNCHANGED <<containerVars, ready, hk, hdoc, outer, tracked>>

\* ebpf.NewMap, then one innerMap.Put for each file that has a usable path
\* and hash (SbomDocument.tla). Nobody else can see the map yet, so filling
\* it is one step; what it holds is named by the document.
NewMap(h, x) ==
  /\ hpc[h] = "newmap" /\ ready /\ ~InKernel(x)
  /\ fd' = fd \union {x}
  /\ content' = [content EXCEPT ![x] = hdoc[h]]
  /\ hmap' = [hmap EXCEPT ![h] = x]
  /\ hpc' = [hpc EXCEPT ![h] = "put"]
  /\ UNCHANGED <<containerVars, ready, hk, hdoc, outer, tracked>>

Installed == {m \in MntNs : outer[m] # None}

\* outerMap.Put(mntnsID, innerMap.FD())
OuterPut(h) ==
  /\ hpc[h] = "put"
  /\ LET m == ns[hk[h]]
     IN /\ m \in Installed \/ Cardinality(Installed) < MaxRunning
        /\ outer' = [outer EXCEPT ![m] = hmap[h]]
  /\ hpc' = [hpc EXCEPT ![h] = "swap"]
  /\ UNCHANGED <<containerVars, ready, hk, hdoc, hmap, tracked, fd, content>>

\* expected_hashes is full, or the kernel refuses: close the inner map
OuterPutFails(h) ==
  /\ hpc[h] = "put"
  /\ fd' = fd \ {hmap[h]}
  /\ Idle(h)
  /\ UNCHANGED <<containerVars, ready, outer, tracked, content>>

\* Mutants of SwapTracked: the superseded map stays open; it is taken out of
\* expected_hashes too, where its successor already is.
SwapTracked_leaking(h) ==
  /\ hpc[h] = "swap"
  /\ tracked' = [tracked EXCEPT ![ns[hk[h]]] = hmap[h]]
  /\ Idle(h)
  /\ UNCHANGED <<containerVars, ready, outer, fd, content>>
SwapTracked_deleting(h) ==
  /\ hpc[h] = "swap"
  /\ LET m == ns[hk[h]]
     IN /\ tracked' = [tracked EXCEPT ![m] = hmap[h]]
        /\ fd' = fd \ {tracked[m]}
        /\ outer' = IF tracked[m] = None THEN outer ELSE [outer EXCEPT ![m] = None]
  /\ Idle(h)
  /\ UNCHANGED <<containerVars, ready, content>>

\* innerMaps.Swap, closing the map it supersedes
SwapTracked(h) ==
  /\ hpc[h] = "swap"
  /\ LET m == ns[hk[h]]
     IN /\ tracked' = [tracked EXCEPT ![m] = hmap[h]]
        /\ fd' = fd \ {tracked[m]}
  /\ Idle(h)
  /\ UNCHANGED <<containerVars, ready, outer, content>>
-----------------------------------------------------------------------------
(* handleContainerRemoved *)

\* The one REMOVED event of a container
RemovedDue(k) ==
  /\ life[k] = "exited"
  /\ SerialEvents => created[k] > 0 /\ ~Busy(k)

\* The map variable is missing: nothing is cleaned up.
RemovedNotReady(k) ==
  /\ RemovedDue(k) /\ ~ready
  /\ life' = [life EXCEPT ![k] = "removed"]
  /\ UNCHANGED <<ns, created, ready, handlerVars, mapVars>>

\* Mutant of Removed: the entry stays in expected_hashes.
Removed_keeping(h, k) ==
  /\ hpc[h] = "idle" /\ RemovedDue(k) /\ ready
  /\ life' = [life EXCEPT ![k] = "removed"]
  /\ hpc' = [hpc EXCEPT ![h] = "untrack"]
  /\ hk' = [hk EXCEPT ![h] = k]
  /\ UNCHANGED <<ns, created, ready, hdoc, hmap, outer, tracked, fd, content>>

\* outerMap.Delete(mntnsID); a missing key is only logged
Removed(h, k) ==
  /\ hpc[h] = "idle" /\ RemovedDue(k) /\ ready
  /\ life' = [life EXCEPT ![k] = "removed"]
  /\ outer' = [outer EXCEPT ![ns[k]] = None]
  /\ hpc' = [hpc EXCEPT ![h] = "untrack"]
  /\ hk' = [hk EXCEPT ![h] = k]
  /\ UNCHANGED <<ns, created, ready, hdoc, hmap, tracked, fd, content>>

\* innerMaps.LoadAndDelete(mntnsID), then Close
Untrack(h) ==
  /\ hpc[h] = "untrack"
  /\ LET m == ns[hk[h]]
     IN /\ tracked' = [tracked EXCEPT ![m] = None]
        /\ fd' = fd \ {tracked[m]}
  /\ Idle(h)
  /\ UNCHANGED <<containerVars, ready, outer, content>>
-----------------------------------------------------------------------------
Environment ==
  \/ MapReady
  \/ \E k \in Containers :
       \/ \E m \in MntNs : Start(k, m)
       \/ Exit(k)

\* Deliveries and returns that involve no other component
OwnStep ==
  \/ \E k \in Containers : CreatedUnreadable(k) \/ RemovedNotReady(k)
  \/ \E h \in Handlers, k \in Containers : Removed(h, k)
  \/ \E h \in Handlers :
       \/ NoInnerMap(h)
       \/ \E x \in MapIds : NewMap(h, x)
       \/ OuterPut(h) \/ OuterPutFails(h)
       \/ SwapTracked(h)
       \/ Untrack(h)

\* Steps of FetchForImage's caller
FetchStep ==
  \E h \in Handlers :
    \/ \E k \in Containers : Created(h, k)
    \/ \E s \in Sboms : Fetched(h, s)
    \/ NothingToInstall(h)

Next == Environment \/ OwnStep \/ FetchStep

Spec == Init /\ [][Next]_vars
-----------------------------------------------------------------------------
(* Properties *)

\* Every variable has its type.
TypeOK ==
  /\ life \in [Containers -> {"absent", "running", "exited", "removed"}]
  /\ ns \in [Containers -> MntNs \union {None}]
  /\ created \in [Containers -> 0 .. MaxCreated]
  /\ ready \in BOOLEAN
  /\ hpc \in [Handlers -> {"idle", "fetch", "newmap", "put", "swap", "untrack"}]
  /\ hk \in [Handlers -> Containers \union {None}]
  /\ hdoc \in [Handlers -> Attestable \union {None}]
  /\ hmap \in [Handlers -> MapIds \union {None}]
  /\ outer \in [MntNs -> MapIds \union {None}]
  /\ tracked \in [MntNs -> MapIds \union {None}]
  /\ fd \subseteq MapIds
  /\ content \in [MapIds -> Attestable \union {None}]

\* Who is to close an inner map: a handler that holds it, or the record of
\* the namespace it was installed for.
Holds(h, x) == hpc[h] \in {"put", "swap"} /\ hmap[h] = x
TrackedAt(m, x) == tracked[m] = x

\* No descriptor is leaked, closed twice or closed while somebody else is
\* to close it, whatever CREATED and REMOVED events interleave: each open
\* inner map has exactly one owner, and owners hold only open maps.
FdHasOneOwner ==
  \A x \in MapIds :
    /\ x \in fd <=> (\E h \in Handlers : Holds(h, x)) \/ (\E m \in MntNs : TrackedAt(m, x))
    /\ \A h1, h2 \in Handlers : Holds(h1, x) /\ Holds(h2, x) => h1 = h2
    /\ \A m1, m2 \in MntNs : TrackedAt(m1, x) /\ TrackedAt(m2, x) => m1 = m2
    /\ \A h \in Handlers, m \in MntNs : ~(Holds(h, x) /\ TrackedAt(m, x))

\* The kernel never consults a map that is still empty or is being filled
\* again: what expected_hashes points to holds a document's hashes, and is
\* not the map a handler has yet to install.
InstalledMapsAreWhole ==
  \A m \in MntNs : outer[m] # None =>
    /\ content[outer[m]] \in Attestable
    /\ \A h \in Handlers : hpc[h] = "put" => hmap[h] # outer[m]

\* Two namespaces never share an inner map.
InnerMapsArePrivate ==
  \A m1, m2 \in MntNs : outer[m1] = outer[m2] /\ outer[m1] # None => m1 = m2

\* The rest of what is true at every step, which with the above is inductive:
\* a handler's event names a container with a namespace, and the map it has
\* made holds its document.
HandlersAreSound ==
  /\ \A k \in Containers : life[k] # "absent" => ns[k] \in MntNs
  /\ \A h \in Handlers :
       /\ hpc[h] # "idle" => hk[h] \in Containers /\ life[hk[h]] # "absent"
       /\ hpc[h] \in {"newmap", "put", "swap"} => hdoc[h] \in Attestable
       /\ hpc[h] \in {"put", "swap"} => hmap[h] \in MapIds /\ content[hmap[h]] = hdoc[h]

IInv ==
  /\ TypeOK /\ HandlersAreSound /\ FdHasOneOwner
  /\ InstalledMapsAreWhole /\ InnerMapsArePrivate

\* ima.go:273 logs "Cleaned up expected_hashes for removed container" when
\* the REMOVED event has been handled: once every event of every container
\* that had a namespace is handled, the namespace has no entry and no map
\* is kept for it.
Settled(m) ==
  /\ \A k \in Containers : ns[k] = m => life[k] = "removed"
  /\ \A h \in Handlers : hk[h] = None
RemovedIsCleanedUp ==
  \A m \in MntNs : Settled(m) => outer[m] = None /\ tracked[m] = None

Live(k) == life[k] \in {"running", "exited"}

\* What events in order add to IInv: a container whose CREATED is being
\* handled is still there, and what is installed or recorded belongs to a
\* container that is there, or is about to be removed from the record.
SerialInv ==
  /\ \A h \in Handlers :
       hpc[h] \in {"fetch", "newmap", "put", "swap"} => Live(hk[h])
  /\ \A m \in MntNs : outer[m] # None => \E k \in Containers : Live(k) /\ ns[k] = m
  /\ \A m \in MntNs : tracked[m] # None =>
       \/ \E k \in Containers : Live(k) /\ ns[k] = m
       \/ \E h \in Handlers : hpc[h] = "untrack" /\ ns[hk[h]] = m
  /\ ~ready =>
       /\ \A m \in MntNs : outer[m] = None /\ tracked[m] = None
       /\ \A h \in Handlers : hpc[h] \notin {"put", "swap", "untrack"}

\* With fresh namespace ids, containers that are there have namespaces of
\* their own.
OrderlyInv ==
  /\ SerialInv
  /\ \A j, k \in Containers : Live(j) /\ Live(k) /\ ns[j] = ns[k] => j = k

Orderly == SerialEvents /\ FreshNamespaces

\* An installed entry stays until its container's removal is handled.
Policy == INSTANCE AttestPolicy WITH
  Tables <- Attestable,
  NoPolicy <- None,
  inhabited <- {m \in MntNs : \E k \in Containers : Live(k) /\ ns[k] = m},
  policy <- [m \in MntNs |-> IF outer[m] = None THEN None ELSE content[outer[m]]]

\* When events of a container are not reordered and namespace ids are not
\* reused early, the operator gives the kernel exactly AttestPolicy.
KeepsPolicy == Policy!Spec
=============================================================================
