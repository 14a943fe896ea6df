------------------------- MODULE ImaOperator_proofs -------------------------
(***************************************************************************)
(* For any number of handlers, containers, namespaces and maps, and for    *)
(* events in any order: ImaOperator keeps its types and invariants.        *)
(***************************************************************************)
EXTENDS ImaOperator, TLAPS

LEMMA InitIInv == Init => IInv
<1> SUFFICES ASSUME Init PROVE IInv OBVIOUS
<1> USE DEF Init
<1>1. TypeOK
  <2>1. 0 \in 0 .. MaxCreated BY OperatorConstants
  <2>2. ready \in BOOLEAN OBVIOUS
  <2> QED BY <2>1, <2>2 DEF TypeOK
<1>2. HandlersAreSound BY DEF HandlersAreSound
<1>3. FdHasOneOwner BY OperatorConstants DEF FdHasOneOwner, Holds, TrackedAt
<1>4. InstalledMapsAreWhole BY DEF InstalledMapsAreWhole
<1>5. InnerMapsArePrivate BY DEF InnerMapsArePrivate
<1> QED BY <1>1, <1>2, <1>3, <1>4, <1>5 DEF IInv

(* A handler that is not installing has no map; its step, if it neither    *)
(* makes nor moves a map, leaves every invariant about maps as it was.     *)
LEMMA QuietStep ==
  ASSUME IInv, TypeOK', HandlersAreSound',
         UNCHANGED mapVars,
         \A h \in Handlers :
           /\ hpc'[h] \in {"put", "swap"} <=> hpc[h] \in {"put", "swap"}
           /\ hpc[h] \in {"put", "swap"} =>
                /\ hpc'[h] = hpc[h] /\ hmap'[h] = hmap[h] /\ hk'[h] = hk[h]
                /\ ns'[hk[h]] = ns[hk[h]]
  PROVE  IInv'
<1> USE DEF IInv, mapVars
<1>1. \A h \in Handlers, x \in MapIds : Holds(h, x)' <=> Holds(h, x)
  BY DEF Holds
<1>2. FdHasOneOwner' BY <1>1 DEF FdHasOneOwner, TrackedAt
<1>3. InstalledMapsAreWhole' BY DEF InstalledMapsAreWhole
<1>4. InnerMapsArePrivate' BY DEF InnerMapsArePrivate
<1> QED BY <1>2, <1>3, <1>4

LEMMA EnvironmentStep ==
  ASSUME IInv, Environment
  PROVE  IInv'
<1> USE DEF IInv, containerVars, handlerVars
<1>1. TypeOK'
  <2>1. CASE MapReady
    <3>1. ready' \in BOOLEAN BY <2>1 DEF MapReady
    <3> QED BY <2>1, <3>1 DEF TypeOK, MapReady, mapVars
  <2>2. ASSUME NEW k \in Containers, NEW m \in MntNs, Start(k, m) PROVE TypeOK'
    BY <2>2 DEF TypeOK, Start, mapVars
  <2>3. ASSUME NEW k \in Containers, Exit(k) PROVE TypeOK'
    BY <2>3 DEF TypeOK, Exit, mapVars
  <2> QED BY <2>1, <2>2, <2>3 DEF Environment
<1>2. HandlersAreSound'
  BY DEF TypeOK, HandlersAreSound, Environment, MapReady, Start, Exit, mapVars
<1>3. UNCHANGED <<handlerVars, mapVars>>
  BY DEF Environment, MapReady, Start, Exit
<1>4. \A h \in Handlers : hpc[h] # "idle" => ns'[hk[h]] = ns[hk[h]]
  BY DEF TypeOK, HandlersAreSound, Environment, MapReady, Start, Exit
<1> QED BY <1>1, <1>2, <1>3, <1>4, QuietStep

(* Events that no handler takes up, and those whose handler has no map yet *)
LEMMA UnmappedStep ==
  ASSUME IInv,
         \/ \E k \in Containers : CreatedUnreadable(k) \/ RemovedNotReady(k)
         \/ FetchStep
         \/ \E h \in Handlers : NoInnerMap(h)
  PROVE  IInv'
<1> USE DEF IInv, containerVars, handlerVars
<1> USE DEF CreatedUnreadable, RemovedNotReady, RemovedDue, FetchStep, Created, Fetched,
            NothingToInstall, NoInnerMap, Idle
<1>1. TypeOK' BY OperatorConstants DEF TypeOK, mapVars
<1>2. HandlersAreSound' BY DEF TypeOK, HandlersAreSound, mapVars
<1>3. UNCHANGED <<ns, mapVars>> OBVIOUS
<1>4. \A h \in Handlers :
        /\ hpc'[h] \in {"put", "swap"} <=> hpc[h] \in {"put", "swap"}
        /\ hpc[h] \in {"put", "swap"} =>
             hpc'[h] = hpc[h] /\ hmap'[h] = hmap[h] /\ hk'[h] = hk[h]
  BY DEF TypeOK
<1> QED BY <1>1, <1>2, <1>3, <1>4, QuietStep

(* A new map is nobody's until the handler that made it holds it. *)
LEMMA NewMapStep ==
  ASSUME IInv, NEW h \in Handlers, NEW x \in MapIds, NewMap(h, x)
  PROVE  IInv'
<1> USE DEF IInv, NewMap, InKernel, containerVars
<1>0. hdoc[h] \in Attestable BY DEF HandlersAreSound
<1>1. TypeOK' BY <1>0 DEF TypeOK
<1>2. \A g \in Handlers : ~Holds(g, x) BY DEF FdHasOneOwner
<1>3. \A g \in Handlers, y \in MapIds :
        Holds(g, y)' <=> IF g = h THEN y = x ELSE Holds(g, y)
  BY DEF Holds, TypeOK
<1>4. HandlersAreSound'
  BY <1>2 DEF HandlersAreSound, Holds, TypeOK
<1>5. FdHasOneOwner' BY <1>2, <1>3 DEF FdHasOneOwner, TrackedAt, Holds
<1>6. InstalledMapsAreWhole' BY DEF InstalledMapsAreWhole, TypeOK
<1>7. InnerMapsArePrivate' BY DEF InnerMapsArePrivate
<1> QED BY <1>1, <1>4, <1>5, <1>6, <1>7

(* What is installed was private to its handler until then. *)
LEMMA OuterPutStep ==
  ASSUME IInv, NEW h \in Handlers, OuterPut(h)
  PROVE  IInv'
<1> USE DEF IInv, OuterPut, containerVars
<1> DEFINE m == ns[hk[h]]
<1>0. /\ m \in MntNs /\ hmap[h] \in MapIds /\ content[hmap[h]] \in Attestable
      /\ Holds(h, hmap[h])
  BY DEF HandlersAreSound, Holds
<1>1. TypeOK' BY <1>0 DEF TypeOK
<1>2. \A g \in Handlers, y \in MapIds : Holds(g, y)' <=> Holds(g, y)
  BY DEF Holds, TypeOK
<1>3. \A n \in MntNs : outer[n] # hmap[h]
  BY <1>0, OperatorConstants DEF InstalledMapsAreWhole
<1>4. HandlersAreSound' BY DEF HandlersAreSound, TypeOK
<1>5. FdHasOneOwner' BY <1>2 DEF FdHasOneOwner, TrackedAt
<1>6. InstalledMapsAreWhole'
  BY <1>0, <1>3 DEF InstalledMapsAreWhole, TypeOK, FdHasOneOwner, Holds
<1>7. InnerMapsArePrivate' BY <1>0, <1>3 DEF InnerMapsArePrivate, TypeOK
<1> QED BY <1>1, <1>4, <1>5, <1>6, <1>7

(* A map that could not be installed is closed by the handler holding it. *)
LEMMA OuterPutFailsStep ==
  ASSUME IInv, NEW h \in Handlers, OuterPutFails(h)
  PROVE  IInv'
<1> USE DEF IInv, OuterPutFails, Idle, containerVars
<1>0. hmap[h] \in MapIds /\ Holds(h, hmap[h]) BY DEF HandlersAreSound, Holds
<1>1. TypeOK' BY DEF TypeOK
<1>2. \A g \in Handlers, y \in MapIds : Holds(g, y)' <=> g # h /\ Holds(g, y)
  BY DEF Holds, TypeOK
<1>3. HandlersAreSound' BY DEF HandlersAreSound, TypeOK
<1>4. FdHasOneOwner' BY <1>0, <1>2 DEF FdHasOneOwner, TrackedAt, Holds
<1>5. InstalledMapsAreWhole' BY DEF InstalledMapsAreWhole, TypeOK
<1>6. InnerMapsArePrivate' BY DEF InnerMapsArePrivate
<1> QED BY <1>1, <1>3, <1>4, <1>5, <1>6

(* The handler gives its map up to the record of its namespace, and the    *)
(* map recorded before is closed.                                          *)
LEMMA SwapTrackedStep ==
  ASSUME IInv, NEW h \in Handlers, SwapTracked(h)
  PROVE  IInv'
<1> USE DEF IInv, SwapTracked, Idle, containerVars
<1> DEFINE m == ns[hk[h]]
<1>0. m \in MntNs /\ hmap[h] \in MapIds /\ Holds(h, hmap[h])
  BY DEF HandlersAreSound, Holds
<1>1. TypeOK' BY <1>0 DEF TypeOK
<1>2. \A g \in Handlers, y \in MapIds : Holds(g, y)' <=> g # h /\ Holds(g, y)
  BY DEF Holds, TypeOK
<1>3. \A n \in MntNs, y \in MapIds :
        TrackedAt(n, y)' <=> IF n = m THEN y = hmap[h] ELSE TrackedAt(n, y)
  BY <1>0 DEF TrackedAt, TypeOK
<1>4. HandlersAreSound' BY DEF HandlersAreSound, TypeOK
<1>5. \A y \in MapIds : y \in fd' <=> y \in fd /\ ~TrackedAt(m, y)
  BY DEF TrackedAt
<1>6. FdHasOneOwner'
  <2> HIDE DEF m, SwapTracked, Idle
  <2>1. \A g \in Handlers : Holds(g, hmap[h]) => g = h
    BY <1>0 DEF FdHasOneOwner
  <2>2. \A n \in MntNs : ~TrackedAt(n, hmap[h])
    BY <1>0 DEF FdHasOneOwner
  <2>3. \A g \in Handlers, y \in MapIds : Holds(h, y) => y = hmap[h]
    BY DEF Holds
  <2> QED BY <1>0, <1>2, <1>3, <1>5, <2>1, <2>2, <2>3 DEF FdHasOneOwner
<1>7. InstalledMapsAreWhole' BY DEF InstalledMapsAreWhole, TypeOK
<1>8. InnerMapsArePrivate' BY DEF InnerMapsArePrivate
<1> QED BY <1>1, <1>4, <1>6, <1>7, <1>8

LEMMA RemovedStep ==
  ASSUME IInv, NEW h \in Handlers, NEW k \in Containers, Removed(h, k)
  PROVE  IInv'
<1> USE DEF IInv, Removed, RemovedDue
<1>0. ns[k] \in MntNs BY DEF HandlersAreSound
<1>1. TypeOK' BY DEF TypeOK
<1>2. \A g \in Handlers, y \in MapIds : Holds(g, y)' <=> Holds(g, y)
  BY DEF Holds, TypeOK
<1>3. \A n \in MntNs : outer'[n] \in {outer[n], None} BY DEF TypeOK
<1>4. HandlersAreSound' BY DEF HandlersAreSound, TypeOK
<1>5. FdHasOneOwner' BY <1>2 DEF FdHasOneOwner, TrackedAt
<1>6. InstalledMapsAreWhole' BY <1>3 DEF InstalledMapsAreWhole, TypeOK
<1>7. InnerMapsArePrivate' BY <1>3 DEF InnerMapsArePrivate
<1> QED BY <1>1, <1>4, <1>5, <1>6, <1>7

LEMMA UntrackStep ==
  ASSUME IInv, NEW h \in Handlers, Untrack(h)
  PROVE  IInv'
<1> USE DEF IInv, Untrack, Idle, containerVars
<1> DEFINE m == ns[hk[h]]
<1>0. m \in MntNs BY DEF HandlersAreSound
<1>1. TypeOK' BY <1>0 DEF TypeOK
<1>2. \A g \in Handlers, y \in MapIds : Holds(g, y)' <=> Holds(g, y)
  BY DEF Holds, TypeOK
<1>3. \A n \in MntNs, y \in MapIds : TrackedAt(n, y)' <=> n # m /\ TrackedAt(n, y)
  BY <1>0, OperatorConstants DEF TrackedAt, TypeOK
<1>4. HandlersAreSound' BY DEF HandlersAreSound, TypeOK
<1>5. \A y \in MapIds : y \in fd' <=> y \in fd /\ ~TrackedAt(m, y)
  BY DEF TrackedAt
<1>6. FdHasOneOwner'
  <2> HIDE DEF m, Untrack, Idle
  <2> QED BY <1>0, <1>2, <1>3, <1>5 DEF FdHasOneOwner
<1>7. InstalledMapsAreWhole' BY DEF InstalledMapsAreWhole, TypeOK
<1>8. InnerMapsArePrivate' BY DEF InnerMapsArePrivate
<1> QED BY <1>1, <1>4, <1>6, <1>7, <1>8

LEMMA StutterStep ==
  ASSUME IInv, UNCHANGED vars
  PROVE  IInv'
BY DEF vars, containerVars, handlerVars, mapVars, IInv, TypeOK, HandlersAreSound,
       FdHasOneOwner, InstalledMapsAreWhole, InnerMapsArePrivate, Holds, TrackedAt
-----------------------------------------------------------------------------
(* The inductive invariant holds in every reachable state. *)
THEOREM Invariance == Spec => []IInv
<1>1. IInv /\ [Next]_vars => IInv'
  BY EnvironmentStep, UnmappedStep, NewMapStep, OuterPutStep, OuterPutFailsStep,
     SwapTrackedStep, RemovedStep, UntrackStep, StutterStep DEF Next, OwnStep
<1> QED BY InitIInv, <1>1, PTL DEF Spec

(* TypeOK: a handler installs only documents that list executable files.   *)
THEOREM TypeCorrect == Spec => []TypeOK
BY Invariance, PTL DEF IInv

(* FdHasOneOwner: whatever CREATED and REMOVED handlers interleave, no     *)
(* descriptor of an inner map is leaked, closed twice, or closed while     *)
(* another handler or namespace has it (ima.go:218-235 and 265-271).       *)
THEOREM DescriptorsSound == Spec => []FdHasOneOwner
BY Invariance, PTL DEF IInv

(* InstalledMapsAreWhole: the kernel never sees a map before it is filled. *)
THEOREM InstalledWhole == Spec => []InstalledMapsAreWhole
BY Invariance, PTL DEF IInv

(* InnerMapsArePrivate: no two namespaces are judged by one map.           *)
THEOREM MapsPrivate == Spec => []InnerMapsArePrivate
BY Invariance, PTL DEF IInv
-----------------------------------------------------------------------------
(* Events in order *)

LEMMA InitSerial == Init => SerialInv
BY DEF Init, SerialInv, Live

LEMMA SerialStep ==
  ASSUME SerialEvents, IInv, SerialInv, [Next]_vars
  PROVE  SerialInv'
<1> USE DEF IInv, SerialInv, Live, containerVars, handlerVars, mapVars
<1>1. CASE MapReady BY <1>1 DEF MapReady
<1>2. ASSUME NEW k \in Containers, NEW m \in MntNs, Start(k, m) PROVE SerialInv'
  <2> USE <1>2 DEF Start
  <2>1. \A h \in Handlers : hpc[h] # "idle" => hk[h] # k /\ hk[h] \in Containers
    BY DEF HandlersAreSound
  <2>2. \A j \in Containers \ {k} : life'[j] = life[j] /\ ns'[j] = ns[j]
    BY DEF TypeOK
  <2>3. life'[k] = "running" /\ ns'[k] = m BY DEF TypeOK
  <2> HIDE DEF Live, Start
  <2>5. \A j \in Containers \ {k} : Live(j)' <=> Live(j) BY <2>2 DEF Live
  <2>6. Live(k)' /\ ~Live(k) BY <2>3 DEF Live, Start
  <2>7. UNCHANGED <<hpc, hk, outer, tracked, ready>> BY DEF Start
  <2> QED BY <2>1, <2>2, <2>3, <2>5, <2>6, <2>7
<1>3. ASSUME NEW k \in Containers, Exit(k) PROVE SerialInv'
  <2>1. \A j \in Containers : Live(j)' <=> Live(j) BY <1>3 DEF Exit, TypeOK
  <2>2. UNCHANGED <<ns, ready, handlerVars, mapVars>> BY <1>3 DEF Exit
  <2>3. \A h \in Handlers : hpc[h] # "idle" => hk[h] \in Containers
    BY DEF HandlersAreSound
  <2> HIDE DEF Live
  <2> QED BY <2>1, <2>2, <2>3
<1>4. ASSUME NEW k \in Containers, CreatedUnreadable(k) PROVE SerialInv'
  BY <1>4 DEF CreatedUnreadable
<1>5. ASSUME NEW k \in Containers, RemovedNotReady(k) PROVE SerialInv'
  <2>1. \A h \in Handlers : hk[h] # k BY <1>5 DEF RemovedNotReady, RemovedDue, Busy
  <2>2. \A j \in Containers \ {k} : Live(j)' <=> Live(j)
    BY <1>5 DEF RemovedNotReady, RemovedDue, TypeOK
  <2>3. ~Live(k)' BY <1>5 DEF RemovedNotReady, RemovedDue, TypeOK
  <2>4. ~ready /\ UNCHANGED <<ns, ready, handlerVars, mapVars>>
    BY <1>5 DEF RemovedNotReady
  <2>5. \A h \in Handlers : hpc[h] # "idle" => hk[h] \in Containers
    BY DEF HandlersAreSound
  <2> HIDE DEF Live
  <2> QED BY <2>1, <2>2, <2>3, <2>4, <2>5
<1>6. ASSUME NEW h \in Handlers, NEW k \in Containers, Created(h, k) PROVE SerialInv'
  BY <1>6 DEF Created, TypeOK
<1>7. ASSUME NEW h \in Handlers, NEW s \in Sboms, Fetched(h, s) PROVE SerialInv'
  BY <1>7 DEF Fetched, TypeOK
<1>8. ASSUME NEW h \in Handlers, NothingToInstall(h) \/ NoInnerMap(h) \/ OuterPutFails(h)
      PROVE  SerialInv'
  BY <1>8 DEF NothingToInstall, NoInnerMap, OuterPutFails, Idle, TypeOK
<1>9. ASSUME NEW h \in Handlers, NEW x \in MapIds, NewMap(h, x) PROVE SerialInv'
  BY <1>9 DEF NewMap, TypeOK
<1>10. ASSUME NEW h \in Handlers, OuterPut(h) PROVE SerialInv'
  BY <1>10 DEF OuterPut, TypeOK, HandlersAreSound
<1>11. ASSUME NEW h \in Handlers, SwapTracked(h) PROVE SerialInv'
  BY <1>11 DEF SwapTracked, Idle, TypeOK, HandlersAreSound
<1>12. ASSUME NEW h \in Handlers, NEW k \in Containers, Removed(h, k) PROVE SerialInv'
  <2> USE <1>12 DEF Removed, RemovedDue, Busy
  <2>1. \A g \in Handlers : hk[g] # k OBVIOUS
  <2>2. \A j \in Containers \ {k} : Live(j)' <=> Live(j) BY DEF TypeOK
  <2>3. ~Live(k)' /\ Live(k) BY DEF TypeOK
  <2>4. \A g \in Handlers \ {h} : hpc'[g] = hpc[g] /\ hk'[g] = hk[g] BY DEF TypeOK
  <2>5. hpc'[h] = "untrack" /\ hk'[h] = k /\ hpc[h] = "idle" BY DEF TypeOK
  <2>6. /\ ns[k] \in MntNs /\ outer'[ns[k]] = None
        /\ \A m \in MntNs \ {ns[k]} : outer'[m] = outer[m]
    BY DEF TypeOK, HandlersAreSound
  <2>7. ready /\ UNCHANGED <<ns, ready, tracked>> OBVIOUS
  <2>8. \A g \in Handlers : hpc[g] # "idle" => hk[g] \in Containers
    BY DEF HandlersAreSound
  <2> HIDE DEF Live, Removed
  <2> QED BY <2>1, <2>2, <2>3, <2>4, <2>5, <2>6, <2>7, <2>8
<1>13. ASSUME NEW h \in Handlers, Untrack(h) PROVE SerialInv'
  BY <1>13 DEF Untrack, Idle, TypeOK, HandlersAreSound
<1>14. CASE UNCHANGED vars BY <1>14 DEF vars
<1> QED
  BY <1>1, <1>2, <1>3, <1>4, <1>5, <1>6, <1>7, <1>8, <1>9, <1>10, <1>11, <1>12, <1>13,
     <1>14 DEF Next, Environment, OwnStep, FetchStep

THEOREM SerialInvariance == ASSUME SerialEvents PROVE Spec => []SerialInv
<1>1. IInv /\ SerialInv /\ [Next]_vars => SerialInv' BY SerialStep
<1> QED BY InitSerial, Invariance, <1>1, PTL DEF Spec

(* RemovedIsCleanedUp: when REMOVED follows the container's CREATED, a     *)
(* namespace whose containers are all gone and handled has no entry and no *)
(* recorded map, also when its id was reused before the earlier owner's    *)
(* REMOVED took the later owner's entry away (ima.go:258-271).             *)
THEOREM CleanedUp == ASSUME SerialEvents PROVE Spec => []RemovedIsCleanedUp
<1>1. IInv /\ SerialInv => RemovedIsCleanedUp
  <2> SUFFICES ASSUME IInv, SerialInv, NEW m \in MntNs, Settled(m)
               PROVE  outer[m] = None /\ tracked[m] = None
    BY DEF RemovedIsCleanedUp
  <2>1. \A k \in Containers : ~(Live(k) /\ ns[k] = m) BY DEF Settled, Live
  <2>2. \A h \in Handlers : hpc[h] = "idle"
    BY OperatorConstants DEF Settled, IInv, HandlersAreSound
  <2> QED BY <2>1, <2>2 DEF SerialInv
<1> QED BY <1>1, Invariance, SerialInvariance, PTL
-----------------------------------------------------------------------------
(* Namespace ids not reused early in addition *)

Alone == \A j, k \in Containers : Live(j) /\ Live(k) /\ ns[j] = ns[k] => j = k

(* Only Start makes a container live or gives it a namespace, and a        *)
(* namespace that is fresh has no live container.                          *)
LEMMA AloneStep ==
  ASSUME FreshNamespaces, IInv, Alone, [Next]_vars
  PROVE  Alone'
<1> USE DEF IInv, Alone, Live
<1>1. ASSUME NEW k \in Containers, NEW m \in MntNs, Start(k, m) PROVE Alone'
  <2>1. \A j \in Containers : ns[j] = m => ~Live(j) BY <1>1 DEF Start
  <2>2. \A j \in Containers \ {k} : life'[j] = life[j] /\ ns'[j] = ns[j]
    BY <1>1 DEF Start, TypeOK
  <2>3. ns'[k] = m BY <1>1 DEF Start, TypeOK
  <2> QED BY <2>1, <2>2, <2>3
<1>2. ASSUME NEW k \in Containers,
             Exit(k) \/ RemovedNotReady(k) \/ \E h \in Handlers : Removed(h, k)
      PROVE  Alone'
  <2>1. ns' = ns /\ \A j \in Containers : Live(j)' => Live(j)
    BY <1>2 DEF Exit, RemovedNotReady, Removed, RemovedDue, TypeOK
  <2> QED BY <2>1
<1>3. ASSUME \/ MapReady
             \/ \E k \in Containers : CreatedUnreadable(k)
             \/ FetchStep
             \/ \E h \in Handlers :
                  \/ NoInnerMap(h)
                  \/ \E x \in MapIds : NewMap(h, x)
                  \/ OuterPut(h) \/ OuterPutFails(h) \/ SwapTracked(h) \/ Untrack(h)
             \/ UNCHANGED vars
      PROVE  Alone'
  <2>1. UNCHANGED <<life, ns>>
    BY <1>3 DEF MapReady, CreatedUnreadable, FetchStep, Created, Fetched, NothingToInstall,
         NoInnerMap, NewMap, OuterPut, OuterPutFails, SwapTracked, Untrack, vars,
         containerVars
  <2> QED BY <2>1
<1> QED BY <1>1, <1>2, <1>3 DEF Next, Environment, OwnStep

THEOREM OrderlyInvariance == ASSUME Orderly PROVE Spec => []OrderlyInv
<1>1. SerialEvents /\ FreshNamespaces BY DEF Orderly
<1>2. Init => Alone BY DEF Init, Alone, Live
<1>3. IInv /\ Alone /\ [Next]_vars => Alone' BY <1>1, AloneStep
<1>4. SerialInv /\ Alone => OrderlyInv BY DEF Alone, OrderlyInv
<1>5. Spec => []SerialInv BY <1>1, SerialInvariance
<1> QED BY <1>2, <1>3, <1>4, <1>5, Invariance, PTL DEF Spec
-----------------------------------------------------------------------------
(* Refinement of AttestPolicy *)

Inhabited == {m \in MntNs : \E k \in Containers : Live(k) /\ ns[k] = m}
PolicyAt(m) == IF outer[m] = None THEN None ELSE content[outer[m]]

LEMMA InitPolicy == Init => Policy!Init
<1> SUFFICES ASSUME Init PROVE Policy!Init OBVIOUS
<1>1. Inhabited = {} BY DEF Init, Inhabited, Live
<1>2. [m \in MntNs |-> PolicyAt(m)] = [m \in MntNs |-> None] BY DEF Init, PolicyAt
<1> QED BY <1>1, <1>2 DEF Policy!Init, Inhabited, PolicyAt

(* A step that keeps who is there, what is installed and what that holds *)
LEMMA Unseen ==
  ASSUME IInv, UNCHANGED <<ns, outer>>,
         \A k \in Containers : Live(k)' <=> Live(k),
         \A m \in MntNs : outer[m] # None => content'[outer[m]] = content[outer[m]]
  PROVE  UNCHANGED Policy!vars
<1>1. Inhabited' = Inhabited BY DEF Inhabited
<1>2. [m \in MntNs |-> PolicyAt(m)]' = [m \in MntNs |-> PolicyAt(m)]
  <2>1. \A m \in MntNs : PolicyAt(m)' = PolicyAt(m) BY DEF PolicyAt
  <2> QED BY <2>1
<1> QED BY <1>1, <1>2 DEF Policy!vars, Inhabited, PolicyAt

LEMMA PolicyStep ==
  ASSUME Orderly, IInv, OrderlyInv, [Next]_vars
  PROVE  [Policy!Next]_Policy!vars
<1> USE DEF Orderly, IInv
<1> DEFINE policy == [n \in MntNs |-> PolicyAt(n)]
<1>1. ASSUME NEW k \in Containers, NEW m \in MntNs, Start(k, m) PROVE Policy!Arrive(m)
  <2> USE <1>1 DEF Start
  <2>1. m \notin Inhabited BY DEF Inhabited, Live
  <2>2. Inhabited' = Inhabited \union {m}
    <3>1. \A j \in Containers \ {k} : ns'[j] = ns[j] /\ (Live(j)' <=> Live(j))
      BY DEF TypeOK, Live
    <3>2. ns'[k] = m /\ Live(k)' /\ ~Live(k) BY DEF TypeOK, Live
    <3> QED BY <3>1, <3>2 DEF Inhabited
  <2>3. policy' = policy BY DEF PolicyAt, mapVars
  <2> QED BY <2>1, <2>2, <2>3 DEF Policy!Arrive, Inhabited, PolicyAt
<1>2. ASSUME NEW h \in Handlers, NEW m \in MntNs, m = ns[hk[h]],
             NEW t \in Attestable, t = content[hmap[h]], OuterPut(h)
      PROVE  Policy!Install(m, t)
  <2> USE <1>2 DEF OuterPut
  <2>1. m \in Inhabited BY DEF OrderlyInv, SerialInv, HandlersAreSound, Inhabited
  <2>2. hmap[h] \in MapIds BY DEF HandlersAreSound
  <2>3. policy' = [policy EXCEPT ![m] = t]
    <3>1. PolicyAt(m)' = t BY <2>2, OperatorConstants DEF PolicyAt, TypeOK
    <3>2. \A n \in MntNs \ {m} : PolicyAt(n)' = PolicyAt(n) BY DEF PolicyAt, TypeOK
    <3> QED BY <3>1, <3>2
  <2>4. Inhabited' = Inhabited BY DEF Inhabited, Live, containerVars
  <2> QED BY <2>1, <2>3, <2>4 DEF Policy!Install, Inhabited, PolicyAt
<1>3. ASSUME NEW k \in Containers, NEW m \in MntNs, m = ns[k],
             RemovedNotReady(k) \/ \E h \in Handlers : Removed(h, k)
      PROVE  Policy!Retire(m)
  <2>1. /\ life[k] = "exited" /\ life' = [life EXCEPT ![k] = "removed"]
        /\ UNCHANGED <<ns, content>>
        /\ outer' = [outer EXCEPT ![m] = None]
    BY <1>3 DEF RemovedNotReady, Removed, RemovedDue, mapVars, OrderlyInv, SerialInv,
        TypeOK
  <2>2. m \in Inhabited BY <1>3, <2>1 DEF Inhabited, Live
  <2>3. Inhabited' = Inhabited \ {m}
    <3>1. \A j \in Containers \ {k} : Live(j)' <=> Live(j) BY <2>1 DEF Live, TypeOK
    <3>2. Live(k) /\ ~Live(k)' BY <2>1 DEF Live, TypeOK
    <3>3. \A j \in Containers : Live(j) /\ ns[j] = m => j = k
      BY <1>3, <3>2 DEF OrderlyInv
    <3> QED BY <1>3, <2>1, <3>1, <3>2, <3>3 DEF Inhabited
  <2>4. policy' = [policy EXCEPT ![m] = None]
    <3>1. PolicyAt(m)' = None BY <2>1 DEF PolicyAt, TypeOK
    <3>2. \A n \in MntNs \ {m} : PolicyAt(n)' = PolicyAt(n) BY <2>1 DEF PolicyAt, TypeOK
    <3> QED BY <3>1, <3>2
  <2> QED BY <2>2, <2>3, <2>4 DEF Policy!Retire, Inhabited, PolicyAt
<1>4. ASSUME \/ MapReady
             \/ \E k \in Containers : Exit(k) \/ CreatedUnreadable(k)
             \/ FetchStep
             \/ \E h \in Handlers : NoInnerMap(h) \/ OuterPutFails(h) \/ SwapTracked(h)
                                      \/ Untrack(h)
             \/ UNCHANGED vars
      PROVE  UNCHANGED Policy!vars
  <2>1. UNCHANGED <<ns, outer, content>> /\ \A k \in Containers : Live(k)' <=> Live(k)
    BY <1>4
    DEF MapReady, Exit, CreatedUnreadable, FetchStep, Created, Fetched, NothingToInstall,
        NoInnerMap, OuterPutFails, SwapTracked, Untrack, vars, containerVars, mapVars,
        Live, TypeOK
  <2> QED BY <2>1, Unseen
<1>5. ASSUME NEW h \in Handlers, NEW x \in MapIds, NewMap(h, x)
      PROVE  UNCHANGED Policy!vars
  <2>1. UNCHANGED <<ns, outer, life>> BY <1>5 DEF NewMap, containerVars
  <2>2. \A m \in MntNs : outer[m] # None => content'[outer[m]] = content[outer[m]]
    BY <1>5 DEF NewMap, InKernel, TypeOK
  <2> QED BY <2>1, <2>2, Unseen DEF Live
<1>6. ASSUME NEW h \in Handlers, OuterPut(h) PROVE Policy!Next
  <2>1. PICK m \in MntNs, t \in Attestable : m = ns[hk[h]] /\ t = content[hmap[h]]
    BY <1>6 DEF OuterPut, HandlersAreSound
  <2> QED BY <1>2, <1>6, <2>1 DEF Policy!Next
<1>7. ASSUME NEW k \in Containers,
             RemovedNotReady(k) \/ \E h \in Handlers : Removed(h, k)
      PROVE  Policy!Next
  <2>1. PICK m \in MntNs : m = ns[k]
    BY <1>7 DEF RemovedNotReady, Removed, RemovedDue, HandlersAreSound
  <2> QED BY <1>3, <1>7, <2>1 DEF Policy!Next
<1>8. ASSUME NEW k \in Containers, NEW m \in MntNs, Start(k, m) PROVE Policy!Next
  BY <1>1, <1>8 DEF Policy!Next
<1> QED
  BY <1>4, <1>5, <1>6, <1>7, <1>8 DEF Next, Environment, OwnStep

(* KeepsPolicy: when events are in order, the operator gives the kernel    *)
(* exactly AttestPolicy, also while handlers of CREATED and REMOVED events *)
(* of different containers interleave and a namespace id is reused.        *)
THEOREM Refinement == ASSUME Orderly PROVE Spec => KeepsPolicy
<1>1. IInv /\ OrderlyInv /\ [Next]_vars => [Policy!Next]_Policy!vars BY PolicyStep
<1> QED BY InitPolicy, <1>1, Invariance, OrderlyInvariance, PTL
        DEF Spec, KeepsPolicy, Policy!Spec
=============================================================================
