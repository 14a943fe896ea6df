---------------------------- MODULE Sigward_proofs ----------------------------
(***************************************************************************)
(* Sigward from end to end: what is proved of the operator and of the      *)
(* fetcher alone holds in their composition, and with it that a container  *)
(* is judged by an SBOM of its own image.                                  *)
(***************************************************************************)
EXTENDS Sigward, ImaOperator_proofs, SbomDocument_proofs, TLAPS

FetcherFacts == INSTANCE SbomFetcher_proofs WITH Callers <- Handlers

LEMMA HostsOperator == SystemSpec => Spec
<1>1. SystemInit => Init BY DEF SystemInit
<1>2. [SystemNext]_allVars => [Next]_vars
  <2> SUFFICES ASSUME [SystemNext]_allVars PROVE [Next]_vars OBVIOUS
  <2>1. ASSUME NEW k \in Containers, NEW m \in MntNs, NEW d \in Digests, StartFrom(k, m, d)
        PROVE  Next
    BY <2>1 DEF StartFrom, Next, Environment
  <2>2. ASSUME NEW h \in Handlers, NEW k \in Containers, CreatedFetches(h, k) PROVE Next
    BY <2>2 DEF CreatedFetches, Next, FetchStep
  <2>3. ASSUME NEW h \in Handlers, FetchReturns(h) PROVE Next
    BY <2>3, OperatorConstants DEF FetchReturns, Next, FetchStep
  <2>4. CASE OperatorAlone BY <2>4 DEF OperatorAlone, Next, Environment
  <2>5. CASE FetcherAlone \/ UNCHANGED allVars
    BY <2>5 DEF FetcherAlone, allVars, operatorVars
  <2> QED BY <2>1, <2>2, <2>3, <2>4, <2>5 DEF SystemNext
<1> QED BY <1>1, <1>2, PTL DEF SystemSpec, Spec

\* The two instances of SbomFetcher are the same module.
LEMMA SameFetcher ==
  /\ Fetcher!Init <=> FetcherFacts!Init
  /\ Fetcher!Registry <=> FetcherFacts!Registry
  /\ \A h \in Handlers :
       /\ \A i : Fetcher!FetchForImage(h, i) <=> FetcherFacts!FetchForImage(h, i)
       /\ Fetcher!Progress(h) <=> FetcherFacts!Progress(h)
       /\ Fetcher!Return(h) <=> FetcherFacts!Return(h)
  /\ Fetcher!Genuine = FetcherFacts!Genuine
  /\ Fetcher!DistinctValues <=> FetcherFacts!DistinctValues
  /\ Fetcher!ChangesAssumption <=> FetcherFacts!ChangesAssumption
<1> USE DEF Fetcher!registryVars, FetcherFacts!registryVars,
            Fetcher!fetchVars, FetcherFacts!fetchVars,
            Fetcher!Facts, FetcherFacts!Facts, Fetcher!Answers, FetcherFacts!Answers,
            Fetcher!Attestations, FetcherFacts!Attestations
<1>1. \A d, a : Fetcher!AttestationOutcome(d, a) = FetcherFacts!AttestationOutcome(d, a)
  BY DEF Fetcher!AttestationOutcome, FetcherFacts!AttestationOutcome
<1>2. Fetcher!Init <=> FetcherFacts!Init
  BY DEF Fetcher!Init, FetcherFacts!Init, Fetcher!FetchInit, FetcherFacts!FetchInit,
         Fetcher!RegistryInit, FetcherFacts!RegistryInit
<1>3. Fetcher!Registry <=> FetcherFacts!Registry
  BY DEF Fetcher!Registry, FetcherFacts!Registry, Fetcher!MoveTag, FetcherFacts!MoveTag,
         Fetcher!Attach, FetcherFacts!Attach
<1>4. \A h \in Handlers : \A i :
        Fetcher!FetchForImage(h, i) <=> FetcherFacts!FetchForImage(h, i)
  BY DEF Fetcher!FetchForImage, FetcherFacts!FetchForImage,
         Fetcher!EmptyRef, FetcherFacts!EmptyRef, Fetcher!CacheHit, FetcherFacts!CacheHit,
         Fetcher!CacheMiss, FetcherFacts!CacheMiss
<1>5. \A h \in Handlers : Fetcher!Progress(h) <=> FetcherFacts!Progress(h)
  <2> TAKE h \in Handlers
  <2>1. Fetcher!FetchAttestation(h) <=> FetcherFacts!FetchAttestation(h)
    BY <1>1 DEF Fetcher!FetchAttestation, FetcherFacts!FetchAttestation
  <2>2. Fetcher!Released(h) = FetcherFacts!Released(h)
    BY DEF Fetcher!Released, FetcherFacts!Released
  <2>3. Fetcher!Finish(h) <=> FetcherFacts!Finish(h)
    BY <2>2 DEF Fetcher!Finish, FetcherFacts!Finish
  <2> QED BY <2>1, <2>3
    DEF Fetcher!Progress, FetcherFacts!Progress, Fetcher!LeadFetch, FetcherFacts!LeadFetch,
        Fetcher!JoinFetch, FetcherFacts!JoinFetch,
        Fetcher!ResolveImage, FetcherFacts!ResolveImage,
        Fetcher!FetchFails, FetcherFacts!FetchFails, Fetcher!Store, FetcherFacts!Store
<1>6. \A h \in Handlers : Fetcher!Return(h) <=> FetcherFacts!Return(h)
  BY DEF Fetcher!Return, FetcherFacts!Return
<1>7. Fetcher!Genuine = FetcherFacts!Genuine
  BY <1>1 DEF Fetcher!Genuine, FetcherFacts!Genuine
<1>8. /\ Fetcher!DistinctValues <=> FetcherFacts!DistinctValues
      /\ Fetcher!ChangesAssumption <=> FetcherFacts!ChangesAssumption
  BY DEF Fetcher!DistinctValues, FetcherFacts!DistinctValues,
         Fetcher!ChangesAssumption, FetcherFacts!ChangesAssumption
<1> QED BY <1>2, <1>3, <1>4, <1>5, <1>6, <1>7, <1>8

LEMMA HostsFetcher == SystemSpec => FetcherFacts!Spec
<1>1. SystemInit => FetcherFacts!Init BY SameFetcher DEF SystemInit
<1>2. [SystemNext]_allVars => [FetcherFacts!Next]_FetcherFacts!vars
  <2> SUFFICES ASSUME [SystemNext]_allVars PROVE [FetcherFacts!Next]_FetcherFacts!vars
    OBVIOUS
  <2> USE DEF FetcherFacts!vars, FetcherFacts!fetchVars, FetcherFacts!registryVars, fetcherVars
  <2>1. ASSUME NEW k \in Containers, NEW m \in MntNs, NEW d \in Digests, StartFrom(k, m, d)
        PROVE  UNCHANGED FetcherFacts!vars
    BY <2>1 DEF StartFrom
  <2>2. ASSUME NEW h \in Handlers, NEW k \in Containers, CreatedFetches(h, k)
        PROVE  FetcherFacts!Next
    <3>1. ImageOf(k) \in Images \union {NoImage} BY DEF Images
    <3> QED BY <2>2, <3>1, SameFetcher DEF CreatedFetches, FetcherFacts!Next
  <2>3. ASSUME NEW h \in Handlers, FetchReturns(h) PROVE FetcherFacts!Next
    BY <2>3, SameFetcher DEF FetchReturns, FetcherFacts!Next
  <2>4. CASE OperatorAlone BY <2>4 DEF OperatorAlone
  <2>5. CASE FetcherAlone BY <2>5, SameFetcher DEF FetcherAlone, FetcherFacts!Next
  <2>6. CASE UNCHANGED allVars BY <2>6 DEF allVars
  <2> QED BY <2>1, <2>2, <2>3, <2>4, <2>5, <2>6 DEF SystemNext
<1> QED BY <1>1, <1>2, PTL DEF SystemSpec, FetcherFacts!Spec

LEMMA FetcherInvariance ==
  SystemSpec => []FetcherFacts!IInv /\ []FetcherFacts!AnswersAreGenuine
<1>1. FetcherFacts!DistinctValues /\ FetcherFacts!ChangesAssumption
  BY SystemConstants, SameFetcher
<1>2. FetcherFacts!Spec => []FetcherFacts!IInv BY <1>1, FetcherFacts!Invariance
<1>3. FetcherFacts!Spec => []FetcherFacts!AnswersAreGenuine
  BY <1>1, FetcherFacts!AnswersSound
<1> QED BY <1>2, <1>3, HostsFetcher, PTL
-----------------------------------------------------------------------------
(* What a handler has on its way from its fetch to the kernel, and what the *)
(* kernel has for a container, is an SBOM of the container's image.         *)

CallsMatch == \A h \in Handlers : hpc[h] = "fetch" => ref[h] = ImageOf(hk[h])

HandlersCarry(G) ==
  \A h \in Handlers :
    hpc[h] \in {"newmap", "put", "swap"} => <<ImageOf(hk[h]), hdoc[h]>> \in G

PoliciesAreOf(G) ==
  \A k \in Containers :
    Live(k) /\ outer[ns[k]] # None => <<ImageOf(k), content[outer[ns[k]]]>> \in G

ImagesMatch ==
  CallsMatch /\ HandlersCarry(FetcherFacts!Genuine) /\ PoliciesAreOf(FetcherFacts!Genuine)

LEMMA InitMatch == SystemInit => ImagesMatch
BY DEF SystemInit, Init, ImagesMatch, CallsMatch, HandlersCarry, PoliciesAreOf, Live

LEMMA StartMatch ==
  ASSUME Orderly, IInv, OrderlyInv, NEW G, HandlersCarry(G), PoliciesAreOf(G), CallsMatch,
         NEW k \in Containers, NEW m \in MntNs, Start(k, m), UNCHANGED ref
  PROVE  CallsMatch' /\ HandlersCarry(G)' /\ PoliciesAreOf(G)'
<1>1. UNCHANGED <<handlerVars, mapVars>> BY DEF Start
<1>2. /\ life'[k] = "running" /\ ns'[k] = m
      /\ \A j \in Containers \ {k} : life'[j] = life[j] /\ ns'[j] = ns[j]
  BY DEF Start, IInv, TypeOK
<1>3. outer[m] = None BY DEF Start, Orderly, OrderlyInv, SerialInv, Live
<1>4. PoliciesAreOf(G)' BY <1>1, <1>2, <1>3 DEF PoliciesAreOf, Live, mapVars
<1> QED BY <1>1, <1>4 DEF CallsMatch, HandlersCarry, handlerVars

\* The operator's steps that no fetch is part of; OuterPut is where the
\* handler's SBOM becomes the policy of the one live container of the namespace.
LEMMA OwnMatch ==
  ASSUME IInv, OrderlyInv, NEW G, HandlersCarry(G), PoliciesAreOf(G), CallsMatch,
         MapReady \/ (\E k \in Containers : Exit(k)) \/ OwnStep, UNCHANGED ref
  PROVE  CallsMatch' /\ HandlersCarry(G)' /\ PoliciesAreOf(G)'
<1> DEFINE Match == CallsMatch /\ HandlersCarry(G) /\ PoliciesAreOf(G)
<1> USE DEF CallsMatch, HandlersCarry, PoliciesAreOf, containerVars, handlerVars, mapVars
<1>1. CASE MapReady BY <1>1 DEF MapReady, Live
<1>2. ASSUME NEW k \in Containers, Exit(k) \/ CreatedUnreadable(k) \/ RemovedNotReady(k)
      PROVE  Match'
  <2>1. UNCHANGED <<ns, hpc, hk, hdoc, outer, content>>
    BY <1>2 DEF Exit, CreatedUnreadable, RemovedNotReady
  <2>2. \A j \in Containers : Live(j)' => Live(j)
    BY <1>2 DEF Exit, CreatedUnreadable, RemovedNotReady, RemovedDue, Live, IInv, TypeOK
  <2> QED BY <2>1, <2>2
<1>3. ASSUME NEW h \in Handlers, NoInnerMap(h) \/ OuterPutFails(h) \/ SwapTracked(h) \/ Untrack(h)
      PROVE  Match'
  <2>1. UNCHANGED <<life, ns, outer, content>> /\ Idle(h)
    BY <1>3 DEF NoInnerMap, OuterPutFails, SwapTracked, Untrack
  <2>2. hpc'[h] = "idle"
        /\ \A g \in Handlers \ {h} : hpc'[g] = hpc[g] /\ hk'[g] = hk[g] /\ hdoc'[g] = hdoc[g]
    BY <2>1 DEF Idle, IInv, TypeOK
  <2> QED BY <2>1, <2>2 DEF Live
<1>4. ASSUME NEW h \in Handlers, NEW x \in MapIds, NewMap(h, x) PROVE Match'
  <2>1. /\ UNCHANGED <<life, ns, outer, hk, hdoc>>
        /\ hpc[h] = "newmap" /\ hpc' = [hpc EXCEPT ![h] = "put"]
    BY <1>4 DEF NewMap
  <2>2. \A n \in MntNs : outer[n] # None => content'[outer[n]] = content[outer[n]]
    BY <1>4 DEF NewMap, InKernel, IInv, TypeOK
  <2>3. \A k \in Containers : Live(k) => ns[k] \in MntNs
    BY DEF Live, IInv, HandlersAreSound, TypeOK
  <2> QED BY <2>1, <2>2, <2>3 DEF Live, IInv, TypeOK
<1>5. ASSUME NEW h \in Handlers, OuterPut(h) PROVE Match'
  <2> DEFINE k == hk[h]
  <2>1. /\ k \in Containers /\ Live(k) /\ ns[k] \in MntNs
        /\ content[hmap[h]] = hdoc[h]
    BY <1>5 DEF OuterPut, OrderlyInv, SerialInv, IInv, HandlersAreSound, TypeOK
  <2>2. /\ UNCHANGED <<life, ns, content, hk, hdoc>>
        /\ hpc[h] = "put" /\ hpc' = [hpc EXCEPT ![h] = "swap"]
        /\ outer' = [outer EXCEPT ![ns[k]] = hmap[h]]
    BY <1>5 DEF OuterPut
  <2>3. <<ImageOf(k), content[hmap[h]]>> \in G BY <2>1, <2>2
  <2>4. \A j \in Containers : Live(j) /\ ns[j] = ns[k] => j = k BY <2>1 DEF OrderlyInv
  <2>5. outer'[ns[k]] = hmap[h] /\ \A n \in MntNs \ {ns[k]} : outer'[n] = outer[n]
    BY <2>1, <2>2 DEF IInv, TypeOK
  <2>6. \A j \in Containers : Live(j) => ns[j] \in MntNs
    BY DEF Live, IInv, HandlersAreSound, TypeOK
  <2>7. \A j \in Containers : Live(j)' <=> Live(j) BY <2>2 DEF Live
  <2>8. PoliciesAreOf(G)'
    <3> SUFFICES ASSUME NEW j \in Containers, Live(j), outer'[ns[j]] # None
                 PROVE  <<ImageOf(j), content[outer'[ns[j]]]>> \in G
      BY <2>2, <2>7
    <3>1. CASE j = k BY <2>3, <2>5, <3>1
    <3>2. CASE j # k BY <2>4, <2>5, <2>6, <3>2
    <3> QED BY <3>1, <3>2
  <2>9. CallsMatch' /\ HandlersCarry(G)' BY <2>2 DEF IInv, TypeOK
  <2> QED BY <2>8, <2>9
<1>6. ASSUME NEW h \in Handlers, NEW k \in Containers, Removed(h, k) PROVE Match'
  <2>1. UNCHANGED <<ns, content, hdoc>> BY <1>6 DEF Removed
  <2>2. \A j \in Containers : Live(j)' => Live(j)
    BY <1>6 DEF Removed, RemovedDue, Live, IInv, TypeOK
  <2>3. ns[k] \in MntNs /\ \A n \in MntNs : outer'[n] \in {outer[n], None}
    BY <1>6 DEF Removed, RemovedDue, IInv, HandlersAreSound, TypeOK
  <2>4. hpc'[h] = "untrack"
        /\ \A g \in Handlers \ {h} : hpc'[g] = hpc[g] /\ hk'[g] = hk[g]
    BY <1>6 DEF Removed, IInv, TypeOK
  <2>5. \A j \in Containers : Live(j) => ns[j] \in MntNs
    BY DEF Live, IInv, HandlersAreSound, TypeOK
  <2> QED BY <2>1, <2>2, <2>3, <2>4, <2>5
<1> QED BY <1>1, <1>2, <1>3, <1>4, <1>5, <1>6 DEF OwnStep

\* The call of FetchForImage is for the image of the event's container.
LEMMA CreatedMatch ==
  ASSUME IInv, FetcherFacts!IInv, FetcherFacts!AnswersAreGenuine, NEW G,
         HandlersCarry(G), PoliciesAreOf(G), CallsMatch,
         NEW h \in Handlers, NEW k \in Containers, CreatedFetches(h, k)
  PROVE  CallsMatch' /\ HandlersCarry(G)' /\ PoliciesAreOf(G)'
<1>1. Created(h, k) /\ FetcherFacts!FetchForImage(h, ImageOf(k))
  BY SameFetcher DEF CreatedFetches
<1>2. /\ hpc'[h] = "fetch" /\ hk'[h] = k
      /\ \A g \in Handlers \ {h} : hpc'[g] = hpc[g] /\ hk'[g] = hk[g]
      /\ UNCHANGED <<life, ns, outer, content, hdoc>>
  BY <1>1 DEF Created, IInv, TypeOK, mapVars
<1>3. DOMAIN ref = Handlers BY DEF FetcherFacts!IInv, FetcherFacts!TypeOK
<1>4. ref'[h] = ImageOf(k) /\ \A g \in Handlers \ {h} : ref'[g] = ref[g]
  BY <1>1, <1>3
  DEF FetcherFacts!FetchForImage, FetcherFacts!EmptyRef, FetcherFacts!CacheHit,
      FetcherFacts!CacheMiss, FetcherFacts!AnswersAreGenuine
<1> QED BY <1>2, <1>4 DEF CallsMatch, HandlersCarry, PoliciesAreOf, Live

\* What it returns is of the image it was called for.
LEMMA ReturnMatch ==
  ASSUME IInv, FetcherFacts!IInv, FetcherFacts!AnswersAreGenuine, NEW G,
         G = FetcherFacts!Genuine, HandlersCarry(G), PoliciesAreOf(G), CallsMatch,
         NEW h \in Handlers, FetchReturns(h)
  PROVE  CallsMatch' /\ HandlersCarry(G)' /\ PoliciesAreOf(G)'
<1>1. FetcherFacts!Return(h) BY SameFetcher DEF FetchReturns
<1>2. DOMAIN ref = Handlers BY DEF FetcherFacts!IInv, FetcherFacts!TypeOK
<1>3. pc[h] = "answered" /\ \A g \in Handlers \ {h} : ref'[g] = ref[g]
  BY <1>1, <1>2 DEF FetcherFacts!Return
<1>4. CASE out[h] \in Attestable /\ Fetched(h, out[h])
  <2>1. /\ hpc[h] = "fetch" /\ hpc'[h] = "newmap" /\ hdoc'[h] = out[h] /\ hk' = hk
        /\ \A g \in Handlers \ {h} : hpc'[g] = hpc[g] /\ hdoc'[g] = hdoc[g]
        /\ UNCHANGED <<life, ns, outer, content>>
    BY <1>4 DEF Fetched, IInv, TypeOK, containerVars, mapVars
  <2>2. out[h] \notin {NoSbom, FetchError}
    BY <1>4, OperatorConstants, SystemConstants DEF Fetcher!DistinctValues, Fetcher!Facts
  <2>3. <<ref[h], out[h]>> \in G BY <1>3, <2>2 DEF FetcherFacts!AnswersAreGenuine
  <2>4. <<ImageOf(hk'[h]), hdoc'[h]>> \in G BY <2>1, <2>3 DEF CallsMatch
  <2> QED BY <1>3, <2>1, <2>4 DEF CallsMatch, HandlersCarry, PoliciesAreOf, Live
<1>5. CASE NothingToInstall(h)
  <2>1. hpc'[h] = "idle" /\ UNCHANGED <<life, ns, outer, content>>
        /\ \A g \in Handlers \ {h} : hpc'[g] = hpc[g] /\ hk'[g] = hk[g] /\ hdoc'[g] = hdoc[g]
    BY <1>5 DEF NothingToInstall, Idle, IInv, TypeOK, containerVars, mapVars
  <2> QED BY <1>3, <2>1 DEF CallsMatch, HandlersCarry, PoliciesAreOf, Live
<1> QED BY <1>4, <1>5 DEF FetchReturns

LEMMA SystemStep ==
  ASSUME Orderly, IInv, OrderlyInv, FetcherFacts!IInv, FetcherFacts!AnswersAreGenuine,
         ImagesMatch, [SystemNext]_allVars
  PROVE  ImagesMatch'
<1>1. FetcherFacts!DistinctValues /\ FetcherFacts!ChangesAssumption
  BY SystemConstants, SameFetcher
<1>2. PICK G : G = FetcherFacts!Genuine OBVIOUS
<1>3. CallsMatch /\ HandlersCarry(G) /\ PoliciesAreOf(G) BY <1>2 DEF ImagesMatch
<1>4. SUFFICES /\ CallsMatch' /\ HandlersCarry(G)' /\ PoliciesAreOf(G)'
               /\ G \subseteq FetcherFacts!Genuine'
  BY DEF ImagesMatch, HandlersCarry, PoliciesAreOf
<1>5. ASSUME UNCHANGED FetcherFacts!registryVars PROVE G \subseteq FetcherFacts!Genuine'
  BY <1>1, <1>2, <1>5, FetcherFacts!GenuineSame
<1>6. UNCHANGED fetcherVars => UNCHANGED FetcherFacts!registryVars /\ UNCHANGED ref
  BY DEF fetcherVars, FetcherFacts!registryVars
<1>7. ASSUME NEW k \in Containers, NEW m \in MntNs, NEW d \in Digests, StartFrom(k, m, d)
      PROVE  /\ CallsMatch' /\ HandlersCarry(G)' /\ PoliciesAreOf(G)'
             /\ G \subseteq FetcherFacts!Genuine'
  BY <1>3, <1>5, <1>6, <1>7, StartMatch DEF StartFrom
<1>8. ASSUME NEW h \in Handlers, NEW k \in Containers, CreatedFetches(h, k)
      PROVE  /\ CallsMatch' /\ HandlersCarry(G)' /\ PoliciesAreOf(G)'
             /\ G \subseteq FetcherFacts!Genuine'
  <2>1. FetcherFacts!FetchForImage(h, ImageOf(k)) BY <1>8, SameFetcher DEF CreatedFetches
  <2>2. UNCHANGED FetcherFacts!registryVars
    BY <2>1 DEF FetcherFacts!FetchForImage, FetcherFacts!EmptyRef, FetcherFacts!CacheHit,
                FetcherFacts!CacheMiss
  <2> QED BY <1>3, <1>5, <1>8, <2>2, CreatedMatch
<1>9. ASSUME NEW h \in Handlers, FetchReturns(h)
      PROVE  /\ CallsMatch' /\ HandlersCarry(G)' /\ PoliciesAreOf(G)'
             /\ G \subseteq FetcherFacts!Genuine'
  <2>1. UNCHANGED FetcherFacts!registryVars
    BY <1>9, SameFetcher DEF FetchReturns, FetcherFacts!Return
  <2> QED BY <1>2, <1>3, <1>5, <1>9, <2>1, ReturnMatch
<1>10. CASE OperatorAlone
  BY <1>3, <1>5, <1>6, <1>10, OwnMatch DEF OperatorAlone
<1>11. CASE FetcherAlone
  <2>1. UNCHANGED vars BY <1>11 DEF FetcherAlone, operatorVars
  <2>2. UNCHANGED ref /\ G \subseteq FetcherFacts!Genuine'
    <3>1. CASE FetcherFacts!Registry
      <4>1. /\ pointed \subseteq pointed' /\ attached \subseteq attached'
            /\ UNCHANGED FetcherFacts!fetchVars
        BY <3>1 DEF FetcherFacts!Registry, FetcherFacts!MoveTag, FetcherFacts!Attach
      <4> QED BY <1>1, <1>2, <4>1, FetcherFacts!GenuineGrows DEF FetcherFacts!fetchVars
    <3>2. ASSUME NEW h \in Handlers, FetcherFacts!Progress(h)
          PROVE  UNCHANGED ref /\ UNCHANGED FetcherFacts!registryVars
      BY <3>2
      DEF FetcherFacts!Progress, FetcherFacts!LeadFetch, FetcherFacts!JoinFetch,
          FetcherFacts!ResolveImage, FetcherFacts!FetchAttestation, FetcherFacts!FetchFails,
          FetcherFacts!Store, FetcherFacts!Finish
    <3> QED BY <1>5, <1>11, <3>1, <3>2, SameFetcher DEF FetcherAlone
  <2> QED BY <1>3, <2>1, <2>2
    DEF vars, containerVars, handlerVars, mapVars, CallsMatch, HandlersCarry, PoliciesAreOf, Live
<1>12. CASE UNCHANGED allVars
  <2>1. UNCHANGED vars /\ UNCHANGED fetcherVars BY <1>12 DEF allVars, operatorVars
  <2> QED BY <1>3, <1>5, <1>6, <2>1
    DEF vars, containerVars, handlerVars, mapVars, CallsMatch, HandlersCarry, PoliciesAreOf, Live
<1> QED BY <1>7, <1>8, <1>9, <1>10, <1>11, <1>12 DEF SystemNext

LEMMA ImagesInvariance == ASSUME Orderly PROVE SystemSpec => []ImagesMatch
<1>1. /\ IInv /\ OrderlyInv /\ FetcherFacts!IInv /\ FetcherFacts!AnswersAreGenuine
      /\ ImagesMatch /\ [SystemNext]_allVars
      => ImagesMatch'
  BY SystemStep
<1>2. Spec => []OrderlyInv BY OrderlyInvariance
<1>3. SystemSpec => [](IInv /\ OrderlyInv) BY <1>2, Invariance, HostsOperator, PTL
<1> QED BY InitMatch, <1>1, <1>3, FetcherInvariance, PTL DEF SystemSpec
-----------------------------------------------------------------------------
(* Decisions *)

LEMMA RefusedNothing ==
  ASSUME NEW k \in Containers, outer[ns[k]] = None
  PROVE  Refused(k) = {}
<1>1. TableOf(k) = NoTable BY DEF TableOf
<1> QED BY <1>1 DEF Refused, BprmCheckSecurity, MmapFile, attest_file, Decision

\* By the table of an SBOM, what it speaks against is refused, by both programs.
LEMMA RefusedBySbom ==
  ASSUME NEW k \in Containers, NEW s \in Attestable,
         outer[ns[k]] # None, content[outer[ns[k]]] = s
  PROVE  Refused(k) = Against(s)
<1> DEFINE table == HashTable(Documents[s])
           Bad(f) == \/ Lookup(table, f[1], Missing) = Missing
                     \/ f[2] \notin {Lookup(table, f[1], Missing), NotSha256}
<1>1. EPERM # Allow BY DEF EPERM, Allow
<1>2. \A room, type : Refuse(TRUE, room, type).ret = EPERM BY DEF Refuse, Decision
<1>3. TableOf(k) = table /\ table # NoTable
  <2>1. PolicyTables[s] = table BY DEF PolicyTables
  <2> QED BY <2>1, SystemConstants DEF TableOf
<1> HIDE DEF table
<1>4. ASSUME NEW f \in ExecFiles, NEW room, NEW events
      PROVE  attest_file(TRUE, table, f[1], f[2], room, events).ret
               = IF Bad(f) THEN EPERM ELSE Allow
  <2>1. f[1] # NoPath BY SystemConstants
  <2>2. CASE Lookup(table, f[1], Missing) = Missing
    BY <1>2, <1>3, <2>1, <2>2 DEF attest_file
  <2>3. CASE Lookup(table, f[1], Missing) # Missing
    BY <1>2, <1>3, <2>1, <2>3 DEF attest_file, Decision
  <2> QED BY <2>2, <2>3
<1>5. ASSUME NEW f \in ExecFiles, NEW room
      PROVE  /\ BprmCheckSecurity(Allow, FALSE, TRUE, TableOf(k), f[1], f[2], room).ret
                  # Allow <=> Bad(f)
             /\ MmapFile(Allow, FALSE, TRUE, FALSE, TRUE, TableOf(k), f[1], f[2], room).ret
                  # Allow <=> Bad(f)
  <2> HIDE DEF Bad
  <2>1. BprmCheckSecurity(Allow, FALSE, TRUE, TableOf(k), f[1], f[2], room)
          = attest_file(TRUE, table, f[1], f[2], room, <<"UNATTESTED_BINARY", "HASH_MISMATCH">>)
    BY <1>3 DEF BprmCheckSecurity
  <2>2. MmapFile(Allow, FALSE, TRUE, FALSE, TRUE, TableOf(k), f[1], f[2], room)
          = attest_file(TRUE, table, f[1], f[2], room,
              <<"UNATTESTED_SHARED_OBJECT", "SHARED_OBJECT_HASH_MISMATCH">>)
    BY <1>3 DEF MmapFile
  <2> QED BY <1>1, <1>4, <2>1, <2>2
<1>6. Refused(k) = {f \in ExecFiles : Bad(f)}
  <2> HIDE DEF Bad
  <2>1. TRUE \in BOOLEAN OBVIOUS
  <2> QED BY <1>5, <2>1 DEF Refused
<1>7. ASSUME NEW f \in ExecFiles PROVE Bad(f) <=> f \in Against(s)
  <2>1. Documents[s] \in Documented /\ KernelPath(f[1]) /\ Missing \notin Hashes
        /\ MaxFilepathLen > 2
    BY SystemConstants
  <2> DEFINE key == KernelKey(f[1])
             found == Lookup(table, f[1], Missing)
  <2>2. /\ found # Missing <=> Placed(Documents[s], key)
        /\ Placed(Documents[s], key) => \A h : found = h <=> Says(Documents[s], key, h)
    BY <2>1, LookupMeans DEF table
  <2>3. f \in Against(s) <=>
          ~(Placed(Documents[s], key) /\ (f[2] = NotSha256 \/ Says(Documents[s], key, f[2])))
    BY DEF Against
  <2> HIDE DEF key
  <2> QED BY <2>2, <2>3
<1> HIDE DEF Bad
<1> QED BY <1>6, <1>7 DEF Against

\* The first reference of a list is one of it that is not empty, or there is none.
LEMMA FirstNonEmptyIs ==
  ASSUME NEW refs, DOMAIN refs = 1..Len(refs), Len(refs) \in Nat
  PROVE  FirstNonEmpty(refs) # NoImage => \E n \in DOMAIN refs : FirstNonEmpty(refs) = refs[n]
<1> DEFINE I == {n \in 1..Len(refs) : refs[n] # NoImage}
           at == SelectInSeq(refs, LAMBDA r : r # NoImage)
<1>1. at = IF I # {} THEN Min(I) ELSE 0 BY DEF SelectInSeq
<1>2. CASE I = {}
  <2>1. at = 0 BY <1>1, <1>2
  <2> QED BY <2>1 DEF FirstNonEmpty
<1>3. CASE I # {}
  <2>1. I \in SUBSET Nat OBVIOUS
  <2>2. \E n \in I : \A m \in I : n <= m
    <3> HIDE DEF I
    <3> QED BY <1>3, <2>1, LeastNat
  <2>3. Min(I) \in I BY <2>2 DEF Min
  <2>4. at \in 1..Len(refs) BY <1>1, <1>3, <2>3
  <2>5. at # 0 BY <2>4
  <2> HIDE DEF at
  <2>6. FirstNonEmpty(refs) = refs[at] BY <2>5 DEF FirstNonEmpty, at
  <2> QED BY <2>4, <2>6
<1> QED BY <1>2, <1>3

\* Every name of an image is normalised to its whole reference.
LEMMA NamesAreNormalized ==
  ASSUME NEW i, Whole(i), NEW r, IsNameOf(r, i)
  PROVE  NormalizeImageRef(r) = i
<1>1. i \in Seq(STRING) /\ Len(i) > 1 /\ Head(i) = i[1] /\ Head(i) \in RegistryHosts
  BY DEF Whole
<1>2. CASE r = i BY <1>1, <1>2 DEF NormalizeImageRef, NoImage
<1>3. CASE Head(i) = "docker.io" /\ r = Tail(i)
  <2>1. Len(r) > 1 /\ Head(r) = i[2] /\ i[2] \notin RegistryHosts
    BY <1>1, <1>3 DEF Whole
  <2>2. <<"docker.io">> \o r = i BY <1>1, <1>3
  <2> QED BY <2>1, <2>2 DEF NormalizeImageRef, NoImage
<1>4. CASE Len(r) = 1 /\ i = <<"docker.io", "library">> \o r
  <2>1. r # <<>> BY <1>4
  <2> QED BY <1>4, <2>1 DEF NormalizeImageRef, NoImage
<1> QED BY <1>2, <1>3, <1>4 DEF IsNameOf

\* A handler asks for the image the container was created from, or for none.
LEMMA OwnName ==
  ASSUME NEW k \in Containers, ImageOf(k) # NoImage
  PROVE  ImageOf(k) = Pulled[k]
<1> DEFINE e == Events[k]
           i == Pulled[k]
           oci == ImageRefFromOCIConfig(e.annotations)
           roots == DockerDataRoots(e.daemonRoot, "/var/lib/docker")
           refs == [n \in DOMAIN roots |-> e.images[roots[n]]]
<1>1. Whole(i) /\ NamedAs(e, i) BY EventsNameImages
<1> HIDE DEF e, i
<1>2. oci # NoImage => IsNameOf(oci, i)
  <2>1. DOMAIN e.annotations = 1..Len(e.annotations) /\ Len(e.annotations) \in Nat
    <3>1. e.annotations \in Seq(Seq(STRING)) BY <1>1 DEF NamedAs
    <3> QED BY <3>1
  <2> QED BY <1>1, <2>1, FirstNonEmptyIs DEF NamedAs, ImageRefFromOCIConfig
<1>3. ImageRefFromDockerConfig(e.validId, refs) # NoImage
      => IsNameOf(ImageRefFromDockerConfig(e.validId, refs), i)
  <2>1. /\ DOMAIN roots = 1..Len(roots) /\ Len(roots) \in Nat
        /\ \A n \in DOMAIN roots : roots[n] \in DOMAIN e.images
    <3>1. {"/var/lib/docker", e.daemonRoot} \ {""} \subseteq DOMAIN e.images
      BY <1>1 DEF NamedAs
    <3>2. CASE e.daemonRoot = ""
      <4>1. roots = <<"/var/lib/docker">> BY <3>2 DEF DockerDataRoots
      <4>2. "/var/lib/docker" \in DOMAIN e.images BY <3>1
      <4> HIDE DEF roots
      <4>3. DOMAIN roots = 1..1 /\ Len(roots) = 1 /\ roots[1] = "/var/lib/docker" BY <4>1
      <4> QED BY <4>2, <4>3
    <3>3. CASE e.daemonRoot # ""
      <4>1. roots = <<e.daemonRoot, "/var/lib/docker">> BY <3>3 DEF DockerDataRoots
      <4>2. {"/var/lib/docker", e.daemonRoot} \subseteq DOMAIN e.images BY <3>1, <3>3
      <4> HIDE DEF roots
      <4>3. /\ DOMAIN roots = 1..2 /\ Len(roots) = 2
            /\ roots[1] = e.daemonRoot /\ roots[2] = "/var/lib/docker"
        BY <4>1
      <4> QED BY <4>2, <4>3
    <3> QED BY <3>2, <3>3
  <2> HIDE DEF roots
  <2>2. DOMAIN refs = 1..Len(refs) /\ Len(refs) \in Nat
    <3>1. refs \in [1..Len(roots) -> {e.images[roots[n]] : n \in DOMAIN roots}] BY <2>1
    <3>2. refs \in Seq({e.images[roots[n]] : n \in DOMAIN roots}) BY <2>1, <3>1, SeqDef
    <3> HIDE DEF refs
    <3> QED BY <3>2
  <2>3. FirstNonEmpty(refs) # NoImage => \E n \in DOMAIN refs : FirstNonEmpty(refs) = refs[n]
    <3> HIDE DEF refs
    <3> QED BY <2>2, FirstNonEmptyIs
  <2>4. \A n \in DOMAIN refs : refs[n] # NoImage => IsNameOf(refs[n], i)
    BY <1>1, <2>1 DEF NamedAs
  <2>5. ImageRefFromDockerConfig(e.validId, refs) # NoImage
        => ImageRefFromDockerConfig(e.validId, refs) = FirstNonEmpty(refs)
    BY DEF ImageRefFromDockerConfig
  <2> HIDE DEF refs
  <2> QED BY <2>3, <2>4, <2>5
<1>4. \/ ImageOf(k) = NormalizeImageRef(oci) /\ oci # NoImage
      \/ ImageOf(k) = NormalizeImageRef(ImageRefFromDockerConfig(e.validId, refs))
      \/ ImageOf(k) = NormalizeImageRef(NoImage)
  BY DEF ImageOf, HandlerImage, e
<1>5. NormalizeImageRef(NoImage) = NoImage BY DEF NormalizeImageRef, NoImage
<1> HIDE DEF oci, refs
<1> QED BY <1>1, <1>2, <1>3, <1>4, <1>5, NamesAreNormalized DEF i

(* JudgedByOwnImage: when events are in order and namespace ids are not     *)
(* reused early, whatever calls of FetchForImage are joined or answered     *)
(* from the cache and however handlers interleave, a running container is   *)
(* refused nothing, or what one SBOM of its own image speaks against.       *)
THEOREM OwnImage == ASSUME Orderly PROVE SystemSpec => []JudgedByOwnImage
<1>1. IInv /\ ImagesMatch => JudgedByOwnImage
  <2> SUFFICES ASSUME IInv, ImagesMatch,
                      NEW k \in Containers, life[k] = "running", Refused(k) # {}
               PROVE  \E s \in Attestable :
                        <<Pulled[k], s>> \in Fetcher!Genuine /\ Refused(k) = Against(s)
    BY DEF JudgedByOwnImage
  <2>1. ns[k] \in MntNs BY DEF IInv, HandlersAreSound
  <2>2. outer[ns[k]] # None BY RefusedNothing
  <2> DEFINE s == content[outer[ns[k]]]
  <2>3. s \in Attestable BY <2>1, <2>2 DEF IInv, InstalledMapsAreWhole
  <2>4. <<ImageOf(k), s>> \in Fetcher!Genuine
    BY <2>2, SameFetcher DEF ImagesMatch, PoliciesAreOf, Live
  <2>5. Refused(k) = Against(s) BY <2>2, <2>3, RefusedBySbom
  <2>6. ImageOf(k) = Pulled[k]
    <3>1. ImageOf(k) \in Images BY <2>4 DEF Fetcher!Genuine
    <3> QED BY <3>1, SystemConstants, OwnName DEF Fetcher!DistinctValues
  <2> QED BY <2>3, <2>4, <2>5, <2>6
<1>2. SystemSpec => []IInv BY Invariance, HostsOperator, PTL
<1> QED BY <1>1, <1>2, ImagesInvariance, PTL
-----------------------------------------------------------------------------
(* Manifests *)

\* A container that has started runs a manifest its image's tag has named.
RunsAreNamed ==
  /\ DOMAIN runs = Containers
  /\ \A k \in Containers : life[k] # "absent" => <<Pulled[k], runs[k]>> \in pointed

LEMMA OnlyStartsBegin ==
  ASSUME IInv, MapReady \/ (\E k \in Containers : Exit(k)) \/ OwnStep
  PROVE  \A j \in Containers : life[j] = "absent" => life'[j] = "absent"
<1>1. CASE MapReady BY <1>1 DEF MapReady, containerVars
<1>2. ASSUME NEW k \in Containers, Exit(k)
      PROVE  \A j \in Containers : life[j] = "absent" => life'[j] = "absent"
  BY <1>2 DEF Exit, IInv, TypeOK
<1>3. CASE OwnStep
  BY <1>3 DEF OwnStep, CreatedUnreadable, RemovedNotReady, RemovedDue, NoInnerMap, NewMap,
              OuterPut, OuterPutFails, SwapTracked, Removed, Untrack, containerVars, IInv, TypeOK
<1> QED BY <1>1, <1>2, <1>3

LEMMA NamedStep ==
  ASSUME IInv, RunsAreNamed, [SystemNext]_allVars
  PROVE  RunsAreNamed'
<1> USE DEF RunsAreNamed
<1>1. ASSUME NEW k \in Containers, NEW m \in MntNs, NEW d \in Digests, StartFrom(k, m, d)
      PROVE  RunsAreNamed'
  <2>1. /\ pointed' = pointed /\ runs' = [runs EXCEPT ![k] = d]
        /\ <<Pulled[k], d>> \in pointed
    BY <1>1 DEF StartFrom, fetcherVars
  <2>2. \A j \in Containers \ {k} : life'[j] = life[j]
    BY <1>1 DEF StartFrom, Start, IInv, TypeOK
  <2> QED BY <2>1, <2>2
<1>2. SUFFICES ASSUME ~ \E k \in Containers, m \in MntNs, d \in Digests : StartFrom(k, m, d)
               PROVE  /\ runs' = runs /\ pointed \subseteq pointed'
                      /\ \A j \in Containers : life[j] = "absent" => life'[j] = "absent"
  BY <1>1
<1>3. ASSUME NEW h \in Handlers, NEW k \in Containers, CreatedFetches(h, k)
      PROVE  runs' = runs /\ pointed' = pointed /\ life' = life
  BY <1>3 DEF CreatedFetches, Created, Fetcher!FetchForImage, Fetcher!EmptyRef,
              Fetcher!CacheHit, Fetcher!CacheMiss, Fetcher!registryVars
<1>4. ASSUME NEW h \in Handlers, FetchReturns(h)
      PROVE  runs' = runs /\ pointed' = pointed /\ life' = life
  BY <1>4 DEF FetchReturns, Fetched, NothingToInstall, containerVars, Fetcher!Return,
              Fetcher!registryVars
<1>5. CASE OperatorAlone BY <1>5, OnlyStartsBegin DEF OperatorAlone, fetcherVars
<1>6. CASE FetcherAlone
  <2>1. runs' = runs /\ life' = life
    BY <1>6 DEF FetcherAlone, operatorVars, vars, containerVars
  <2>2. CASE Fetcher!Registry
    BY <2>1, <2>2 DEF Fetcher!Registry, Fetcher!MoveTag, Fetcher!Attach
  <2>3. ASSUME NEW h \in Handlers, Fetcher!Progress(h) PROVE pointed' = pointed
    BY <2>3 DEF Fetcher!Progress, Fetcher!LeadFetch, Fetcher!JoinFetch, Fetcher!ResolveImage,
                Fetcher!FetchAttestation, Fetcher!FetchFails, Fetcher!Store, Fetcher!Finish,
                Fetcher!registryVars
  <2> QED BY <1>6, <2>1, <2>2, <2>3 DEF FetcherAlone
<1>7. CASE UNCHANGED allVars
  BY <1>7 DEF allVars, operatorVars, vars, containerVars, fetcherVars
<1> QED BY <1>2, <1>3, <1>4, <1>5, <1>6, <1>7 DEF SystemNext

(* UnmovedTagKeepsManifest: as long as an image's tag has named one         *)
(* manifest, what a container of it is judged by was attached to the        *)
(* manifest that runs, whatever happens to other tags and to attestations,  *)
(* for any containers, images and registry (fetchSPDXSBOM).                 *)
THEOREM UnmovedTags == ASSUME Orderly PROVE SystemSpec => []UnmovedTagKeepsManifest
<1>1. IInv /\ FetcherFacts!IInv /\ ImagesMatch /\ RunsAreNamed => UnmovedTagKeepsManifest
  <2> SUFFICES ASSUME IInv, FetcherFacts!IInv, ImagesMatch, RunsAreNamed,
                      NEW k \in Containers, Unmoved(Pulled[k]),
                      life[k] = "running", outer[ns[k]] # None
               PROVE  <<runs[k], content[outer[ns[k]]]>> \in attached
    BY DEF UnmovedTagKeepsManifest, OfOwnManifest
  <2> DEFINE s == content[outer[ns[k]]]
             i == Pulled[k]
  <2>1. ns[k] \in MntNs BY DEF IInv, HandlersAreSound
  <2>2. s \in Sboms BY <2>1, OperatorConstants DEF IInv, InstalledMapsAreWhole
  <2>3. <<i, s>> \in FetcherFacts!Genuine
    <3>1. <<ImageOf(k), s>> \in FetcherFacts!Genuine BY DEF ImagesMatch, PoliciesAreOf, Live
    <3>2. ImageOf(k) \in Images BY <3>1 DEF FetcherFacts!Genuine
    <3> QED BY <3>1, <3>2, SystemConstants, OwnName DEF Fetcher!DistinctValues
  <2> HIDE DEF s, i
  <2>4. PICK d \in Digests, a \in FetcherFacts!Attestations :
               /\ <<i, d>> \in pointed /\ <<d, a>> \in attached
               /\ FetcherFacts!AttestationOutcome(d, a) = s
    BY <2>3 DEF FetcherFacts!Genuine
  <2>5. a = s
    BY <2>2, <2>4, SystemConstants
    DEF FetcherFacts!AttestationOutcome, FetcherFacts!Attestations, Fetcher!DistinctValues,
        Fetcher!Facts
  <2>6. <<i, runs[k]>> \in pointed BY DEF RunsAreNamed, i
  <2>7. runs[k] \in Digests BY <2>6 DEF FetcherFacts!IInv, FetcherFacts!TypeOK
  <2>8. d = runs[k] BY <2>4, <2>6, <2>7 DEF Unmoved, i
  <2> QED BY <2>4, <2>5, <2>8 DEF s
<1>2. SystemInit => RunsAreNamed BY DEF SystemInit, Init, RunsAreNamed
<1>3. IInv /\ RunsAreNamed /\ [SystemNext]_allVars => RunsAreNamed' BY NamedStep
<1>4. SystemSpec => []IInv BY Invariance, HostsOperator, PTL
<1>5. SystemSpec => []RunsAreNamed BY <1>2, <1>3, <1>4, PTL DEF SystemSpec
<1> QED BY <1>1, <1>4, <1>5, FetcherInvariance, ImagesInvariance, PTL
-----------------------------------------------------------------------------
(* Contracts *)

(* The composition keeps the contracts of its parts: the operator's, under  *)
(* Orderly, and the fetcher's.                                              *)
THEOREM PolicyWithin == ASSUME Orderly PROVE SystemSpec => KeepsPolicy
BY HostsOperator, Refinement, PTL

THEOREM FetcherWithin == SystemSpec => FetcherFacts!KeepsContract
<1>1. FetcherFacts!DistinctValues /\ FetcherFacts!ChangesAssumption
  BY SystemConstants, SameFetcher
<1>2. FetcherFacts!Spec => FetcherFacts!KeepsContract BY <1>1, FetcherFacts!Refinement
<1> QED BY <1>2, HostsFetcher, PTL
=============================================================================
