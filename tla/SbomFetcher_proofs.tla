------------------------- MODULE SbomFetcher_proofs -------------------------
(***************************************************************************)
(* For any number of callers, images, digests and SBOMs: SbomFetcher keeps *)
(* its types and invariants, and implements FetchContract.                 *)
(***************************************************************************)
EXTENDS SbomFetcher, TLAPS

(* An attestation comes to one of the answers, FetchError when malformed. *)
LEMMA OutcomeType ==
  ASSUME NEW d \in Digests, NEW a \in Attestations
  PROVE  AttestationOutcome(d, a) \in Answers
BY DEF AttestationOutcome, Attestations, Answers, Facts

(* The registry only ever stands for more. *)
LEMMA GenuineGrows ==
  ASSUME pointed \subseteq pointed', attached \subseteq attached'
  PROVE  Genuine \subseteq Genuine'
BY DEF Genuine

LEMMA GenuineSame ==
  ASSUME UNCHANGED registryVars
  PROVE  Genuine' = Genuine
BY DEF Genuine, registryVars

LEMMA GenuineIsFact ==
  ASSUME NEW i, NEW a, <<i, a>> \in Genuine
  PROVE  i \in Images /\ a \in Facts /\ a # None /\ a # FetchError
BY DistinctValues DEF Genuine, Facts, Answers

(* Only the leader of an image fetches it. *)
LEMMA LeaderIsAlone ==
  ASSUME OneFlightPerImage, NEW c \in Callers, NEW x \in Callers,
         ref[c] \in Images, ref[x] = ref[c],
         pc[c] \in LeaderPoints, pc[x] \in LeaderPoints
  PROVE  x = c
BY DEF OneFlightPerImage
-----------------------------------------------------------------------------
LEMMA InitIInv == Init => IInv
<1> SUFFICES ASSUME Init PROVE IInv OBVIOUS
<1> USE DEF Init, FetchInit, RegistryInit
<1>1. TypeOK BY ChangesAssumption DEF TypeOK, Points, Facts, Answers, Attestations
<1>2. OneFlightPerImage BY DistinctValues DEF OneFlightPerImage, LeaderPoints
<1>3. HistoryIsComplete BY DEF HistoryIsComplete
<1>4. CacheIsGenuine BY DEF CacheIsGenuine
<1>5. CallsAreSound BY DEF CallsAreSound
<1> QED BY <1>1, <1>2, <1>3, <1>4, <1>5 DEF IInv

LEMMA RegistryStep ==
  ASSUME IInv, Registry
  PROVE  IInv'
<1> USE DEF IInv
<1>1. pointed \subseteq pointed' /\ attached \subseteq attached' /\ UNCHANGED fetchVars
  BY DEF Registry, MoveTag, Attach
<1>2. Genuine \subseteq Genuine' BY <1>1, GenuineGrows
<1>3. TypeOK'
  BY ChangesAssumption DEF TypeOK, Registry, MoveTag, Attach, fetchVars
<1>4. OneFlightPerImage' BY <1>1 DEF OneFlightPerImage, fetchVars
<1>5. HistoryIsComplete' BY DEF HistoryIsComplete, TypeOK, Registry, MoveTag, Attach
<1>6. CacheIsGenuine' BY <1>1, <1>2 DEF CacheIsGenuine, fetchVars
<1>7. CallsAreSound' BY <1>1, <1>2 DEF CallsAreSound, fetchVars
<1> QED BY <1>3, <1>4, <1>5, <1>6, <1>7

LEMMA CallerStep ==
  ASSUME IInv, NEW c \in Callers,
         \/ \E i \in Images \union {NoImage} : FetchForImage(c, i)
         \/ Progress(c)
         \/ Return(c)
  PROVE  IInv'
<1> USE DEF IInv
<1>1. UNCHANGED registryVars
  BY DEF FetchForImage, EmptyRef, CacheHit, CacheMiss, Progress, LeadFetch, JoinFetch,
         ResolveImage, FetchAttestation, FetchFails, Store, Finish, Return
<1>2. Genuine' = Genuine BY <1>1, GenuineSame
<1>3. HistoryIsComplete' BY <1>1 DEF HistoryIsComplete, registryVars
<1>4. ASSUME EmptyRef(c) PROVE IInv'
  <2> USE <1>4 DEF EmptyRef
  <2>1. TypeOK' BY DEF TypeOK, Points, LeaderPoints, Answers, Facts, registryVars
  <2>2. OneFlightPerImage' BY DEF OneFlightPerImage, TypeOK, LeaderPoints
  <2>3. CacheIsGenuine' BY <1>2 DEF CacheIsGenuine
  <2>4. CallsAreSound' BY <1>1, <1>2 DEF CallsAreSound, TypeOK, registryVars
  <2> QED BY <1>3, <2>1, <2>2, <2>3, <2>4
<1>5. ASSUME NEW i \in Images, CacheHit(c, i) PROVE IInv'
  <2> USE <1>5 DEF CacheHit
  <2>1. TypeOK' BY DEF TypeOK, Points, LeaderPoints, Answers, Facts, registryVars
  <2>2. OneFlightPerImage' BY DEF OneFlightPerImage, TypeOK, LeaderPoints
  <2>3. CacheIsGenuine' BY <1>2 DEF CacheIsGenuine
  <2>4. CallsAreSound' BY <1>1, <1>2 DEF CallsAreSound, TypeOK, registryVars
  <2> QED BY <1>3, <2>1, <2>2, <2>3, <2>4
<1>6. ASSUME NEW i \in Images, CacheMiss(c, i) PROVE IInv'
  <2> USE <1>6 DEF CacheMiss
  <2>1. TypeOK' BY DEF TypeOK, Points, LeaderPoints, registryVars
  <2>2. OneFlightPerImage' BY DEF OneFlightPerImage, TypeOK, LeaderPoints
  <2>3. CacheIsGenuine' BY <1>2 DEF CacheIsGenuine
  <2>4. CallsAreSound' BY <1>1, <1>2 DEF CallsAreSound, TypeOK, registryVars
  <2> QED BY <1>3, <2>1, <2>2, <2>3, <2>4
<1>7. ASSUME LeadFetch(c) PROVE IInv'
  <2> USE <1>7 DEF LeadFetch
  <2>0. ref[c] \in Images BY DEF CallsAreSound
  <2>1. TypeOK' BY <2>0 DEF TypeOK, Points, LeaderPoints, registryVars
  <2>2. OneFlightPerImage' BY <2>0, DistinctValues DEF OneFlightPerImage, TypeOK, LeaderPoints
  <2>3. CacheIsGenuine' BY <1>2 DEF CacheIsGenuine
  <2>4. CallsAreSound' BY <1>1, <1>2 DEF CallsAreSound, TypeOK, registryVars
  <2> QED BY <1>3, <2>1, <2>2, <2>3, <2>4
<1>8. ASSUME JoinFetch(c) PROVE IInv'
  <2> USE <1>8 DEF JoinFetch
  <2>1. TypeOK' BY DEF TypeOK, Points, LeaderPoints, registryVars
  <2>2. OneFlightPerImage' BY DEF OneFlightPerImage, TypeOK, LeaderPoints
  <2>3. CacheIsGenuine' BY <1>2 DEF CacheIsGenuine
  <2>4. CallsAreSound' BY <1>1, <1>2 DEF CallsAreSound, TypeOK, registryVars
  <2> QED BY <1>3, <2>1, <2>2, <2>3, <2>4
<1>9. ASSUME ResolveImage(c) PROVE IInv'
  <2> USE <1>9 DEF ResolveImage
  <2>0. ref[c] \in Images BY DEF CallsAreSound
  <2>1. TypeOK' BY <2>0 DEF TypeOK, Points, LeaderPoints, registryVars
  <2>2. OneFlightPerImage' BY DEF OneFlightPerImage, TypeOK, LeaderPoints
  <2>3. CacheIsGenuine' BY <1>2 DEF CacheIsGenuine
  <2>4. CallsAreSound'
    BY <1>1, <1>2, <2>0 DEF CallsAreSound, TypeOK, HistoryIsComplete, registryVars
  <2> QED BY <1>3, <2>1, <2>2, <2>3, <2>4
<1>10. ASSUME FetchAttestation(c) PROVE IInv'
  <2> USE <1>10
  <2> DEFINE a == AttestationOutcome(digest[c], att[digest[c]])
  <2>0. /\ ref[c] \in Images /\ digest[c] \in Digests
        /\ <<ref[c], digest[c]>> \in pointed
        /\ <<digest[c], att[digest[c]]>> \in attached
        /\ att[digest[c]] \in Attestations
    BY DEF FetchAttestation, CallsAreSound, HistoryIsComplete, TypeOK
  <2>1. a \in Answers BY <2>0, OutcomeType
  <2>2. a # FetchError => <<ref[c], a>> \in Genuine
    BY <2>0, <2>1 DEF Genuine, Answers
  <2> HIDE DEF a
  <2> USE DEF FetchAttestation
  <2>3. /\ out' = [out EXCEPT ![c] = a]
        /\ pc' = [pc EXCEPT ![c] = IF a = FetchError THEN "finishing" ELSE "storing"]
    BY DEF a
  <2>4. TypeOK' BY <2>1, <2>3 DEF TypeOK, Points, LeaderPoints, registryVars
  <2>5. OneFlightPerImage' BY <2>3 DEF OneFlightPerImage, TypeOK, LeaderPoints
  <2>6. CacheIsGenuine' BY <1>2 DEF CacheIsGenuine
  <2>7. CallsAreSound' BY <1>1, <1>2, <2>2, <2>3 DEF CallsAreSound, TypeOK, registryVars
  <2> QED BY <1>3, <2>4, <2>5, <2>6, <2>7
<1>11. ASSUME FetchFails(c) PROVE IInv'
  <2> USE <1>11 DEF FetchFails
  <2>1. TypeOK' BY DEF TypeOK, Points, LeaderPoints, Answers, registryVars
  <2>2. OneFlightPerImage' BY DEF OneFlightPerImage, TypeOK, LeaderPoints
  <2>3. CacheIsGenuine' BY <1>2 DEF CacheIsGenuine
  <2>4. CallsAreSound' BY <1>1, <1>2 DEF CallsAreSound, TypeOK, registryVars
  <2> QED BY <1>3, <2>1, <2>2, <2>3, <2>4
<1>12. ASSUME Store(c) PROVE IInv'
  <2> USE <1>12 DEF Store
  <2>0. /\ ref[c] \in Images /\ <<ref[c], out[c]>> \in Genuine
        /\ out[c] \in Facts /\ out[c] # None
    BY GenuineIsFact DEF CallsAreSound
  <2>1. TypeOK' BY <2>0 DEF TypeOK, Points, LeaderPoints, registryVars
  <2>2. OneFlightPerImage' BY DEF OneFlightPerImage, TypeOK, LeaderPoints
  <2>3. CacheIsGenuine' BY <1>2, <2>0 DEF CacheIsGenuine, TypeOK
  <2>4. CallsAreSound' BY <1>1, <1>2, <2>0 DEF CallsAreSound, TypeOK, registryVars
  <2> QED BY <1>3, <2>1, <2>2, <2>3, <2>4
<1>13. ASSUME Finish(c) PROVE IInv'
  <2> USE <1>13 DEF Finish
  <2>0. ref[c] \in Images BY DEF CallsAreSound
  <2>1. TypeOK' BY <2>0 DEF TypeOK, Points, LeaderPoints, registryVars
  <2>2. OneFlightPerImage'
    BY <2>0, DistinctValues DEF OneFlightPerImage, TypeOK, LeaderPoints, Released
  <2>3. CacheIsGenuine' BY <1>2 DEF CacheIsGenuine
  <2>4. CallsAreSound' BY <1>1, <1>2 DEF CallsAreSound, TypeOK, registryVars
  <2> QED BY <1>3, <2>1, <2>2, <2>3, <2>4
<1>14. ASSUME Return(c) PROVE IInv'
  <2> USE <1>14 DEF Return
  <2>1. TypeOK' BY DEF TypeOK, Points, LeaderPoints, registryVars
  <2>2. OneFlightPerImage' BY DistinctValues DEF OneFlightPerImage, TypeOK, LeaderPoints
  <2>3. CacheIsGenuine' BY <1>2 DEF CacheIsGenuine
  <2>4. CallsAreSound' BY <1>1, <1>2 DEF CallsAreSound, TypeOK, registryVars
  <2> QED BY <1>3, <2>1, <2>2, <2>3, <2>4
<1> QED
  BY <1>4, <1>5, <1>6, <1>7, <1>8, <1>9, <1>10, <1>11, <1>12, <1>13, <1>14
  DEF FetchForImage, Progress

LEMMA StutterStep ==
  ASSUME IInv, UNCHANGED vars
  PROVE  IInv'
<1> USE DEF vars, fetchVars, registryVars, IInv
<1>0. Genuine' = Genuine BY GenuineSame
<1>1. TypeOK' BY DEF TypeOK
<1>2. OneFlightPerImage' BY DEF OneFlightPerImage
<1>3. HistoryIsComplete' BY DEF HistoryIsComplete
<1>4. CacheIsGenuine' BY <1>0 DEF CacheIsGenuine
<1>5. CallsAreSound' BY <1>0 DEF CallsAreSound
<1> QED BY <1>1, <1>2, <1>3, <1>4, <1>5

(* The inductive invariant holds in every reachable state. *)
THEOREM Invariance == Spec => []IInv
<1>1. IInv /\ [Next]_vars => IInv'
  BY RegistryStep, CallerStep, StutterStep DEF Next
<1> QED BY InitIInv, <1>1, PTL DEF Spec

(* TypeOK: in particular no error is ever cached, whatever the registry and *)
(* the interleaving of callers do (sbom.go: "Don't cache errors").          *)
THEOREM TypeCorrect == Spec => []TypeOK
BY Invariance, PTL DEF IInv

(* CacheIsGenuine: a cached result is one the registry has stood for, under *)
(* the reference it is cached for.                                          *)
THEOREM CacheSound == Spec => []CacheIsGenuine
BY Invariance, PTL DEF IInv

(* OneFlightPerImage: at most one fetch per image is in flight, and nobody  *)
(* waits for one that has ended.                                            *)
THEOREM FlightsSound == Spec => []OneFlightPerImage
BY Invariance, PTL DEF IInv
-----------------------------------------------------------------------------
(* What a call is about to return. An answer is genuine for the reference   *)
(* of its call, an error or nothing; a caller outside of FetchForImage has  *)
(* no reference.                                                            *)

AnswersAreGenuine ==
  \A c \in Callers :
    /\ pc[c] = "answered" =>
         out[c] \in {NoSbom, FetchError} \/ <<ref[c], out[c]>> \in Genuine
    /\ pc[c] = "idle" => ref[c] = NoImage

LEMMA AnswersStep ==
  ASSUME IInv, AnswersAreGenuine, [Next]_vars
  PROVE  AnswersAreGenuine'
<1> USE DEF AnswersAreGenuine
<1>1. pc \in [Callers -> Points] /\ DOMAIN ref = Callers /\ DOMAIN out = Callers
  BY DEF IInv, TypeOK
<1>2. CASE Registry
  <2>1. pointed \subseteq pointed' /\ attached \subseteq attached' /\ UNCHANGED fetchVars
    BY <1>2 DEF Registry, MoveTag, Attach
  <2> QED BY <2>1, GenuineGrows DEF fetchVars
<1>3. ASSUME NEW c \in Callers, NEW i \in Images \union {NoImage}, FetchForImage(c, i)
      PROVE  AnswersAreGenuine'
  <2>1. Genuine' = Genuine
    BY <1>3, GenuineSame DEF FetchForImage, EmptyRef, CacheHit, CacheMiss
  <2>2. CASE EmptyRef(c) BY <1>1, <2>1, <2>2 DEF EmptyRef
  <2>3. CASE i \in Images /\ CacheHit(c, i)
    BY <1>1, <2>1, <2>3 DEF CacheHit, IInv, CacheIsGenuine
  <2>4. CASE CacheMiss(c, i) BY <1>1, <2>1, <2>4 DEF CacheMiss
  <2> QED BY <1>3, <2>2, <2>3, <2>4 DEF FetchForImage
<1>4. ASSUME NEW c \in Callers,
             \/ LeadFetch(c) \/ JoinFetch(c) \/ ResolveImage(c) \/ FetchAttestation(c)
             \/ FetchFails(c) \/ Store(c)
      PROVE  AnswersAreGenuine'
  <2> USE <1>4 DEF LeadFetch, JoinFetch, ResolveImage, FetchAttestation, FetchFails, Store
  <2>1. UNCHANGED <<ref, registryVars>>
        /\ pc[c] \notin {"idle", "answered"} /\ pc'[c] \notin {"idle", "answered"}
    BY <1>1
  <2>2. \A x \in Callers \ {c} : pc'[x] = pc[x] /\ out'[x] = out[x] BY <1>1
  <2>3. Genuine' = Genuine BY <2>1, GenuineSame
  <2> QED BY <2>1, <2>2, <2>3
<1>5. ASSUME NEW c \in Callers, Finish(c) PROVE AnswersAreGenuine'
  <2>1. Genuine' = Genuine /\ ref' = ref BY <1>5, GenuineSame DEF Finish
  <2>2. out[c] = FetchError \/ <<ref[c], out[c]>> \in Genuine
    BY <1>5 DEF Finish, IInv, CallsAreSound
  <2>3. \A x \in Released(c) : ref[x] = ref[c] /\ out'[x] = out[c] /\ pc'[x] = "answered"
    BY <1>5 DEF Finish, Released
  <2>4. \A x \in Callers \ Released(c) : pc'[x] = pc[x] /\ out'[x] = out[x]
    BY <1>5 DEF Finish
  <2> QED BY <2>1, <2>2, <2>3, <2>4
<1>6. ASSUME NEW c \in Callers, Return(c) PROVE AnswersAreGenuine'
  <2>1. Genuine' = Genuine BY <1>6, GenuineSame DEF Return
  <2> QED BY <1>1, <1>6, <2>1 DEF Return
<1>7. CASE UNCHANGED vars
  <2>1. Genuine' = Genuine BY <1>7, GenuineSame DEF vars
  <2> QED BY <1>7, <2>1 DEF vars, fetchVars
<1> QED BY <1>2, <1>3, <1>4, <1>5, <1>6, <1>7 DEF Next, Progress

(* Whoever has waited and whoever has fetched is told the same, of the      *)
(* image asked for.                                                         *)
THEOREM AnswersSound == Spec => []AnswersAreGenuine
<1>1. Init => AnswersAreGenuine BY DEF Init, FetchInit, AnswersAreGenuine
<1>2. IInv /\ AnswersAreGenuine /\ [Next]_vars => AnswersAreGenuine' BY AnswersStep
<1> QED BY <1>1, <1>2, Invariance, PTL DEF Spec
-----------------------------------------------------------------------------
(* Refinement of FetchContract. A step of the registry learns; a call's     *)
(* first step asks, or is answered from the cache; Store settles; Finish    *)
(* answers the leader and its followers; the rest of a call stutters.       *)

Shown(c) == IF pc[c] = "answered" THEN out[c] ELSE None
Remembered == {i \in Images : cache[i] # None}

LEMMA InitRefines == Init => Contract!Init
<1> SUFFICES ASSUME Init PROVE Contract!Init OBVIOUS
<1> USE DEF Init, FetchInit, RegistryInit
<1>1. Genuine \subseteq Images \X Contract!Facts BY DEF Genuine, Facts, Contract!Facts
<1>2. Remembered = {} BY DEF Remembered
<1>3. [c \in Callers |-> Status(c)] = [c \in Callers |-> "idle"] BY DEF Status
<1>4. [c \in Callers |-> Shown(c)] = [c \in Callers |-> None] BY DEF Shown
<1> QED BY <1>1, <1>2, <1>3, <1>4 DEF Contract!Init, Remembered, Shown

(* A step of a caller that neither begins, stores, answers nor ends a call *)
(* is not seen in the contract.                                            *)
LEMMA InnerStep ==
  ASSUME IInv, NEW c \in Callers,
         LeadFetch(c) \/ JoinFetch(c) \/ ResolveImage(c) \/ FetchAttestation(c)
           \/ FetchFails(c)
  PROVE  UNCHANGED Contract!vars
<1> USE DEF LeadFetch, JoinFetch, ResolveImage, FetchAttestation, FetchFails
<1>1. /\ pc[c] \notin {"idle", "answered"} /\ pc'[c] \notin {"idle", "answered"}
      /\ \A x \in Callers \ {c} : pc'[x] = pc[x] /\ out'[x] = out[x]
      /\ UNCHANGED <<cache, ref, registryVars>>
  BY DEF IInv, TypeOK
<1>2. Genuine' = Genuine BY <1>1, GenuineSame
<1>3. [x \in Callers |-> Status(x)]' = [x \in Callers |-> Status(x)]
  <2>1. \A x \in Callers : Status(x)' = Status(x) BY <1>1 DEF Status
  <2> QED BY <2>1
<1>4. [x \in Callers |-> Shown(x)]' = [x \in Callers |-> Shown(x)]
  <2>1. \A x \in Callers : Shown(x)' = Shown(x) BY <1>1 DEF Shown
  <2> QED BY <2>1
<1>5. Remembered' = Remembered BY <1>1 DEF Remembered
<1> QED BY <1>1, <1>2, <1>3, <1>4, <1>5 DEF Contract!vars, Shown, Remembered

LEMMA StepRefines ==
  ASSUME IInv, [Next]_vars
  PROVE  [Contract!Next]_Contract!vars
<1> USE DEF IInv
<1> DEFINE status == [x \in Callers |-> Status(x)]
           answer == [x \in Callers |-> Shown(x)]
<1>1. ASSUME Registry PROVE Contract!Learn
  <2>1. pointed \subseteq pointed' /\ attached \subseteq attached' /\ UNCHANGED fetchVars
    BY <1>1 DEF Registry, MoveTag, Attach
  <2>2. Genuine \subseteq Genuine' BY <2>1, GenuineGrows
  <2>3. Genuine' \subseteq Images \X Contract!Facts
    BY DEF Genuine, Facts, Contract!Facts
  <2>4. UNCHANGED <<status, answer, Remembered, ref>>
    BY <2>1 DEF fetchVars, Status, Shown, Remembered
  <2> QED BY <2>2, <2>3, <2>4 DEF Contract!Learn, Shown, Remembered
<1>2. ASSUME NEW c \in Callers, EmptyRef(c) PROVE Contract!AskNothing(c)
  <2> USE <1>2 DEF EmptyRef
  <2>1. Genuine' = Genuine BY GenuineSame
  <2>2. status[c] = "idle" BY DEF Status
  <2>3. status' = [status EXCEPT ![c] = "answered"]
    BY DEF Status, TypeOK
  <2>4. answer' = [answer EXCEPT ![c] = NoSbom]
    BY DEF Shown, TypeOK
  <2>5. Remembered' = Remembered BY DEF Remembered
  <2> QED BY <2>1, <2>2, <2>3, <2>4, <2>5 DEF Contract!AskNothing, Shown, Remembered
<1>3. ASSUME NEW c \in Callers, NEW i \in Images, CacheHit(c, i)
      PROVE  Contract!AskSettled(c, i)
  <2> USE <1>3 DEF CacheHit
  <2>1. Genuine' = Genuine BY GenuineSame
  <2>2. status[c] = "idle" /\ i \in Remembered BY DEF Status, Remembered
  <2>3. status' = [status EXCEPT ![c] = "answered"]
    BY DEF Status, TypeOK
  <2>4. answer' = [answer EXCEPT ![c] = cache[i]]
    BY DEF Shown, TypeOK
  <2>5. <<i, cache[i]>> \in Genuine /\ cache[i] \in Contract!Facts
    BY GenuineIsFact DEF CacheIsGenuine, Contract!Facts, Facts
  <2>6. Remembered' = Remembered BY DEF Remembered
  <2> QED BY <2>1, <2>2, <2>3, <2>4, <2>5, <2>6
          DEF Contract!AskSettled, Shown, Remembered
<1>4. ASSUME NEW c \in Callers, NEW i \in Images, CacheMiss(c, i)
      PROVE  Contract!Ask(c, i)
  <2> USE <1>4 DEF CacheMiss
  <2>1. Genuine' = Genuine BY GenuineSame
  <2>2. status[c] = "idle" /\ i \notin Remembered BY DEF Status, Remembered
  <2>3. status' = [status EXCEPT ![c] = "pending"]
    BY DEF Status, TypeOK
  <2>4. answer' = answer
    BY DEF Shown, TypeOK
  <2>5. Remembered' = Remembered BY DEF Remembered
  <2> QED BY <2>1, <2>2, <2>3, <2>4, <2>5 DEF Contract!Ask, Shown, Remembered
<1>5. ASSUME NEW c \in Callers, NEW i \in Images, i = ref[c], Store(c)
      PROVE  Contract!Settle(i)
  <2> USE <1>5 DEF Store
  <2>0. ref[c] \in Images /\ out[c] # None
    BY GenuineIsFact DEF CallsAreSound
  <2>1. Genuine' = Genuine BY GenuineSame
  <2>2. status' = status BY DEF Status, TypeOK
  <2>3. answer' = answer BY DEF Shown, TypeOK
  <2>4. Remembered' = Remembered \union {ref[c]} BY <2>0 DEF Remembered, TypeOK
  <2> QED BY <2>1, <2>2, <2>3, <2>4 DEF Contract!Settle, Shown, Remembered
<1>6. ASSUME NEW c \in Callers, NEW i \in Images, i = ref[c],
             NEW a \in Contract!Facts \union {FetchError}, a = out[c], Finish(c)
      PROVE  Contract!Answer(i, a)
  <2> USE <1>6 DEF Finish
  <2> DEFINE S == Released(c)
  <2>1. Genuine' = Genuine BY GenuineSame
  <2>2. \/ out[c] = FetchError
        \/ ref[c] \in Remembered /\ <<ref[c], out[c]>> \in Genuine
    BY DEF CallsAreSound, Remembered
  <2>3. /\ S \in SUBSET {x \in Callers : status[x] = "pending" /\ ref[x] = ref[c]}
        /\ S # {}
    BY DEF Released, Status
  <2>4. status' = [x \in Callers |-> IF x \in S THEN "answered" ELSE status[x]]
    BY DEF Status
  <2>5. answer' = [x \in Callers |-> IF x \in S THEN out[c] ELSE answer[x]]
    BY DEF Shown
  <2>6. Remembered' = Remembered BY DEF Remembered
  <2> QED BY <2>1, <2>2, <2>3, <2>4, <2>5, <2>6 DEF Contract!Answer, Shown, Remembered
<1>7. ASSUME NEW c \in Callers, Return(c) PROVE Contract!Return(c)
  <2> USE <1>7 DEF Return
  <2>1. Genuine' = Genuine BY GenuineSame
  <2>2. status[c] = "answered" BY DEF Status
  <2>3. status' = [status EXCEPT ![c] = "idle"]
    BY DEF Status, TypeOK
  <2>4. answer' = [answer EXCEPT ![c] = None]
    BY DEF Shown, TypeOK
  <2>5. Remembered' = Remembered BY DEF Remembered
  <2> QED BY <2>1, <2>2, <2>3, <2>4, <2>5 DEF Contract!Return, Shown, Remembered
<1>8. ASSUME UNCHANGED vars PROVE UNCHANGED Contract!vars
  <2> USE <1>8 DEF vars, fetchVars, registryVars
  <2>1. Genuine' = Genuine BY GenuineSame
  <2>2. UNCHANGED <<status, answer, Remembered, ref>> BY DEF Status, Shown, Remembered
  <2> QED BY <2>1, <2>2 DEF Contract!vars, Shown, Remembered
<1>9. ASSUME NEW c \in Callers, Finish(c)
      PROVE  ref[c] \in Images /\ out[c] \in Contract!Facts \union {FetchError}
  BY <1>9, GenuineIsFact DEF Finish, CallsAreSound, Contract!Facts, Facts
<1>10. ASSUME NEW c \in Callers, Store(c) PROVE ref[c] \in Images
  BY <1>10 DEF Store, CallsAreSound
<1> HIDE DEF IInv
<1>11. CASE Registry BY <1>1, <1>11 DEF Contract!Next
<1>12. ASSUME NEW c \in Callers, NEW i \in Images \union {NoImage}, FetchForImage(c, i)
       PROVE  Contract!Next
  BY <1>2, <1>3, <1>4, <1>12 DEF FetchForImage, Contract!Next
<1>13. ASSUME NEW c \in Callers, Progress(c) PROVE [Contract!Next]_Contract!vars
  <2>1. CASE Store(c)
    <3>1. PICK i \in Images : i = ref[c] BY <1>10, <2>1
    <3> QED BY <1>5, <2>1, <3>1 DEF Contract!Next
  <2>2. CASE Finish(c)
    <3>1. PICK i \in Images, a \in Contract!Facts \union {FetchError} :
            i = ref[c] /\ a = out[c]
      BY <1>9, <2>2
    <3> QED BY <1>6, <2>2, <3>1 DEF Contract!Next
  <2>3. CASE ~Store(c) /\ ~Finish(c) BY <1>13, <2>3, InnerStep DEF Progress
  <2> QED BY <2>1, <2>2, <2>3
<1>14. ASSUME NEW c \in Callers, Return(c) PROVE Contract!Next
  BY <1>7, <1>14 DEF Contract!Next
<1> QED BY <1>8, <1>11, <1>12, <1>13, <1>14 DEF Next

(* FetchForImage keeps its contract: a successful answer is one the         *)
(* registry has stood for, it is remembered before anyone is told, and a    *)
(* call that starts afterwards gets such an answer at once.                 *)
THEOREM Refinement == Spec => KeepsContract
<1>1. Spec => []IInv BY Invariance
<1>2. Init => Contract!Init BY InitRefines
<1>3. IInv /\ [Next]_vars => [Contract!Next]_Contract!vars BY StepRefines
<1> QED BY <1>1, <1>2, <1>3, PTL DEF Spec, KeepsContract, Contract!Spec
=============================================================================
