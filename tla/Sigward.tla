------------------------------ MODULE Sigward ------------------------------
(***************************************************************************)
(* Sigward from end to end: the container events that the IMA operator     *)
(* handles (ImaOperator), the SBOM fetches its handlers make (SbomFetcher, *)
(* whose callers are the handlers), the documents that come back           *)
(* (SbomDocument) and what the LSM programs decide by them                 *)
(* (SigwardGadget), against what a document itself says (SbomListing).     *)
(***************************************************************************)
EXTENDS ImaOperator, ImageRef, SigwardGadget, SbomListing

CONSTANTS
  Events,                  \* the CREATED event of each container (ImageRef)
  Pulled,                  \* the image each container is created from
  Digests, Sha256Digests, Documents, \* SBOM -> its files, or Unparsable
  Unparsable,
  NoSbom, FetchError, NoTag, NoSpdx, Malformed, MaxChanges,
  ExecFiles                \* <<path, hash>> of files a container may execute

VARIABLES
  cache, leader, pc, ref, digest, out, tag, att, pointed, attached, changes,
  runs      \* container -> the digest its image was pulled by

ImageOf(k) == HandlerImage(Events[k])
Images == ({ImageOf(k) : k \in Containers} \ {NoImage}) \union {Pulled[k] : k \in Containers}

Fetcher == INSTANCE SbomFetcher WITH Callers <- Handlers

ASSUME EventsNameImages ==
  \A k \in Containers : Whole(Pulled[k]) /\ NamedAs(Events[k], Pulled[k])

\* ParseFiles returns no error, and len(files) > 0
ASSUME AttestableIsParsed ==
  Attestable = {s \in Sboms : Documents[s] # Unparsable /\ ParseFiles(Documents[s]) # <<>>}

\* The constants of both sides keep apart, a table is not the lack of one,
\* a hash is not the lack of one, a file that is executed has a path, and a
\* key has room for more than the root.
ASSUME SystemConstants ==
  /\ Fetcher!DistinctValues /\ Fetcher!ChangesAssumption
  /\ \A s \in Attestable :
       Documents[s] \in Documented /\ HashTable(Documents[s]) # NoTable
  /\ Missing \notin Hashes /\ MaxFilepathLen > 2
  /\ \A f \in ExecFiles : KernelPath(f[1]) /\ f[1] # NoPath

fetcherVars == <<cache, leader, pc, ref, digest, out, tag, att, pointed, attached, changes>>
operatorVars == vars
allVars == <<operatorVars, fetcherVars, runs>>

SystemInit == Init /\ Fetcher!Init /\ runs = [k \in Containers |-> None]

\* The runtime starts a container from a manifest its reference has named.
StartFrom(k, m, d) ==
  /\ Start(k, m)
  /\ <<Pulled[k], d>> \in pointed
  /\ runs' = [runs EXCEPT ![k] = d]
  /\ UNCHANGED fetcherVars

\* handleContainerCreated up to and into FetchForImage
CreatedFetches(h, k) ==
  /\ Created(h, k)
  /\ Fetcher!FetchForImage(h, ImageOf(k))
  /\ UNCHANGED runs

\* FetchForImage returns, and the handler goes on with what it answered
FetchReturns(h) ==
  /\ Fetcher!Return(h)
  /\ \/ out[h] \in Attestable /\ Fetched(h, out[h])
     \/ out[h] \notin Attestable /\ NothingToInstall(h)
  /\ UNCHANGED runs

OperatorAlone ==
  /\ MapReady \/ (\E k \in Containers : Exit(k)) \/ OwnStep
  /\ UNCHANGED <<fetcherVars, runs>>

FetcherAlone ==
  /\ Fetcher!Registry \/ \E h \in Handlers : Fetcher!Progress(h)
  /\ UNCHANGED <<operatorVars, runs>>

SystemNext ==
  \/ \E k \in Containers, m \in MntNs, d \in Digests : StartFrom(k, m, d)
  \/ \E h \in Handlers, k \in Containers : CreatedFetches(h, k)
  \/ \E h \in Handlers : FetchReturns(h)
  \/ OperatorAlone
  \/ FetcherAlone

SystemSpec == SystemInit /\ [][SystemNext]_allVars

\* A handler that has been called runs on; its fetch ends as SbomFetcher
\* says. Nothing is assumed of the runtime, the registry or the gadget.
HandlerStep(h) ==
  \/ FetchReturns(h)
  \/ /\ \/ NoInnerMap(h) \/ (\E x \in MapIds : NewMap(h, x))
        \/ OuterPut(h) \/ OuterPutFails(h) \/ SwapTracked(h) \/ Untrack(h)
     /\ UNCHANGED <<fetcherVars, runs>>
FetcherStep(h) == Fetcher!Progress(h) /\ UNCHANGED <<operatorVars, runs>>

SystemFairness ==
  \A h \in Handlers : WF_allVars(HandlerStep(h)) /\ WF_allVars(FetcherStep(h))

FairSystemSpec == SystemSpec /\ SystemFairness
-----------------------------------------------------------------------------
(* Properties *)

\* What populateExpectedHashes makes of each SBOM that can be installed
PolicyTables == [s \in Attestable |-> HashTable(Documents[s])]

\* The table attest_file finds for a container's namespace
TableOf(k) == IF outer[ns[k]] = None THEN NoTable ELSE PolicyTables[content[outer[ns[k]]]]

\* The files a container's processes cannot execute or map as a library, in
\* enforcing mode, when the LSM programs before had no objection
Refused(k) ==
  {f \in ExecFiles : \E room \in BOOLEAN :
     \/ BprmCheckSecurity(Allow, FALSE, TRUE, TableOf(k), f[1], f[2], room).ret # Allow
     \/ MmapFile(Allow, FALSE, TRUE, FALSE, TRUE, TableOf(k), f[1], f[2], room).ret # Allow}

\* The files an SBOM speaks against: its document, read by itself, has no
\* place for the path, or another hash. Of a path too long it is the
\* beginning that counts. A hash that is no SHA256 is not held against a file.
Against(s) ==
  {f \in ExecFiles :
     LET key == KernelKey(f[1])
     IN ~ /\ Placed(Documents[s], key)
          /\ f[2] = NotSha256 \/ Says(Documents[s], key, f[2])}

\* A running container is refused nothing, or exactly the files one SBOM
\* speaks against that the registry has stood for under the reference of the
\* image it was created from: no other image's SBOM, no mixture and no part
\* of one reaches it by the name its event gives the image, a shared fetch,
\* the cache, a reused map or a reused namespace id.
JudgedByOwnImage ==
  \A k \in Containers : life[k] = "running" /\ Refused(k) # {} =>
    \E s \in Attestable :
      <<Pulled[k], s>> \in Fetcher!Genuine /\ Refused(k) = Against(s)

\* Every event that a handler takes up is done with, CREATED ones within
\* the deadline of their fetch or of the fetch they join.
EventsAreHandled == \A h \in Handlers : hpc[h] # "idle" ~> hpc[h] = "idle"

\* The SBOM in force for a container was attached to the manifest it runs.
OfOwnManifest(k) ==
  life[k] = "running" /\ outer[ns[k]] # None =>
    <<runs[k], content[outer[ns[k]]]>> \in attached

\* README.md:44: Sigward verifies "that every binary and shared object a
\* container runs matches a cryptographically signed SPDX SBOM attached to
\* its image": the SBOM in force was attached to the manifest that runs.
PolicyIsOfOwnManifest == \A k \in Containers : OfOwnManifest(k)

\* That is so as long as the image's tag has not been moved, whatever other
\* tags and any attestations did: a container of one image gets no SBOM of a
\* manifest that only another image has named (fetchSPDXSBOM looks under the
\* digest it has just resolved, for the reference of its own event).
Unmoved(i) ==
  \A d, e \in Digests : <<i, d>> \in pointed /\ <<i, e>> \in pointed => d = e

UnmovedTagKeepsManifest ==
  \A k \in Containers : Unmoved(Pulled[k]) => OfOwnManifest(k)
=============================================================================
