---------------------------- MODULE SbomFetcher ----------------------------
(***************************************************************************)
(* internal/sbom/sbom.go: Fetcher.FetchForImage, its result cache          *)
(* (sync.Map), its singleflight group, and fetchSPDXSBOM with the cosign   *)
(* attestation lookup, against a registry whose tags move and whose        *)
(* attestations are attached while calls are running.                      *)
(*                                                                         *)
(* A caller's pc names the point of FetchForImage it has reached:          *)
(*   idle, missed (cache miss, before group.Do), waiting (a follower in    *)
(*   group.Do), resolving and attesting (the leader's two registry reads), *)
(*   storing (before cache.Store), finishing (before group.Do returns),    *)
(*   answered.                                                             *)
(* The registry, its clients' credentials and the network are external:    *)
(* reads answer from `tag` and `att`, or fail at any point, the 30 s       *)
(* deadline of the caller's context being one such failure.                *)
(***************************************************************************)
EXTENDS Naturals

CONSTANTS
  Callers,         \* goroutines that call FetchForImage
  Images,          \* non-empty normalised image references
  Digests,         \* manifests the references resolve to
  Sha256Digests,   \* those whose digest algorithm is sha256
  Sboms,           \* SPDX predicates, as bytes
  NoImage,         \* the empty reference
  NoSbom,          \* the (nil, nil) answer
  FetchError,      \* the (nil, err) answer
  NoTag,           \* attestation: the registry has no sha256-<hex>.att tag
  NoSpdx,          \* attestation: no SPDX layer, or a statement with no predicate
  Malformed,       \* attestation: a manifest, envelope or statement that does not parse
  None,            \* no value: an uncached image, no leader, no answer yet
  MaxChanges       \* bound: how many times the registry changes

Facts == Sboms \union {NoSbom}
Answers == Facts \union {FetchError}
Attestations == Sboms \union {NoTag, NoSpdx, Malformed}

ASSUME DistinctValues ==
  /\ Sha256Digests \subseteq Digests
  /\ NoImage \notin Images
  /\ NoSbom \notin Sboms /\ FetchError \notin Facts
  /\ {NoTag, NoSpdx, Malformed} \cap Sboms = {}
  /\ NoTag # Malformed /\ NoSpdx # Malformed
  /\ None \notin Callers \union Answers \union Digests
ASSUME ChangesAssumption == MaxChanges \in Nat

VARIABLES
  cache,     \* Fetcher.cache: image -> remembered result, or None
  leader,    \* Fetcher.group: image -> the caller whose fetch is in flight, or None
  pc, ref, digest, out,   \* per caller: place, argument, resolved digest, result
  tag,       \* registry: image -> the digest its tag points to
  att,       \* registry: digest -> what its attestation tag leads to
  pointed,   \* history: every <<image, digest>> a tag has pointed to
  attached,  \* history: every <<digest, attestation>> there has been
  changes    \* registry changes so far, at most MaxChanges

fetchVars == <<cache, leader, pc, ref, digest, out>>
registryVars == <<tag, att, pointed, attached, changes>>
vars == <<fetchVars, registryVars>>

FetchInit ==
  /\ cache = [i \in Images |-> None]
  /\ leader = [i \in Images |-> None]
  /\ pc = [c \in Callers |-> "idle"]
  /\ ref = [c \in Callers |-> NoImage]
  /\ digest = [c \in Callers |-> None]
  /\ out = [c \in Callers |-> None]

RegistryInit ==
  /\ tag \in [Images -> Digests]
  /\ att \in [Digests -> Attestations]
  /\ pointed = {<<i, tag[i]>> : i \in Images}
  /\ attached = {<<d, att[d]>> : d \in Digests}
  /\ changes = 0

Init == FetchInit /\ RegistryInit
-----------------------------------------------------------------------------
(* FetchForImage up to group.Do *)

\* `if imageRef == ""`
EmptyRef(c) ==
  /\ pc[c] = "idle"
  /\ pc' = [pc EXCEPT ![c] = "answered"]
  /\ out' = [out EXCEPT ![c] = NoSbom]
  /\ UNCHANGED <<cache, leader, ref, digest, registryVars>>

\* f.cache.Load finds a result, positive or negative
CacheHit(c, i) ==
  /\ pc[c] = "idle" /\ cache[i] # None
  /\ pc' = [pc EXCEPT ![c] = "answered"]
  /\ ref' = [ref EXCEPT ![c] = i]
  /\ out' = [out EXCEPT ![c] = cache[i]]
  /\ UNCHANGED <<cache, leader, digest, registryVars>>

CacheMiss(c, i) ==
  /\ pc[c] = "idle" /\ cache[i] = None
  /\ pc' = [pc EXCEPT ![c] = "missed"]
  /\ ref' = [ref EXCEPT ![c] = i]
  /\ UNCHANGED <<cache, leader, digest, out, registryVars>>

FetchForImage(c, i) ==
  \/ i = NoImage /\ EmptyRef(c)
  \/ i \in Images /\ (CacheHit(c, i) \/ CacheMiss(c, i))
-----------------------------------------------------------------------------
(* group.Do: the first caller for a reference runs the closure, later ones *)
(* wait for its result. Nothing rereads the cache here.                    *)

\* Mutant of LeadFetch: every miss fetches for itself, without singleflight.
LeadFetch_unshared(c) ==
  /\ pc[c] = "missed"
  /\ leader' = [leader EXCEPT ![ref[c]] = c]
  /\ pc' = [pc EXCEPT ![c] = "resolving"]
  /\ UNCHANGED <<cache, ref, digest, out, registryVars>>

LeadFetch(c) ==
  /\ pc[c] = "missed" /\ leader[ref[c]] = None
  /\ leader' = [leader EXCEPT ![ref[c]] = c]
  /\ pc' = [pc EXCEPT ![c] = "resolving"]
  /\ UNCHANGED <<cache, ref, digest, out, registryVars>>

JoinFetch(c) ==
  /\ pc[c] = "missed" /\ leader[ref[c]] # None
  /\ pc' = [pc EXCEPT ![c] = "waiting"]
  /\ UNCHANGED <<cache, leader, ref, digest, out, registryVars>>

\* The leader's closure has returned: singleflight forgets the call and
\* hands its result to the leader and to every follower, under its mutex.
Released(c) == {c} \union {x \in Callers : pc[x] = "waiting" /\ ref[x] = ref[c]}

Finish(c) ==
  /\ pc[c] = "finishing"
  /\ leader' = [leader EXCEPT ![ref[c]] = None]
  /\ pc' = [x \in Callers |-> IF x \in Released(c) THEN "answered" ELSE pc[x]]
  /\ out' = [x \in Callers |-> IF x \in Released(c) THEN out[c] ELSE out[x]]
  /\ UNCHANGED <<cache, ref, digest, registryVars>>
-----------------------------------------------------------------------------
(* fetchSPDXSBOM and the closure around it *)

\* Mutant of ResolveImage: the digest is a field of the Fetcher, which
\* concurrent calls share.
ResolveImage_shared(c) ==
  /\ pc[c] = "resolving"
  /\ digest' = [x \in Callers |->
                  IF x = c \/ digest[x] # None THEN tag[ref[c]] ELSE digest[x]]
  /\ pc' = [pc EXCEPT ![c] = "attesting"]
  /\ UNCHANGED <<cache, leader, ref, out, registryVars>>

\* repo.Resolve of the image reference
ResolveImage(c) ==
  /\ pc[c] = "resolving"
  /\ digest' = [digest EXCEPT ![c] = tag[ref[c]]]
  /\ pc' = [pc EXCEPT ![c] = "attesting"]
  /\ UNCHANGED <<cache, leader, ref, out, registryVars>>

\* fetchCosignAttestation and extractSPDXFromDSSE: what the content behind
\* a digest's attestation tag comes to. Content is addressed by its hash,
\* so the moment of resolving the attestation tag fixes all of it.
AttestationOutcome(d, a) ==
  CASE d \notin Sha256Digests \/ a \in {NoTag, NoSpdx} -> NoSbom
    [] d \in Sha256Digests /\ a = Malformed -> FetchError
    [] d \in Sha256Digests /\ a \in Sboms -> a

\* Mutant of FetchAttestation: the absence of an SBOM is not remembered.
FetchAttestation_forgetful(c) ==
  /\ pc[c] = "attesting"
  /\ LET a == AttestationOutcome(digest[c], att[digest[c]])
     IN /\ out' = [out EXCEPT ![c] = a]
        /\ pc' = [pc EXCEPT ![c] = IF a \in Sboms THEN "storing" ELSE "finishing"]
  /\ UNCHANGED <<cache, leader, ref, digest, registryVars>>

FetchAttestation(c) ==
  /\ pc[c] = "attesting"
  /\ LET a == AttestationOutcome(digest[c], att[digest[c]])
     IN /\ out' = [out EXCEPT ![c] = a]
        /\ pc' = [pc EXCEPT ![c] = IF a = FetchError THEN "finishing" ELSE "storing"]
  /\ UNCHANGED <<cache, leader, ref, digest, registryVars>>

\* Mutants of FetchFails: the error is remembered, as itself or as the
\* absence of an SBOM.
FetchFails_cached(c) ==
  /\ pc[c] \in {"resolving", "attesting"}
  /\ out' = [out EXCEPT ![c] = FetchError]
  /\ pc' = [pc EXCEPT ![c] = "storing"]
  /\ UNCHANGED <<cache, leader, ref, digest, registryVars>>
FetchFails_negative(c) ==
  /\ pc[c] \in {"resolving", "attesting"}
  /\ out' = [out EXCEPT ![c] = NoSbom]
  /\ pc' = [pc EXCEPT ![c] = "storing"]
  /\ UNCHANGED <<cache, leader, ref, digest, registryVars>>

\* An invalid reference, a refused or broken connection, the deadline
FetchFails(c) ==
  /\ pc[c] \in {"resolving", "attesting"}
  /\ out' = [out EXCEPT ![c] = FetchError]
  /\ pc' = [pc EXCEPT ![c] = "finishing"]
  /\ UNCHANGED <<cache, leader, ref, digest, registryVars>>

\* f.cache.Store, of an SBOM or of HasSBOM: false; errors are not cached
Store(c) ==
  /\ pc[c] = "storing"
  /\ cache' = [cache EXCEPT ![ref[c]] = out[c]]
  /\ pc' = [pc EXCEPT ![c] = "finishing"]
  /\ UNCHANGED <<leader, ref, digest, out, registryVars>>

\* FetchForImage returns to handleContainerCreated
Return(c) ==
  /\ pc[c] = "answered"
  /\ pc' = [pc EXCEPT ![c] = "idle"]
  /\ ref' = [ref EXCEPT ![c] = NoImage]
  /\ digest' = [digest EXCEPT ![c] = None]
  /\ out' = [out EXCEPT ![c] = None]
  /\ UNCHANGED <<cache, leader, registryVars>>
-----------------------------------------------------------------------------
(* The registry *)

MoveTag(i, d) ==
  /\ changes < MaxChanges /\ tag[i] # d
  /\ tag' = [tag EXCEPT ![i] = d]
  /\ pointed' = pointed \union {<<i, d>>}
  /\ changes' = changes + 1
  /\ UNCHANGED <<att, attached, fetchVars>>

Attach(d, a) ==
  /\ changes < MaxChanges /\ att[d] # a
  /\ att' = [att EXCEPT ![d] = a]
  /\ attached' = attached \union {<<d, a>>}
  /\ changes' = changes + 1
  /\ UNCHANGED <<tag, pointed, fetchVars>>

Registry ==
  \/ \E i \in Images, d \in Digests : MoveTag(i, d)
  \/ \E d \in Digests, a \in Attestations : Attach(d, a)

\* The steps of a call that need nobody but the fetcher and the network
Progress(c) ==
  \/ LeadFetch(c) \/ JoinFetch(c)
  \/ ResolveImage(c) \/ FetchAttestation(c) \/ FetchFails(c)
  \/ Store(c) \/ Finish(c)

Next ==
  \/ Registry
  \/ \E c \in Callers :
       \/ \E i \in Images \union {NoImage} : FetchForImage(c, i)
       \/ Progress(c)
       \/ Return(c)

Spec == Init /\ [][Next]_vars
-----------------------------------------------------------------------------
(* Properties *)

LeaderPoints == {"resolving", "attesting", "storing", "finishing"}
Points == LeaderPoints \union {"idle", "missed", "waiting", "answered"}

\* Every variable has its type; in particular the cache holds no error.
TypeOK ==
  /\ cache \in [Images -> Facts \union {None}]
  /\ leader \in [Images -> Callers \union {None}]
  /\ pc \in [Callers -> Points]
  /\ ref \in [Callers -> Images \union {NoImage}]
  /\ digest \in [Callers -> Digests \union {None}]
  /\ out \in [Callers -> Answers \union {None}]
  /\ tag \in [Images -> Digests]
  /\ att \in [Digests -> Attestations]
  /\ pointed \subseteq Images \X Digests
  /\ attached \subseteq Digests \X Attestations
  /\ changes \in Nat

\* What the registry has stood for: the outcome of some attestation a
\* digest has had, for some digest the image's tag has pointed to.
Genuine ==
  {f \in Images \X Facts :
     \E d \in Digests, a \in Attestations :
       /\ <<f[1], d>> \in pointed /\ <<d, a>> \in attached
       /\ AttestationOutcome(d, a) = f[2]}

\* The cache never holds, for an image, a result the registry has not stood
\* for: no error, no other image's SBOM, no invented absence (FetchForImage
\* stores under the reference it was called with).
CacheIsGenuine ==
  \A i \in Images : cache[i] # None => <<i, cache[i]>> \in Genuine

\* singleflight as FetchForImage relies on it: the caller on record is the
\* only one fetching its image, and no follower waits for a call that is no
\* longer there.
OneFlightPerImage ==
  /\ \A c \in Callers, i \in Images :
       leader[i] = c <=> ref[c] = i /\ pc[c] \in LeaderPoints
  /\ \A c \in Callers : pc[c] = "waiting" => leader[ref[c]] # None

\* The rest of what is true at every step, which with the above is inductive:
\* the history covers the present, a call under way has an image, and what
\* the leader carries from one step to the next is genuine and, before it is
\* given out as a success, in the cache.
HistoryIsComplete ==
  /\ \A i \in Images : <<i, tag[i]>> \in pointed
  /\ \A d \in Digests : <<d, att[d]>> \in attached

CallsAreSound ==
  \A c \in Callers :
    /\ pc[c] \notin {"idle", "answered"} => ref[c] \in Images
    /\ pc[c] = "attesting" => digest[c] \in Digests /\ <<ref[c], digest[c]>> \in pointed
    /\ pc[c] = "storing" => <<ref[c], out[c]>> \in Genuine
    /\ pc[c] = "finishing" =>
         \/ out[c] = FetchError
         \/ <<ref[c], out[c]>> \in Genuine /\ cache[ref[c]] # None

IInv ==
  TypeOK /\ OneFlightPerImage /\ HistoryIsComplete /\ CacheIsGenuine /\ CallsAreSound

Status(c) ==
  CASE pc[c] = "idle" -> "idle"
    [] pc[c] = "answered" -> "answered"
    [] OTHER -> "pending"

Contract == INSTANCE FetchContract WITH
  known <- Genuine,
  settled <- {i \in Images : cache[i] # None},
  status <- [c \in Callers |-> Status(c)],
  image <- ref,
  answer <- [c \in Callers |-> IF pc[c] = "answered" THEN out[c] ELSE None]

\* FetchForImage keeps the contract: successful answers are genuine, they
\* are remembered first, and no call that starts after that gets an error.
KeepsContract == Contract!Spec
=============================================================================
