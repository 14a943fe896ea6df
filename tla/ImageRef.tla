------------------------------ MODULE ImageRef ------------------------------
(***************************************************************************)
(* Which image a CREATED event is about: ImageRefFromOCIConfig,            *)
(* ImageRefFromDockerConfig and NormalizeImageRef of internal/sbom/sbom.go *)
(* in the order handleContainerCreated calls them.                         *)
(*                                                                         *)
(* A reference is the sequence of its "/"-separated components; the empty  *)
(* string is <<>>. A component is a registry host when NormalizeImageRef   *)
(* takes it for one: it contains "." or ":", or is "localhost".            *)
(***************************************************************************)
EXTENDS SequencesExt

CONSTANTS RegistryHosts
ASSUME DockerHubIsAHost == "docker.io" \in RegistryHosts

NoImage == <<>>

\* The first non-empty reference of a list, as all three loops look for it
FirstNonEmpty(refs) ==
  LET at == SelectInSeq(refs, LAMBDA r : r # NoImage)
  IN IF at = 0 THEN NoImage ELSE refs[at]

\* annotations: the values under imageAnnotationKeys, in that order, NoImage
\* where the key is missing or empty
ImageRefFromOCIConfig(annotations) == FirstNonEmpty(annotations)

\* validId: the container id matches containerIDRegexp
\* roots: the image named by config.v2.json under each data root, NoImage
\* where the file is missing, unreadable, malformed or names none
ImageRefFromDockerConfig(validId, roots) ==
  IF validId THEN FirstNonEmpty(roots) ELSE NoImage

\* daemon.json's data-root, when it names one, before /var/lib/docker
DockerDataRoots(daemonRoot, default) ==
  IF daemonRoot = "" THEN <<default>> ELSE <<daemonRoot, default>>

\* Mutant of NormalizeImageRef: official images are looked for beside the others.
NormalizeImageRef_unofficial(ref) ==
  CASE ref = NoImage -> NoImage
    [] ref # NoImage /\ Head(ref) \in RegistryHosts -> ref
    [] ref # NoImage /\ Head(ref) \notin RegistryHosts -> <<"docker.io">> \o ref

NormalizeImageRef(ref) ==
  CASE ref = NoImage -> NoImage
    [] Len(ref) = 1 -> <<"docker.io", "library">> \o ref
    [] Len(ref) > 1 /\ Head(ref) \in RegistryHosts -> ref
    [] Len(ref) > 1 /\ Head(ref) \notin RegistryHosts -> <<"docker.io">> \o ref

\* The reference handleContainerCreated passes to FetchForImage. An event is
\* [annotations, hasId, validId, daemonRoot, images], images being the image
\* config.v2.json names under each data root.
HandlerImage(event) ==
  LET oci == ImageRefFromOCIConfig(event.annotations)
      roots == DockerDataRoots(event.daemonRoot, "/var/lib/docker")
      docker == IF event.hasId
                THEN ImageRefFromDockerConfig(event.validId,
                       [r \in DOMAIN roots |-> event.images[roots[r]]])
                ELSE NoImage
  IN NormalizeImageRef(IF oci # NoImage THEN oci ELSE docker)
-----------------------------------------------------------------------------
(* What a name means. External: the names that container runtimes write.    *)

\* i is the whole reference of an image.
Whole(i) ==
  /\ i \in Seq(STRING) /\ Len(i) > 1 /\ Head(i) \in RegistryHosts
  /\ Head(i) = "docker.io" => Len(i) > 2 /\ i[2] \notin RegistryHosts

\* r is a name of the image i: one of Docker Hub goes without its host, too,
\* and an official one by its last component alone.
IsNameOf(r, i) ==
  \/ r = i
  \/ Head(i) = "docker.io" /\ r = Tail(i)
  \/ Len(r) = 1 /\ i = <<"docker.io", "library">> \o r

\* Every place that names an image of a container names the one it was
\* created from. (A container created by an image's id is named by none.)
NamedAs(event, i) ==
  /\ event.annotations \in Seq(Seq(STRING))
  /\ \A n \in DOMAIN event.annotations :
       event.annotations[n] # NoImage => IsNameOf(event.annotations[n], i)
  /\ {"/var/lib/docker", event.daemonRoot} \ {""} \subseteq DOMAIN event.images
  /\ \A root \in DOMAIN event.images :
       event.images[root] # NoImage => IsNameOf(event.images[root], i)
=============================================================================
