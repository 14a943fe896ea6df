----------------------------- MODULE MCSigward -----------------------------
(***************************************************************************)
(* Instances of Sigward. One container's runtime names its image in the    *)
(* OCI annotations, the other's (plain Docker) only in config.v2.json.     *)
(***************************************************************************)
EXTENDS Sigward, TLC

CONSTANTS k1, k2, s1, s2

InDocker(name) == [r \in {"/var/lib/docker", "/data"} |-> IF r = "/data" THEN name ELSE <<>>]
Event(annotations, name) ==
  [annotations |-> annotations, hasId |-> TRUE, validId |-> TRUE,
   daemonRoot |-> "/data", images |-> InDocker(name)]

\* Both containers run nginx, under the two names it goes by.
SameImage ==
  (k1 :> Event(<< <<>>, <<>>, <<"docker.io", "library", "nginx">> >>, <<>>)) @@
  (k2 :> Event(<< <<>>, <<>>, <<>> >>, <<"nginx">>))

\* One runs nginx, the other an image of another registry.
TwoImages ==
  (k1 :> Event(<< <<>>, <<"localhost", "app">>, <<>> >>, <<>>)) @@
  (k2 :> Event(<< <<>>, <<>>, <<>> >>, <<"nginx">>))

Nginx == <<"docker.io", "library", "nginx">>
OneImage == (k1 :> Nginx) @@ (k2 :> Nginx)
TheirImages == (k1 :> <<"localhost", "app">>) @@ (k2 :> Nginx)

File(name, hash) ==
  [fileName |-> name, fileTypes |-> {"BINARY"},
   checksums |-> <<[algorithm |-> "SHA256", checksumValue |-> hash]>>]

Docs ==
  (s1 :> <<File(<<".", "app">>, "one"), File(<<"", "usr", "lib">>, "one")>>) @@
  (s2 :> <<File(<<"app">>, "one"), File(<<".", "", "app">>, "two")>>)

Execs == {<<<<"", "app">>, "one">>, <<<<"", "app">>, "two">>, <<<<"", "app">>, NotSha256>>,
          <<<<"", "sh">>, "one">>, <<<<"", "usr", "lib", "x">>, "one">>}

\* No action and no safety property names one of these.
SigwardSymmetry ==
  Permutations(Handlers) \union Permutations(MapIds) \union
  Permutations(Digests) \union Permutations(MntNs)
=============================================================================
