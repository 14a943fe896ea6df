----------------------------- MODULE MCMicromize -----------------------------
(***************************************************************************)
(* Instance of Micromize: a shop in Kubernetes, the agent's own pod, and a *)
(* container of plain Docker, with configurations that differ in what they *)
(* leave out.                                                              *)
(***************************************************************************)
EXTENDS Micromize, TLC

CONSTANTS app, own, bare, d1

NamespaceOf == (app :> "shop") @@ (own :> "security") @@ (bare :> Blank)
ImageDigestOf == (app :> Blank) @@ (own :> Blank) @@ (bare :> d1)
NamespaceNames == {"micromize", "security", "shop"}

\* As the chart starts it, but for the gadgets judged elsewhere
Chart ==
  [product |-> "micromize", lsm |-> {"bpf", "yama"}, podNamespace |-> "security",
   saNamespace |-> "security", enforce |-> TRUE, filterNamespaces |-> {Blank},
   filterImageDigest |-> d1, disableGadgets |-> {"fs-restrict", "cap-restrict"},
   exemptLabel |-> Key]

Starts ==
  { Chart,
    \* audit mode, and the user asks for the agent's own namespace, too
    [Chart EXCEPT !.enforce = FALSE, !.filterImageDigest = Blank, !.podNamespace = Blank, !.exemptLabel = NoLabel,
       !.filterNamespaces = {Include("security"), Include("shop")},
       !.disableGadgets = @ \union {"ptrace-restrict", Blank}],
    \* the label's key is blank, and the user excludes a namespace
    [Chart EXCEPT !.exemptLabel = Blank,
       !.filterNamespaces = {Exclude("security")}, !.podNamespace = Blank,
       !.saNamespace = Blank, !.disableGadgets = {"fs-restrict", "socket-restrict"}],
    [Chart EXCEPT !.lsm = {"lockdown", "yama"}],
    [Chart EXCEPT !.product = "sigward", !.disableGadgets = {}] }

Made(hook, family, protocol, kern, typed) ==
  [hook |-> hook, family |-> family, protocol |-> protocol, kern |-> kern, typed |-> typed]

CallsMade ==
  { Made("ptrace_access_check", "AF_INET", "other", FALSE, FALSE),
    Made("socket_create", "AF_ALG", "other", TRUE, FALSE),
    Made("socket_create", "AF_NETLINK", "other", FALSE, FALSE),
    Made("socket_create", "AF_NETLINK", "NETLINK_XFRM", FALSE, FALSE),
    Made("socket_bind", "AF_ALG", "other", FALSE, TRUE),
    Made("socket_bind", "AF_ALG", "other", FALSE, FALSE) }
=============================================================================
