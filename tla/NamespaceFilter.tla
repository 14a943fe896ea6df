--------------------------- MODULE NamespaceFilter ---------------------------
(***************************************************************************)
(* internal/utils/utils.go and internal/k8s/namespaces.go: which namespaces *)
(* an agent asks Inspektor Gadget to watch.                                *)
(*                                                                         *)
(* A filter is a comma-separated string in the code. Neither the order nor *)
(* the number of its segments matters, so it is a set here: of names to    *)
(* include and, with a "!" in front, names to exclude. A segment that is   *)
(* empty once trimmed is Blank.                                            *)
(***************************************************************************)
CONSTANTS
  Namespaces,
  Blank        \* a string with nothing in it but white space

Include(ns) == [ns |-> ns, excluded |-> FALSE]
Exclude(ns) == [ns |-> ns, excluded |-> TRUE]
Terms == [ns : Namespaces, excluded : BOOLEAN]

\* env: POD_NAMESPACE; file: the namespace in the service account's volume,
\* Blank when there is none
CurrentNamespace(env, file, fallback) ==
  IF env # Blank THEN env ELSE IF file # Blank THEN file ELSE fallback

\* Mutant of BuildNamespaceFilter: empty segments are not skipped.
BuildNamespaceFilter_unskipped(filterNamespaces, selfNamespace) ==
  {Exclude(n) : n \in {selfNamespace} \ {Blank}} \union filterNamespaces

\* The agent's own exclusion, if it has one, before what the user asks for
BuildNamespaceFilter(filterNamespaces, selfNamespace) ==
  {Exclude(n) : n \in {selfNamespace} \ {Blank}} \union (filterNamespaces \ {Blank})

\* Mutant of AppendNamespaceExclusion: the "!" is forgotten.
AppendNamespaceExclusion_plain(filter, ns) == filter \union {Include(ns)}

AppendNamespaceExclusion(filter, ns) == filter \union {Exclude(ns)}

\* The loop of run() over what ListExemptNamespaces returned
AppendExclusions(filter, names) ==
  filter \union UNION {AppendNamespaceExclusion(filter, ns) : ns \in names}

\* Inspektor Gadget's LocalManager: an exclusion beats everything; with names
\* to include there, others are out.
Monitors(filter, ns) ==
  /\ Exclude(ns) \notin filter
  /\ Include(ns) \in filter \/ \A t \in filter : t.excluded
=============================================================================
