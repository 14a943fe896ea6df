-------------------------------- MODULE Agent --------------------------------
(***************************************************************************)
(* cmd/micromize/root.go and cmd/sigward/root.go with internal/gadget and  *)
(* internal/runtime: the life of an agent's process, from its start-up to  *)
(* the signal that ends it, and the goroutines of the gadgets it runs.     *)
(*                                                                         *)
(* External: the environment of a start (flags, kernel, node), the         *)
(* Kubernetes API, the signals, and Inspektor Gadget, which may fail at    *)
(* every call. Nothing is persisted; the DaemonSet starts the process      *)
(* again, possibly with other flags.                                       *)
(***************************************************************************)
EXTENDS NamespaceFilter

CONSTANTS
  Configs,      \* what a process may be started with, see Config
  Containers,
  NsOf, DigestOf, \* container -> its namespace and image digest
  Digests,
  Relabelled,   \* namespaces whose exempt label is set and removed meanwhile
  NoLabel,      \* --exempt-label=""
  Key,          \* any other label key that is not blank
  None

MicromizeGadgets == {"fs-restrict", "cap-restrict", "ptrace-restrict", "socket-restrict"}
Gadgets == MicromizeGadgets \union {"sigward"}

Config ==
  [product : {"micromize", "sigward"},
   lsm : SUBSET {"bpf", "lockdown", "yama"},         \* /sys/kernel/security/lsm
   podNamespace : Namespaces \union {Blank},         \* POD_NAMESPACE
   saNamespace : Namespaces \union {Blank},          \* the service account's
   enforce : BOOLEAN,
   filterNamespaces : SUBSET (Terms \union {Blank}),
   filterImageDigest : Digests \union {Blank},       \* without "!" in front
   disableGadgets : SUBSET (Gadgets \union {Blank}), \* sigward has no such flag
   exemptLabel : {NoLabel, Blank, Key}]

Params ==
  [enforce : BOOLEAN, k8s_namespace : SUBSET Terms,
   containerimage_digest : Digests \union {Blank}, host_pidns_id : BOOLEAN]

Tasks == [at : {"starting", "attached", "ended"}, params : Params]

ASSUME AgentConstants ==
  /\ Configs \subseteq Config
  /\ "micromize" \in Namespaces /\ Relabelled \subseteq Namespaces
  /\ NsOf \in [Containers -> Namespaces \union {Blank}]
  /\ DigestOf \in [Containers -> Digests \union {Blank}]
  /\ Blank \notin Namespaces \union Digests \union Gadgets
  /\ Blank \notin [ns : Namespaces \union {Blank}, excluded : BOOLEAN]
  /\ NoLabel \notin {Blank, Key} /\ Blank # Key
  /\ None \notin Configs \union Params \union Tasks

VARIABLES
  labelled,  \* the cluster: namespaces that carry the exempt label now
  config,    \* what the process was started with; None when there is none
  pc,        \* the call run() makes next
  ctxDone,   \* run()'s context is cancelled
  sigChan,   \* a signal is in the channel, which has room for one
  handler,   \* the goroutine that waits for it: "none", "waiting", "returned"
  exempt,    \* the namespaces ListExemptNamespaces returned
  nsFilter,
  registry,  \* gadget -> the parameters it is registered with, or None
  task       \* gadget -> the goroutine that runs it, or None

processVars == <<config, pc, ctxDone, sigChan, handler, exempt, nsFilter, registry, task>>
vars == <<labelled, processVars>>

Nothing == [g \in Gadgets |-> None]

Init ==
  /\ labelled \in SUBSET Relabelled
  /\ config = None /\ pc = "down"
  /\ ctxDone = FALSE /\ sigChan = FALSE /\ handler = "none"
  /\ exempt = {} /\ nsFilter = {}
  /\ registry = Nothing /\ task = Nothing

\* The process is gone, and its goroutines and its programs in the kernel with it.
Gone ==
  /\ config' = None /\ pc' = "down"
  /\ ctxDone' = FALSE /\ sigChan' = FALSE /\ handler' = "none"
  /\ exempt' = {} /\ nsFilter' = {}
  /\ registry' = Nothing /\ task' = Nothing
  /\ UNCHANGED labelled
-----------------------------------------------------------------------------
(* Outside the process *)

Relabel(ns) ==
  /\ labelled' \in {labelled \union {ns}, labelled \ {ns}}
  /\ UNCHANGED processVars

Start(c) ==
  /\ pc = "down"
  /\ config' = c /\ pc' = "validate"
  /\ UNCHANGED <<labelled, ctxDone, sigChan, handler, exempt, nsFilter, registry, task>>

Kill == pc # "down" /\ Gone

\* Before signal.Notify a signal ends the process; later, one that finds the
\* channel full is dropped.
Signal ==
  \/ pc = "validate" /\ Gone
  \/ /\ pc \notin {"down", "validate"} /\ ~sigChan
     /\ sigChan' = TRUE
     /\ UNCHANGED <<labelled, config, pc, ctxDone, handler, exempt, nsFilter, registry, task>>
-----------------------------------------------------------------------------
(* run(), step by step *)

ValidateBPFLSM(lsm) == "bpf" \in lsm

Step(from, to) ==
  /\ pc = from /\ pc' = to
  /\ UNCHANGED <<labelled, config, ctxDone, sigChan, exempt, registry, task>>

\* ... and signal.Notify, with the goroutine that receives from the channel
Validated ==
  /\ Step("validate", "manager") /\ ValidateBPFLSM(config.lsm)
  /\ handler' = "waiting" /\ UNCHANGED nsFilter

NotValidated == pc = "validate" /\ ~ValidateBPFLSM(config.lsm) /\ Gone

\* Each of these may fail, and run() then returns through its deferred calls;
\* Close is not among them yet when NewManager fails.
NewManager ==
  /\ Step("manager", "local") \/ Step("manager", "cancel")
  /\ UNCHANGED <<handler, nsFilter>>

NewLocalManager ==
  /\ \/ Step("local", "pidns") /\ config.product = "micromize"
     \/ Step("local", "filter") /\ config.product = "sigward"
     \/ Step("local", "close")
  /\ UNCHANGED <<handler, nsFilter>>

GetHostPidNamespaceID ==
  /\ Step("pidns", "filter") \/ Step("pidns", "close")
  /\ UNCHANGED <<handler, nsFilter>>

\* Sigward does not exempt itself.
SelfNamespace(c) ==
  IF c.product = "sigward" THEN Blank
  ELSE CurrentNamespace(c.podNamespace, c.saNamespace, "micromize")

BuildFilter ==
  /\ \/ Step("filter", "register") /\ config.exemptLabel = NoLabel
     \/ Step("filter", "client") /\ config.exemptLabel # NoLabel
  /\ nsFilter' = BuildNamespaceFilter(config.filterNamespaces, SelfNamespace(config))
  /\ UNCHANGED handler

\* Without a client there are no exemptions, but a warning.
NewClient ==
  /\ Step("client", "list") \/ Step("client", "register")
  /\ UNCHANGED <<handler, nsFilter>>

\* ListExemptNamespaces succeeds. The API may take any time for its answer.
ListAnswers ==
  /\ pc = "list" /\ pc' = "register"
  /\ config.exemptLabel # Blank
  /\ exempt' = labelled
  /\ nsFilter' = AppendExclusions(nsFilter, labelled)
  /\ UNCHANGED <<labelled, config, ctxDone, sigChan, handler, registry, task>>

\* It returns an error: the key is blank, or the API says so. A warning.
ListFails == Step("list", "register") /\ UNCHANGED <<handler, nsFilter>>

\* Mutant of ListCancelled: the call is made with context.Background().
ListCancelled_background ==
  /\ Step("list", "register") /\ UNCHANGED <<handler, nsFilter>>
  /\ config.exemptLabel = Blank

\* It must return: the key is blank, or the context is done.
ListCancelled ==
  /\ Step("list", "register") /\ UNCHANGED <<handler, nsFilter>>
  /\ config.exemptLabel = Blank \/ ctxDone
-----------------------------------------------------------------------------
(* Registration *)

buildDisabledSet(names) == names \ {Blank}

Enabled(c) ==
  IF c.product = "sigward" THEN {"sigward"}
  ELSE MicromizeGadgets \ buildDisabledSet(c.disableGadgets)

\* commonParams. An empty digest is ignored.
CommonParams(c, filter) ==
  [enforce |-> c.enforce, k8s_namespace |-> filter,
   containerimage_digest |-> c.filterImageDigest, host_pidns_id |-> FALSE]

\* Mutant of ParamsOf: the common parameters are copied before the digest is set.
ParamsOf_early(g, c, filter) ==
  IF g = "cap-restrict"
  THEN [CommonParams(c, filter) EXCEPT !.host_pidns_id = TRUE, !.containerimage_digest = Blank]
  ELSE CommonParams(c, filter)

\* capRestrictParams is a copy of commonParams with one more entry.
ParamsOf(g, c, filter) ==
  [CommonParams(c, filter) EXCEPT !.host_pidns_id = (g = "cap-restrict")]

Register ==
  /\ pc = "register" /\ pc' = "runall"
  /\ registry' = [g \in Gadgets |-> IF g \in Enabled(config)
                                    THEN ParamsOf(g, config, nsFilter) ELSE None]
  /\ UNCHANGED <<labelled, config, ctxDone, sigChan, handler, exempt, nsFilter, task>>
-----------------------------------------------------------------------------
(* RunAll visits the registered gadgets in the order of a Go map, any one. *)

ToVisit == {g \in Gadgets : registry[g] # None /\ task[g] = None}

\* CreateContext, and the goroutine for RunGadget with its own arguments
StartGadget(g) ==
  /\ pc = "runall" /\ g \in ToVisit
  /\ task' = [task EXCEPT ![g] = [at |-> "starting", params |-> registry[g]]]
  /\ UNCHANGED <<labelled, config, pc, ctxDone, sigChan, handler, exempt, nsFilter, registry>>

\* Mutant of CreateContextFails: the loop goes on without the gadget.
CreateContextFails_continuing ==
  /\ ToVisit # {} /\ Step("runall", "wait") /\ UNCHANGED <<handler, nsFilter>>

\* RunAll returns at once, whatever it has started, and run() with it.
CreateContextFails ==
  /\ ToVisit # {} /\ Step("runall", "close") /\ UNCHANGED <<handler, nsFilter>>

RunAllReturns ==
  /\ ToVisit = {} /\ Step("runall", "wait") /\ UNCHANGED <<handler, nsFilter>>

ContextDone == ctxDone /\ Step("wait", "close") /\ UNCHANGED <<handler, nsFilter>>

\* The deferred Close; the gadgets are not waited for.
Close == Step("close", "cancel") /\ UNCHANGED <<handler, nsFilter>>

\* The deferred cancel; run() returns, and main() with it.
Cancel == pc = "cancel" /\ Gone

MainStep ==
  \/ Validated \/ NotValidated \/ NewManager \/ NewLocalManager \/ GetHostPidNamespaceID
  \/ BuildFilter \/ NewClient \/ ListCancelled
  \/ Register \/ (\E g \in Gadgets : StartGadget(g)) \/ CreateContextFails \/ RunAllReturns
  \/ ContextDone \/ Close \/ Cancel
-----------------------------------------------------------------------------
(* The other goroutines *)

\* It receives one signal, and none after that.
HandleSignal ==
  /\ handler = "waiting" /\ sigChan
  /\ handler' = "returned" /\ sigChan' = FALSE /\ ctxDone' = TRUE
  /\ UNCHANGED <<labelled, config, pc, exempt, nsFilter, registry, task>>

SetTask(g, from, to) ==
  /\ task[g] # None /\ task[g].at = from
  /\ task' = [task EXCEPT ![g].at = to]
  /\ UNCHANGED <<labelled, config, pc, ctxDone, sigChan, handler, exempt, nsFilter, registry>>

\* RunGadget loads the gadget's programs with the parameters it was given.
Attach(g) == SetTask(g, "starting", "attached")

\* Mutant of GadgetEnds: a gadget that ends is run again.
GadgetEnds_retrying(g) == SetTask(g, "starting", "ended") \/ SetTask(g, "attached", "starting")

\* RunGadget returns: the gadget could not be loaded, or ended. An error is
\* logged; nothing starts the gadget again.
GadgetEnds(g) == SetTask(g, "starting", "ended") \/ SetTask(g, "attached", "ended")

Next ==
  \/ \E ns \in Relabelled : Relabel(ns)
  \/ \E c \in Configs : Start(c)
  \/ Kill \/ Signal
  \/ MainStep \/ ListAnswers \/ ListFails
  \/ HandleSignal
  \/ \E g \in Gadgets : Attach(g) \/ GadgetEnds(g)

Spec == Init /\ [][Next]_vars

\* The Go scheduler runs the goroutines; a call of the API ends when its
\* context does. No answer of the API is assumed, nor any of the gadgets.
Fairness == WF_vars(MainStep) /\ WF_vars(HandleSignal)
-----------------------------------------------------------------------------
(* Properties *)

Setup == {"validate", "manager", "local", "pidns", "filter", "client", "list", "register"}
Late == {"runall", "wait", "close", "cancel"}

TypeOK ==
  /\ labelled \subseteq Namespaces
  /\ config \in Configs \union {None} /\ pc \in Setup \union Late \union {"down"}
  /\ config = None <=> pc = "down"
  /\ ctxDone \in BOOLEAN /\ sigChan \in BOOLEAN
  /\ handler \in {"none", "waiting", "returned"}
  /\ exempt \subseteq Namespaces /\ nsFilter \subseteq Terms
  /\ registry \in [Gadgets -> Params \union {None}]
  /\ task \in [Gadgets -> Tasks \union {None}]

\* The namespaces that flags, environment and labels ask for
Wanted(c, names, ns) ==
  /\ ns \notin names
  /\ c.product = "micromize" => ns # SelfNamespace(c)
  /\ Exclude(ns) \notin c.filterNamespaces
  /\ (\E n \in Namespaces : Include(n) \in c.filterNamespaces)
       => Include(ns) \in c.filterNamespaces

\* The containers that the process should watch
Watched ==
  {k \in Containers : /\ Wanted(config, exempt, NsOf[k])
                      /\ DigestOf[k] = Blank \/ DigestOf[k] # config.filterImageDigest}

\* The containers a gadget with these parameters watches
Judged(p) ==
  {k \in Containers : /\ Monitors(p.k8s_namespace, NsOf[k])
                      /\ DigestOf[k] = Blank \/ DigestOf[k] # p.containerimage_digest}

\* The gadgets whose programs are in the kernel, and those that have ended
Guarding == {g \in Gadgets : task[g] # None /\ task[g].at = "attached"}
Spent == {g \in Gadgets : task[g] # None /\ task[g].at = "ended"}

\* Every gadget that runs is an enabled one and runs with its own parameters:
\* those of the flags the process was started with, the exemptions it listed,
\* and the host's pid namespace for cap-restrict alone.
RunsAsConfigured ==
  \A g \in Gadgets : task[g] # None =>
    /\ g \in Enabled(config)
    /\ task[g].params.enforce = config.enforce
    /\ Judged(task[g].params) = Watched
    /\ task[g].params.host_pidns_id = (g = "cap-restrict")

\* An agent that has settled down to wait for its end has started a goroutine
\* for every gadget that was not disabled: RunAll gets through its loop, or
\* start-up fails. What becomes of a gadget in its goroutine is another matter.
AllOrNothing == pc = "wait" => \A g \in Enabled(config) : task[g] # None

\* Whatever the agent is doing when a signal comes, it ends.
SignalEndsAgent == sigChan ~> pc = "down"

Contract == INSTANCE AgentContract WITH
  up <- pc # "down",
  settled <- pc \in Late,
  scope <- IF pc \in Late THEN Watched ELSE {},
  guards <- {<<g, Judged(task[g].params)>> : g \in Guarding},
  spent <- Spent

\* What the process does is what AgentContract allows.
KeepsContract == Contract!Spec
=============================================================================
