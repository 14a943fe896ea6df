----------------------------- MODULE Agent_proofs -----------------------------
(***************************************************************************)
(* Agent keeps its types, runs its gadgets as configured, starts all or    *)
(* fails, and implements AgentContract, for every set of configurations,   *)
(* containers and namespaces.                                              *)
(***************************************************************************)
EXTENDS Agent, TLAPS

(***************************************************************************)
(* The inductive invariant: until registration the filter in nsFilter is   *)
(* made from the flags and the exemptions listed so far; after it, nothing *)
(* that parameters are made from changes, and every copy of them that a    *)
(* goroutine holds is the one its gadget was registered with.              *)
(***************************************************************************)
FilterFor(c, names) ==
  AppendExclusions(BuildNamespaceFilter(c.filterNamespaces, SelfNamespace(c)), names)

NothingBefore == pc \in Setup \union {"down"} => registry = Nothing /\ task = Nothing

NotListedYet == pc \notin Late \union {"register"} => exempt = {}

FilterBuilt ==
  pc \in {"client", "list", "register", "runall", "wait"} \/ registry # Nothing
    => nsFilter = FilterFor(config, exempt)

Registered ==
  \A g \in Gadgets : registry[g] # None =>
    g \in Enabled(config) /\ registry[g] = ParamsOf(g, config, nsFilter)

AllRegistered == pc \in {"runall", "wait"} => \A g \in Enabled(config) : registry[g] # None

Running ==
  \A g \in Gadgets : task[g] # None => registry[g] # None /\ task[g].params = registry[g]

AllStarted == pc = "wait" => \A g \in Gadgets : registry[g] # None => task[g] # None

IInv ==
  /\ TypeOK /\ NothingBefore /\ NotListedYet /\ FilterBuilt
  /\ Registered /\ AllRegistered /\ Running /\ AllStarted
-----------------------------------------------------------------------------
(* Parameters *)

\* The filter is a set of terms, without the blank segments.
LEMMA FilterIsTerms ==
  ASSUME AgentConstants, NEW c \in Configs, NEW names \in SUBSET Namespaces
  PROVE  /\ SelfNamespace(c) \in Namespaces \union {Blank}
         /\ BuildNamespaceFilter(c.filterNamespaces, SelfNamespace(c)) \in SUBSET Terms
         /\ FilterFor(c, names) \in SUBSET Terms
         /\ FilterFor(c, names) =
              {Exclude(n) : n \in ({SelfNamespace(c)} \ {Blank}) \union names}
                \union (c.filterNamespaces \ {Blank})
<1>0. \A n \in Namespaces : Exclude(n) \in Terms BY DEF Terms, Exclude
<1>1. c \in Config BY DEF AgentConstants
<1>2. SelfNamespace(c) \in Namespaces \union {Blank}
  BY <1>1 DEF SelfNamespace, CurrentNamespace, AgentConstants, Config
<1>3. c.filterNamespaces \ {Blank} \in SUBSET Terms BY <1>1 DEF Config
<1> DEFINE built == BuildNamespaceFilter(c.filterNamespaces, SelfNamespace(c))
<1>4. built = {Exclude(n) : n \in {SelfNamespace(c)} \ {Blank}}
                \union (c.filterNamespaces \ {Blank})
  BY DEF BuildNamespaceFilter
<1>5. built \in SUBSET Terms
  <2>1. \A n \in {SelfNamespace(c)} \ {Blank} : Exclude(n) \in Terms BY <1>0, <1>2
  <2> QED BY <1>3, <1>4, <2>1
<1> HIDE DEF built
<1>6. AppendExclusions(built, names) = built \union {Exclude(n) : n \in names}
  BY DEF AppendExclusions, AppendNamespaceExclusion
<1>7. {Exclude(n) : n \in names} \in SUBSET Terms BY <1>0
<1>8. {Exclude(n) : n \in {SelfNamespace(c)} \ {Blank}} \union {Exclude(n) : n \in names}
        = {Exclude(n) : n \in ({SelfNamespace(c)} \ {Blank}) \union names}
  OBVIOUS
<1> QED BY <1>2, <1>4, <1>5, <1>6, <1>7, <1>8 DEF FilterFor, built

LEMMA NoExemptionsYet ==
  ASSUME NEW filter
  PROVE  AppendExclusions(filter, {}) = filter
BY DEF AppendExclusions

LEMMA TermsAreNotBlank ==
  ASSUME AgentConstants, NEW ns \in Namespaces \union {Blank}
  PROVE  Exclude(ns) # Blank /\ Include(ns) # Blank
<1> DEFINE T == [ns : Namespaces \union {Blank}, excluded : BOOLEAN]
<1>1. Exclude(ns) \in T /\ Include(ns) \in T BY DEF Exclude, Include
<1>2. Blank \notin T BY DEF AgentConstants
<1> HIDE DEF T
<1> QED BY <1>1, <1>2

\* Inspektor Gadget reads the filter as flags, environment and labels are meant.
LEMMA MonitorsWanted ==
  ASSUME AgentConstants, NEW c \in Configs, NEW names \in SUBSET Namespaces,
         NEW ns \in Namespaces \union {Blank}
  PROVE  Monitors(FilterFor(c, names), ns) <=> Wanted(c, names, ns)
<1> DEFINE F == FilterFor(c, names)
           self == {SelfNamespace(c)} \ {Blank}
           Flag == c.filterNamespaces \ {Blank}
<1>1. /\ F = {Exclude(n) : n \in self \union names} \union Flag
      /\ SelfNamespace(c) \in Namespaces \union {Blank}
  BY FilterIsTerms
<1>2. c \in Config /\ Blank \notin Namespaces BY DEF AgentConstants
<1>3. c.filterNamespaces \subseteq Terms \union {Blank} BY <1>2 DEF Config
<1>4. Exclude(ns) # Blank /\ Include(ns) # Blank BY TermsAreNotBlank
<1>5. Exclude(ns) \in F <=> ns \in self \union names \/ Exclude(ns) \in c.filterNamespaces
  BY <1>1, <1>4 DEF Exclude
<1>6. Include(ns) \in F <=> Include(ns) \in c.filterNamespaces
  BY <1>1, <1>4 DEF Exclude, Include
<1>7. ns \in self <=> c.product = "micromize" /\ ns = SelfNamespace(c)
  <2>1. CASE c.product = "sigward" BY <2>1 DEF SelfNamespace
  <2>2. CASE c.product = "micromize"
    <3>1. SelfNamespace(c) # Blank
      BY <1>2, <2>2 DEF SelfNamespace, CurrentNamespace, AgentConstants
    <3> QED BY <2>2, <3>1
  <2> QED BY <1>2, <2>1, <2>2 DEF Config
<1>8. (\A t \in F : t.excluded) <=> ~ \E n \in Namespaces : Include(n) \in c.filterNamespaces
  <2>1. ASSUME NEW n \in Namespaces, Include(n) \in c.filterNamespaces
        PROVE  \E t \in F : ~t.excluded
    <3>1. Include(n) # Blank BY TermsAreNotBlank
    <3>2. Include(n) \in F BY <1>1, <2>1, <3>1
    <3> QED BY <3>2 DEF Include
  <2>2. ASSUME NEW t \in F, ~t.excluded
        PROVE  \E n \in Namespaces : Include(n) \in c.filterNamespaces
    <3>1. t \in Flag BY <1>1, <2>2 DEF Exclude
    <3>2. t \in Terms BY <1>3, <3>1
    <3>3. t.ns \in Namespaces /\ t = Include(t.ns) BY <2>2, <3>2 DEF Terms, Include
    <3> QED BY <3>1, <3>3
  <2> QED BY <2>1, <2>2
<1> HIDE DEF F, self, Flag
<1>9. Monitors(F, ns) <=> /\ Exclude(ns) \notin F
                          /\ Include(ns) \in F \/ \A t \in F : t.excluded
  BY DEF Monitors
<1> QED BY <1>5, <1>6, <1>7, <1>8, <1>9 DEF Wanted, F

LEMMA ParamsAreParams ==
  ASSUME AgentConstants, NEW c \in Configs, NEW g \in Gadgets, NEW filter \in SUBSET Terms
  PROVE  /\ ParamsOf(g, c, filter) \in Params
         /\ ParamsOf(g, c, filter) # None
         /\ ParamsOf(g, c, filter).enforce = c.enforce
         /\ ParamsOf(g, c, filter).k8s_namespace = filter
         /\ ParamsOf(g, c, filter).containerimage_digest = c.filterImageDigest
         /\ ParamsOf(g, c, filter).host_pidns_id = (g = "cap-restrict")
<1>1. c \in Config BY DEF AgentConstants
<1>2. c.enforce \in BOOLEAN /\ c.filterImageDigest \in Digests \union {Blank}
  BY <1>1 DEF Config
<1>3. ParamsOf(g, c, filter) =
        [enforce |-> c.enforce, k8s_namespace |-> filter,
         containerimage_digest |-> c.filterImageDigest,
         host_pidns_id |-> (g = "cap-restrict")]
  BY DEF ParamsOf, CommonParams
<1>4. ParamsOf(g, c, filter) \in Params BY <1>2, <1>3 DEF Params
<1> QED BY <1>3, <1>4 DEF AgentConstants
-----------------------------------------------------------------------------
(* The invariant is inductive. *)

\* Steps of run() that only go on, from one call to another
Moves ==
  { <<"validate", "manager">>, <<"manager", "local">>, <<"manager", "cancel">>,
    <<"local", "pidns">>, <<"local", "filter">>, <<"local", "close">>,
    <<"pidns", "filter">>, <<"pidns", "close">>, <<"client", "list">>,
    <<"client", "register">>, <<"list", "register">>, <<"runall", "close">>,
    <<"wait", "close">>, <<"close", "cancel">> }

Moving ==
  \E from, to : /\ Step(from, to) /\ <<from, to>> \in Moves
                /\ nsFilter' = nsFilter /\ handler' \in {handler, "waiting"}

LEMMA Movers ==
  ASSUME \/ Validated \/ NewManager \/ NewLocalManager \/ GetHostPidNamespaceID
         \/ NewClient \/ ListCancelled \/ ListFails \/ CreateContextFails
         \/ ContextDone \/ Close
  PROVE  Moving
BY DEF Moving, Moves, Step, Validated, NewManager, NewLocalManager, GetHostPidNamespaceID,
       NewClient, ListCancelled, ListFails, CreateContextFails, ContextDone, Close

LEMMA InitInvariant == AgentConstants /\ Init => IInv
<1> SUFFICES ASSUME AgentConstants, Init PROVE IInv OBVIOUS
<1>1. TypeOK BY DEF Init, TypeOK, AgentConstants, Setup, Late, Nothing
<1>2. NothingBefore /\ NotListedYet BY DEF Init, NothingBefore, NotListedYet
<1>3. FilterBuilt BY DEF Init, FilterBuilt
<1>4. Registered /\ AllRegistered /\ Running /\ AllStarted
  BY DEF Init, Registered, AllRegistered, Running, AllStarted, Nothing
<1> QED BY <1>1, <1>2, <1>3, <1>4 DEF IInv

LEMMA GoneInvariant == AgentConstants /\ IInv /\ Gone => IInv'
<1> SUFFICES ASSUME AgentConstants, IInv, Gone PROVE IInv' OBVIOUS
<1>1. TypeOK' BY DEF Gone, IInv, TypeOK, AgentConstants, Setup, Late, Nothing
<1>2. (NothingBefore /\ NotListedYet)' BY DEF Gone, NothingBefore, NotListedYet
<1>3. FilterBuilt' BY DEF Gone, FilterBuilt, Setup, Late, Nothing
<1>4. (Registered /\ AllRegistered /\ Running /\ AllStarted)'
  BY DEF Gone, Registered, AllRegistered, Running, AllStarted, Nothing
<1> QED BY <1>1, <1>2, <1>3, <1>4 DEF IInv

LEMMA MovingInvariant == AgentConstants /\ IInv /\ Moving => IInv'
<1> SUFFICES ASSUME AgentConstants, IInv,
                    NEW from, NEW to, <<from, to>> \in Moves, Step(from, to),
                    nsFilter' = nsFilter, handler' \in {handler, "waiting"}
             PROVE  IInv'
  BY DEF Moving
<1> USE DEF IInv, Step
<1>0. /\ pc # "down" /\ pc' # "down" /\ pc' \in Setup \union Late
      /\ pc \in Late => pc' \in Late
      /\ pc' \notin {"runall", "wait"}
      /\ pc' \in {"client", "list", "register"} => pc \in {"client", "list", "register"}
      /\ pc' \notin Late \union {"register"} => pc \notin Late \union {"register"}
  BY DEF Moves, Setup, Late
<1>1. TypeOK' BY <1>0 DEF TypeOK
<1>2. NothingBefore'
  <2> SUFFICES ASSUME pc' \in Setup \union {"down"} PROVE registry = Nothing /\ task = Nothing
    BY DEF NothingBefore, Nothing
  <2>1. pc' \notin Late BY DEF Setup, Late
  <2>2. pc \notin Late BY <1>0, <2>1
  <2> QED BY <2>2 DEF TypeOK, NothingBefore
<1>3. NotListedYet' BY <1>0 DEF NotListedYet, Late
<1>4. FilterBuilt'
  <2>1. FilterFor(config, exempt)' = FilterFor(config, exempt)
    BY DEF FilterFor, AppendExclusions, BuildNamespaceFilter, SelfNamespace
  <2>2. (registry # Nothing)' <=> registry # Nothing BY DEF Nothing
  <2> QED BY <1>0, <2>1, <2>2 DEF FilterBuilt
<1>5. Registered' BY DEF Registered, Enabled, ParamsOf, CommonParams
<1>6. AllRegistered' /\ AllStarted' BY <1>0 DEF AllRegistered, AllStarted
<1>7. Running' BY DEF Running
<1> QED BY <1>1, <1>2, <1>3, <1>4, <1>5, <1>6, <1>7

\* Steps of others that leave everything but the signal's way unchanged
LEMMA AsideInvariant ==
  ASSUME AgentConstants, IInv, labelled' \subseteq Namespaces,
         UNCHANGED <<config, pc, exempt, nsFilter, registry, task>>,
         ctxDone' \in BOOLEAN, sigChan' \in BOOLEAN,
         handler' \in {"none", "waiting", "returned"}
  PROVE  IInv'
<1> USE DEF IInv
<1>1. TypeOK' BY DEF TypeOK
<1>2. (NothingBefore /\ NotListedYet)' BY DEF NothingBefore, NotListedYet, Nothing
<1>3. FilterBuilt'
  <2>1. FilterFor(config, exempt)' = FilterFor(config, exempt)
    BY DEF FilterFor, AppendExclusions, BuildNamespaceFilter, SelfNamespace
  <2>2. (registry # Nothing)' <=> registry # Nothing BY DEF Nothing
  <2> QED BY <2>1, <2>2 DEF FilterBuilt
<1>4. Registered' BY DEF Registered, Enabled, ParamsOf, CommonParams
<1>5. (AllRegistered /\ Running /\ AllStarted)'
  BY DEF AllRegistered, Enabled, Running, AllStarted
<1> QED BY <1>1, <1>2, <1>3, <1>4, <1>5

LEMMA StartInvariant ==
  ASSUME AgentConstants, IInv, NEW c \in Configs, Start(c)
  PROVE  IInv'
<1> USE DEF IInv, Start
<1>1. TypeOK' BY DEF TypeOK, Setup, AgentConstants
<1>2. (NothingBefore /\ NotListedYet)' BY DEF NothingBefore, NotListedYet, Nothing, Late
<1>3. registry = Nothing /\ task = Nothing BY DEF NothingBefore
<1>4. FilterBuilt'
  <2>1. pc' \notin {"client", "list", "register", "runall", "wait"} OBVIOUS
  <2>2. ~(registry # Nothing)' BY <1>3 DEF Nothing
  <2> QED BY <2>1, <2>2 DEF FilterBuilt
<1>5. (Registered /\ AllRegistered /\ Running /\ AllStarted)'
  BY <1>3 DEF Registered, AllRegistered, Running, AllStarted, Nothing
<1> QED BY <1>1, <1>2, <1>4, <1>5

LEMMA BuildFilterInvariant == AgentConstants /\ IInv /\ BuildFilter => IInv'
<1> SUFFICES ASSUME AgentConstants, IInv, BuildFilter PROVE IInv' OBVIOUS
<1> USE DEF IInv, BuildFilter, Step
<1>1. config \in Configs /\ exempt = {} /\ registry = Nothing /\ task = Nothing
  BY DEF TypeOK, NotListedYet, NothingBefore, Late, Setup
<1>2. nsFilter' = FilterFor(config, {}) BY NoExemptionsYet DEF FilterFor
<1>3. nsFilter' \subseteq Terms BY <1>1, <1>2, FilterIsTerms
<1>4. TypeOK' BY <1>3 DEF TypeOK, Setup
<1>5. (NothingBefore /\ NotListedYet)' BY <1>1 DEF NothingBefore, NotListedYet, Nothing
<1>6. FilterBuilt'
  <2>1. FilterFor(config, exempt)' = FilterFor(config, {})
    BY <1>1 DEF FilterFor, AppendExclusions, BuildNamespaceFilter, SelfNamespace
  <2> QED BY <1>2, <2>1 DEF FilterBuilt
<1>7. (Registered /\ AllRegistered /\ Running /\ AllStarted)'
  BY <1>1 DEF Registered, AllRegistered, Running, AllStarted, Nothing
<1> QED BY <1>4, <1>5, <1>6, <1>7

LEMMA ListAnswersInvariant == AgentConstants /\ IInv /\ ListAnswers => IInv'
<1> SUFFICES ASSUME AgentConstants, IInv, ListAnswers PROVE IInv' OBVIOUS
<1> USE DEF IInv, ListAnswers
<1>1. /\ config \in Configs /\ exempt = {} /\ registry = Nothing /\ task = Nothing
      /\ labelled \subseteq Namespaces
  BY DEF TypeOK, NotListedYet, NothingBefore, Late, Setup
<1>2. nsFilter = BuildNamespaceFilter(config.filterNamespaces, SelfNamespace(config))
  BY <1>1, NoExemptionsYet DEF FilterBuilt, FilterFor
<1>3. nsFilter' = FilterFor(config, labelled) BY <1>2 DEF FilterFor
<1>4. nsFilter' \subseteq Terms BY <1>1, <1>3, FilterIsTerms
<1>5. TypeOK' BY <1>1, <1>4 DEF TypeOK, Setup
<1>6. (NothingBefore /\ NotListedYet)' BY <1>1 DEF NothingBefore, NotListedYet, Nothing
<1>7. FilterBuilt'
  <2>1. FilterFor(config, exempt)' = FilterFor(config, labelled)
    BY DEF FilterFor, AppendExclusions, BuildNamespaceFilter, SelfNamespace
  <2> QED BY <1>3, <2>1 DEF FilterBuilt
<1>8. (Registered /\ AllRegistered /\ Running /\ AllStarted)'
  BY <1>1 DEF Registered, AllRegistered, Running, AllStarted, Nothing
<1> QED BY <1>5, <1>6, <1>7, <1>8

LEMMA EnabledAreGadgets ==
  ASSUME NEW c
  PROVE  Enabled(c) \subseteq Gadgets
BY DEF Enabled, Gadgets, MicromizeGadgets

LEMMA RegisterInvariant == AgentConstants /\ IInv /\ Register => IInv'
<1> SUFFICES ASSUME AgentConstants, IInv, Register PROVE IInv' OBVIOUS
<1> USE DEF IInv, Register
<1>1. config \in Configs /\ nsFilter \in SUBSET Terms /\ task = Nothing
  BY DEF TypeOK, NothingBefore, Setup
<1>2. \A g \in Gadgets : ParamsOf(g, config, nsFilter) \in Params \ {None}
  BY <1>1, ParamsAreParams
<1>3. TypeOK' BY <1>2 DEF TypeOK, Setup, Late
<1>4. (NothingBefore /\ NotListedYet)' BY DEF NothingBefore, NotListedYet, Setup, Late
<1>5. FilterBuilt'
  <2>1. FilterFor(config, exempt)' = FilterFor(config, exempt)
    BY DEF FilterFor, AppendExclusions, BuildNamespaceFilter, SelfNamespace
  <2> QED BY <2>1 DEF FilterBuilt
<1>6. Registered' BY DEF Registered, Enabled, ParamsOf, CommonParams
<1>7. AllRegistered' BY <1>1, <1>2, EnabledAreGadgets DEF AllRegistered, Enabled
<1>8. (Running /\ AllStarted)' BY <1>1 DEF Running, AllStarted, Nothing
<1> QED BY <1>3, <1>4, <1>5, <1>6, <1>7, <1>8

LEMMA StartGadgetInvariant ==
  ASSUME AgentConstants, IInv, NEW g \in Gadgets, StartGadget(g)
  PROVE  IInv'
<1> USE DEF IInv, StartGadget
<1>1. registry[g] \in Params BY DEF ToVisit, TypeOK
<1> DEFINE new == [at |-> "starting", params |-> registry[g]]
<1>2. new \in Tasks /\ new # None /\ new.params = registry[g]
  <2>1. new \in Tasks BY <1>1 DEF Tasks
  <2> QED BY <2>1 DEF AgentConstants
<1> HIDE DEF new
<1>3. task' = [task EXCEPT ![g] = new] /\ task \in [Gadgets -> Tasks \union {None}]
  BY DEF new, TypeOK
<1>4. TypeOK' BY <1>2, <1>3 DEF TypeOK
<1>5. (NothingBefore /\ NotListedYet)' BY DEF NothingBefore, NotListedYet, Setup
<1>6. FilterBuilt'
  <2>1. FilterFor(config, exempt)' = FilterFor(config, exempt)
    BY DEF FilterFor, AppendExclusions, BuildNamespaceFilter, SelfNamespace
  <2>2. (registry # Nothing)' <=> registry # Nothing BY DEF Nothing
  <2> QED BY <2>1, <2>2 DEF FilterBuilt
<1>7. (Registered /\ AllRegistered /\ AllStarted)'
  BY DEF Registered, AllRegistered, AllStarted, Enabled, ParamsOf, CommonParams
<1>8. Running' BY <1>1, <1>2, <1>3 DEF Running, ToVisit
<1> QED BY <1>4, <1>5, <1>6, <1>7, <1>8

LEMMA RunAllReturnsInvariant == AgentConstants /\ IInv /\ RunAllReturns => IInv'
<1> SUFFICES ASSUME AgentConstants, IInv, RunAllReturns PROVE IInv' OBVIOUS
<1> USE DEF IInv, RunAllReturns, Step
<1>1. TypeOK' BY DEF TypeOK, Setup, Late
<1>2. (NothingBefore /\ NotListedYet)' BY DEF NothingBefore, NotListedYet, Setup, Late
<1>3. FilterBuilt'
  BY DEF FilterBuilt, FilterFor, AppendExclusions, BuildNamespaceFilter, SelfNamespace
<1>4. (Registered /\ AllRegistered)'
  BY DEF Registered, AllRegistered, Enabled, ParamsOf, CommonParams
<1>5. Running' BY DEF Running
<1>6. AllStarted' BY DEF AllStarted, ToVisit
<1> QED BY <1>1, <1>2, <1>3, <1>4, <1>5, <1>6

LEMMA SetTaskInvariant ==
  ASSUME AgentConstants, IInv, NEW g \in Gadgets,
         NEW from, NEW to \in {"attached", "ended"}, SetTask(g, from, to)
  PROVE  IInv'
<1> USE DEF IInv, SetTask
<1>1. task[g] \in Tasks BY DEF TypeOK
<1> DEFINE new == [task[g] EXCEPT !.at = to]
<1>2. new \in Tasks /\ new # None /\ new.params = task[g].params
  <2>1. new \in Tasks /\ new.params = task[g].params BY <1>1 DEF Tasks
  <2> QED BY <2>1 DEF AgentConstants
<1> HIDE DEF new
<1>3. task' = [task EXCEPT ![g] = new] /\ task \in [Gadgets -> Tasks \union {None}]
  BY DEF new, TypeOK
<1>4. TypeOK' BY <1>2, <1>3 DEF TypeOK
<1>5. (NothingBefore /\ NotListedYet)'
  <2>1. task # Nothing BY DEF Nothing
  <2>2. pc \notin Setup \union {"down"} BY <2>1 DEF NothingBefore
  <2> QED BY <2>2 DEF NothingBefore, NotListedYet
<1>6. FilterBuilt'
  <2>1. FilterFor(config, exempt)' = FilterFor(config, exempt)
    BY DEF FilterFor, AppendExclusions, BuildNamespaceFilter, SelfNamespace
  <2>2. (registry # Nothing)' <=> registry # Nothing BY DEF Nothing
  <2> QED BY <2>1, <2>2 DEF FilterBuilt
<1>7. (Registered /\ AllRegistered)'
  BY DEF Registered, AllRegistered, Enabled, ParamsOf, CommonParams
<1>8. (Running /\ AllStarted)' BY <1>2, <1>3 DEF Running, AllStarted
<1> QED BY <1>4, <1>5, <1>6, <1>7, <1>8

LEMMA StepInvariant == AgentConstants /\ IInv /\ [Next]_vars => IInv'
<1> SUFFICES ASSUME AgentConstants, IInv, [Next]_vars PROVE IInv' OBVIOUS
<1>1. ASSUME Kill \/ NotValidated \/ Cancel PROVE IInv'
  BY <1>1, GoneInvariant DEF Kill, NotValidated, Cancel
<1>2. CASE Signal
  <2>1. ASSUME ~Gone PROVE IInv'
    BY <1>2, <2>1, AsideInvariant DEF Signal, IInv, TypeOK
  <2> QED BY <2>1, GoneInvariant
<1>3. ASSUME NEW ns \in Relabelled, Relabel(ns) PROVE IInv'
  BY <1>3, AsideInvariant DEF Relabel, processVars, IInv, TypeOK, AgentConstants
<1>4. CASE HandleSignal BY <1>4, AsideInvariant DEF HandleSignal, IInv, TypeOK
<1>5. ASSUME NEW c \in Configs, Start(c) PROVE IInv' BY <1>5, StartInvariant
<1>6. CASE MainStep
  <2>1. ASSUME \/ Validated \/ NewManager \/ NewLocalManager \/ GetHostPidNamespaceID
               \/ NewClient \/ ListCancelled \/ CreateContextFails
               \/ ContextDone \/ Close
        PROVE  IInv'
    BY <2>1, Movers, MovingInvariant
  <2>2. CASE BuildFilter BY <2>2, BuildFilterInvariant
  <2>3. CASE Register BY <2>3, RegisterInvariant
  <2>4. ASSUME NEW g \in Gadgets, StartGadget(g) PROVE IInv' BY <2>4, StartGadgetInvariant
  <2>5. CASE RunAllReturns BY <2>5, RunAllReturnsInvariant
  <2> QED BY <1>1, <1>6, <2>1, <2>2, <2>3, <2>4, <2>5 DEF MainStep
<1>7. CASE ListAnswers BY <1>7, ListAnswersInvariant
<1>8. CASE ListFails BY <1>8, Movers, MovingInvariant
<1>9. ASSUME NEW g \in Gadgets, Attach(g) \/ GadgetEnds(g) PROVE IInv'
  BY <1>9, SetTaskInvariant DEF Attach, GadgetEnds
<1>10. CASE UNCHANGED vars BY <1>10, AsideInvariant DEF vars, processVars, IInv, TypeOK
<1> QED BY <1>1, <1>2, <1>3, <1>4, <1>5, <1>6, <1>7, <1>8, <1>9, <1>10 DEF Next

LEMMA Invariance == Spec => []IInv
<1>1. AgentConstants BY AgentConstants
<1> QED BY <1>1, InitInvariant, StepInvariant, PTL DEF Spec
-----------------------------------------------------------------------------
(* What the invariant says *)

\* A gadget that runs has its own parameters, and by them watches what is wanted.
LEMMA TaskParams ==
  ASSUME AgentConstants, IInv, NEW g \in Gadgets, task[g] # None
  PROVE  /\ pc \in Late /\ g \in Enabled(config)
         /\ task[g].params.enforce = config.enforce
         /\ Judged(task[g].params) = Watched
         /\ task[g].params.host_pidns_id = (g = "cap-restrict")
<1> USE DEF IInv
<1>1. pc \in Late
  <2>1. task # Nothing BY DEF Nothing
  <2> QED BY <2>1 DEF NothingBefore, TypeOK
<1>2. config \in Configs /\ exempt \in SUBSET Namespaces /\ nsFilter \in SUBSET Terms
  BY <1>1 DEF TypeOK, Late
<1>3. registry[g] # None /\ task[g].params = registry[g] BY DEF Running
<1>4. g \in Enabled(config) /\ registry[g] = ParamsOf(g, config, nsFilter)
  BY <1>3 DEF Registered
<1>5. registry # Nothing BY <1>3 DEF Nothing
<1>6. nsFilter = FilterFor(config, exempt) BY <1>5 DEF FilterBuilt
<1> DEFINE p == task[g].params
<1>7. p.k8s_namespace = FilterFor(config, exempt)
      /\ p.containerimage_digest = config.filterImageDigest
  BY <1>2, <1>3, <1>4, <1>6, ParamsAreParams
<1>8. \A k \in Containers : Monitors(p.k8s_namespace, NsOf[k]) <=> Wanted(config, exempt, NsOf[k])
  BY <1>2, <1>7, MonitorsWanted DEF AgentConstants
<1>9. Judged(p) = Watched BY <1>7, <1>8 DEF Judged, Watched
<1> QED BY <1>1, <1>2, <1>3, <1>4, <1>9, ParamsAreParams

(* Every variable of the agent keeps its type.                              *)
THEOREM TypeCorrect == Spec => []TypeOK
<1>1. IInv => TypeOK BY DEF IInv
<1> QED BY <1>1, Invariance, PTL

(* Every gadget that runs is an enabled one and was given the parameters of *)
(* the process's flags and listed exemptions, by which it watches exactly   *)
(* the containers that are wanted.                                          *)
THEOREM Configured == Spec => []RunsAsConfigured
<1>1. AgentConstants BY AgentConstants
<1>2. IInv => RunsAsConfigured BY <1>1, TaskParams DEF RunsAsConfigured
<1> QED BY <1>2, Invariance, PTL

(* An agent that waits for its end has started every enabled gadget.        *)
THEOREM StartsAll == Spec => []AllOrNothing
<1>1. IInv => AllOrNothing
  BY EnabledAreGadgets DEF IInv, AllRegistered, AllStarted, AllOrNothing
<1> QED BY <1>1, Invariance, PTL
-----------------------------------------------------------------------------
(* Refinement of AgentContract. It is settled what the agent watches once   *)
(* run() has got past the registration of its gadgets, or has given up.     *)

Scope == IF pc \in Late THEN Watched ELSE {}

Guards == {<<g, Judged(task[g].params)>> : g \in Guarding}

OneScope ==
  /\ Guards = {<<g, Scope>> : g \in Guarding}
  /\ Scope \in SUBSET Containers
  /\ Guarding # {} \/ Spent # {} => pc \in Late

LEMMA GuardsScope ==
  ASSUME AgentConstants, IInv
  PROVE  OneScope
<1>1. \A g \in Guarding : pc \in Late /\ Judged(task[g].params) = Watched
  BY TaskParams DEF Guarding
<1>2. \A g \in Spent : pc \in Late BY TaskParams DEF Spent
<1>3. Watched \in SUBSET Containers BY DEF Watched
<1> QED BY <1>1, <1>2, <1>3 DEF OneScope, Guards, Scope

LEMMA InitRefines == Init => Contract!Init
<1> SUFFICES ASSUME Init PROVE Contract!Init OBVIOUS
<1>1. Guards = {} /\ Spent = {} BY DEF Init, Nothing, Guards, Guarding, Spent
<1>2. pc \notin Late BY DEF Init, Late
<1> QED BY <1>1, <1>2 DEF Init, Contract!Init, Guards

\* A step that ends the process
LEMMA GoneRefines ==
  ASSUME pc # "down", Gone
  PROVE  Contract!Halt
<1>1. pc' = "down" /\ pc' \notin Late /\ task' = Nothing BY DEF Gone, Late
<1>2. Guards' = {} /\ Spent' = {} BY <1>1 DEF Nothing, Guards, Guarding, Spent
<1> QED BY <1>1, <1>2 DEF Contract!Halt, Guards

\* A step of run() or around it that starts and ends no gadget
LEMMA QuietRefines ==
  ASSUME OneScope, OneScope', pc # "down", pc' # "down",
         pc \in Late => pc' \in Late /\ UNCHANGED <<config, exempt>>,
         UNCHANGED <<Guarding, Spent>>
  PROVE  [Contract!Next]_Contract!vars
<1>1. CASE pc \in Late
  <2>1. Scope' = Scope BY <1>1 DEF Scope, Watched, Wanted, SelfNamespace
  <2>2. Guards' = Guards BY <2>1 DEF OneScope
  <2> QED BY <1>1, <2>1, <2>2 DEF Contract!vars, Scope, Guards
<1>2. CASE pc \notin Late /\ pc' \notin Late
  <2>1. Scope' = Scope BY <1>2 DEF Scope
  <2>2. Guards' = Guards BY <2>1 DEF OneScope
  <2> QED BY <1>2, <2>1, <2>2 DEF Contract!vars, Scope, Guards
<1>3. CASE pc \notin Late /\ pc' \in Late
  <2>1. Guarding = {} /\ Spent = {} BY <1>3 DEF OneScope
  <2>2. Guards = {} /\ Guards' = {} BY <2>1 DEF Guards
  <2>3. Scope' \in SUBSET Containers BY DEF OneScope
  <2>4. Contract!Settle(Scope') BY <1>3, <2>1, <2>2 DEF Contract!Settle, Scope, Guards
  <2> QED BY <2>3, <2>4 DEF Contract!Next
<1> QED BY <1>1, <1>2, <1>3

\* A task changes its state, and no other does.
LEMMA SetTaskOnly ==
  ASSUME AgentConstants, TypeOK, NEW g \in Gadgets,
         NEW from, NEW to \in {"attached", "ended"}, SetTask(g, from, to)
  PROVE  /\ task[g] # None /\ task[g].at = from
         /\ task'[g] # None /\ task'[g].at = to
         /\ \A h \in Gadgets \ {g} : task'[h] = task[h]
<1>1. task[g] \in Tasks /\ task[g] # None /\ task[g].at = from BY DEF SetTask, TypeOK
<1> DEFINE new == [task[g] EXCEPT !.at = to]
<1>2. new \in Tasks /\ new.at = to BY <1>1 DEF Tasks
<1>3. new # None BY <1>2 DEF AgentConstants
<1> HIDE DEF new
<1>4. task' = [task EXCEPT ![g] = new] BY DEF SetTask, new
<1>5. task'[g] = new /\ \A h \in Gadgets \ {g} : task'[h] = task[h] BY <1>4 DEF TypeOK
<1> QED BY <1>1, <1>2, <1>3, <1>5

\* The scope stays the same while gadgets come and go.
LEMMA SetTaskScope ==
  ASSUME OneScope, NEW g \in Gadgets, NEW from, NEW to, SetTask(g, from, to), pc \in Late
  PROVE  pc' \in Late /\ Scope' = Scope
<1>1. UNCHANGED <<pc, config, exempt>> BY DEF SetTask
<1> QED BY <1>1 DEF Scope, Watched, Wanted, SelfNamespace

LEMMA AttachRefines ==
  ASSUME AgentConstants, IInv, OneScope, OneScope', NEW g \in Gadgets, Attach(g)
  PROVE  Contract!Next
<1>1. /\ task[g] # None /\ task[g].at = "starting"
      /\ task'[g] # None /\ task'[g].at = "attached"
      /\ \A h \in Gadgets \ {g} : task'[h] = task[h]
  BY SetTaskOnly DEF Attach, IInv
<1>2. pc \in Late BY <1>1, TaskParams
<1>3. pc' \in Late /\ Scope' = Scope BY <1>2, SetTaskScope DEF Attach
<1>4. Guarding' = Guarding \union {g} /\ g \notin Guarding BY <1>1 DEF Guarding
<1>5. Spent' = Spent /\ g \notin Spent BY <1>1 DEF Spent
<1>6. Guards' = Guards \union {<<g, Scope>>} BY <1>3, <1>4 DEF OneScope
<1>7. \A q \in Guards : q[1] # g BY <1>4 DEF OneScope
<1>8. pc # "down" /\ pc' # "down" BY <1>2, <1>3 DEF Late
<1>9. Contract!Guard(g)
  BY <1>2, <1>3, <1>5, <1>6, <1>7, <1>8 DEF Contract!Guard, Scope, Guards
<1> QED BY <1>9 DEF Contract!Next

LEMMA GadgetEndsRefines ==
  ASSUME AgentConstants, IInv, OneScope, OneScope', NEW g \in Gadgets, GadgetEnds(g)
  PROVE  Contract!Next
<1>1. /\ task[g] # None /\ task[g].at \in {"starting", "attached"}
      /\ task'[g] # None /\ task'[g].at = "ended"
      /\ \A h \in Gadgets \ {g} : task'[h] = task[h]
  BY SetTaskOnly DEF GadgetEnds, IInv
<1>2. pc \in Late BY <1>1, TaskParams
<1>3. pc' \in Late /\ Scope' = Scope BY <1>2, SetTaskScope DEF GadgetEnds
<1>4. Guarding' = Guarding \ {g} BY <1>1 DEF Guarding
<1>5. Spent' = Spent \union {g} /\ g \notin Spent BY <1>1 DEF Spent
<1>6. Guards' = {q \in Guards : q[1] # g} BY <1>3, <1>4 DEF OneScope
<1>7. pc # "down" /\ pc' # "down" BY <1>2, <1>3 DEF Late
<1>8. Contract!Lose(g)
  BY <1>2, <1>3, <1>5, <1>6, <1>7 DEF Contract!Lose, Scope, Guards
<1> QED BY <1>8 DEF Contract!Next

\* A gadget that is being started does not guard yet.
LEMMA StartGadgetSets ==
  ASSUME IInv, NEW g \in Gadgets, StartGadget(g)
  PROVE  UNCHANGED <<Guarding, Spent>>
<1> DEFINE new == [at |-> "starting", params |-> registry[g]]
<1>1. new.at = "starting" OBVIOUS
<1> HIDE DEF new
<1>2. task[g] = None /\ task' = [task EXCEPT ![g] = new]
  BY DEF StartGadget, ToVisit, new
<1>3. task'[g] = new /\ \A h \in Gadgets \ {g} : task'[h] = task[h]
  BY <1>2 DEF IInv, TypeOK
<1> QED BY <1>1, <1>2, <1>3 DEF Guarding, Spent

LEMMA StepRefines ==
  ASSUME AgentConstants, IInv, OneScope, OneScope', [Next]_vars
  PROVE  [Contract!Next]_Contract!vars
<1> USE DEF Late, Setup
<1>1. ASSUME pc # "down", Gone PROVE Contract!Next
  BY <1>1, GoneRefines DEF Contract!Next
<1>2. ASSUME UNCHANGED task PROVE UNCHANGED <<Guarding, Spent>>
  BY <1>2 DEF Guarding, Spent
<1>3. ASSUME Kill \/ NotValidated \/ Cancel PROVE Contract!Next
  BY <1>1, <1>3 DEF Kill, NotValidated, Cancel
<1>4. ASSUME UNCHANGED <<pc, config, exempt, task>> PROVE UNCHANGED Contract!vars
  <2>1. Scope' = Scope BY <1>4 DEF Scope, Watched, Wanted, SelfNamespace
  <2>2. Guards' = Guards BY <1>2, <1>4, <2>1 DEF OneScope
  <2> QED BY <1>2, <1>4, <2>1, <2>2 DEF Contract!vars, Scope, Guards
<1>5. CASE Signal BY <1>1, <1>4, <1>5 DEF Signal
<1>6. ASSUME NEW ns \in Relabelled, Relabel(ns) PROVE UNCHANGED Contract!vars
  BY <1>4, <1>6 DEF Relabel, processVars
<1>7. CASE HandleSignal BY <1>4, <1>7 DEF HandleSignal
<1>8. ASSUME NEW c \in Configs, Start(c) PROVE Contract!Boot
  <2>1. Guarding = {} /\ Spent = {} BY <1>8 DEF Start, OneScope
  <2>2. Guards = {} /\ Guards' = {} /\ UNCHANGED Spent
    BY <1>2, <1>8, <2>1 DEF Start, Guards
  <2> QED BY <1>8, <2>2 DEF Start, Contract!Boot, Guards
<1>9. ASSUME NEW from, NEW to, <<from, to>> \in Moves, Step(from, to)
      PROVE  [Contract!Next]_Contract!vars
  <2>1. pc # "down" /\ pc' # "down" /\ (pc \in Late => pc' \in Late) BY <1>9 DEF Step, Moves
  <2> QED BY <1>2, <1>9, <2>1, QuietRefines DEF Step
<1>10. CASE MainStep
  <2>1. ASSUME \/ Validated \/ NewManager \/ NewLocalManager \/ GetHostPidNamespaceID
               \/ NewClient \/ ListCancelled \/ CreateContextFails
               \/ ContextDone \/ Close
        PROVE  [Contract!Next]_Contract!vars
    BY <1>9, <2>1, Movers DEF Moving
  <2>2. CASE BuildFilter BY <1>2, <2>2, QuietRefines DEF BuildFilter, Step
  <2>3. CASE Register BY <1>2, <2>3, QuietRefines DEF Register
  <2>4. ASSUME NEW g \in Gadgets, StartGadget(g) PROVE [Contract!Next]_Contract!vars
    BY <2>4, StartGadgetSets, QuietRefines DEF StartGadget
  <2>5. CASE RunAllReturns BY <1>2, <2>5, QuietRefines DEF RunAllReturns, Step
  <2> QED BY <1>3, <1>10, <2>1, <2>2, <2>3, <2>4, <2>5 DEF MainStep
<1>11. CASE ListAnswers BY <1>2, <1>11, QuietRefines DEF ListAnswers
<1>12. CASE ListFails BY <1>9, <1>12, Movers DEF Moving
<1>13. ASSUME NEW g \in Gadgets, Attach(g) \/ GadgetEnds(g) PROVE Contract!Next
  BY <1>13, AttachRefines, GadgetEndsRefines
<1>14. CASE UNCHANGED vars BY <1>4, <1>14 DEF vars, processVars
<1>15. ASSUME NEW c \in Configs, Start(c) PROVE Contract!Next BY <1>8, <1>15 DEF Contract!Next
<1> HIDE DEF Late, Setup
<1> QED BY <1>3, <1>5, <1>6, <1>7, <1>10, <1>11, <1>12, <1>13, <1>14, <1>15 DEF Next

(* The agent keeps its contract: in one life all gadgets watch the same     *)
(* containers, settled before the first of them guards; one that has ended  *)
(* stays away; nothing is guarded when the agent is down.                   *)
THEOREM Refinement == Spec => KeepsContract
<1>1. AgentConstants BY AgentConstants
<1>2. IInv => OneScope BY <1>1, GuardsScope
<1>3. IInv /\ OneScope /\ OneScope' /\ [Next]_vars => [Contract!Next]_Contract!vars
  BY <1>1, StepRefines
<1> QED BY <1>2, <1>3, Invariance, InitRefines, PTL DEF Spec, KeepsContract, Contract!Spec
=============================================================================
