--------------------------- MODULE Micromize_proofs ---------------------------
(***************************************************************************)
(* Micromize from end to end: the agent in it behaves as Agent alone does, *)
(* so its theorems hold here; what the hooks let pass and refuse follows   *)
(* from them; and the output tells the truth.                              *)
(***************************************************************************)
EXTENDS Micromize, Agent_proofs, TLAPS

LEMMA HostsAgent == SystemSpec => Spec
<1>1. SystemInit => Init BY DEF SystemInit
<1>2. [SystemNext]_allVars => [Next]_vars
  BY DEF SystemNext, allVars, Alone, Hook, Output
<1> QED BY <1>1, <1>2, PTL DEF SystemSpec, Spec

LEMMA SystemInvariance == SystemSpec => []IInv
BY HostsAgent, Invariance, PTL

(* With hooks, events and output around it the agent still keeps its types, *)
(* runs its gadgets as configured, starts all of them or fails, and keeps   *)
(* its contract.                                                            *)
THEOREM AgentWithin ==
  SystemSpec => /\ []TypeOK /\ []RunsAsConfigured /\ []AllOrNothing
                /\ KeepsContract
BY HostsAgent, TypeCorrect, Configured, StartsAll, Refinement
-----------------------------------------------------------------------------
(* Decisions *)

\* The verdict on a call is the one before, or that of an attached gadget
\* with the flag of the process and the containers that are wanted.
LEMMA Verdict ==
  ASSUME IInv, NEW k \in Containers, NEW call \in Calls, NEW prior,
         GadgetOf(call) \in Guarding
  PROVE  /\ GadgetOf(call) \in Enabled(config)
         /\ Outcome(k, call, prior) =
              Decide(call, prior, k \notin Watched, Room(GadgetOf(call)), config.enforce)
<1>1. AgentConstants BY AgentConstants
<1>2. GadgetOf(call) \in Gadgets /\ task[GadgetOf(call)] # None BY DEF Guarding
<1> QED BY <1>1, <1>2, TaskParams DEF Outcome

(* Without an attached gadget nothing changes; with one, a call turns from  *)
(* allowed to refused only if it is forbidden, wanted and enforced.         *)
THEOREM OnlyForbidden == SystemSpec => []OnlyForbiddenRefused
<1>1. IInv => OnlyForbiddenRefused
  <2> SUFFICES ASSUME IInv, NEW k \in Containers, NEW call \in Calls,
                      NEW prior \in {Allow, EPERM}, Outcome(k, call, prior).ret # prior
               PROVE  /\ prior = Allow /\ Forbidden(call)
                      /\ k \in Watched
                      /\ config.enforce /\ GadgetOf(call) \in Enabled(config)
    BY DEF OnlyForbiddenRefused
  <2>1. call \in Call BY SystemConstants
  <2>2. GadgetOf(call) \in Guarding BY DEF Outcome, Decision
  <2>3. /\ GadgetOf(call) \in Enabled(config)
        /\ Decide(call, prior, k \notin Watched, Room(GadgetOf(call)), config.enforce).ret # prior
    BY <2>2, Verdict
  <2> QED BY <2>1, <2>3
    DEF Decide, Call, PtraceHook, SocketHook, Decision, Refusal, CreateEvent, BindEvent,
        Forbidden, GadgetOf
<1> QED BY <1>1, SystemInvariance, PTL

(* An attached gadget that enforces lets no forbidden call of a wanted      *)
(* container pass, but a ptrace call when its ring buffer is full.          *)
THEOREM ForbiddenRefused == SystemSpec => []ForbiddenAreRefused
<1>1. IInv => ForbiddenAreRefused
  <2> SUFFICES ASSUME IInv, NEW call \in Calls, Forbidden(call),
                      GadgetOf(call) \in Guarding, config.enforce, NEW k \in Watched
               PROVE  \/ Outcome(k, call, Allow).ret = EPERM
                      \/ GadgetOf(call) = "ptrace-restrict" /\ ~Room("ptrace-restrict")
    BY DEF ForbiddenAreRefused
  <2>1. call \in Call /\ k \in Containers BY SystemConstants DEF Watched
  <2>2. Outcome(k, call, Allow) =
          Decide(call, Allow, FALSE, Room(GadgetOf(call)), TRUE)
    BY <2>1, Verdict
  <2>3. CASE GadgetOf(call) = "ptrace-restrict"
    <3>1. call.hook \in {"ptrace_access_check", "ptrace_traceme"}
      BY <2>1, <2>3 DEF Call, GadgetOf
    <3>2. PICK type : Outcome(k, call, Allow) =
                        PtraceHook(type, Allow, FALSE, Room("ptrace-restrict"), TRUE)
      BY <2>2, <2>3, <3>1 DEF Decide
    <3> QED BY <2>3, <3>2 DEF PtraceHook, Decision, Refusal
  <2>4. CASE GadgetOf(call) # "ptrace-restrict" /\ call.hook = "socket_create"
    <3>1. CreateEvent(call.family, call.protocol, call.kern) \in 11..15
      BY <2>1, <2>4 DEF Forbidden, CreateEvent, Call, SOCKET_AF_ALG_CREATE,
                        SOCKET_AF_KEY_CREATE, SOCKET_XFRM_NETLINK_CREATE
    <3>2. CreateEvent(call.family, call.protocol, call.kern) # None
      BY <3>1, SystemConstants
    <3> QED BY <2>2, <2>4, <3>2 DEF Decide, SocketHook, Decision, Refusal
  <2>5. CASE GadgetOf(call) # "ptrace-restrict" /\ call.hook = "socket_bind"
    <3>1. BindEvent(call.family, call.typed) \in 11..15
      BY <2>5 DEF Forbidden, BindEvent, SOCKET_AF_ALG_BIND
    <3>2. BindEvent(call.family, call.typed) # None BY <3>1, SystemConstants
    <3> QED BY <2>2, <2>5, <3>2 DEF Decide, SocketHook, Decision, Refusal
  <2> QED BY <2>1, <2>3, <2>4, <2>5 DEF Call, GadgetOf
<1> QED BY <1>1, SystemInvariance, PTL
-----------------------------------------------------------------------------
(* Events. Every event under way, in a ring buffer or with a goroutine,     *)
(* tells the truth by the configuration and the exemptions of this life;    *)
(* both stay until the process ends, and the events go with it.             *)

Truths ==
  {e \in [type : 0..15, call : Calls, container : Containers, ret : {Allow, EPERM}] :
     /\ Description(e.type) = Deed(e.call) /\ Reason(e.type) = Deed(e.call)
     /\ e.container \in Watched
     /\ config.enforce => e.ret = EPERM}

Told(r, T) ==
  /\ r.event \in T
  /\ r.container \in {r.event.container, Blank}
  /\ r.reason = Reason(r.event.type)
  /\ r.what = Description(r.event.type)

EventsTruthful ==
  /\ ring \in [Gadgets -> Seq(Truths)] /\ DOMAIN reading = Gadgets
  /\ \A g \in Gadgets : reading[g] # None => Told(reading[g], Truths)
  /\ \A g \in Gadgets : ring[g] # <<>> \/ reading[g] # None => pc \in Late

\* The event that a gadget submits for a forbidden call tells the truth.
LEMMA SubmittedTruthful ==
  ASSUME IInv, NEW k \in Containers, NEW call \in Calls, NEW prior \in {Allow, EPERM},
         NEW d, d = Outcome(k, call, prior), d.event # None
  PROVE  /\ GadgetOf(call) \in Guarding /\ prior = Allow
         /\ k \in Watched
         /\ d.event \in 0..15 /\ d.ret = Refusal(config.enforce)
         /\ Description(d.event) = Deed(call) /\ Reason(d.event) = Deed(call)
<1>1. call \in Call BY SystemConstants
<1>2. GadgetOf(call) \in Guarding BY DEF Outcome, Decision
<1>3. d = Decide(call, prior, k \notin Watched, Room(GadgetOf(call)), config.enforce)
  BY <1>2, Verdict
<1>4. /\ eventTypeNames[5] = "ptrace_access" /\ eventTypeNames[6] = "ptrace_traceme"
      /\ eventTypeNames[11] = "af_alg_socket_create"
      /\ eventTypeNames[12] = "af_alg_socket_bind"
      /\ eventTypeNames[14] = "af_key_socket_create"
      /\ eventTypeNames[15] = "xfrm_netlink_socket_create"
      /\ DOMAIN eventTypeNames = 0..15
  BY DEF eventTypeNames
<1>5. \A type \in 1..15 :
        Description(type) = eventTypeNames[type] /\ Reason(type) = eventTypeNames[type]
  BY <1>4 DEF Description, Reason
<1>6. CASE call.hook = "ptrace_access_check"
  <2>1. d = PtraceHook(5, prior, k \notin Watched, Room(GadgetOf(call)), config.enforce)
    BY <1>3, <1>6 DEF Decide, PTRACE_ACCESS
  <2>2. /\ d.event = 5 /\ prior = Allow /\ k \in Watched
        /\ d.ret = Refusal(config.enforce)
    BY <2>1 DEF PtraceHook, Decision
  <2>3. Deed(call) = "ptrace_access" BY <1>6 DEF Deed
  <2> QED BY <1>2, <1>4, <1>5, <2>2, <2>3
<1>7. CASE call.hook = "ptrace_traceme"
  <2>1. d = PtraceHook(6, prior, k \notin Watched, Room(GadgetOf(call)), config.enforce)
    BY <1>3, <1>7 DEF Decide, PTRACE_TRACEME
  <2>2. /\ d.event = 6 /\ prior = Allow /\ k \in Watched
        /\ d.ret = Refusal(config.enforce)
    BY <2>1 DEF PtraceHook, Decision
  <2>3. Deed(call) = "ptrace_traceme" BY <1>7 DEF Deed
  <2> QED BY <1>2, <1>4, <1>5, <2>2, <2>3
<1>8. ASSUME NEW type,
             d = SocketHook(type, prior, k \notin Watched, Room(GadgetOf(call)), config.enforce)
      PROVE  /\ d.event = type /\ prior = Allow /\ k \in Watched
             /\ d.ret = Refusal(config.enforce)
  BY <1>8 DEF SocketHook, Decision
<1>9. CASE call.hook = "socket_create"
  <2> DEFINE type == CreateEvent(call.family, call.protocol, call.kern)
  <2>1. d = SocketHook(type, prior, k \notin Watched, Room(GadgetOf(call)), config.enforce)
    BY <1>3, <1>9 DEF Decide
  <2>2. type # None BY <1>8, <2>1
  <2>3. \/ type = 11 /\ call.family = "AF_ALG"
        \/ type = 14 /\ call.family = "AF_KEY"
        \/ type = 15 /\ call.family = "AF_NETLINK"
    BY <1>1, <2>2 DEF CreateEvent, Call, SOCKET_AF_ALG_CREATE, SOCKET_AF_KEY_CREATE,
                      SOCKET_XFRM_NETLINK_CREATE
  <2> HIDE DEF type
  <2>4. eventTypeNames[type] = Deed(call) BY <1>4, <1>9, <2>3 DEF Deed
  <2> QED BY <1>2, <1>5, <1>8, <2>1, <2>3, <2>4
<1>10. CASE call.hook = "socket_bind"
  <2> DEFINE type == BindEvent(call.family, call.typed)
  <2>1. d = SocketHook(type, prior, k \notin Watched, Room(GadgetOf(call)), config.enforce)
    BY <1>3, <1>10 DEF Decide
  <2>2. type # None BY <1>8, <2>1
  <2>3. type = 12 BY <2>2 DEF BindEvent, SOCKET_AF_ALG_BIND
  <2> HIDE DEF type
  <2>4. eventTypeNames[type] = Deed(call) BY <1>4, <1>10, <2>3 DEF Deed
  <2> QED BY <1>2, <1>5, <1>8, <2>1, <2>3, <2>4
<1> QED BY <1>1, <1>6, <1>7, <1>9, <1>10 DEF Call

\* What an event is judged by stays until the process ends.
LEMMA LateStays ==
  ASSUME pc \in Late, [Next]_vars, pc' # "down"
  PROVE  pc' \in Late /\ Truths' = Truths
<1>1. ~Gone BY DEF Gone
<1>2. ASSUME NEW from, NEW to, <<from, to>> \in Moves, Step(from, to)
      PROVE  pc' \in Late /\ UNCHANGED <<config, exempt>>
  BY <1>2 DEF Step, Moves, Late
<1>3. ASSUME MainStep PROVE pc' \in Late /\ UNCHANGED <<config, exempt>>
  <2>1. ASSUME Moving PROVE pc' \in Late /\ UNCHANGED <<config, exempt>>
    BY <1>2, <2>1 DEF Moving
  <2>2. ~NotValidated /\ ~BuildFilter /\ ~Register /\ ~Cancel
    BY <1>1 DEF NotValidated, BuildFilter, Register, Cancel, Step, Late
  <2>3. ASSUME NEW g \in Gadgets, StartGadget(g)
        PROVE  pc' \in Late /\ UNCHANGED <<config, exempt>>
    BY <2>3 DEF StartGadget
  <2>4. ASSUME RunAllReturns PROVE pc' \in Late /\ UNCHANGED <<config, exempt>>
    BY <2>4 DEF RunAllReturns, Step, Late
  <2> QED BY <1>3, <2>1, <2>2, <2>3, <2>4, Movers DEF MainStep
<1>4. ASSUME ~MainStep PROVE pc' \in Late /\ UNCHANGED <<config, exempt>>
  <2>1. ~ListAnswers /\ ~ListFails BY DEF ListAnswers, ListFails, Step, Late
  <2>2. \A c \in Configs : ~Start(c) BY DEF Start, Late
  <2>3. ~Kill BY <1>1 DEF Kill
  <2> QED BY <1>1, <1>4, <2>1, <2>2, <2>3
    DEF Next, vars, processVars, Relabel, Signal, HandleSignal, Attach, GadgetEnds, SetTask
<1>5. pc' \in Late /\ UNCHANGED <<config, exempt>> BY <1>3, <1>4
<1> QED BY <1>5 DEF Truths, Watched, Wanted, SelfNamespace

\* Ring buffers and goroutines are left as they were, or emptied.
LEMMA AloneTruthful ==
  ASSUME EventsTruthful, Next, Alone(Next)
  PROVE  EventsTruthful'
<1> USE DEF EventsTruthful
<1>1. CASE pc' = "down"
  <2>1. ring' = [g \in Gadgets |-> <<>>] /\ reading' = [g \in Gadgets |-> None]
    BY <1>1 DEF Alone, OutputGone
  <2>2. <<>> \in Seq(Truths') OBVIOUS
  <2> QED BY <2>1, <2>2
<1>2. CASE pc' # "down"
  <2>1. reading' = reading BY <1>2 DEF Alone, OutputKeeps
  <2>2. PICK S : ring' = [g \in Gadgets |-> IF g \in S THEN ring[g] ELSE <<>>]
    BY <1>2 DEF Alone, OutputKeeps
  <2>3. \A g \in Gadgets : ring'[g] \in {ring[g], <<>>} BY <2>2
  <2>4. CASE pc \notin Late
    <3>1. \A g \in Gadgets : ring'[g] = <<>> /\ reading'[g] = None BY <2>1, <2>3, <2>4
    <3>2. <<>> \in Seq(Truths') OBVIOUS
    <3> QED BY <2>1, <2>2, <3>1, <3>2
  <2>5. CASE pc \in Late
    <3>1. pc' \in Late /\ Truths' = Truths BY <1>2, <2>5, LateStays
    <3>2. <<>> \in Seq(Truths) OBVIOUS
    <3>3. ring' \in [Gadgets -> Seq(Truths)] BY <2>2, <3>2
    <3> QED BY <2>1, <3>1, <3>3
  <2> QED BY <2>4, <2>5
<1> QED BY <1>1, <1>2

LEMMA HookTruthful ==
  ASSUME IInv, EventsTruthful, NEW k \in Containers, NEW call \in Calls,
         NEW prior \in {Allow, EPERM}, Hook(k, call, prior)
  PROVE  EventsTruthful'
<1> DEFINE d == Outcome(k, call, prior)
           g == GadgetOf(call)
           e == [type |-> d.event, call |-> call, container |-> k, ret |-> d.ret]
<1>1. d.event # None /\ Submit(g, e) /\ UNCHANGED vars BY DEF Hook
<1>2. /\ g \in Guarding /\ prior = Allow /\ k \in Watched
      /\ d.event \in 0..15 /\ d.ret = Refusal(config.enforce)
      /\ Description(d.event) = Deed(call) /\ Reason(d.event) = Deed(call)
  BY <1>1, SubmittedTruthful
<1>3. d.ret \in {Allow, EPERM} /\ (config.enforce => d.ret = EPERM) BY <1>2 DEF Refusal
<1> HIDE DEF d
<1>4. e \in Truths BY <1>2, <1>3 DEF Truths
<1>5. Truths' = Truths /\ UNCHANGED <<pc, reading>>
  BY <1>1 DEF vars, processVars, Truths, Watched, Wanted, SelfNamespace, Submit
<1>6. g \in Gadgets /\ pc \in Late
  <2>1. g \in Gadgets /\ task[g] # None BY <1>2 DEF Guarding
  <2>2. AgentConstants BY AgentConstants
  <2> QED BY <2>1, <2>2, TaskParams
<1> HIDE DEF g, e
<1>7. ring' = [ring EXCEPT ![g] = Append(ring[g], e)] BY <1>1 DEF Submit
<1>8. ring[g] \in Seq(Truths) BY <1>6 DEF EventsTruthful
<1>9. Append(ring[g], e) \in Seq(Truths) BY <1>4, <1>8
<1>10. ring' \in [Gadgets -> Seq(Truths)] BY <1>7, <1>9 DEF EventsTruthful
<1> QED BY <1>5, <1>6, <1>10 DEF EventsTruthful

\* A goroutine takes an event, or goes on with one.
LEMMA OutputTruthful ==
  ASSUME EventsTruthful, NEW g \in Gadgets, Output(OutputStep(g)), OutputStep(g)
  PROVE  EventsTruthful'
<1> USE DEF EventsTruthful
<1>1. Truths' = Truths /\ UNCHANGED pc
  BY DEF Output, vars, processVars, Truths, Watched, Wanted, SelfNamespace
<1>2. CASE Enrich(g)
  <2>1. ring[g] \in Seq(Truths) /\ ring[g] # <<>> BY <1>2 DEF Enrich
  <2>2. Head(ring[g]) \in Truths /\ Tail(ring[g]) \in Seq(Truths) BY <2>1
  <2> DEFINE e == Head(ring[g])
  <2>3. PICK k \in {e.container, Blank} :
          reading' = [reading EXCEPT ![g] = Formatted(e, k)]
    BY <1>2 DEF Enrich
  <2> DEFINE r == Formatted(e, k)
  <2>4. Told(r, Truths) BY <2>2 DEF Told, Formatted
  <2> HIDE DEF r, e
  <2>5. reading' = [reading EXCEPT ![g] = r] BY <2>3 DEF r
  <2>6. DOMAIN reading' = Gadgets /\ reading'[g] = r
        /\ \A h \in Gadgets \ {g} : reading'[h] = reading[h]
    BY <2>5
  <2>7. ring' \in [Gadgets -> Seq(Truths)] /\ \A h \in Gadgets \ {g} : ring'[h] = ring[h]
    BY <1>2, <2>2 DEF Enrich
  <2>8. pc \in Late BY <2>1
  <2> QED BY <1>1, <2>4, <2>6, <2>7, <2>8
<1>3. CASE Lock(g) BY <1>1, <1>3 DEF Lock
<1>4. CASE Write(g)
  <2>1. reading' = [reading EXCEPT ![g] = None] /\ UNCHANGED ring BY <1>4 DEF Write
  <2> QED BY <1>1, <2>1
<1> QED BY <1>2, <1>3, <1>4 DEF OutputStep

LEMMA EventsInvariance == SystemSpec => []EventsTruthful
<1>1. SystemInit => EventsTruthful
  <2> SUFFICES ASSUME SystemInit PROVE EventsTruthful OBVIOUS
  <2>1. ring = [g \in Gadgets |-> <<>>] /\ reading = [g \in Gadgets |-> None]
    BY DEF SystemInit, OutputInit
  <2>2. <<>> \in Seq(Truths) OBVIOUS
  <2> QED BY <2>1, <2>2 DEF EventsTruthful
<1>2. IInv /\ EventsTruthful /\ [SystemNext]_allVars => EventsTruthful'
  <2> SUFFICES ASSUME IInv, EventsTruthful, [SystemNext]_allVars PROVE EventsTruthful'
    OBVIOUS
  <2>1. CASE Alone(Next) BY <2>1, AloneTruthful DEF Alone
  <2>2. ASSUME NEW k \in Containers, NEW call \in Calls, NEW prior \in {Allow, EPERM},
               Hook(k, call, prior)
        PROVE  EventsTruthful'
    BY <2>2, HookTruthful
  <2>3. ASSUME NEW g \in Gadgets, Output(OutputStep(g)) PROVE EventsTruthful'
    BY <2>3, OutputTruthful DEF Output
  <2>4. CASE UNCHANGED allVars
    <3>1. Truths' = Truths /\ UNCHANGED <<ring, reading, pc>>
      BY <2>4 DEF allVars, vars, processVars, Truths, Watched, Wanted, SelfNamespace
    <3> QED BY <3>1 DEF EventsTruthful
  <2> QED BY <2>1, <2>2, <2>3, <2>4 DEF SystemNext
<1> QED BY <1>1, <1>2, SystemInvariance, PTL DEF SystemSpec

(* What is printed tells of a forbidden call that was made, by the name C   *)
(* and Go agree on, of the container that made it or of none; and while     *)
(* micromize enforces, of one that was refused.                             *)
THEOREM Truth == SystemSpec => []TextsTellTheTruth
<1>1. EventsTruthful => TextsTellTheTruth
  <2> SUFFICES ASSUME EventsTruthful, NEW g \in Gadgets,
                      reading[g] # None
               PROVE  LET r == reading[g] IN
                        /\ r.what = Deed(r.event.call) /\ r.reason = r.what
                        /\ r.container \in {r.event.container, Blank}
                        /\ r.event.container \in Watched
                        /\ config.enforce => r.event.ret = EPERM
    BY DEF TextsTellTheTruth
  <2>1. Told(reading[g], Truths) BY DEF EventsTruthful
  <2> QED BY <2>1 DEF Told, Truths
<1> QED BY <1>1, EventsInvariance, PTL
=============================================================================
