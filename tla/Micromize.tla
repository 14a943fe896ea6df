------------------------------ MODULE Micromize ------------------------------
(***************************************************************************)
(* Micromize from end to end: the agent's process (Agent), the programs it *)
(* has attached, with the parameters it gave them (RestrictHooks), and the *)
(* way of their events to standard output (EventOutput). Of its gadgets,   *)
(* the two whose programs keep no state judge calls here; fs-restrict and  *)
(* cap-restrict have modules of their own.                                 *)
(***************************************************************************)
EXTENDS Agent, Sequences

CONSTANTS
  Calls,      \* calls of containers' processes, a subset of Call
  RingRoom

VARIABLES ring, reading, outputMu

INSTANCE RestrictHooks WITH NoEvent <- None
INSTANCE EventOutput WITH Readers <- Gadgets, Unknown <- Blank, Idle <- None

ASSUME SystemConstants ==
  Calls \subseteq Call /\ RingRoom \in Nat /\ None \notin 0..15

allVars == <<vars, ring, reading, outputMu>>

SystemInit == Init /\ OutputInit

\* What becomes of a call of a container's process that comes to a hook.
\* Programs that are attached judge it by their own parameters; prior is the
\* verdict of the LSMs before them.
Outcome(k, call, prior) ==
  LET g == GadgetOf(call)
      p == task[g].params
  IN IF g \in Guarding
     THEN Decide(call, prior, k \notin Judged(p), Room(g), p.enforce)
     ELSE Decision(prior, None)

\* A call that leaves an event, with what became of it
Hook(k, call, prior) ==
  LET d == Outcome(k, call, prior)
  IN /\ d.event # None
     /\ Submit(GadgetOf(call),
               [type |-> d.event, call |-> call, container |-> k, ret |-> d.ret])
     /\ UNCHANGED vars

\* A step of the process or around it; ring buffers go with their programs.
Alone(A) ==
  /\ A
  /\ IF pc' = "down" THEN OutputGone ELSE OutputKeeps(Guarding')

Output(A) == A /\ UNCHANGED vars

SystemNext ==
  \/ Alone(Next)
  \/ \E k \in Containers, call \in Calls, prior \in {Allow, EPERM} : Hook(k, call, prior)
  \/ \E g \in Gadgets : Output(OutputStep(g))

SystemSpec == SystemInit /\ [][SystemNext]_allVars

\* The gadgets whose events are printed here
Printing == {GadgetOf(call) : call \in Calls}

\* The Go scheduler runs the goroutines, a call of the API ends when its
\* context does, a sync.Mutex starves nobody, and a write to standard output
\* returns. Nothing is assumed of the API's answers, nor of the gadgets.
SystemFairness ==
  /\ WF_allVars(Alone(MainStep)) /\ WF_allVars(Alone(HandleSignal))
  /\ \A g \in Printing :
       /\ WF_allVars(Output(Enrich(g) \/ Write(g)))
       /\ SF_allVars(Output(Lock(g)))

FairSystemSpec == SystemSpec /\ SystemFairness
-----------------------------------------------------------------------------
(* Properties *)

\* The calls that README.md and the comments of the programs speak against
Forbidden(call) ==
  \/ GadgetOf(call) = "ptrace-restrict"
  \/ /\ call.hook = "socket_create" /\ ~call.kern
     /\ \/ call.family \in {"AF_ALG", "AF_KEY"}
        \/ call.family = "AF_NETLINK" /\ call.protocol = "NETLINK_XFRM"
  \/ call.hook = "socket_bind" /\ call.family = "AF_ALG" /\ call.typed

\* Micromize turns consent into refusal only for a forbidden call of a
\* container that flags, environment and listed exemptions leave in scope,
\* when it enforces and the gadget is enabled; and a refusal of another LSM
\* never into consent.
OnlyForbiddenRefused ==
  \A k \in Containers, call \in Calls, prior \in {Allow, EPERM} :
    Outcome(k, call, prior).ret # prior =>
      /\ prior = Allow /\ Forbidden(call)
      /\ k \in Watched
      /\ config.enforce /\ GadgetOf(call) \in Enabled(config)

\* While the gadget is attached and enforcing, no forbidden call of a container
\* in scope gets through: not to a socket, even when nobody takes the events
\* from the ring buffer; to ptrace only when the ring buffer is full.
ForbiddenAreRefused ==
  \A call \in Calls :
    Forbidden(call) /\ GadgetOf(call) \in Guarding /\ config.enforce =>
      \A k \in Watched :
        \/ Outcome(k, call, Allow).ret = EPERM
        \/ GadgetOf(call) = "ptrace-restrict" /\ ~Room("ptrace-restrict")

\* What a call is to a reader of the output
Deed(call) ==
  CASE call.hook = "ptrace_access_check" -> "ptrace_access"
    [] call.hook = "ptrace_traceme" -> "ptrace_traceme"
    [] call.hook = "socket_bind" -> "af_alg_socket_bind"
    [] call.hook = "socket_create" /\ call.family = "AF_ALG" -> "af_alg_socket_create"
    [] call.hook = "socket_create" /\ call.family = "AF_KEY" -> "af_key_socket_create"
    [] call.hook = "socket_create" /\ call.family = "AF_NETLINK" -> "xfrm_netlink_socket_create"

\* What is printed tells of a call that was made, by the names the C and the
\* Go side agree on, and of no container but the one that made it; and with
\* enforcement on, where the text says "blocked", the call was refused.
TextsTellTheTruth ==
  \A g \in Gadgets : reading[g] # None =>
    LET r == reading[g] IN
      /\ r.what = Deed(r.event.call) /\ r.reason = r.what
      /\ r.container \in {r.event.container, Blank}
      /\ r.event.container \in Watched
      /\ config.enforce => r.event.ret = EPERM

\* An event that waits in a ring buffer is taken, unless its gadget ends, and
\* a goroutine that has taken one is done with it: none waits for outputMu for
\* ever, whatever becomes of the writes.
EventsComeOut ==
  \A g \in Printing :
    /\ ring[g] # <<>> ~> reading[g] # None \/ g \notin Guarding
    /\ reading[g] # None ~> reading[g] = None
=============================================================================
