---------------------------- MODULE RestrictHooks ----------------------------
(***************************************************************************)
(* gadgets/ptrace-restrict and gadgets/socket-restrict: what their four LSM *)
(* programs decide for one call. Neither gadget keeps state. A decision is *)
(* the hook's return value and the type of the event it submits.           *)
(*                                                                         *)
(* prior is the verdict of the programs before; discard, that the container *)
(* is not watched; room, that the ring buffer takes an event.              *)
(***************************************************************************)
EXTENDS Integers

CONSTANT NoEvent

Allow == 0
EPERM == 0 - 1

\* include/micromize/event_types.h
PTRACE_ACCESS == 5
PTRACE_TRACEME == 6
SOCKET_AF_ALG_CREATE == 11
SOCKET_AF_ALG_BIND == 12
SOCKET_AF_KEY_CREATE == 14
SOCKET_XFRM_NETLINK_CREATE == 15

Decision(ret, event) == [ret |-> ret, event |-> event]
Refusal(enforce) == IF enforce THEN EPERM ELSE Allow

\* The two programs of ptrace-restrict differ in the event's type. Without
\* room for the event they let the call pass.
PtraceHook(eventType, prior, discard, room, enforce) ==
  IF prior # Allow THEN Decision(prior, NoEvent)
  ELSE IF discard \/ ~room THEN Decision(Allow, NoEvent)
  ELSE Decision(Refusal(enforce), eventType)

\* Mutant of SocketHook: without room the call passes, as in ptrace-restrict.
SocketHook_passing(eventType, prior, discard, room, enforce) ==
  IF prior # Allow THEN Decision(prior, NoEvent)
  ELSE IF discard \/ eventType = NoEvent \/ ~room THEN Decision(Allow, NoEvent)
  ELSE Decision(Refusal(enforce), eventType)

\* What socket-restrict does with the event it has a call down for, if any.
\* Without room the call is refused all the same.
SocketHook(eventType, prior, discard, room, enforce) ==
  IF prior # Allow THEN Decision(prior, NoEvent)
  ELSE IF discard \/ eventType = NoEvent THEN Decision(Allow, NoEvent)
  ELSE Decision(Refusal(enforce), IF room THEN eventType ELSE NoEvent)

\* Sockets of the kernel's own are let be.
CreateEvent(family, protocol, kern) ==
  CASE ~kern /\ family = "AF_ALG" -> SOCKET_AF_ALG_CREATE
    [] ~kern /\ family = "AF_KEY" -> SOCKET_AF_KEY_CREATE
    [] ~kern /\ family = "AF_NETLINK" /\ protocol = "NETLINK_XFRM" ->
         SOCKET_XFRM_NETLINK_CREATE
    [] OTHER -> NoEvent

\* typed: there is an address, and it reaches to the end of the type in it
BindEvent(family, typed) ==
  IF typed /\ family = "AF_ALG" THEN SOCKET_AF_ALG_BIND ELSE NoEvent

\* A call of a container's process that comes to one of the hooks
Call == [hook : {"ptrace_access_check", "ptrace_traceme", "socket_create", "socket_bind"},
         family : {"AF_ALG", "AF_KEY", "AF_NETLINK", "AF_INET"},
         protocol : {"NETLINK_XFRM", "other"}, kern : BOOLEAN, typed : BOOLEAN]

GadgetOf(call) ==
  IF call.hook \in {"ptrace_access_check", "ptrace_traceme"}
  THEN "ptrace-restrict" ELSE "socket-restrict"

Decide(call, prior, discard, room, enforce) ==
  CASE call.hook = "ptrace_access_check" ->
         PtraceHook(PTRACE_ACCESS, prior, discard, room, enforce)
    [] call.hook = "ptrace_traceme" ->
         PtraceHook(PTRACE_TRACEME, prior, discard, room, enforce)
    [] call.hook = "socket_create" ->
         SocketHook(CreateEvent(call.family, call.protocol, call.kern),
                    prior, discard, room, enforce)
    [] call.hook = "socket_bind" ->
         SocketHook(BindEvent(call.family, call.typed), prior, discard, room, enforce)
=============================================================================
