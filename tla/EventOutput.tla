----------------------------- MODULE EventOutput -----------------------------
(***************************************************************************)
(* internal/operators: an event's way from the ring buffer of its gadget to *)
(* standard output. Each running gadget has a goroutine of Inspektor       *)
(* Gadget's that takes one event after another and calls the subscribers,  *)
(* in the order of their priorities: LocalManager, which puts the          *)
(* container's names into the data, the event type operator (0), and the   *)
(* output operator (MaxInt), which prints under outputMu.                  *)
(*                                                                         *)
(* Of a printed text, what it says has happened and in which container is  *)
(* modelled; process details, times, images and layout are not.            *)
(***************************************************************************)
EXTENDS Integers, Sequences

CONSTANTS
  Readers,     \* the gadgets
  RingRoom,    \* events that a ring buffer takes, 256 KiB in the code
  Unknown,     \* no container found
  Idle

VARIABLES
  ring,      \* gadget -> the events submitted and not yet taken
  reading,   \* gadget -> the text its goroutine has formatted, or Idle
  outputMu   \* the gadget whose goroutine holds the mutex, or Idle

eventTypeNames ==
  [t \in 0..15 |->
    << "unknown", "procfs_access", "exec_outside_rootfs", "namespace_creation",
       "module_load", "ptrace_access", "ptrace_traceme", "unattested_binary",
       "hash_mismatch", "unattested_shared_object", "shared_object_hash_mismatch",
       "af_alg_socket_create", "af_alg_socket_bind", "module_autoload",
       "af_key_socket_create", "xfrm_netlink_socket_create" >>[t + 1]]

\* The reason the event type operator sets
Reason(type) == IF type \in DOMAIN eventTypeNames THEN eventTypeNames[type] ELSE "unknown"

\* Mutant of Description: there is no text for the types added last.
Description_old(type) == IF type \in 1..12 THEN eventTypeNames[type] ELSE "unknown"

\* The texts in eventDescriptions say the same as the names, of all types but
\* 0, for which as for others there is a text "Unknown event".
Description(type) == IF type \in 1..15 THEN eventTypeNames[type] ELSE "unknown"

OutputInit ==
  /\ ring = [g \in Readers |-> <<>>]
  /\ reading = [g \in Readers |-> Idle]
  /\ outputMu = Idle

\* The process has ended, and with it goroutines, mutex and ring buffers.
OutputGone ==
  /\ ring' = [g \in Readers |-> <<>>]
  /\ reading' = [g \in Readers |-> Idle]
  /\ outputMu' = Idle

\* Only the ring buffers of these gadgets are left; what has been taken from
\* another is still printed.
OutputKeeps(S) ==
  /\ ring' = [g \in Readers |-> IF g \in S THEN ring[g] ELSE <<>>]
  /\ UNCHANGED <<reading, outputMu>>

Room(g) == Len(ring[g]) < RingRoom

Submit(g, event) ==
  /\ ring' = [ring EXCEPT ![g] = Append(@, event)]
  /\ UNCHANGED <<reading, outputMu>>

\* formatAndPrintEvent's text, with the reason the event type operator has set
Formatted(event, k) ==
  [event |-> event, container |-> k,
   reason |-> Reason(event.type), what |-> Description(event.type)]

\* All subscribers, up to outputMu.Lock(): nothing is shared before that. The
\* container's names may be missing: it may have been removed meanwhile.
Enrich(g) ==
  /\ reading[g] = Idle /\ ring[g] # <<>>
  /\ ring' = [ring EXCEPT ![g] = Tail(@)]
  /\ LET e == Head(ring[g]) IN \E k \in {e.container, Unknown} :
       reading' = [reading EXCEPT ![g] = Formatted(e, k)]
  /\ UNCHANGED outputMu

Lock(g) ==
  /\ reading[g] # Idle /\ outputMu = Idle
  /\ outputMu' = g
  /\ UNCHANGED <<ring, reading>>

\* Mutant of Write: an error is logged to a handler that takes the mutex, too;
\* the goroutine waits for itself, and nobody gets the mutex again.
Write_logging(g) ==
  /\ outputMu = g /\ outputMu' \in {Idle, Unknown}
  /\ reading' = [reading EXCEPT ![g] = IF outputMu' = Idle THEN Idle ELSE @]
  /\ UNCHANGED ring

\* The text is written, or an error of the write is logged.
Write(g) ==
  /\ outputMu = g /\ outputMu' = Idle
  /\ reading' = [reading EXCEPT ![g] = Idle]
  /\ UNCHANGED ring

OutputStep(g) == Enrich(g) \/ Lock(g) \/ Write(g)
=============================================================================
