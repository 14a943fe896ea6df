---------------------------- MODULE AgentContract ----------------------------
(***************************************************************************)
(* What an agent promises the node it runs on, without its start-up,       *)
(* signals, goroutines and parameters.                                     *)
(*                                                                         *)
(*  - A life of the agent has one scope, the containers it watches: it is  *)
(*    settled before the first gadget guards anything, is the same for     *)
(*    every gadget, and changes only with the next life.                   *)
(*  - A gadget guards once in a life at most: one that has ended does not  *)
(*    come back by itself.                                                 *)
(*  - Nothing is guarded when the agent is down.                           *)
(***************************************************************************)
CONSTANTS Gadgets, Containers

VARIABLES
  up,      \* the agent's process is alive
  settled, \* it is settled what it watches
  scope,   \* the containers it watches, once that is settled
  guards,  \* pairs of a gadget that guards and the containers it watches
  spent    \* gadgets that will not guard any more in this life

vars == <<up, settled, scope, guards, spent>>

Init == ~up /\ ~settled /\ scope = {} /\ guards = {} /\ spent = {}

Boot ==
  /\ ~up /\ up'
  /\ UNCHANGED <<settled, scope, guards, spent>>

Settle(S) ==
  /\ up /\ ~settled
  /\ settled' /\ scope' = S
  /\ UNCHANGED <<up, guards, spent>>

Guard(g) ==
  /\ settled
  /\ g \notin spent /\ \A p \in guards : p[1] # g
  /\ guards' = guards \union {<<g, scope>>}
  /\ UNCHANGED <<up, settled, scope, spent>>

Lose(g) ==
  /\ up /\ g \notin spent
  /\ guards' = {p \in guards : p[1] # g}
  /\ spent' = spent \union {g}
  /\ UNCHANGED <<up, settled, scope>>

Halt ==
  /\ up /\ ~up'
  /\ ~settled' /\ scope' = {} /\ guards' = {} /\ spent' = {}

Next ==
  \/ Boot \/ Halt
  \/ \E S \in SUBSET Containers : Settle(S)
  \/ \E g \in Gadgets : Guard(g) \/ Lose(g)

Spec == Init /\ [][Next]_vars
=============================================================================
