---------------------------- MODULE AttestPolicy ----------------------------
(***************************************************************************)
(* What the IMA operator promises the kernel side: per mount namespace, at *)
(* most one policy (the table of one SBOM), put there whole while the      *)
(* namespace has a container, replaced only by another whole policy, and   *)
(* gone in the same step in which the container's removal is handled.      *)
(***************************************************************************)
CONSTANTS MntNs, Tables, NoPolicy

VARIABLES
  inhabited,  \* namespaces of containers whose removal is not handled yet
  policy      \* namespace -> the table the kernel consults, or NoPolicy

vars == <<inhabited, policy>>

Init ==
  /\ inhabited = {}
  /\ policy = [m \in MntNs |-> NoPolicy]

Arrive(m) ==
  /\ m \notin inhabited
  /\ inhabited' = inhabited \union {m}
  /\ UNCHANGED policy

Install(m, t) ==
  /\ m \in inhabited
  /\ policy' = [policy EXCEPT ![m] = t]
  /\ UNCHANGED inhabited

Retire(m) ==
  /\ m \in inhabited
  /\ inhabited' = inhabited \ {m}
  /\ policy' = [policy EXCEPT ![m] = NoPolicy]

Next ==
  \E m \in MntNs :
    \/ Arrive(m)
    \/ \E t \in Tables : Install(m, t)
    \/ Retire(m)

Spec == Init /\ [][Next]_vars
=============================================================================
