----------------------------- MODULE CapRestrict -----------------------------
(***************************************************************************)
(* gadgets/cap-restrict/program.bpf.c: which capability checks are refused.*)
(* CAP_SYS_ADMIN is refused to a thread in clone, unshare or setns. The    *)
(* check does not know the system call it is made in, so programs at the   *)
(* entry of these calls leave a record for it in catch_at_cap, which it    *)
(* takes; none of them sees the end of a call.                             *)
(*                                                                         *)
(* External: which calls a thread makes and which checks they make. A      *)
(* thread that ends is one that leaves its call: its id comes back without *)
(* notice, and so does its record. Of an event, the kind and the system    *)
(* call are modelled.                                                      *)
(***************************************************************************)
EXTENDS Integers, FiniteSets

CONSTANTS
  Threads,       \* thread ids
  MaxEntries,    \* room in catch_at_cap, 1024 in the code
  Enforce,       \* GADGET_PARAM(enforce)
  None

Syscalls == {"clone", "unshare", "setns"}

ASSUME CapConstants ==
  /\ IsFiniteSet(Threads) /\ MaxEntries \in Nat
  /\ Enforce \in BOOLEAN
  /\ None \notin Syscalls \union {"other", "namespace_creation"}

Allow == 0
EPERM == 0 - 1

VARIABLES
  catch_at_cap,  \* thread -> the call on record, or None
  taken,         \* thread -> what the element of the record it has just deleted
                 \*   holds, until it has read it; None before and after
  call,          \* thread -> the call it is in: one of Syscalls, "other" or None
  latest,        \* history: thread -> the latest call it entered that was to be
                 \*   recorded, None when an event has been given for it
  pending,       \* history: threads in a call that was recorded, with no
                 \*   judged check of CAP_SYS_ADMIN in it yet
  raced,         \* history: threads that have such an element to read while
                 \*   another thread has made a record
  verdict        \* the last hook: its thread, what was checked, if the program
                 \*   had to judge it, its event and what it returned

vars == <<catch_at_cap, taken, call, latest, pending, raced, verdict>>

Init ==
  /\ catch_at_cap = [t \in Threads |-> None]
  /\ taken = [t \in Threads |-> None]
  /\ call = [t \in Threads |-> None]
  /\ latest = [t \in Threads |-> None]
  /\ pending = {}
  /\ raced = {}
  /\ verdict = None
-----------------------------------------------------------------------------
(* Entries of system calls. watched: gadget_should_discard_data_current() is *)
(* false. newNs: check_unshare_flags. exempt: the thread is in the pid       *)
(* namespace host_pidns_id, and there is one.                                *)

ToBeRecorded(s, watched, newNs, exempt) ==
  watched /\ IF s = "setns" THEN ~exempt ELSE newNs

Recorded == {t \in Threads : catch_at_cap[t] # None}

\* Mutant of Fits: BPF_NOEXIST, a record is not replaced.
Fits_noexist(t) == t \notin Recorded /\ Cardinality(Recorded) < MaxEntries

\* BPF_ANY replaces the thread's record, if need be; only a new one needs room.
Fits(t) == t \in Recorded \/ Cardinality(Recorded) < MaxEntries

\* Threads that are between the deletion of a record and its fields
Readers == {t \in Threads : taken[t] # None}

\* The element of a record that is made may be one that another thread has
\* freed and still reads: a preallocated map passes its elements on at once.
WriteElement(s) ==
  /\ raced' = raced \union Readers
  /\ \/ UNCHANGED taken
     \/ \E u \in Readers : taken' = [taken EXCEPT ![u] = s]

EnterRecorded(t, s) ==
  /\ call[t] = None
  /\ call' = [call EXCEPT ![t] = s]
  /\ latest' = [latest EXCEPT ![t] = s]
  /\ IF Fits(t)
     THEN /\ catch_at_cap' = [catch_at_cap EXCEPT ![t] = s]
          /\ pending' = pending \union {t}
          /\ WriteElement(s)
     ELSE UNCHANGED <<catch_at_cap, taken, pending, raced>>
  /\ verdict' = None

\* A call of which no record is made, of these three or any other
EnterUnrecorded(t, s) ==
  /\ call[t] = None
  /\ call' = [call EXCEPT ![t] = s]
  /\ verdict' = None
  /\ UNCHANGED <<catch_at_cap, taken, latest, pending, raced>>

Enter(t) ==
  \/ \E s \in Syscalls, watched, newNs, exempt \in BOOLEAN :
       IF ToBeRecorded(s, watched, newNs, exempt)
       THEN EnterRecorded(t, s) ELSE EnterUnrecorded(t, s)
  \/ EnterUnrecorded(t, "other")

\* A thread in a call, and not in the middle of lsm/capable
InCall(t) == call[t] # None /\ taken[t] = None

LeaveCall(t) ==
  /\ InCall(t)
  /\ call' = [call EXCEPT ![t] = None]
  /\ pending' = pending \ {t}
  /\ verdict' = None
  /\ UNCHANGED <<catch_at_cap, taken, latest, raced>>
-----------------------------------------------------------------------------
(* LSM hooks. room: the ring buffer has room for the event. prior: the      *)
(* verdict of the programs before this one.                                 *)

Caps == {"sys_admin", "sys_module", "other"}

Verdict(t, cap, judged, event, syscall, ret) ==
  [thread |-> t, cap |-> cap, judged |-> judged, event |-> event,
   syscall |-> syscall, ret |-> ret]

Refusal == IF Enforce THEN EPERM ELSE Allow

\* Mutant of CapablePasses: the record is taken before the event is reserved.
CapablePasses_taking(t, cap, watched, room, prior) ==
  /\ InCall(t)
  /\ prior # Allow \/ ~watched \/ cap = "other" \/ ~room
  /\ catch_at_cap' = [catch_at_cap EXCEPT ![t] = None]
  /\ verdict' = Verdict(t, cap, FALSE, None, None, prior)
  /\ UNCHANGED <<taken, call, latest, pending, raced>>

\* The early returns of lsm/capable. A record is left alone.
CapablePasses(t, cap, watched, room, prior) ==
  /\ InCall(t)
  /\ prior # Allow \/ ~watched \/ cap = "other" \/ ~room
  /\ verdict' = Verdict(t, cap, FALSE, None, None, prior)
  /\ UNCHANGED <<catch_at_cap, taken, call, latest, pending, raced>>

\* lsm/capable with CAP_SYS_MODULE. The event's system call is not written: it
\* is what an earlier event has left in the ring buffer, if any.
CapableModule(t) ==
  /\ InCall(t)
  /\ \E s \in Syscalls \union {None} :
       verdict' = Verdict(t, "sys_module", TRUE, "module_load", s, Refusal)
  /\ UNCHANGED <<catch_at_cap, taken, call, latest, pending, raced>>

\* lsm/capable with CAP_SYS_ADMIN and no record: the event is discarded.
CapableUncaught(t) ==
  /\ InCall(t) /\ t \notin Recorded
  /\ verdict' = Verdict(t, "sys_admin", TRUE, None, None, Allow)
  /\ UNCHANGED <<catch_at_cap, taken, call, latest, pending, raced>>

\* Mutant of CapableTakes: the record is not deleted.
CapableTakes_keeping(t) ==
  /\ InCall(t) /\ t \in Recorded
  /\ taken' = [taken EXCEPT ![t] = catch_at_cap[t]]
  /\ verdict' = None
  /\ UNCHANGED <<catch_at_cap, call, latest, pending, raced>>

\* lsm/capable with CAP_SYS_ADMIN and a record: it is looked up and deleted,
\* and what is left is a pointer to its element.
CapableTakes(t) ==
  /\ InCall(t) /\ t \in Recorded
  /\ catch_at_cap' = [catch_at_cap EXCEPT ![t] = None]
  /\ taken' = [taken EXCEPT ![t] = catch_at_cap[t]]
  /\ verdict' = None
  /\ UNCHANGED <<call, latest, pending, raced>>

\* The fields are read through the pointer and the event submitted.
CapableCaught(t) ==
  /\ taken[t] # None
  /\ taken' = [taken EXCEPT ![t] = None]
  /\ latest' = [latest EXCEPT ![t] = None]
  /\ pending' = pending \ {t}
  /\ raced' = raced \ {t}
  /\ verdict' = Verdict(t, "sys_admin", TRUE, "namespace_creation", taken[t], Refusal)
  /\ UNCHANGED <<catch_at_cap, call>>

\* lsm/kernel_module_request: refused without an event, when there is no room
KernelModuleRequest(t, watched, room, prior) ==
  /\ InCall(t)
  /\ LET judged == prior = Allow /\ watched IN
     verdict' = Verdict(t, "request", judged,
                        IF judged /\ room THEN "module_autoload" ELSE None, None,
                        IF judged THEN Refusal ELSE prior)
  /\ UNCHANGED <<catch_at_cap, taken, call, latest, pending, raced>>

Next == \E t \in Threads :
  \/ Enter(t)
  \/ LeaveCall(t)
  \/ \E watched, room \in BOOLEAN, prior \in {Allow, EPERM} :
       \/ \E cap \in Caps : CapablePasses(t, cap, watched, room, prior)
       \/ KernelModuleRequest(t, watched, room, prior)
  \/ CapableModule(t)
  \/ CapableUncaught(t)
  \/ CapableTakes(t)
  \/ CapableCaught(t)

Spec == Init /\ [][Next]_vars
-----------------------------------------------------------------------------
(* Properties *)

Verdicts == [thread : Threads, cap : Caps \union {"request"}, judged : BOOLEAN,
             event : {None, "namespace_creation", "module_load", "module_autoload"},
             syscall : Syscalls \union {None}, ret : {Allow, EPERM}]

\* The types; and whatever a thread has done in its earlier calls, the record
\* it finds is of the latest call for which there should be one.
TypeOK ==
  /\ catch_at_cap \in [Threads -> Syscalls \union {None}]
  /\ taken \in [Threads -> Syscalls \union {None}]
  /\ call \in [Threads -> Syscalls \union {"other", None}]
  /\ latest \in [Threads -> Syscalls \union {None}]
  /\ pending \subseteq Threads /\ raced \subseteq Threads
  /\ verdict \in Verdicts \union {None}
  /\ \A t \in Recorded : catch_at_cap[t] = latest[t]

\* A recorded call gets CAP_SYS_ADMIN from no check that this program judges,
\* however many checks it passed by before because the ring buffer was full,
\* an earlier program had refused or the container was not watched.
FirstCheckIsRefused ==
  [][/\ verdict' # None /\ verdict'.judged /\ verdict'.cap = "sys_admin"
     /\ verdict'.thread \in pending /\ Enforce
     => verdict'.ret = EPERM]_vars

\* There is one event at most for a call that was to be recorded: no thread is
\* refused CAP_SYS_ADMIN that has not asked for a namespace since it was
\* refused last. And the event names the call, unless another thread has made
\* a record between the deletion of this one and the reading of its fields.
OneEventPerCall ==
  [][verdict' # None /\ verdict'.event = "namespace_creation"
     => /\ latest[verdict'.thread] # None
        /\ verdict'.thread \notin raced => verdict'.syscall = latest[verdict'.thread]]_vars

\* What gadget.yaml:29 says of the event: the call it names is the one that
\* made the check, so none is given for a check of any other call.
EventNamesItsCall ==
  verdict # None /\ verdict.event = "namespace_creation" =>
    verdict.syscall = call[verdict.thread]
=============================================================================
