------------------------- MODULE CapRestrict_proofs -------------------------
(***************************************************************************)
(* The properties of CapRestrict for any threads and any room in the map.  *)
(***************************************************************************)
EXTENDS CapRestrict, TLAPS

\* A call that was recorded has its record until a check takes it, and the
\* check in turn is about to refuse.
PendingIsRecorded == pending \subseteq Recorded \union Readers

\* A thread that is about to read an element is in a call, has no record any
\* more, and the element holds its latest call, unless it may have been
\* written since.
TakenIsLatest ==
  \A t \in Readers :
    /\ call[t] # None /\ t \notin Recorded /\ latest[t] # None
    /\ t \notin raced => taken[t] = latest[t]

IInv == TypeOK /\ PendingIsRecorded /\ TakenIsLatest

\* What distinguishes verdicts, and calls from none.
LEMMA Distinct ==
  /\ EPERM # Allow
  /\ \A s \in Syscalls \union {"other"} : s # None
  /\ None # "namespace_creation"
BY CapConstants DEF EPERM, Allow

LEMMA InitIInv == Init => IInv
BY CapConstants DEF Init, IInv, TypeOK, PendingIsRecorded, TakenIsLatest, Recorded, Readers, Verdicts

\* Who makes a record is in no check, and an element is written at most once.
LEMMA WriteElementKeeps ==
  ASSUME IInv, NEW s \in Syscalls, WriteElement(s)
  PROVE  /\ taken' \in [Threads -> Syscalls \union {None}]
         /\ Readers' = Readers /\ raced' = raced \union Readers
<1>1. CASE UNCHANGED taken
  BY <1>1 DEF WriteElement, Readers, IInv, TypeOK
<1>2. ASSUME NEW u \in Readers, taken' = [taken EXCEPT ![u] = s]
      PROVE  taken' \in [Threads -> Syscalls \union {None}] /\ Readers' = Readers
  BY <1>2, Distinct DEF Readers, IInv, TypeOK
<1> QED BY <1>1, <1>2 DEF WriteElement, Readers, IInv, TypeOK

\* The record of the thread that enters is replaced or stays away; those of
\* the others are as they were.
LEMMA EnterRecordedKeeps ==
  ASSUME IInv, NEW t \in Threads, NEW s \in Syscalls, EnterRecorded(t, s)
  PROVE  IInv'
<1>0. t \notin Readers BY DEF EnterRecorded, IInv, TakenIsLatest
<1>1. \A u \in Threads : latest'[u] = (IF u = t THEN s ELSE latest[u])
  BY DEF IInv, TypeOK, EnterRecorded
<1>2. CASE Fits(t)
  <2>1. /\ catch_at_cap' = [catch_at_cap EXCEPT ![t] = s]
        /\ pending' = pending \union {t}
        /\ WriteElement(s)
    BY <1>2 DEF EnterRecorded
  <2>2. \A u \in Threads :
          catch_at_cap'[u] = (IF u = t THEN s ELSE catch_at_cap[u])
    BY <2>1 DEF IInv, TypeOK
  <2>3. /\ taken' \in [Threads -> Syscalls \union {None}]
        /\ Readers' = Readers /\ raced' = raced \union Readers
    BY <2>1, WriteElementKeeps
  <2>4. TypeOK'
    BY <2>1, <2>2, <2>3, <1>1 DEF IInv, TypeOK, EnterRecorded, Recorded, Readers, Verdicts
  <2>5. PendingIsRecorded'
    BY <2>1, <2>2, <2>3, Distinct DEF IInv, TypeOK, PendingIsRecorded, Recorded
  <2>6. TakenIsLatest'
    <3>1. \A u \in Readers : u # t /\ u \in raced' /\ latest'[u] = latest[u]
      BY <2>3, <1>0, <1>1 DEF Readers
    <3>2. \A u \in Readers : call'[u] # None /\ catch_at_cap'[u] = None
      BY <2>2, <3>1 DEF IInv, TypeOK, TakenIsLatest, EnterRecorded, Recorded, Readers
    <3> QED BY <2>3, <3>1, <3>2 DEF IInv, TakenIsLatest, Recorded
  <2> QED BY <2>4, <2>5, <2>6 DEF IInv
<1>3. CASE ~Fits(t)
  <2>1. t \notin Recorded /\ UNCHANGED <<catch_at_cap, taken, pending, raced>>
    BY <1>3 DEF Fits, EnterRecorded
  <2>2. TypeOK'
    BY <2>1, <1>1 DEF IInv, TypeOK, EnterRecorded, Recorded, Verdicts
  <2>3. PendingIsRecorded' /\ TakenIsLatest'
    BY <2>1, <1>0, <1>1
    DEF IInv, TypeOK, PendingIsRecorded, TakenIsLatest, Recorded, Readers, EnterRecorded
  <2> QED BY <2>2, <2>3 DEF IInv
<1> QED BY <1>2, <1>3

LEMMA EnterUnrecordedKeeps ==
  ASSUME IInv, NEW t \in Threads, NEW s \in Syscalls \union {"other"},
         EnterUnrecorded(t, s)
  PROVE  IInv'
<1>1. TypeOK'
  BY DEF IInv, TypeOK, EnterUnrecorded, Recorded, Verdicts
<1> QED
  BY <1>1, Distinct
  DEF IInv, TypeOK, PendingIsRecorded, TakenIsLatest, Recorded, Readers, EnterUnrecorded

LEMMA LeaveCallKeeps ==
  ASSUME IInv, NEW t \in Threads, LeaveCall(t)
  PROVE  IInv'
<1>1. TypeOK'
  BY DEF IInv, TypeOK, LeaveCall, Recorded, Verdicts
<1> QED
  BY <1>1
  DEF IInv, TypeOK, PendingIsRecorded, TakenIsLatest, Recorded, Readers, InCall, LeaveCall

\* A hook that takes no record changes nothing but the verdict.
LEMMA HookKeeps ==
  ASSUME IInv, UNCHANGED <<catch_at_cap, taken, call, latest, pending, raced>>,
         verdict' \in Verdicts
  PROVE  IInv'
BY DEF IInv, TypeOK, PendingIsRecorded, TakenIsLatest, Recorded, Readers

\* The record goes, and is the thread's to read.
LEMMA CapableTakesKeeps ==
  ASSUME IInv, NEW t \in Threads, CapableTakes(t)
  PROVE  IInv'
<1>1. \A u \in Threads :
        /\ catch_at_cap'[u] = (IF u = t THEN None ELSE catch_at_cap[u])
        /\ taken'[u] = (IF u = t THEN catch_at_cap[t] ELSE taken[u])
  BY DEF IInv, TypeOK, CapableTakes
<1>2. catch_at_cap[t] # None /\ catch_at_cap[t] = latest[t]
  BY DEF CapableTakes, IInv, TypeOK, Recorded
<1>3. TypeOK'
  BY <1>1 DEF IInv, TypeOK, CapableTakes, Recorded, Verdicts
<1>4. PendingIsRecorded'
  BY <1>1, <1>2 DEF IInv, TypeOK, PendingIsRecorded, Recorded, Readers, CapableTakes
<1>5. TakenIsLatest'
  BY <1>1, <1>2 DEF IInv, TypeOK, TakenIsLatest, Recorded, Readers, InCall, CapableTakes
<1> QED BY <1>3, <1>4, <1>5 DEF IInv

LEMMA CapableCaughtKeeps ==
  ASSUME IInv, NEW t \in Threads, CapableCaught(t)
  PROVE  IInv'
<1>1. \A u \in Threads :
        /\ taken'[u] = (IF u = t THEN None ELSE taken[u])
        /\ latest'[u] = (IF u = t THEN None ELSE latest[u])
  BY DEF IInv, TypeOK, CapableCaught
<1>2. verdict' \in Verdicts
  BY DEF CapableCaught, Verdict, Verdicts, Refusal, Caps, IInv, TypeOK
<1>3. TypeOK'
  BY <1>1, <1>2 DEF IInv, TypeOK, TakenIsLatest, CapableCaught, Recorded, Readers
<1>4. PendingIsRecorded'
  BY <1>1 DEF IInv, TypeOK, PendingIsRecorded, Recorded, Readers, CapableCaught
<1>5. TakenIsLatest'
  BY <1>1 DEF IInv, TypeOK, TakenIsLatest, Recorded, Readers, CapableCaught
<1> QED BY <1>3, <1>4, <1>5 DEF IInv

\* The verdicts of the other hooks are verdicts, and they take no record.
LEMMA OtherHooks ==
  ASSUME NEW t \in Threads, NEW cap \in Caps, NEW watched \in BOOLEAN,
         NEW room \in BOOLEAN, NEW prior \in {Allow, EPERM},
         \/ CapablePasses(t, cap, watched, room, prior)
         \/ KernelModuleRequest(t, watched, room, prior)
         \/ CapableModule(t)
         \/ CapableUncaught(t)
  PROVE  /\ UNCHANGED <<catch_at_cap, taken, call, latest, pending, raced>>
         /\ verdict' \in Verdicts /\ verdict'.event # "namespace_creation"
         /\ verdict'.cap = "sys_admin" /\ verdict'.judged
              => CapableUncaught(t) /\ verdict'.thread = t
<1> USE Distinct DEF Verdict, Verdicts, Refusal, Caps
<1>1. CASE CapablePasses(t, cap, watched, room, prior)
  BY <1>1 DEF CapablePasses
<1>2. CASE KernelModuleRequest(t, watched, room, prior)
  BY <1>2 DEF KernelModuleRequest
<1>3. CASE CapableModule(t)
  BY <1>3 DEF CapableModule
<1>4. CASE CapableUncaught(t)
  BY <1>4 DEF CapableUncaught
<1> QED BY <1>1, <1>2, <1>3, <1>4

LEMMA StepKeeps == IInv /\ [Next]_vars => IInv'
<1> SUFFICES ASSUME IInv, [Next]_vars PROVE IInv'
  OBVIOUS
<1>1. CASE Next
  <2> PICK t \in Threads :
        \/ Enter(t)
        \/ LeaveCall(t)
        \/ \E watched, room \in BOOLEAN, prior \in {Allow, EPERM} :
             \/ \E cap \in Caps : CapablePasses(t, cap, watched, room, prior)
             \/ KernelModuleRequest(t, watched, room, prior)
        \/ CapableModule(t)
        \/ CapableUncaught(t)
        \/ CapableTakes(t)
        \/ CapableCaught(t)
    BY <1>1 DEF Next
  <2>1. CASE Enter(t)
    BY <2>1, EnterRecordedKeeps, EnterUnrecordedKeeps DEF Enter
  <2>2. CASE LeaveCall(t)
    BY <2>2, LeaveCallKeeps
  <2>3. CASE CapableTakes(t) \/ CapableCaught(t)
    BY <2>3, CapableTakesKeeps, CapableCaughtKeeps
  <2>4. CASE \E watched, room \in BOOLEAN, prior \in {Allow, EPERM} :
               \/ \E cap \in Caps : CapablePasses(t, cap, watched, room, prior)
               \/ KernelModuleRequest(t, watched, room, prior)
    <3>1. "other" \in Caps
      BY DEF Caps
    <3> QED BY <2>4, <3>1, OtherHooks, HookKeeps
  <2>5. CASE CapableModule(t) \/ CapableUncaught(t)
    <3>1. "other" \in Caps /\ TRUE \in BOOLEAN /\ Allow \in {Allow, EPERM}
      BY DEF Caps
    <3> QED BY <2>5, <3>1, OtherHooks, HookKeeps
  <2> QED BY <2>1, <2>2, <2>3, <2>4, <2>5
<1>2. CASE UNCHANGED vars
  BY <1>2 DEF vars, IInv, TypeOK, PendingIsRecorded, TakenIsLatest, Recorded, Readers, Verdicts
<1> QED BY <1>1, <1>2

LEMMA Inductive == Spec => []IInv
<1> QED BY InitIInv, StepKeeps, PTL DEF Spec

\* The types, and a thread's record is of the latest call that was to be
\* recorded: neither a full map nor an earlier call leaves another one in it.
THEOREM TypeCorrect == Spec => []TypeOK
<1>1. IInv => TypeOK BY DEF IInv
<1> QED BY <1>1, Inductive, PTL

\* What a step with a verdict can be: of the judged checks of CAP_SYS_ADMIN
\* and of the events of namespaces, only the two with and without a record.
LEMMA VerdictSteps ==
  ASSUME Next, verdict' # None
  PROVE  \E t \in Threads :
           \/ CapableCaught(t)
           \/ /\ verdict'.event # "namespace_creation"
              /\ verdict'.cap = "sys_admin" /\ verdict'.judged
                   => CapableUncaught(t) /\ verdict'.thread = t
<1> PICK t \in Threads :
      \/ Enter(t)
      \/ LeaveCall(t)
      \/ \E watched, room \in BOOLEAN, prior \in {Allow, EPERM} :
           \/ \E cap \in Caps : CapablePasses(t, cap, watched, room, prior)
           \/ KernelModuleRequest(t, watched, room, prior)
      \/ CapableModule(t)
      \/ CapableUncaught(t)
      \/ CapableTakes(t)
      \/ CapableCaught(t)
  BY DEF Next
<1>1. ~Enter(t) /\ ~LeaveCall(t) /\ ~CapableTakes(t)
  BY DEF Enter, EnterRecorded, EnterUnrecorded, LeaveCall, CapableTakes
<1>2. "other" \in Caps /\ TRUE \in BOOLEAN /\ Allow \in {Allow, EPERM}
  BY DEF Caps
<1>3. CASE \E watched, room \in BOOLEAN, prior \in {Allow, EPERM} :
             \/ \E cap \in Caps : CapablePasses(t, cap, watched, room, prior)
             \/ KernelModuleRequest(t, watched, room, prior)
  BY <1>3, <1>2, OtherHooks
<1>4. CASE CapableModule(t) \/ CapableUncaught(t)
  BY <1>4, <1>2, OtherHooks
<1> QED BY <1>1, <1>3, <1>4

\* The first check that is judged in a recorded call finds the record.
LEMMA FirstCheckStep ==
  IInv /\ [Next]_vars =>
    [verdict' # None /\ verdict'.judged /\ verdict'.cap = "sys_admin"
       /\ verdict'.thread \in pending /\ Enforce
     => verdict'.ret = EPERM]_vars
<1> SUFFICES ASSUME IInv, Next, verdict' # None, verdict'.judged,
                    verdict'.cap = "sys_admin", verdict'.thread \in pending, Enforce
             PROVE  verdict'.ret = EPERM
  OBVIOUS
<1> PICK t \in Threads :
      \/ CapableCaught(t)
      \/ CapableUncaught(t) /\ verdict'.thread = t
  BY VerdictSteps
<1>1. ~(CapableUncaught(t) /\ verdict'.thread = t)
  BY DEF CapableUncaught, InCall, IInv, PendingIsRecorded, Readers
<1>2. CapableCaught(t)
  BY <1>1
<1> QED BY <1>2 DEF CapableCaught, Verdict, Refusal

\* An event is of a record, and the record of the latest call.
LEMMA OneEventStep ==
  IInv /\ [Next]_vars =>
    [verdict' # None /\ verdict'.event = "namespace_creation"
     => /\ latest[verdict'.thread] # None
        /\ verdict'.thread \notin raced => verdict'.syscall = latest[verdict'.thread]]_vars
<1> SUFFICES ASSUME IInv, Next, verdict' # None,
                    verdict'.event = "namespace_creation"
             PROVE  /\ latest[verdict'.thread] # None
                    /\ verdict'.thread \notin raced =>
                         verdict'.syscall = latest[verdict'.thread]
  OBVIOUS
<1> PICK t \in Threads : CapableCaught(t)
  BY VerdictSteps
<1>1. t \in Readers /\ verdict'.thread = t /\ verdict'.syscall = taken[t]
  BY DEF CapableCaught, Readers, Verdict
<1> QED BY <1>1 DEF IInv, TakenIsLatest

\* In a recorded call no judged check of CAP_SYS_ADMIN passes.
THEOREM FirstCheckRefused == Spec => FirstCheckIsRefused
<1> QED
  BY Inductive, FirstCheckStep, PTL DEF Spec, FirstCheckIsRefused

\* One event at most for a call, and it names the call, unless another thread
\* has made a record since this one's was deleted (program.bpf.c:113-122).
THEOREM OneEvent == Spec => OneEventPerCall
<1> QED
  BY Inductive, OneEventStep, PTL DEF Spec, OneEventPerCall
=============================================================================
