------------------------- MODULE FsRestrict_proofs -------------------------
(***************************************************************************)
(* The invariants of FsRestrict for any processes, namespaces and bounds.  *)
(***************************************************************************)
EXTENDS FsRestrict, TLAPS

\* What the three invariants need of the history variables: a process that is
\* being set up has its first thread, so a tgid that is free carries nothing
\* over to the process that gets it next.
SetupIsAlive ==
  /\ setup \subseteq {p \in Pids : life[p] = "alive"}
  /\ crowded \subseteq setup

IInv == TypeOK /\ SetupIsAlive /\ ExemptionIsExact /\ OpensAreJudged

\* The two verdicts differ, whatever else is known of the program.
LEMMA VerdictsDiffer == EPERM # Allow
BY DEF EPERM, Allow

LEMMA InitIInv == Init => IInv
BY FsConstants
   DEF Init, IInv, TypeOK, SetupIsAlive, ExemptionIsExact, OpensAreJudged, Verdicts

\* A new process: its tgid was free, so no history set has it yet.
LEMMA ForkKeeps ==
  ASSUME IInv, NEW p \in Pids, NEW c \in Pids, NEW n \in PidNs, Fork(p, c, n)
  PROVE  IInv'
<1>1. c \notin setup /\ c \notin crowded /\ c \notin container_state
  BY DEF IInv, TypeOK, SetupIsAlive, Fork
<1>2. TypeOK'
  BY DEF IInv, TypeOK, Fork, Verdicts
<1>3. SetupIsAlive'
  BY DEF IInv, TypeOK, SetupIsAlive, Fork
<1>4. ExemptionIsExact'
  <2>1. CASE pidns[p] = n
    BY <2>1 DEF IInv, ExemptionIsExact, Fork
  <2>2. CASE pidns[p] # n /\ Room
    BY <1>1, <2>2 DEF IInv, ExemptionIsExact, Fork
  <2>3. CASE pidns[p] # n /\ ~Room
    BY <1>1, <2>3 DEF IInv, ExemptionIsExact, Fork
  <2> QED BY <2>1, <2>2, <2>3
<1>5. OpensAreJudged'
  BY DEF OpensAreJudged, Fork
<1> QED BY <1>2, <1>3, <1>4, <1>5 DEF IInv

LEMMA NewThreadKeeps ==
  ASSUME IInv, NEW p \in Pids, NewThread(p)
  PROVE  IInv'
<1>1. TypeOK'
  BY FsConstants DEF IInv, TypeOK, NewThread, Verdicts
<1> QED
  BY <1>1 DEF IInv, SetupIsAlive, ExemptionIsExact, OpensAreJudged, NewThread

LEMMA ExecKeeps ==
  ASSUME IInv, NEW p \in Pids, SchedProcessExec(p) \/ ExecFails(p)
  PROVE  IInv'
<1>1. TypeOK'
  BY FsConstants DEF IInv, TypeOK, SchedProcessExec, ExecFails, Verdicts
<1>2. SetupIsAlive'
  BY DEF IInv, TypeOK, SetupIsAlive, SchedProcessExec, ExecFails
<1>3. ExemptionIsExact'
  BY DEF IInv, ExemptionIsExact, SchedProcessExec, ExecFails
<1>4. OpensAreJudged'
  BY DEF OpensAreJudged, SchedProcessExec, ExecFails
<1> QED BY <1>1, <1>2, <1>3, <1>4 DEF IInv

\* A thread beside the first: the process may go with it, but then its first
\* thread went before, and the record with that.
LEMMA ThreadExitKeeps ==
  ASSUME IInv, NEW p \in Pids, ThreadExit(p)
  PROVE  IInv'
<1>1. TypeOK'
  <2>1. threads' \in [Pids -> 0 .. MaxThreads]
    BY FsConstants DEF IInv, TypeOK, ThreadExit
  <2>2. life' \in [Pids -> {"none", "alive", "leaderless"}]
    BY DEF IInv, TypeOK, ThreadExit
  <2>3. \A q \in Pids : life[q] = "alive" => life'[q] = "alive"
    BY DEF IInv, TypeOK, ThreadExit
  <2>4. execing' \subseteq {q \in Pids : life'[q] # "none"}
    BY DEF IInv, TypeOK, ThreadExit
  <2> QED
    BY <2>1, <2>2, <2>3, <2>4 DEF IInv, TypeOK, ThreadExit, Verdicts
<1>2. SetupIsAlive'
  BY DEF IInv, TypeOK, SetupIsAlive, ThreadExit
<1> QED
  BY <1>1, <1>2 DEF IInv, ExemptionIsExact, OpensAreJudged, ThreadExit

LEMMA LeaderExitKeeps ==
  ASSUME IInv, NEW p \in Pids, LeaderExit(p)
  PROVE  IInv'
<1>1. TypeOK'
  <2>1. execing' \subseteq {q \in Pids : life'[q] # "none"}
    BY DEF IInv, TypeOK, LeaderExit
  <2> QED BY <2>1 DEF IInv, TypeOK, LeaderExit, Verdicts
<1>2. SetupIsAlive'
  BY DEF IInv, TypeOK, SetupIsAlive, LeaderExit
<1>3. ExemptionIsExact'
  BY DEF IInv, ExemptionIsExact, LeaderExit
<1>4. OpensAreJudged'
  BY DEF OpensAreJudged, LeaderExit
<1> QED BY <1>1, <1>2, <1>3, <1>4 DEF IInv

\* The one step that gives a verdict: it looks a process up in the map, and
\* ExemptionIsExact says what that tells of the process.
LEMMA FileOpenKeeps ==
  ASSUME IInv, NEW p \in Pids, NEW f \in Files, NEW watched \in BOOLEAN,
         NEW room \in BOOLEAN, NEW prior \in {Allow, EPERM},
         FileOpen(p, f, watched, room, prior)
  PROVE  IInv'
<1>1. OpenVerdict(p, f, watched, room, prior) \in {Allow, EPERM}
  BY DEF OpenVerdict
<1>2. TypeOK'
  BY <1>1 DEF IInv, TypeOK, FileOpen, Verdicts, processVars
<1>3. SetupIsAlive' /\ ExemptionIsExact'
  BY DEF IInv, SetupIsAlive, ExemptionIsExact, FileOpen, processVars
<1>4. OpensAreJudged'
  <2> SUFFICES ASSUME watched, prior = Allow PROVE OpensAreJudged'
    BY DEF FileOpen, OpensAreJudged
  <2>1. verdict'.pid = p /\ verdict'.file = f /\ verdict'.room = room
        /\ verdict'.ret = OpenVerdict(p, f, watched, room, prior)
    BY DEF FileOpen
  <2>2. p \notin container_state <=> p \notin setup \/ p \in crowded
    BY DEF IInv, ExemptionIsExact
  <2>3. OpenVerdict(p, f, watched, room, prior) = EPERM <=>
          Enforce /\ room /\ p \notin container_state /\ Restricted(p, f)
    BY VerdictsDiffer DEF OpenVerdict
  <2>4. UNCHANGED <<setup, crowded, pidns>>
    BY DEF FileOpen, processVars
  <2> QED
    BY <2>1, <2>2, <2>3, <2>4
       DEF OpensAreJudged, Restricted, is_container_procfs
<1> QED BY <1>2, <1>3, <1>4 DEF IInv

LEMMA BprmKeeps ==
  ASSUME IInv, NEW p \in Pids, NEW mnt, NEW watched, NEW room, NEW prior,
         BprmCredsForExec(p, mnt, watched, room, prior)
  PROVE  IInv'
<1>1. TypeOK'
  BY DEF IInv, TypeOK, BprmCredsForExec, Verdicts
<1> QED
  BY <1>1
     DEF IInv, SetupIsAlive, ExemptionIsExact, OpensAreJudged, BprmCredsForExec

LEMMA StepKeeps == IInv /\ [Next]_vars => IInv'
<1> SUFFICES ASSUME IInv, [Next]_vars PROVE IInv'
  OBVIOUS
<1>1. CASE Next
  <2> PICK p \in Pids :
        \/ \E c \in Pids, n \in PidNs : Fork(p, c, n)
        \/ NewThread(p)
        \/ SchedProcessExec(p)
        \/ ExecFails(p)
        \/ ThreadExit(p)
        \/ LeaderExit(p)
        \/ Hook(p)
    BY <1>1 DEF Next
  <2>1. CASE \E c \in Pids, n \in PidNs : Fork(p, c, n)
    BY <2>1, ForkKeeps
  <2>2. CASE NewThread(p)
    BY <2>2, NewThreadKeeps
  <2>3. CASE SchedProcessExec(p) \/ ExecFails(p)
    BY <2>3, ExecKeeps
  <2>4. CASE ThreadExit(p)
    BY <2>4, ThreadExitKeeps
  <2>5. CASE LeaderExit(p)
    BY <2>5, LeaderExitKeeps
  <2>6. CASE Hook(p)
    BY <2>6, FileOpenKeeps, BprmKeeps DEF Hook
  <2> QED BY <2>1, <2>2, <2>3, <2>4, <2>5, <2>6
<1>2. CASE UNCHANGED vars
  <2>1. TypeOK'
    BY <1>2 DEF vars, processVars, IInv, TypeOK, Verdicts
  <2> QED
    BY <1>2, <2>1 DEF vars, processVars, IInv, SetupIsAlive, ExemptionIsExact,
                      OpensAreJudged
<1> QED BY <1>1, <1>2

LEMMA Inductive == Spec => []IInv
<1> QED BY InitIInv, StepKeeps, PTL DEF Spec

\* The types, and no record of a process that is gone: container_state is kept
\* clean by its two tracepoints, whatever order processes fork, execute and
\* exit in.
THEOREM TypeCorrect == Spec => []TypeOK
<1>1. IInv => TypeOK BY DEF IInv
<1> QED BY <1>1, Inductive, PTL

\* The processes file_open spares are those being set up and no others, but
\* for those container_state had no room for.
THEOREM ExemptionExact == Spec => []ExemptionIsExact
<1>1. IInv => ExemptionIsExact BY DEF IInv
<1> QED BY <1>1, Inductive, PTL

\* While enforcing, and with room in the ring buffer, a watched process that is
\* not being set up opens no procfs but its own namespace's, and that one not
\* for writing; one that is being set up opens what it likes, unless the map
\* had no room for it.
THEOREM OpensJudged == Spec => []OpensAreJudged
<1>1. IInv => OpensAreJudged BY DEF IInv
<1> QED BY <1>1, Inductive, PTL
=============================================================================
