----------------------------- MODULE FsRestrict -----------------------------
(***************************************************************************)
(* gadgets/fs-restrict/program.bpf.c: which opens of procfs and which      *)
(* executions are refused. A process that the runtime forks into a pid     *)
(* namespace of its own is not restricted until it executes the            *)
(* container's program; container_state remembers which processes those    *)
(* are, from the fork, exec and exit tracepoints.                          *)
(*                                                                         *)
(* A process is named by its tgid, which is used again when all its        *)
(* threads are gone. External: the processes and what they do. Each action *)
(* of theirs contains the whole program attached to it.                    *)
(***************************************************************************)
EXTENDS Integers, FiniteSets

CONSTANTS
  Pids,        \* tgids
  Runtime,     \* the tgid of the container runtime, there from the start
  PidNs,       \* pid namespaces
  HostNs,      \* the runtime's
  MaxThreads,  \* bound: threads of a process beside its first one
  MaxStates,   \* room in container_state, 1024 in the code
  Enforce,     \* GADGET_PARAM(enforce)
  None         \* no verdict yet

ASSUME FsConstants ==
  /\ Runtime \in Pids /\ HostNs \in PidNs
  /\ IsFiniteSet(Pids)
  /\ MaxThreads \in Nat /\ MaxStates \in Nat /\ Enforce \in BOOLEAN

\* What an opened file is to file_open: not in a procfs, or in the procfs
\* of a pid namespace, opened for writing or not
Files == [proc : {FALSE}] \union [proc : {TRUE}, ns : PidNs, write : BOOLEAN]

Allow == 0
EPERM == 0 - 1

VARIABLES
  container_state,  \* tgids in state INIT, the only state ever stored
  life,             \* process -> "none", "alive", or "leaderless": its first thread is gone
  pidns,            \* process -> its pid namespace
  threads,          \* process -> how many threads it has beside the first
  execing,          \* processes with a thread in execve, past the check
  setup,            \* history: first thread there, forked into another pid
                    \*   namespace than its parent's, no execution since
  crowded,          \* history: those of setup for which there was no room
  verdict           \* the last call, if it was one of file_open that this program had
                    \*   to judge: what it was about, and what it returned

processVars == <<life, pidns, threads, execing>>
vars == <<container_state, processVars, setup, crowded, verdict>>

Init ==
  /\ container_state = {}
  /\ life = [p \in Pids |-> IF p = Runtime THEN "alive" ELSE "none"]
  /\ pidns = [p \in Pids |-> HostNs]
  /\ threads = [p \in Pids |-> 0]
  /\ execing = {} /\ setup = {} /\ crowded = {}
  /\ verdict = None
-----------------------------------------------------------------------------
(* Tracepoints *)

Room == Cardinality(container_state) < MaxStates

\* sched_process_fork, of a process: the child's namespace is the one its
\* parent has chosen for children
Fork(p, c, n) ==
  /\ life[p] # "none" /\ life[c] = "none"
  /\ life' = [life EXCEPT ![c] = "alive"]
  /\ pidns' = [pidns EXCEPT ![c] = n]
  /\ \/ /\ pidns[p] = n
        /\ UNCHANGED <<container_state, setup, crowded>>
     \/ /\ pidns[p] # n
        /\ container_state' =
             IF Room THEN container_state \union {c} ELSE container_state
        /\ setup' = setup \union {c}
        /\ crowded' = IF Room THEN crowded ELSE crowded \union {c}
  /\ verdict' = None
  /\ UNCHANGED <<threads, execing>>

\* The same of a thread: it shares its process's namespace, nothing happens.
NewThread(p) ==
  /\ life[p] # "none" /\ threads[p] < MaxThreads
  /\ threads' = [threads EXCEPT ![p] = @ + 1]
  /\ verdict' = None
  /\ UNCHANGED <<container_state, life, pidns, execing, setup, crowded>>

\* sched_process_exec: the other threads are gone, the one that executes is
\* the first one now
SchedProcessExec(p) ==
  /\ p \in execing
  /\ container_state' = container_state \ {p}
  /\ setup' = setup \ {p} /\ crowded' = crowded \ {p}
  /\ life' = [life EXCEPT ![p] = "alive"]
  /\ threads' = [threads EXCEPT ![p] = 0]
  /\ execing' = execing \ {p}
  /\ verdict' = None
  /\ UNCHANGED pidns

\* The execution fails after the check, and the process goes on as it was.
ExecFails(p) ==
  /\ p \in execing
  /\ execing' = execing \ {p}
  /\ verdict' = None
  /\ UNCHANGED <<container_state, life, pidns, threads, setup, crowded>>

\* Mutants of ThreadExit and LeaderExit: the handler does not ask which
\* thread exits; nothing is done about processes that exit.
ThreadExit_forgetting(p) ==
  /\ threads[p] > 0
  /\ threads' = [threads EXCEPT ![p] = @ - 1]
  /\ life' = IF life[p] = "leaderless" /\ threads[p] = 1
             THEN [life EXCEPT ![p] = "none"] ELSE life
  /\ container_state' = container_state \ {p}
  /\ execing' = execing \ {p}
  /\ verdict' = None
  /\ UNCHANGED <<pidns, setup, crowded>>
LeaderExit_unnoticed(p) ==
  /\ life[p] = "alive"
  /\ life' = [life EXCEPT ![p] = IF threads[p] = 0 THEN "none" ELSE "leaderless"]
  /\ setup' = setup \ {p} /\ crowded' = crowded \ {p}
  /\ execing' = IF threads[p] = 0 THEN execing \ {p} ELSE execing
  /\ verdict' = None
  /\ UNCHANGED <<container_state, pidns, threads>>

\* sched_process_exit of a thread that is not the first: tgid # pid
ThreadExit(p) ==
  /\ threads[p] > 0
  /\ threads' = [threads EXCEPT ![p] = @ - 1]
  /\ life' = IF life[p] = "leaderless" /\ threads[p] = 1
             THEN [life EXCEPT ![p] = "none"] ELSE life
  /\ execing' \in {execing, execing \ {p}}
  /\ life'[p] = "none" => p \notin execing'
  /\ verdict' = None
  /\ UNCHANGED <<container_state, pidns, setup, crowded>>

\* sched_process_exit of the first thread: tgid = pid
LeaderExit(p) ==
  /\ life[p] = "alive"
  /\ life' = [life EXCEPT ![p] = IF threads[p] = 0 THEN "none" ELSE "leaderless"]
  /\ container_state' = container_state \ {p}
  /\ setup' = setup \ {p} /\ crowded' = crowded \ {p}
  /\ execing' \in {execing, execing \ {p}}
  /\ life'[p] = "none" => p \notin execing'
  /\ verdict' = None
  /\ UNCHANGED <<pidns, threads>>
-----------------------------------------------------------------------------
(* LSM hooks. watched: gadget_should_discard_data_current() is false. room: *)
(* the ring buffer has room for the event. prior: the verdict of the        *)
(* programs before this one.                                                *)

is_container_procfs(p, f) == f.ns = pidns[p]

Restricted(p, f) == f.proc /\ (~is_container_procfs(p, f) \/ f.write)

\* Mutant of OpenVerdict: processes being set up are restricted as well.
OpenVerdict_unexempt(p, f, watched, room, prior) ==
  IF prior # Allow THEN prior
  ELSE IF watched /\ Restricted(p, f) /\ room /\ Enforce THEN EPERM ELSE Allow

\* lsm/file_open, by any thread of the process
OpenVerdict(p, f, watched, room, prior) ==
  IF prior # Allow THEN prior
  ELSE IF watched /\ p \notin container_state /\ Restricted(p, f) /\ room /\ Enforce
       THEN EPERM ELSE Allow

FileOpen(p, f, watched, room, prior) ==
  /\ life[p] # "none"
  /\ verdict' = IF watched /\ prior = Allow
                THEN [pid |-> p, file |-> f, room |-> room,
                      ret |-> OpenVerdict(p, f, watched, room, prior)]
                ELSE None
  /\ UNCHANGED <<container_state, processVars, setup, crowded>>

\* The mount the file lies on is the one at the root of the process.
is_file_in_container_rootfs(mnt) == mnt = "root"

\* lsm/bprm_creds_for_exec
ExecVerdict(mnt, watched, room, prior) ==
  IF prior # Allow THEN prior
  ELSE IF watched /\ ~is_file_in_container_rootfs(mnt) /\ room /\ Enforce
       THEN EPERM ELSE Allow

\* A refused execution changes nothing; one at a time of a process gets on.
BprmCredsForExec(p, mnt, watched, room, prior) ==
  /\ life[p] # "none" /\ p \notin execing
  /\ ExecVerdict(mnt, watched, room, prior) = Allow
  /\ execing' = execing \union {p}
  /\ verdict' = None
  /\ UNCHANGED <<container_state, life, pidns, threads, setup, crowded>>

Hook(p) == \E watched, room \in BOOLEAN, prior \in {Allow, EPERM} :
  \/ \E f \in Files : FileOpen(p, f, watched, room, prior)
  \/ \E mnt \in {"root", "other"} : BprmCredsForExec(p, mnt, watched, room, prior)

Next == \E p \in Pids :
  \/ \E c \in Pids, n \in PidNs : Fork(p, c, n)
  \/ NewThread(p)
  \/ SchedProcessExec(p)
  \/ ExecFails(p)
  \/ ThreadExit(p)
  \/ LeaderExit(p)
  \/ Hook(p)

Spec == Init /\ [][Next]_vars
-----------------------------------------------------------------------------
(* Properties *)

Verdicts == [pid : Pids, file : Files, room : BOOLEAN, ret : {Allow, EPERM}]

\* The types; and no record is left of a process that is gone, or whose first
\* thread is: nothing but the exit tracepoint keeps the 1024 places of
\* container_state free for the containers to come.
TypeOK ==
  /\ life \in [Pids -> {"none", "alive", "leaderless"}]
  /\ pidns \in [Pids -> PidNs]
  /\ threads \in [Pids -> 0 .. MaxThreads]
  /\ execing \subseteq {p \in Pids : life[p] # "none"}
  /\ container_state \subseteq {p \in Pids : life[p] = "alive"}
  /\ setup \subseteq Pids /\ crowded \subseteq Pids
  /\ verdict \in Verdicts \union {None}

\* Which processes file_open spares is exactly which are being set up: not one
\* more because its tgid belonged to another one before, because a thread of
\* it or of its parent exited or because an execution failed, and not one less
\* but those that were forked while container_state was full.
ExemptionIsExact == container_state = setup \ crowded

\* What an open is answered depends on what the process has done and not on
\* what the map remembers of its tgid: a watched process that is not being set
\* up, or that was forked while the map was full, opens no procfs but its own
\* namespace's, and that one not for writing; one that is being set up opens
\* what it likes. A full ring buffer, and nothing else, lets pass what would
\* be refused.
OpensAreJudged ==
  verdict # None =>
    (verdict.ret = EPERM <=>
       /\ Enforce /\ verdict.room
       /\ verdict.pid \notin setup \/ verdict.pid \in crowded
       /\ verdict.file.proc
       /\ verdict.file.ns = pidns[verdict.pid] => verdict.file.write)
=============================================================================
