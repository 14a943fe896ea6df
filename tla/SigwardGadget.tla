--------------------------- MODULE SigwardGadget ---------------------------
(***************************************************************************)
(* gadgets/sigward/program.bpf.c: what the two LSM programs decide for one *)
(* call of their hook. A program keeps no state of its own; it reads the   *)
(* inner map of the current mount namespace, which the IMA operator fills. *)
(* A decision is the hook's return value and the event it submits.         *)
(***************************************************************************)
EXTENDS SbomDocument

CONSTANTS
  NoTable,      \* expected_hashes has no entry for the namespace
  NoPath,       \* get_path_str returned NULL
  NotSha256,    \* bpf_ima_file_hash returned another algorithm, or an error
  Missing       \* the inner map has no entry for the path

Allow == 0
EPERM == 0 - 1
Decision(ret, event) == [ret |-> ret, event |-> event]

\* Refusal, with its event if the ring buffer has room; it is enforced
\* whether or not the event could be submitted.
Refuse(enforce, room, eventType) ==
  Decision(IF enforce THEN EPERM ELSE Allow, IF room THEN eventType ELSE "none")

\* path: the file's dentry path; hash: what IMA computes for the file;
\* events: the two event types, unattested first
attest_file(enforce, table, path, hash, room, events) ==
  CASE table = NoTable \/ path = NoPath -> Decision(Allow, "none")
    [] table # NoTable /\ path # NoPath /\ Lookup(table, path, Missing) = Missing ->
         Refuse(enforce, room, events[1])
    [] table # NoTable /\ path # NoPath /\ Lookup(table, path, Missing) # Missing ->
         IF hash \in {NotSha256, Lookup(table, path, Missing)}
         THEN Decision(Allow, "none")
         ELSE Refuse(enforce, room, events[2])

\* lsm.s/bprm_check_security; ret is the verdict of the programs before it
BprmCheckSecurity(ret, discard, enforce, table, path, hash, room) ==
  IF ret # Allow THEN Decision(ret, "none")
  ELSE IF discard THEN Decision(Allow, "none")
  ELSE attest_file(enforce, table, path, hash, room,
         <<"UNATTESTED_BINARY", "HASH_MISMATCH">>)

\* lsm.s/mmap_file; anonymous: the mapping has no file
MmapFile(ret, anonymous, protExec, discard, enforce, table, path, hash, room) ==
  IF ret # Allow THEN Decision(ret, "none")
  ELSE IF anonymous \/ ~protExec \/ discard THEN Decision(Allow, "none")
  ELSE attest_file(enforce, table, path, hash, room,
         <<"UNATTESTED_SHARED_OBJECT", "SHARED_OBJECT_HASH_MISMATCH">>)
=============================================================================
