\* One thread, so that no other writes what it reads: an event that names
\* another call than the one the check was made in comes from a record of an
\* earlier call.
CONSTANTS
  t1 = t1
  t2 = t2
  Threads = {t1}
  MaxEntries = 1
  Enforce = TRUE
  None = None
SPECIFICATION Spec
INVARIANT EventNamesItsCall
CHECK_DEADLOCK FALSE
