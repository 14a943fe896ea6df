\* Two threads, and room for the record of one: a full map is met with and
\* without a record of the thread that enters, and a record is made while the
\* other thread reads the one it has taken.
CONSTANTS
  t1 = t1
  t2 = t2
  Threads = {t1, t2}
  MaxEntries = 1
  Enforce = TRUE
  None = None
SYMMETRY Symmetry
SPECIFICATION Spec
INVARIANT TypeOK
PROPERTIES
  FirstCheckIsRefused
  OneEventPerCall
CHECK_DEADLOCK FALSE
