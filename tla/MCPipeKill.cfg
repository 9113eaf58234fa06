\* One reader and one writer; kill() is used on the writer.
SPECIFICATION Spec
CONSTANTS
  Readers = {r1}
  Writers = {w1, w2}
  Killable = {w1}
  PIPESIZE = 2
  Wrap = 4
  Bytes = {0}
  MaxCount = 3
INVARIANT ReadersHaveCause
CHECK_DEADLOCK FALSE
