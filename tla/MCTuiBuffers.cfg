CONSTANTS
  Bufs <- MCBufs
  Crates = {0}
  CrateIds = {0, 1}
  Rows = 2
  Null = Null
SPECIFICATION Spec
\* The program stops at quit, at exit(1) when no buffer could be made, and
\* (in the model) after a use of freed memory.
CHECK_DEADLOCK FALSE
INVARIANT TypeOK
INVARIANT BufferListAtHead
INVARIANT CursorInRange
