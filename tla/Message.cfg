\* Both overloads of write, a null argument and others; a text of four arguments, or of
\* three after a time point, is longer than the buffer.  The process may end.
CONSTANTS
  PARAM_SIZE = 8
  BUFFER_SIZE = 14
  Overloads = {"plain", "timed"}
  Values = {v1, v2}
SPECIFICATION MessageSpec
CHECK_DEADLOCK FALSE
INVARIANT WholeMessages
