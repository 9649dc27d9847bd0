\* write with a time point (USE_TIMEPOINT).
CONSTANTS
  PARAM_SIZE = 7
  BUFFER_SIZE = 20
  Overloads = {"timed"}
  Values = {v1}
SPECIFICATION MessageSpec
INVARIANT EnoughRoom
