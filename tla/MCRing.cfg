CONSTANTS
  BufLen = 4
  Byte = {0, 1}
  Inputs <- MCInputs
  Requests <- MCRequests
SPECIFICATION Spec
INVARIANT TypeOK
PROPERTY FifoSpec
