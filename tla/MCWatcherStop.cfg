SPECIFICATION Spec
CONSTANTS
  k1 = k1
  k2 = k2
  Keys = {k1, k2}
  MaxFaults = 2
INVARIANT NoSendOnClosed
