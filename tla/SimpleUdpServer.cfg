CONSTANTS
  a1 = a1
  a2 = a2
  a3 = a3
  Addrs <- MC_Addrs
  Sizes <- MC_Sizes
  BufSize <- MC_BufSize
  RcvCap <- MC_RcvCap
  MaxArrivals <- MC_MaxArrivals
SPECIFICATION Spec
\* The process really stops: after Ctrl-C and interpreter exit no step is left.
CHECK_DEADLOCK FALSE
INVARIANT TypeOK
INVARIANT ClientsWithinMessages
PROPERTY InterruptEndsProcess
PROPERTY AcceptedCounted
