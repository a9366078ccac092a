\* B packed on the CPU.  The array stops half-way, which is what the
\* property is about.
SPECIFICATION FairSpec
CONSTANTS
  Designs <- Packed
CHECK_DEADLOCK FALSE
PROPERTY Completes
