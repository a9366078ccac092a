\* Columns and a grid of cores and the single core of experiment 7, most of them
\* run more than once.
SPECIFICATION FairSpec
CONSTANTS
  Designs <- Plain
INVARIANT TypeOK
INVARIANT ResultRight
INVARIANT FreedTransfersDone
INVARIANT PingPong
INVARIANT ArrayClean
PROPERTY Completes
