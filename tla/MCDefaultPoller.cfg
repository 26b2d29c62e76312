CONSTANTS
  c1 = c1
  c2 = c2
  c3 = c3
  c4 = c4
  Channels = {c1, c2, c3, c4}
  fdOf <- MCfdOf
  NoChannel = noChannel
  InitEventListSize = 1
SPECIFICATION DefaultSpec
SYMMETRY MCSymmetry
INVARIANTS
  IndexInv
  PollIndexInv
PROPERTY
  ImplementsPoller
