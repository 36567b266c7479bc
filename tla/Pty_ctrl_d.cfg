SPECIFICATION FairSpec
CONSTANTS
  Sizes = {1, 2}
  NoSize = 0
  Echoes = {1}
PROPERTY CtrlDEnds
\* The terminal is resized for as long as the user likes; the rest may stop.
CHECK_DEADLOCK FALSE
