\* One symbol, two threads of the server, two commands and one scheduled cycle.
SPECIFICATION Spec
CONSTANTS
  Symbol = {s1}
  Client = {c1, c2}
  MaxCommands = 2
  MaxTicks = 1
INVARIANT ClicksMerge
INVARIANT SaysWhatHappened
INVARIANT OkIsShown
PROPERTY EveryRequestEnds
CHECK_DEADLOCK FALSE
