SPECIFICATION FairSpec
CONSTANTS
  t1 = t1
  t2 = t2
  Main = t1
  Threads = {t1, t2}
  Signals = {"SIGSEGV", "SIGABRT", "SIGBUS"}
  MaxFaults = 4
INVARIANTS NoRecursion TracedBeforeDeath
PROPERTIES FaultKills
CHECK_DEADLOCK FALSE
