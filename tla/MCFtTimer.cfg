SPECIFICATION FairSpec
CONSTANTS
  Timer = {t1, t2}
  None = None
  Rearming = {t1}
  Restarted = {}
  NoFunc = {t2}
  Timeouts = {0, 1}
  MaxAdds = 2
INVARIANTS
  
  RunsOncePerAdd
  NoLostWakeup
PROPERTY ArmedTimerRuns
