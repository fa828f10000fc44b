CONSTANTS
  Threads = {t1, t2, t3}
  Cancelable = {t3}
  MaxLocks = 2
  MaxWaits = 2
  MaxSignals = 2
  MaxInterrupts = 1
  Nobody = Nobody
SPECIFICATION FairSpec
INVARIANTS SignalsAccounted DestroySafe NoWaiterStranded
CHECK_DEADLOCK FALSE
PROPERTIES SignalsDelivered BroadcastReleases DestroyReturns
