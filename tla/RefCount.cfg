CONSTANTS
  Clients = {c1, c2, c3}
  Nobody = Nobody
  MaxNotifiers = 2
SPECIFICATION Spec
INVARIANTS CountsExact NoUseAfterFree AllNotified
PROPERTIES ImplementsWeakReference ObjectFreed
CHECK_DEADLOCK FALSE
