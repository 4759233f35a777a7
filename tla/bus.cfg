SPECIFICATION Spec
CONSTANTS
  Threads = {t1, t2}
  t1 = t1
  t2 = t2
  Publications = {"move", "write"}
  Event <- MCEvent
  Filters <- MCFilters
  Handlers = {h}
  h = h
  Unset = Unset
  NoHandler = NoHandler
  NoThread = NoThread
  NoPublication = NoPublication
  MaxSubscriptions = 2
INVARIANTS
  ReachesEveryObserver
  UnsubscribedStaysSilent
  InSubscriptionOrder
PROPERTY
  CopiesOneMoment
