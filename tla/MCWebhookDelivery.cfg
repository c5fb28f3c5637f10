SPECIFICATION FairSpec
CONSTANTS
  uploaded = uploaded
  all = all  some = some  other = other
  Endpoints = {all, some, other}
  Events = {uploaded}
  TypeOf <- MCTypeOf
  EventsOf <- MCEventsOf
  MaxRetry = 1
  MaxFaults = 1
INVARIANTS TypeOK EveryPostCounted DeletedEndpointLeftAlone PendingHasTask
PROPERTIES KeepsPromise DeliveriesSettle
CHECK_DEADLOCK FALSE
