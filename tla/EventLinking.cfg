\* Two linkers, two sources of which one may be assigned, three events, one failure.
SPECIFICATION FairSpec
CONSTANTS
  l1 = l1
  l2 = l2
  s1 = s1
  s2 = s2
  e1 = e1
  e2 = e2
  e3 = e3
  Legacy = Legacy
  Free = Free
  NoEvent = NoEvent
  Linkers = {l1, l2}
  Sources = {s1, s2}
  Events = {e1, e2, e3}
  SourceOf <- Reported
  DaysOf <- Days
  Assignable = {s1}
  Orgs = {"o1"}
  MaxDisruptions = 1
INVARIANTS
  OrganizationsApart
  ClustersAreDays
PROPERTIES
  EventsGetLinked
\* With every event linked or removed and no source to assign nothing is left to do.
CHECK_DEADLOCK FALSE
