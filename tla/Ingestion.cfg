\* One job, two workers, two disruptions.
\* Two sources, two schedulers whose passes take one source, two minutes,
\* schedules set twice.
SPECIFICATION Alone
CONSTANTS
  w1 = w1
  w2 = w2
  c1 = c1
  c2 = c2
  s1 = s1
  s2 = s2
  i1 = i1
  Workers = {w1, w2}
  Sources = {s1}
  OwnedSources = {s1}
  Items = {i1}
  MaxAttempts = 1
  RecoveryLimit = 2
  MaxJobs = 1
  MaxDisruptions = 2
  Schedulers = {c1, c2}
  Scheduled = {s1, s2}
  Intervals = {2}
  Limit = 1
  MaxTime = 2
  MaxPlans = 2
INVARIANTS
  SlotsAreKept
PROPERTIES
  JobsImplementLedger
  EveryJobSettles
  DueSourcesAreQueued
\* When every job has ended and nobody asks for another, nothing is left to do.
CHECK_DEADLOCK FALSE
