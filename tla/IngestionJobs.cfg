\* Two jobs of one source, two workers, and two disruptions or one of them and
\* fetches that are tried twice.
SPECIFICATION Spec
CONSTANTS
  w1 = w1
  w2 = w2
  s1 = s1
  s2 = s2
  i1 = i1
  Workers = {w1, w2}
  Sources = {s1}
  OwnedSources = {s1}
  Items = {i1}
  MaxAttempts = 2
  RecoveryLimit = 2
  MaxJobs = 2
  MaxDisruptions = 2
SYMMETRY Symmetric
CONSTRAINT Explored
INVARIANTS
  RunsMatchJobs
PROPERTIES
  VerdictsAreFinal
\* When every job has ended and nobody asks for another, nothing is left to do.
CHECK_DEADLOCK FALSE
