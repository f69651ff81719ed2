\* Files: two requests, two cleaners, one document, two files and three failures.
\* Names: two extractors, two chunks, three names of which one does not fit, two failures.
SPECIFICATION Alone
CONSTANTS
  r1 = r1
  r2 = r2
  cl1 = cl1
  cl2 = cl2
  d1 = d1
  k1 = k1
  k2 = k2
  NoDoc = NoDoc
  NoKey = NoKey
  Requests = {r1, r2}
  Cleaners = {cl1, cl2}
  Docs = {d1}
  Keys = {k1, k2}
  CleanupLimit = 2
  MaxMishaps = 3
  n1 = n1
  n2 = n2
  n3 = n3
  Names = {n1, n2, n3}
  Long = {n3}
  Readings <- TwoOrders
  Extractors = {x1, x2}
  Passages = {t1, t2}
  MaxFaults = 2
INVARIANTS
  FilesAgree
  NamesAreThere
PROPERTIES
  TrackedFilesAreDeleted
  NamedJobsEnd
\* With every key used and every document deleted nothing is left to do.
CHECK_DEADLOCK FALSE
