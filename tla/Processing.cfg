\* Two files of one source, two workers, two disruptions, fair workers.
SPECIFICATION FairSpec
CONSTANTS
  w1 = w1
  w2 = w2
  d1 = d1
  d2 = d2
  t1 = t1
  t2 = t2
  NoText = NoText
  NoDoc = NoDoc
  Workers = {w1, w2}
  Docs = {d1, d2}
  Texts = {t1, t2}
  SourceOf <- OneOwnedSource
  OwnedSources = {"owned"}
  RecoveryLimit = 2
  MaxDisruptions = 2
INVARIANTS
  RowsAgree
  OneHolder
PROPERTIES
  FencedOff
  ImplementsLedger
  NobodyIsStuck
\* With every document deleted there is nothing left to do.
CHECK_DEADLOCK FALSE
