SPECIFICATION FairSpec
CONSTANTS
  Users = {u1, u2}
  NoUser = NoUser
  Keys = {one, auto1, auto2}
  one = one
  auto1 = auto1
  auto2 = auto2
  intForString <- MCintForString
  NoId = NoId
  PhotoIds = {one, NoId}
  AutoKeys = {auto1, auto2}
  ForeignKeys = {auto1}
  Complete = Complete
  Scalar = Scalar
  Absent = Absent
  Unset = Unset
  MaxSaves = 2
  MaxFetches = 1
  MaxReconnects = 1
  MaxLaunches = 2
INVARIANT TypeOK
INVARIANT ImageBeforeRecord
INVARIANT PutsMatchSaves
INVARIANT AckedDurable
INVARIANT OncePerFetch
INVARIANT DeferredAwaitsListen
PROPERTY SavesSettle
CHECK_DEADLOCK FALSE
