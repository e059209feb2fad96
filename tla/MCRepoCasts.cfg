SPECIFICATION Spec
CONSTANTS
  Users = {u1}
  NoUser = NoUser
  Keys = {one, auto1, auto2}
  one = one
  auto1 = auto1
  auto2 = auto2
  intForString <- MCintForString
  NoId = NoId
  PhotoIds = {one}
  AutoKeys = {auto1, auto2}
  ForeignKeys = {auto1}
  Complete = Complete
  Scalar = Scalar
  Absent = Absent
  Unset = Unset
  MaxSaves = 1
  MaxFetches = 1
  MaxReconnects = 0
  MaxLaunches = 1
INVARIANT CastsSucceed
CHECK_DEADLOCK FALSE
