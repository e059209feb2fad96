SPECIFICATION Spec
CONSTANTS
  Texts <- MCTexts
  Empty = ""
  count <- MCcount
  EmailInputs <- MCEmailInputs
  PasswordInputs <- MCPasswordInputs
  PasswordText = "Password"
  ConfirmText = "Confirm password"
  NoUser = NoUser
  NoPassword = NoPassword
  MinPassword = 6
  MaxRequests = 2
  Keys = {one, auto1}
  one = one
  auto1 = auto1
  intForString <- MCintForString
  NoId = NoId
  PhotoIds = {one}
  AutoKeys = {auto1}
  ForeignKeys = {}
  Complete = Complete
  Scalar = Scalar
  Absent = Absent
  Unset = Unset
  MaxSaves = 0
  MaxFetches = 2
  MaxReconnects = 0
  MaxLaunches = 2
  Titles = {title}
  Categories = {Default, Friends}
  DefaultCategory = Default
  SampleTitle = SampleTitle
  NoPhoto = NoPhoto
  MaxPicks = 0
INVARIANT OwnerSignedIn
INVARIANT StaleOwnerNeedsOverlap
CHECK_DEADLOCK FALSE
