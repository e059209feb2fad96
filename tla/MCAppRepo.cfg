SPECIFICATION Spec
CONSTANTS
  Texts <- MCTexts
  Empty = ""
  count <- MCcount
  EmailInputs <- MCOneEmail
  PasswordInputs <- MCPasswordInputs
  PasswordText = "Password"
  ConfirmText = "Confirm password"
  NoUser = NoUser
  NoPassword = NoPassword
  MinPassword = 6
  MaxRequests = 1
  Keys = {one, auto1}
  one = one
  auto1 = auto1
  intForString <- MCintForString
  NoId = NoId
  PhotoIds = {one}
  AutoKeys = {auto1}
  ForeignKeys = {auto1}
  Complete = Complete
  Scalar = Scalar
  Absent = Absent
  Unset = Unset
  MaxSaves = 1
  MaxFetches = 1
  MaxReconnects = 1
  MaxLaunches = 2
  Titles = {title}
  Categories = {Default, Friends}
  DefaultCategory = Default
  SampleTitle = SampleTitle
  NoPhoto = NoPhoto
  MaxPicks = 1
INVARIANT DetailShowsEdited
PROPERTY SavedAsShown
PROPERTY RefinesRepo
CHECK_DEADLOCK FALSE
