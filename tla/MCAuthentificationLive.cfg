SPECIFICATION FairSpec
CONSTANTS
  Texts <- MCTexts
  Empty = ""
  count <- MCcount
  EmailInputs <- MCOneEmail
  PasswordInputs <- MCPasswordInputs
  PasswordText = "Password"
  ConfirmText = "Confirm password"
  NoUser = NoUser
  NoPassword = NoPassword
  MinPassword = 6
  MaxRequests = 2
PROPERTY IndicatorStops
PROPERTY SuccessOpensMap
CHECK_DEADLOCK FALSE
