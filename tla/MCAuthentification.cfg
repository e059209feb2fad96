SPECIFICATION Spec
CONSTANTS
  Texts <- MCTexts
  Empty = ""
  count <- MCcount
  EmailInputs <- MCEmailInputs
  PasswordInputs <- MCPasswordInputs
  PasswordText = "Password"
  ConfirmText = "Confirm password"
  NoUser = NoUser
  NoPassword = NoPassword
  MinPassword = 6
  MaxRequests = 2
INVARIANT TypeOK
INVARIANT EnabledMeansChecked
INVARIANT SignUpPasswordLongEnough
INVARIANT IndicatorMeansWaiting
INVARIANT SignInOpensForItsUser
CHECK_DEADLOCK FALSE
