CONSTANTS
  TTL = 2
  NoSecret = "none"
  NoCookie = NoCookie
  NoPath = NoPath
  NoLogin = NoLogin
  Names <- MCNames
  Passwords <- MCPasswords
  Environments <- MCEnvironments
SPECIFICATION Spec
INVARIANT FullAccess
