CONSTANTS
  TTL = 2
  NoSecret = "none"
  NoCookie = NoCookie
  NoPath = NoPath
  NoLogin = NoLogin
  Names <- MCPlainNames
  Passwords <- MCPasswords
  Environments <- MCPlainEnvironments
SPECIFICATION Spec
INVARIANTS TypeOK UsersOnly FullAccess
PROPERTY NavigationEnds
