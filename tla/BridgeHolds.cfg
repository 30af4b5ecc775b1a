\* One Hermes instance, its owner and another user, one session, one code, one fault.
SPECIFICATION BridgeSpec
CONSTANTS
  a = a
  b = b
  Users = {a, b}
  Admins = {}
  Cookies = {t1}
  Providers = {"campus-uis"}
  Instances = {h}
  Owner <- OwnedByA
  Codes = {c1}
  MaxClients = 2
  MaxFaults = 1
CHECK_DEADLOCK FALSE
INVARIANTS CredentialMatches RestoredForgetsTokens
PROPERTY TokensBacked
