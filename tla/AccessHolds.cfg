\* Two accounts, one session and one UIS sign-on; the services are redeployed once.
SPECIFICATION AccessSpec
CONSTANTS
  Users = {a, b}
  Cookies = {c1}
  Tickets = {x}
  Settings <- Two
  EmergencyUsers = {a, b}
  MaxFailures = 2
  MaxRedeploys = 1
SYMMETRY Alike
CHECK_DEADLOCK FALSE
INVARIANTS GuessesBounded DisabledStaysOut LogoutEndsSessions AdminRemains
PROPERTY KeepsTable
