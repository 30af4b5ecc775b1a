SPECIFICATION AdaptersSpec
CONSTANTS
  Products = {"openclaw", "hermes", "evoscientist"}
  Menus <- AllMenus
  MaxFaults = 3
INVARIANTS
  
  Delivered
PROPERTIES
  DataKept
  
  Promise
CHECK_DEADLOCK FALSE
