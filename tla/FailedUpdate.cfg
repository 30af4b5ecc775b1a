SPECIFICATION AdaptersSpec
CONSTANTS
  Products = {"evoscientist"}
  Menus <- JustLife
  MaxFaults = 0
INVARIANT UpdateRestored
CHECK_DEADLOCK FALSE
