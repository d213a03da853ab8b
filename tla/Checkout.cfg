\* Two users with a bridge each and an interactive client of the first user.
CONSTANTS
  b1 = b1
  b2 = b2
  g1 = g1
  Bridges = {b1, b2}
  Guis = {g1}
  UserOf <- SharedGuiUsers
  HostOf <- OneHost
  MaxCheckouts = 3
  MaxVersion = 3
SPECIFICATION Spec
INVARIANTS TypeOK CheckinSparesInteractive NothingLeaked WriterHoldsCheckout
CHECK_DEADLOCK FALSE
