SPECIFICATION Spec
CONSTANTS
  Names = {"mine", "other"}
  States = {"StableOK", "Closing"}
  Requests <- Asked
  PageSize = 2
  MaxSlices = 4
  MaxChanges = 2
INVARIANTS TypeOK MissedAtMostLeft TwiceAtMostEntered
PROPERTIES ListingReturns
