SPECIFICATION FairSpec
CONSTANTS
  Items = {i1, i2}
  Variants = {}
  Preferred = paypal
  MaxRetries = 1
  MaxChanges = 1
  MaxEnding = 2
INVARIANTS OneCheckoutPerParent NoBrowserLeftBehind
PROPERTIES SeenOfferIsUsed
CHECK_DEADLOCK FALSE
