SPECIFICATION FairListingSpec
CONSTANTS
    Ids = {1, 2, 3}
    TimeOf <- MCTimeOf
    Limits = {1, 2}
    MaxSeen = 4
INVARIANTS
    ListingTypeOK
    NothingSkipped
    NothingRepeated
PROPERTIES
    WalksEnd
CHECK_DEADLOCK FALSE
