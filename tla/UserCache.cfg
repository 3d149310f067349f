SPECIFICATION FairSpec
CONSTANTS
    u1 = u1
    u2 = u2
    u3 = u3
    l1 = l1
    Nobody = Nobody
    User <- MCUser
    Listing <- MCListing
    MaxVersion = 2
INVARIANTS
    TypeOK
    OwnUser
    NobodyIsHidden
PROPERTIES
    ListingsReturn
    StaleEntriesGo
