\* Up to six records about a sauce and the stock it requires a portion of.
SPECIFICATION Spec
CONSTANTS
    dish = dish
    sauce = sauce
    stock = stock
    old = old
    new = new
    unread = unread
    owner = owner
    guest = guest
    Scopes = {sauce, stock}
    Unsettled = unread
    Drafts <- Corrections
    People = {owner}
    MaxCandidates = 2
    MaxRecords = 6
    None = None
PROPERTY ErrorReachesReviews
CHECK_DEADLOCK FALSE
