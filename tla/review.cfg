\* Up to five records about a chain of three scopes, and two reviewers.
SPECIFICATION Spec
CONSTANTS
    dish = dish
    sauce = sauce
    stock = stock
    old = old
    new = new
    unread = unread
    owner = owner
    guest = guest
    Scopes = {dish, sauce, stock}
    Unsettled = unread
    Drafts <- Readings
    People = {owner, guest}
    MaxCandidates = 3
    MaxRecords = 5
    None = None
INVARIANTS Loadable GroundsStand RevocationCloses
CHECK_DEADLOCK FALSE
SYMMETRY Reviewers
