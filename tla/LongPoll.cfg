\* One page and the polls of others; ids wrap after two.
SPECIFICATION FairSpec
CONSTANTS
    Pages = {p1}
    Wsi = {w1, w2}
    Updaters = {u1}
    MaxId = 2
    MaxVersion = 2
    None = None
INVARIANTS TypeOK Registered NotifySafe AnsweredForReason 
PROPERTY ChangeShown
CHECK_DEADLOCK FALSE
