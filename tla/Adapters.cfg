SPECIFICATION FairSpec
CONSTANTS
    m1 = m1
    m2 = m2
    Messages <- MCMessages
    Albums <- MCAlbums
    Mentions <- MCMentions
    Retries = 2
    MaxSends = 3
    MaxActs = 5
CHECK_DEADLOCK FALSE
INVARIANTS
    
    AnswersStand
    
PROPERTIES
    HeldIsSettled
