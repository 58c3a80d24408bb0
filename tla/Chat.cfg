SPECIFICATION FairSpec
CONSTANTS
    User = {u1, u2}
    Slots = 2
    MaxParked = 1
    OfferTimeout = 1
    ConnectTimeout = 1
    IdleTimeout = 1
    QueryTimeout = 2
    MaxOffers = 2
    MaxQueries = 2
    MaxEvents = 1
    None = None
INVARIANTS OneChatPerUser AnswersAsker AnsweredOnce
PROPERTIES NoneForgotten NoneKept ChatsEnd
