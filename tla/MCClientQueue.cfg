SPECIFICATION FairSpec
CONSTANTS
    Own <- OwnReaders
    Foreign <- ForeignReaders
    Capacity = 2
    MaxRequests = 2
    MaxMessages = 2
INVARIANTS
    TypeOK
    AnswersInOrder
    ForwardedWithoutGap
PROPERTIES
    AcceptedIsWritten
    EndsTogether
