\* The limits of the program: twenty images, three attempts, twelve polls.
SPECIFICATION FairSpec
CONSTANTS
    MaxImages = 20
    MaxAttempts = 3
    MaxPolls = 12
CHECK_DEADLOCK FALSE
INVARIANTS
    PostShowsEveryImage
    ReportIsTrue
    DuplicatesOnlyByFacebookRetry
PROPERTIES
    AcceptedIsNeverRepeated
    PublishesNoneUnready
    Terminates
