CONSTANTS
    Refresh = 4
    Retry = 2
    MinRetry = 1
    Sample = Sample
    NoList = NoList
SPECIFICATION Spec
INVARIANTS StatusHonest LiveWithinTwoDays
PROPERTIES OneFetchADay FeedResumes
