CONSTANTS
    Requests = {s1, s2, r1}
    Scrapes = {s1, s2}
    NoScrape = NoScrape
    BodySizes = {2, 3}
    MaxBody = 2
    QueryCount = 2
    Interval = 2
    Horizon = 2
    MaxQueryErrors = 1
    PoolSize = 2
SPECIFICATION FairSpec
INVARIANTS
    BodyWholeOrRefused
    RenderedFresh
    CountedAsAnswered
PROPERTIES
    RefreshesSpaced
    EventuallyAnswered
\* Requests that are answered stay so.
CHECK_DEADLOCK FALSE
