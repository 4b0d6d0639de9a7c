SPECIFICATION FairSpec
CONSTANTS
    ticker = ticker
    overview = overview
    main = main
    a = a
    b = b
    c = c
    d = d
    Events = {a, b, c, d}
    Flushers = {ticker, overview}
    Main = main
INVARIANT HourlyMatchesDaily
INVARIANT EachEventInOnePlace
PROPERTY ImplementsLedger
PROPERTY RecordedReachesTable
