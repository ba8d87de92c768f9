CONSTANTS
    Queries = {1, 2}
    Holders = {"provider", "stranger"}
    Actors = {"provider"}
    MaxEvents = 2
    Times <- OneTime
    QueryRequests <- SomeRequests
    ApiKeys = {"own", "another"}
    ListedKey = "own"
    DefaultPageSize = 2
    MaxPageSize = 3
    PageSizeParams <- SomePageSizes
    Instants = {1, 2}
    MaxDocs = 4
SPECIFICATION ReadSpec
INVARIANTS AnswerWasTrue ActorsOnly TransientNotFinal EverythingListed QuietWalkExact
PROPERTY QueriesEnd
CHECK_DEADLOCK FALSE
