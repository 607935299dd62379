SPECIFICATION Spec
CONSTANTS
    MaxParallel = 2
    MaxAreas = 2
    Tools = {"mobility", "trip", "departures", "places",
             "access", "parking", "facilities", "waste", "environment"}
    MaxStops = 2
    Candidates = {x, y}
    RowLimit = 2
    Transfer = 3
    Never = Never
    Unknown = Unknown
    Destination <- MCDestination
    Requests <- MCRequests
    Stations <- MCStations
    CarParks <- MCCarParks
    Itineraries <- MCItineraries
    Timetables <- MCTimetables
    Instants <- MCInstants
    Days <- MCDays
    Changes <- MCChanges
INVARIANTS
    BranchesRetained
    FailuresAreTold
    RecommendationMeetsRequest
    FeasibleTripIsRecommended
    LegsConnect
    ScheduleIsExact
    CandidatesAreReusable
    WorstEvidenceDecides
    OkIsVouchedFor
PROPERTY EveryCallReturns
