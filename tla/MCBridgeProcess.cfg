SPECIFICATION FairSpec
CONSTANTS
    Packages <- MCPackages
    Forced <- MCForced
    Lists <- MCLists
    Scenarios <- MCScenarios
    MaxDeaths = 2
    MaxEdits = 1
INVARIANTS TypeOK RunsWithPackages RecordTells RegisteredUnlessGone LateOnlyIfRaced
PROPERTIES StartsEventually ReconnectsUnlessStuck  LedShowsConnection
