CONSTANT
    Ids = {1, 2, 3}
    StampOf <- MCStampOf
    TimeOf <- MCTimeOf
    OffsetOf <- MCOffsetOf
    NameOrder <- MCNameOrder
    Captures <- MCCaptures
    Manifests <- MCManifests
    Overrides <- MCOverrides
    Committed <- MCCommitted
    MaxBuilds = 2
SPECIFICATION Spec
INVARIANT
    TypeOK
    OnlyCleanIsPromoted
    SiteIsTheManifest
    PathsAgree
    HeadlineIsBest
PROPERTY
    RefreshKeepsTheRest
CHECK_DEADLOCK FALSE
