\* Policies of up to three rules, path patterns and paths of up to four segments,
\* one record with clock readings 0..3.
SPECIFICATION DecisionsSpec
CONSTANTS
    None = None
    Texts <- SomeTexts
    PathIn <- PathOf
    HostIn <- HostOf
    UrlIn <- UrlOf
    WordsIn <- WordsOf
    Lower <- LowerOf
    Idna <- LowerOf
    Glob <- SomeGlob
    Files <- SomeFiles
    Requests <- SomeRequests
    Similar = {}
    Satisfying <- Satisfied
    PathPatterns <- SomePathPatterns
    PathInputs <- SomePathInputs
    Approvals = {"a1"}
    Fingerprints = {"f1"}
    Policies = {"p1"}
    MaxTime = 3
    MaxTTL = 3
    Values <- SomeValues
    Asked <- SomeAsked
    Sensitive = {"auth_token"}
    Stores <- SomeStores
    MaxSafe = 1
    MaxNesting = 4
    Regexes <- SomePatterns
    Specs <- SomeSpecs
    Mappings <- SomeMappings
    Arguments <- SomeArguments
    Bounds <- SomeBounds
    Items <- SomeItems
    MaxDepth = 1
    MaxEdits = 4
    Height <- DepthOf
INVARIANTS PartsTypeOK DecisionIsOrderFree MatcherAgrees ConsumedOnlyThroughApproval AcceptedPatternsStayFlat ReadsWhatWasSaved
PROPERTY EditsOnlyRestrict
\* A matched path and a record in a final state have no step left.
CHECK_DEADLOCK FALSE
