SPECIFICATION FairServerSpec
CONSTANTS MaxCalls = 3 MaxUpdates = 1
INVARIANTS LatestSaveIsCovered TextGoesBackForAReason
PROPERTIES ChangeLostOnlyToKeyError SavesMeetTheConfiguration
\* the user stops typing after MaxCalls calls
CHECK_DEADLOCK FALSE
