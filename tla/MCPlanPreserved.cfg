SPECIFICATION Spec
CONSTANTS
    Clients = {c1}
    Epics = {e1, e2}
    Stories = {s1, s2}
    FeatureOf <- OneFeature
    MaxRequests = 4
    OneAtATime = TRUE
    Nothing = Nothing
PROPERTIES
    PlanPreserved
