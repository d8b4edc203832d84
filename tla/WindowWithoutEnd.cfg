SPECIFICATION MCSpec
CONSTANTS
    Cases = {"c1"}
    Tenants = {"acme", "globex"}
    Findings = {"f1"}
    Entities = {"e1"}
    Verdicts = {"benign"}
    Sessions <- TwoAnalysts
    Routes <- AllRoutes
    Drains = {"d1", "d2"}
    MaxAttempts = 2
    MaxAudit = 4
    MaxFaults = 1
    KindOf <- Kind
INVARIANTS
    KeysEnd
CHECK_DEADLOCK FALSE
