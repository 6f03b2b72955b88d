SPECIFICATION Spec
CONSTANTS
    Procs = {p1, p2}
    Origins = {"runtime", "policy"}
    Terms <- TwoTerms
    Callers <- ThreeCallers
    MaxSecrets = 3
    MaxRevokes = 2
    MaxFailures = 1
    MaxCrashes = 1
SYMMETRY Symmetry
INVARIANTS SecretsFollowKey KeyServes RevokedIsDead TermsHold
CHECK_DEADLOCK FALSE
