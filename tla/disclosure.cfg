SPECIFICATION SpecProjection
CONSTANTS
    c1 = c1
    c2 = c2
    s1 = s1
    s2 = s2
    Claims = {c1, c2}
    Cases <- MCCases
    NoConsent = NoConsent
    Subject = s1
    Forever = Forever
    Lifetime = 2
    MaxTime = 3
INVARIANTS ProjectionInv RegoAgrees ReceiptWithinConsent NoInterference
