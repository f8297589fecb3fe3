CONSTANTS
    Title = {t1, t2, t3}
    Prose = {p1, p2, p3}
    Guid = {absent, g1}
    NoDigest = NoDigest
SPECIFICATION Spec
INVARIANT Inv
PROPERTIES
    NoSilentRevert
    HoldPersists
    SettlesAtOnce
