SPECIFICATION Spec
CONSTANTS
    Backups = {1, 2}
    Parent <- Pair
    Ops = {o1, o2}
    Mixes = {{"hold"}}
    Holders = {h1, h2}
    Nobody = Nobody
    EditHolds = TRUE
SYMMETRY Symmetric
CHECK_DEADLOCK FALSE
PROPERTY NeverWeakened
