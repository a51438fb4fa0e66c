SPECIFICATION Spec
CONSTANTS
    Backups = {1, 2, 3}
    Parent <- Inverted
    Ops = {o1}
    Mixes = {{"cascade", "crash"}}
    Holders = {h1}
    Nobody = Nobody
    EditHolds = FALSE
SYMMETRY Symmetric
CHECK_DEADLOCK FALSE
INVARIANT NeverTorn
