SPECIFICATION Spec
CONSTANTS
    Backups = {1, 2, 3}
    Parent <- Chain
    Ops = {o1, o2}
    Mixes <- Races
    Holders = {h1}
    Nobody = Nobody
    EditHolds = FALSE
SYMMETRY Symmetric
CHECK_DEADLOCK FALSE
INVARIANTS ChainIntact DeleteSticks HeldIsLive NeverTorn
