SPECIFICATION Spec
CONSTANTS
    Drops = {d1, d2}
    Objects = {o1, o2}
    Publishers = {p1, p2}
    Collectors = {g1, g2}
    MaxKills = 2
    None = None
SYMMETRY Symmetry
INVARIANTS DropsAreComplete
