SPECIFICATION MCFairSpec
CONSTANTS
    o1 = o1 o2 = o2 p2 = p2 d2 = d2
    Drops = {d1, d2}
    Objects = {o1, o2}
    Publishers = {p1, p2}
    Collectors = {g1, g2}
    MaxKills = 1
    None = None
INVARIANTS OnlyRacedDropsLoseObjects TempFilesAreAccountedFor DoctorSeesLoss AlarmsAreReal
PROPERTIES OrphansAreReclaimed ImplementsDropStore
