SPECIFICATION FairSpec
CONSTANTS
    Sources = {s1}
    Handlers = {h1}
    GlobalLimit = 1
    SourceLimit = 1
    Window = 6
    FailureRetention = 7
    MaxLag = 1
    MaxTime = 5
    None = None
    Drops = {d1}
    Codes = {c1, c2}
    Tokens = {t1, t2}
    Allocators = {a1}
    CodeTTLs = {2}
    DropTTLs = {3}
    Limits = {1, None}
    SessionTTL = 2
    SessionGrace = 1
    Retentions = {1}
INVARIANTS SessionScoped RedemptionsBounded ReissueAdmitted
PROPERTIES AccessKept PurgedInTheEnd
