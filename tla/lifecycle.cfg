SPECIFICATION Spec
CONSTANTS
    Sources = {s1}
    Handlers = {}
    GlobalLimit = 1
    SourceLimit = 1
    Window = 4
    FailureRetention = 5
    MaxLag = 1
    MaxTime = 3
    None = None
    Drops = {d1, d2}
    Codes = {c1, c2}
    Tokens = {t1, t2}
    Allocators = {a1, a2}
    CodeTTLs = {2}
    DropTTLs = {2}
    Limits = {1, None}
    SessionTTL = 2
    SessionGrace = 1
    Retentions = {1}
SYMMETRY Symmetry
INVARIANTS CodesUnique RevokedDropHasNoLiveSession
PROPERTIES ImplementsDropAccess ImplementsBudget
