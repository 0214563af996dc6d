SPECIFICATION Spec
CONSTANTS
    None = None
    Calls = {c1}
    SubOks = {TRUE, FALSE}
    Foreign <- MCForeign
    LOSSES = 0
    DUPLICATES = 0
INVARIANT ReadyMeansSubscribed
