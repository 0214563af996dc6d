SPECIFICATION FairSpec
CONSTANTS
    None = None
    Calls = {c1, c2}
    SubOks = {TRUE}
    Foreign <- MCForeign
    LOSSES = 1
    DUPLICATES = 1
INVARIANTS TypeOK ReadyMeansSubscribed AnswersMatch
PROPERTIES CallsEndOnce BecomesReady
