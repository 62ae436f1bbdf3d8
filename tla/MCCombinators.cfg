CONSTANTS
    Gathers = {"inner", "outer", "empty"}
    Sources = {"a", "b", "c", "e", "f"}
    List <- MCList
    Feeds <- MCFeeds
    Caller = "main"
    Workers = {"w1", "w2"}
    None = None
    MaxSubs = 4
    Deferred = {2}
SPECIFICATION MCSpec
INVARIANTS
    ValuesComplete
    CalledOnlyByCancel
    CancelReachesAll
PROPERTY KeepsPromise
