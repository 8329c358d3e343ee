\* Two posts, rules with LLM fallback, the publish threshold the stricter one.
SPECIFICATION Spec
CONSTANTS
    p1 = p1
    p2 = p2
    Posts = {p1, p2}
    None = None
    Mode = "hybrid"
    One = 40
    FullCount = 4
    FullLength = 4
    Captions <- MCCaptions
    Answers <- MCAnswers
    Threshold = 24
    PublishThreshold = 32
    MaxFetched = 2
CHECK_DEADLOCK FALSE
INVARIANTS TallyPartitions EveryPostReached CommitsCounted WeakIsReviewed NothingHalfPublished
