SPECIFICATION SamplingSpec
CONSTANTS
    Bos = Bos  Image = Image  Eos = Eos  word = word
    Texts <- ShortTexts
    Vocabulary = {word, Image, Eos}
    Graphs <- SmallGraphs
    ImageSize = 16
    MaxNewTokens = 4
    NameOrder <- SmallNames
    BatchSize = 1  Heads = 2  HeadDim = 2
    TokenOrder <- SmallOrder  Finite = {0, 1, 2}  Weights <- SmallWeights
INVARIANTS
    TypeOK
    MaskMatchesText
    CacheFollowsText
    LimitExact
    TensorsHoldText
    SampledByWeight
PROPERTY ImplementsAutoregression
CHECK_DEADLOCK FALSE
