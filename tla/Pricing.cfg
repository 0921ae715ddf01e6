\* Fractions of a cent accumulating over the events of one period.
CONSTANTS
    RATE_INPUT_MICRO_CENTS_PER_TOKEN = 3000
    RATE_CACHED_INPUT_MICRO_CENTS_PER_TOKEN = 800
    RATE_OUTPUT_MICRO_CENTS_PER_TOKEN = 10000
    RATE_REASONING_MICRO_CENTS_PER_TOKEN = 9999
    MaxTokens = 2
    MaxRecorded = 4
    TokenLimit = 10
    Usages <- MCUsages

SPECIFICATION Spec
CONSTRAINT RecordedBound

INVARIANTS
    TypeOK
    NeverOvercharged
    AbsorbsLessThanACentPerEvent
    CostWithinTokenLimit
