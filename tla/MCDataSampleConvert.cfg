CONSTANTS
    n1 = n1
    s1 = s1
    s2 = s2
    b1 = b1
    b2 = b2
    null = null
    now = now
    NonStringSlots <- MCNonStringSlots
    StringSlots <- MCStringSlots
    StrBlocks <- MCStrBlocks
    None = null
    Texts <- MCTexts
    Numbers <- MCNumbers
    BufSizes <- MCBufSizes
    Times <- MCTimes
    NOW = now
    MaxRef = 2
SYMMETRY MCSymmetry
SPECIFICATION Spec
INVARIANTS ConversionsCorrect
