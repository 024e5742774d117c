\* Short texts tokenized; values written, tokenized and parsed; JSON texts parsed;
\* replies to requests read in any pieces.
SPECIFICATION Spec
CONSTANTS
    Texts <- MCTexts
    Contents <- MCContents
    KindOf <- MCKindOf
    KeyOrder <- MCKeyOrder
    Values <- MCValues
    to_string <- MCToString
    Indents = {0, 1}
    MaxItems = 2
    Replies <- MCReplies
INVARIANTS TokensInPlace ReadsBack AcceptsJson CompareIsSound BodyIsWhole WholeReplyIsAnswered
PROPERTIES ReadingEnds
\* Reading stops.
CHECK_DEADLOCK FALSE
