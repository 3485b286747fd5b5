\* Arrays and strings that change while the host asks.
SPECIFICATION Spec
CONSTANTS
    Kinds = {"string", "ids", "list"}
    Answers <- MCAnswers
    Caps <- StartCaps
    Slack = 1
    IntMax = 5
    MaxChanges = 2
INVARIANT TakenIsWhole
PROPERTIES
    StaysInBuffer
    TruncatedIsSmallest
    HostServed
