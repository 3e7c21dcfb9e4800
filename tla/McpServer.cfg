SPECIFICATION FairSpec
CONSTANTS
    MaxLines = 3
INVARIANTS
    TypeOK
    AnswersMatch
PROPERTIES
    RequestsAnswered
