SPECIFICATION Spec
CONSTANTS
    Token = Token
    Own = Own
    MaxRequests = 3
INVARIANTS
    TypeOK
    ForwardedInOrder
    AnswersMatch
    NothingLeftBehind
    CloseHonoured
PROPERTIES
    AnsweredUnlessInterim
