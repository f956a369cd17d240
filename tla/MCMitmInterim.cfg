SPECIFICATION Spec
CONSTANTS
    Token = Token
    Own = Own
    MaxRequests = 2
PROPERTIES
    EveryRequestAnswered
