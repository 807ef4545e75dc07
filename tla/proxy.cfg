SPECIFICATION Spec
CONSTANTS
    Requests = {q1, q2}
    Workers = 1
    MaxLines = 2
CHECK_DEADLOCK FALSE
INVARIANTS
    TypeOK
    ClientsClosed
    HonestAnswer
PROPERTY Served
