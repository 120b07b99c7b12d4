SPECIFICATION Spec
CONSTANTS
  MaxConns = 3
  Names = {ann}
  SameIpMax = 2
  None = none
INVARIANTS TypeOK OneDriver UserExists AlwaysAsked OwnAnswers
PROPERTIES StaysCreator LoginsEnd
