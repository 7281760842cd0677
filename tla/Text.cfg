SPECIFICATION Spec
CONSTANTS
  MaxPattern = 5
  MaxNumber = 4
  MaxQuantity = 3
  MaxFile = 3
  MaxTopic = 2
  Statements <- MCStatements
  Width = 8
  Kilo = 4
  Sixty = 3
  Day = 2
INVARIANTS MatchesDenotation NumbersExact 
CHECK_DEADLOCK FALSE
