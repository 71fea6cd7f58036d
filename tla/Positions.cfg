SPECIFICATION Spec
CONSTANTS
  o1 = o1
  o2 = o2
  c1 = c1
  Tasks = {o1, o2, c1}
  Setups <- MCSetups
  Target <- MCTarget
  Results <- MCResults
  Answers <- MCAnswers
  Accounts <- MCAccounts
  MaxEvents = 1
SYMMETRY Alike
INVARIANT LogIsTheCurve
INVARIANT BooksMatchExchange
INVARIANT MergeLosesNothing
PROPERTY FeeWrittenOnce
CHECK_DEADLOCK FALSE
