SPECIFICATION Spec
CONSTANTS
  inr = inr
  usd = usd
  Commands = {c1, c2}
  Currencies = {inr, usd}
  Answers <- MCAnswers
  Subunits = 4
  Asks <- MCAsks
  ModelIds = "str"
  MaxPayments = 2
SYMMETRY Symmetry
INVARIANT
  PaymentsConserveValue
