CONSTANTS
  NoEvent = NoEvent
  o1 = o1
  r1 = r1
  Order = o1
  EventIds = {e1, e2, e3, e4}
  Commands <- MCCommands
  RequestIds = {"restock-request-1"}
  Products = {"product-a", "product-b"}
  Quantities = {0, 5, 10}
  ReceiptIds = {"warehouse-receipt-1"}
  MaxFacts = 2
  MaxHeld = 3
SPECIFICATION HeldSpec
CHECK_DEADLOCK FALSE
SYMMETRY IdSymmetry
INVARIANTS
  OneLegalLife
  ValidatorSeparatesStale
  MoneyIsCanonical
  GovernedFactsAreGrounded
