SPECIFICATION Spec
CONSTANTS
  Den = 20
  Unit = 4
  Handling = 2
  ExpressPremium = 5
  ExpressCost = 3
  Carry <- MCCarry
  Rounds = 3
  Item = 1
  Authorised = {1, 2, 3}
  Catalogues <- MCCatalogues
  Asks <- MCAsks
  MaxAsks = 3
INVARIANTS
  NothingBelowFloor
  NamedPricesAreTheLeast
  EndsInTime
  NeverWalksFromADeal
  AcceptedWasSaid
CHECK_DEADLOCK FALSE
