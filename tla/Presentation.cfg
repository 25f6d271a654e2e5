SPECIFICATION Presenting
CONSTANTS
  TicksPerSecond <- MCTicksPerSecond
  DeskMandateKey <- MCDeskMandateKey
  DeskReceiptKey <- MCDeskReceiptKey
  BLANK <- MCBLANK
  OVERLONG <- MCOVERLONG
  EndorsedKey <- MCEndorsedKey
  SignatureForms <- MCSignatureForms
  Mandates <- MCMandates
  Misissued <- MCMisissued
  Deals <- MCDeals
  ForeignJwss <- MCForeignJwss
  Disclosures <- MCDisclosures
  Hops <- MCHops
  Charges <- MCCharges
  MaxSegments = 4
  MaxNesting = 6
INVARIANTS
  OnlyWhatWasSigned
  OneDocumentOneName
  HopSpeaksForOnePresentation
  DealsReadBack
CHECK_DEADLOCK FALSE
