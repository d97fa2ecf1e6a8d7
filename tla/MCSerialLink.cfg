SPECIFICATION FairSpec
CONSTANTS
  DBIT = 8
  Bytes <- Corners
  Formats <- MCFormats
  DvsrRange = 2
  Rates <- MCRates
  RxM = 1
  RxOS = 16
  RxSB = 16
  None = None
INVARIANTS
  DeliveredAsSent
  NoSpuriousError
  ReceiverKeepsUp
PROPERTY
  EveryByteDelivered
