CONSTANTS
  display = display
  video = video
  k1 = k1
  k2 = k2
  k3 = k3
  k4 = k4
  Products = {display, video}
  BasePrice <- MCBasePrice
  Floor <- MCFloor
  ListCurrency <- MCListCurrency
  SupportedDealTypes <- MCSupportedDealTypes
  QuoteRequests <- MCAllRequests
  Ceilings = {"public", "agency"}
  Identities = {{}, {"advertiser"}}
  Keys = {k1, k2}
  Currencies = {"USD", "EUR"}
  Bids <- MCMixedBids
  Plans = {"plan"}
  MAX_SELLER_ROUNDS = 2
  MaxMinted = 4
  NoPrice = NoPrice
SPECIFICATION Spec
SYMMETRY KeySymmetry
INVARIANTS
  OneDealPerKey
PROPERTIES
  AgreementBindsBookings
CHECK_DEADLOCK FALSE
