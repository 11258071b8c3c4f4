CONSTANTS
  display = display
  video = video
  k1 = k1
  k2 = k2
  k3 = k3
  k4 = k4
  Products = {display, video}
  BasePrice <- MCBasePrice
  Floor <- MCFloor
  ListCurrency <- MCListCurrency
  SupportedDealTypes <- MCSupportedDealTypes
  QuoteRequests <- MCOneRequest
  Ceilings = {"public"}
  Identities = {{}}
  Keys = {k1, k2, k3, k4}
  Currencies = {"USD", "EUR"}
  Bids <- MCDollarBids
  Plans = {"plan"}
  MAX_SELLER_ROUNDS = 3
  MaxMinted = 3
  NoPrice = NoPrice
SPECIFICATION Spec
SYMMETRY KeySymmetry
INVARIANTS
  TypeOK
  FloorHonoured
  RoundsBounded
  FinalOfferIsFinal
  StandingAskIsStated
  NoMissedTrade
  OneNegotiationPerQuote
  ReplayIsHistory
PROPERTIES
  SellerOnlyConcedes
  ImplementsContract
CHECK_DEADLOCK FALSE
