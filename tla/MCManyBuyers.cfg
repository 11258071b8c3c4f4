CONSTANTS
  display = display
  banner = banner
  video = video
  Products = {display, banner, video}
  BasePrice <- MCBasePrice
  Floor <- MCFloor
  ListCurrency <- MCListCurrency
  SupportedDealTypes <- MCSupportedDealTypes
  QuoteRequests <- MCQuoteRequests
  Ceilings = {"public", "agency"}
  Identities <- MCIdentities
  Keys <- MCKeys
  Currencies = {"USD", "EUR"}
  Bids <- MCBids
  Plans = {"plan"}
  MAX_SELLER_ROUNDS = 6
  MaxMinted = 12
  NoPrice = NoPrice
  BuyerCount = 3
  Briefs <- MCFewBriefs
  Catalogs <- MCCatalogs
  AdFormats <- MCAdFormats
  BandPerMille = 1500
  MAX_BUYER_ROUNDS = 3
  MaxAmount = 6000
  NoCounter = NoCounter
SPECIFICATION BSpec
INVARIANTS
  RecordsAreOwned
  SidesAgree
CHECK_DEADLOCK FALSE
