\* Every key of every portal, two saves.
SPECIFICATION FairSpec
CONSTANTS
  Save = {s1, s2}
  Portal <- Portals
  Screen <- MCScreen
  Key <- MCKey
  Resource <- MCResource
  Mutation <- MCMutation
  ScreensOf <- MCScreensOf
  Watches <- MCWatches
  Offers <- MCOffers
  Form <- MCForm
  Behind <- MCBehind
  Reads <- MCReads
  Alters <- MCAlters
  Refreshes <- MCRefreshes
  SetsByHand <- MCSetsByHand
  Gaps <- MCGaps
  NoForm = NoForm
  NoData = NoData
INVARIANT OwnWritesShown
INVARIANT NoRevert
PROPERTY LoadSettles
CHECK_DEADLOCK FALSE
