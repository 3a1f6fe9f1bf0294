SPECIFICATION ListSpec
CONSTANTS
  Games <- MCGames
  Shown <- MCShown
  AtStart <- MCAtStart
  Rank <- MCRank
  Order <- MCOrder
  MaxListed = 2
  MaxVisits = 1
  MaxChanges = 1
  MaxFaults = 1
  MaxOps = 1
PROPERTIES
  ReloadsOnFreshNews
  AppListArrives
  HandAddedStays
