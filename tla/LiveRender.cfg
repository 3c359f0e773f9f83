SPECIFICATION FairSpec
CONSTANTS
  ticker = ticker
  chat = chat
  Binding = {ticker, chat}
  MaxItems = 2
  Setting <- All
INVARIANTS RegionIsSound InnerSettlesUnlessReplaced
PROPERTIES RendersInOrder WorkEnds DocumentFinishes
