SPECIFICATION FairSpec
CONSTANTS
  page = page
  body = body
  inner = inner
  total = total
  card = card
  badge = badge
  Cached = {card, badge}
  Await = {page, body, inner, total}
  Setting <- Sound
INVARIANTS StoreIsSound IdsNameBoundaries
PROPERTIES SuccessIsStored
