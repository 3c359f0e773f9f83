SPECIFICATION FairSpec
CONSTANTS
  outer = outer
  inner = inner
  side = side
  Boundary = {outer, inner, side}
  Enclosing <- Pair
  Recovers = {outer, side}
  Setting <- Options
INVARIANTS SequenceIsSound CancellationIsSilent
PROPERTIES KeepsPromise CancellationDrains RenderTerminates ItemsHavePlaceholders
