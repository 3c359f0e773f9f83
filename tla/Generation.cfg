SPECIFICATION Spec
CONSTANTS
  logo = logo
  photo = photo
  w1 = w1
  w2 = w2
  Version = {1, 2}
  Value = {logo, photo}
  Claims <- References
  Edits <- Sources
  Fails <- Refused
  Workers = {w1, w2}
  Setting = {"quiet", "forward"}
INVARIANTS ConversionsAreSound
PROPERTIES SkipIsFresh FirstErrorInOrder RunEnds
