SPECIFICATION Spec
CONSTANTS
  c0 = c0
  list = list
  r1 = r1
  r2 = r2
  Id = {c0, list, r1, r2}
  Root = c0
  Nobody = Nobody
  Fallback = Fallback
  Plain = Plain
  Page <- Pages
  Setting = {"contract"}
INVARIANTS ClientKeepsUp ScreenIsFresh LiveNodesStay
PROPERTIES NavigationEnds
