SPECIFICATION OvertakenSpec
CONSTANTS
  c0 = c0
  list = list
  Id = {c0, list}
  Root = c0
  Nobody = Nobody
  Fallback = Fallback
  Plain = Plain
  Page <- Pages
  Setting = {"bundled"}
INVARIANTS ClaimsAreShown
