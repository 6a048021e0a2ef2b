SPECIFICATION Spec
CONSTANTS
  p1 = p1
  p2 = p2
  u1 = u1
  x1 = x1
  url = url
  Cmds = {c1, c2}
  Profiles = {p1, p2}
  NoProfile = NoProfile
  Labels = {u1, x1, BadLabel}
  BadLabel = BadLabel
  ToPunycode <- MCToPunycode
  Urls = {url}
  Unset = Unset
  Args <- MCArgs
SYMMETRY Symmetry
INVARIANTS UpDelivers RunsActiveProfile
