CONSTANTS
  x = x
  y = y
  p = p
  q = q
  m = m
  n1 = n1
  n2 = n2
  Refs = {x, y}
  Places = {p}
  Matchers = {m}
  Names = {n1, n2}
  Builtins = {}
  PortSet = {1, 2, 3}
  WgSet = {1}
  Bundles <- MCBundles
  MaxRows = 2
SPECIFICATION Spec
PROPERTY HandRulesetsStay
CHECK_DEADLOCK FALSE
