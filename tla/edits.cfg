CONSTANTS
  TableChannels = {c1}
  TableMatchers = {m1}
  TableRows = 3
  TableIds = 3
  RoutedChannels = {c4, c6}
  Matchers <- MCMatchers
  Builtins = {"direct"}
  Names = {n1}
  MaxRules = 2
  MaxId = 2
  Inside <- MCInside
  LanNets = {"lannet"}
  V6Able = {c6}
  Declared = {c6}
  Flows <- MCFlows
  Slots = {a, b}
  ConfSlots = {b}
  Servers = {s1, s2}
  Jobs = {j1, j2}
SPECIFICATION EditsSpec
INVARIANT RulesSound
INVARIANT RoutesTracerAgrees
INVARIANT RoutesClaimedNeverLeaks
INVARIANT RoutesUnmatchedNeverLeaks
INVARIANT RoutesLintIsSound
INVARIANT PinHolds
INVARIANT EnabledHasParams
CHECK_DEADLOCK FALSE
