CONSTANTS
  b1 = b1
  b2 = b2
  k1 = k1
  m1 = m1
  m2 = m2
  m3 = m3
  c1 = c1
  c2 = c2
  Modules = {m1, m2, m3}
  Ids = {b1, b2, k1}
  Slug <- MCSlug
  Defaults <- MCDefaults
  Preset <- MCPreset
  Lists <- MCLists
  Calls = {c1, c2}
SPECIFICATION FairSpec
INVARIANTS TypeOK DefaultsStand
PROPERTIES ReplacesUnlessRaced EveryCallEnds
