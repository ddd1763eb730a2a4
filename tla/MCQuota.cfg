SPECIFICATION QuotaSpec
CONSTANTS
  o1 = o1
  o2 = o2
  o3 = o3
  k1 = k1
  Ops = {o1, o2, o3}
  Kinds = {k1}
  Units = {0, 1, 3}
  Limits <- MCLimits
INVARIANTS
  Balanced
PROPERTIES
  OverdrawnBySettle
