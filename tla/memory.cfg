SPECIFICATION Spec
CONSTANTS
  t1 = t1
  t2 = t2
  v1 = v1
  v2 = v2
  Line = 2
  Word = 8
  SpramSize = 5
  IntSize = 4
  Thread <- TwoThreads
  Region <- Ranges
  Value <- TwoValues
  Fresh = v1
  NoMapping = NoMapping
INVARIANTS
  TypeOK
  RefsFollowMappings
  CpuCoherent
  VeneziaCoherent
  
PROPERTY
  ViewsAdvance
SYMMETRY Symmetry
