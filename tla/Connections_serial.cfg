SPECIFICATION Spec
CONSTANTS
  Writers = {w1, w2}
  Ids = {i1, i2}
  Adapters = {a1, a2, a3}
  Labels = {l1, l2}
  Targets = {t1}
  Bastions = {b1}
  Credentials = {c1}
  Unnamed = Unnamed
  Direct = Direct
  NoCredential = NoCredential
  Keep = Keep
  Disable = Disable
  Blank = Blank
  Missing = Missing
  Unbuilt = Unbuilt
  NoRequest = NoRequest
  Serialised = TRUE
SYMMETRY Symmetry
INVARIANTS
  NoPoolIsLost
  DeletedStaysDeleted
PROPERTIES
  EditsKeepTheRest
  AtomicSpec
