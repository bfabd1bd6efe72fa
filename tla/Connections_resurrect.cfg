SPECIFICATION Spec
CONSTANTS
  Writers = {w1, w2}
  Ids = {i1, i2}
  Adapters = {a1, a2, a3}
  Labels = {l1}
  Targets = {t1}
  Bastions = {b1}
  Credentials = {}
  Unnamed = Unnamed
  Direct = Direct
  NoCredential = NoCredential
  Keep = Keep
  Disable = Disable
  Blank = Blank
  Missing = Missing
  Unbuilt = Unbuilt
  NoRequest = NoRequest
  Serialised = FALSE
SYMMETRY Symmetry
INVARIANTS
  DeletedStaysDeleted
