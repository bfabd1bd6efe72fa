SPECIFICATION MCSpec
CONSTANTS
  Writers = {w1, w2}
  Ids = {i1, i2}
  Adapters = {a1, a2, a3}
  Labels = {l1}
  Targets = {t1}
  Bastions = {b1}
  Credentials = {}
  Unnamed = Unnamed
  Direct = Direct
  NoCredential = NoCredential
  Keep = Keep
  Disable = Disable
  Blank = Blank
  Missing = Missing
  Unbuilt = Unbuilt
  NoRequest = NoRequest
  Serialised = FALSE
  MaxCalls = 4
  MaxDrafts = 2
  Adding = Adding
  Hosts = {h1, h2}
  Passwords = {p1}
  Keys = {k1}
  Pins = {n1}
  MaxEdits = 2
  None = None
INVARIANTS
  TypeOK
  DescribesWhatItServes
  DeadIsBeingReplaced
  QuietListIsTrue
PROPERTIES
  EditKeepsPosition
  DeadConnectionHeals
  WhatIsTypedIsSaved
