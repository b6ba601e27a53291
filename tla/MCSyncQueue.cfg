SPECIFICATION Spec
CONSTANTS
  like = like
  unlike = unlike
  share = share
  Actions = {like, unlike, share}
  Targets = {t1}
  inverse <- MCInverse
  Healable = {like, unlike}
  WithPayload = {share}
  Payloads = {p1, p2}
  NoPayload = NoPayload
  Ids = {i1, i2, i3, i4, i5}
  Workers = {w1}
  Callers = {c1}
  MaxRetries = 2
  NoAction = NoAction
  NoRow = NoRow
  Nobody = Nobody
  NoCall = NoCall
SYMMETRY MCSymmetry
INVARIANTS
  LeasedRowUntouched
PROPERTIES
  RowsLeaveSafely
