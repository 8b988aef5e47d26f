CONSTANTS
  Threads = {w1, w2}
  None = None
  Otps = {c1}
  OtpLife = 0
  ResetLife = 0
  Forms <- OneForm
SPECIFICATION AccountSpec
SYMMETRY Symmetry
INVARIANT AccountTypeOK PinChosen
PROPERTY CodesInTime
CHECK_DEADLOCK FALSE
