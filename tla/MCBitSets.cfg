SPECIFICATION BitSetsSpec
CONSTANTS
  s1 = s1
  s2 = s2
  Sets = {s1, s2}
  tmp = tmp
  local_tmp = local_tmp
  Bits <- MCBits
  ByteLen = 2
  WordLen = 3
  NoCall = NoCall
  Setups <- MCSetups
INVARIANTS BoundsSound EqualsIsExact
PROPERTIES CallsAreExact
