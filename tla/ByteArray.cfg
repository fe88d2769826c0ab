CONSTANTS
  BaseSize = 2
  ByteBits = 2
  FixedWidth = 2
  LengthWidth = 1
  IntBits = 3
  MaxCapacity = 6
  Sizes = {0, 1, 4}
  Seeks = {1, 4}
  Fixeds = {9}
  Uints = {5}
  Ints <- SomeInts
  Strings <- SomeStrings
  FreshBytes = {2}
  Bad = Bad
SPECIFICATION Spec
INVARIANTS CursorInStep DiesOnlyOnEmptyRead RoundTrip ViewsAgree
PROPERTIES ImplementsByteBuffer
CHECK_DEADLOCK FALSE
