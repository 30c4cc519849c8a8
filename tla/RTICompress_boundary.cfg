\* Control words of 2 + 2 bits; arrays of up to 2^2 = 4 words.
CONSTANTS
  FieldBits = 2
  Values = {0, 1}
  MaxLen = 4
SPECIFICATION Spec
INVARIANT RoundTrip
