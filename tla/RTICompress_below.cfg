\* Control words of 3 + 3 bits; arrays shorter than 2^3 words.
CONSTANTS
  FieldBits = 3
  Values = {0, 1, 2}
  MaxLen = 7
SPECIFICATION Spec
INVARIANT TypeOK RoundTrip
