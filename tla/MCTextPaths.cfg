CONSTANTS
  a = a
  b = b
  One = One
  Zero = Zero
  PageNul = PageNul
  Byte = {a, b, One}
  PageDigit = {One, Zero}
  NumNixies = 2
  MaxPage = 11
  FragmentSizes = {1, 2, 6}
  Token <- MCToken
  Arguments <- MCArguments
  ServerValues <- MCServerValues
  MaxUrl = 21
  MaxHost = 4
  MaxPart = 8
  Questions <- MCQuestions
  Texts <- MCTexts
  Keys <- MCKeys
SPECIFICATION Spec
INVARIANTS
  CyclicBufferIsTail
  ValueIsFound
  TubesShowValue
  PartsAreTheOnesAskedFor
  NothingFromEarlierRequests
