\* What may be typed into the console, two files being named.
SPECIFICATION Spec
CONSTANTS
  Letters <- MCLetters
  Digits = {"0", "1", "8"}
  DigitValue <- MCDigitValue
  IntValues = 512
  Files = 2
  MaxDigits = 4
INVARIANTS
  AtMostOnePushedBack
  NumberIsTyped
PROPERTIES
  WriteIsConfirmed
  RefusedLineIsDropped
  EndOfInputEnds
CHECK_DEADLOCK FALSE
