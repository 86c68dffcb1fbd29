\* Two calls and integers of two bits. An exception says something short in UTF-8, or not
\* in UTF-8, or too much.
CONSTANTS
  Calls = {c1, c2}
  Width = 2
  Texts = {"text", "raw", "long"}
  NotUtf8 = {"raw"}
  TooLong = {"long"}
  Unset = Unset
SPECIFICATION Spec
CHECK_DEADLOCK FALSE
INVARIANTS AddIsAnswered ErrorNamesTheCause UnheardOnlyIfMute OnlySubCrashes
