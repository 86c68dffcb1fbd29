\* One call.
CONSTANTS
  Calls = {c1}
  Width = 2
  Texts = {"text"}
  NotUtf8 = {}
  TooLong = {}
  Unset = Unset
SPECIFICATION Spec
CHECK_DEADLOCK FALSE
INVARIANT SubIsServed
