SPECIFICATION Spec
CONSTANTS
  ch1 = ch1
  ch2 = ch2
  push = push
  button = button
  None = None
  Channels = {ch1, ch2}
  First = ch1
  MaxFreq = 2
  Shapes = {"a", "b"}
  Long = {}
  Default <- MCDefault
  Tasks = {push, button}
  MaxActs = 3
INVARIANT StartsAsLabelled
