SPECIFICATION Spec
CONSTANTS
  Null = Null
  Garbage = Garbage
INVARIANT FreshPoolCreates
