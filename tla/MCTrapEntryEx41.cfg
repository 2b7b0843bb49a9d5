CONSTANTS
  Exercises = {"ex41"}
  Values = {v1, v2}
  USER_DEPTH = 2
SPECIFICATION Spec
INVARIANT AnyUserStackKept
