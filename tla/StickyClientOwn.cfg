CONSTANTS Tasks = 3
          ClientNum = 2
SPECIFICATION TaskSpec
INVARIANT EachItsOwn
CHECK_DEADLOCK FALSE
