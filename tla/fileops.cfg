\* A directory with a file in it, a file beside it, and a link to either.
SPECIFICATION Spec
CONSTANTS
  dir = dir
  inner = inner
  outer = outer
  link = link
  Root = Root
  None = None
  Dir = {dir}
  Name = {inner, outer, link}
  Link = {link}
  Op = {o1, o2}
  MaxFiles = 3
  In <- TreeIn
INVARIANTS AppendsSurvive AnswersWereTrue
CHECK_DEADLOCK FALSE
