\* Two agents move two files to one name.
SPECIFICATION Spec
CONSTANTS
  dir = dir
  inner = inner
  outer = outer
  link = link
  Root = Root
  None = None
  Dir = {dir}
  Name = {inner, outer, link}
  Link = {link}
  Op = {o1, o2}
  MaxFiles = 3
  In <- TreeIn
PROPERTY MoveNeverClobbers
CHECK_DEADLOCK FALSE
