------------------------------- MODULE MCFileOps -------------------------------
EXTENDS FileOps
CONSTANTS dir, inner, outer, link
TreeIn == [p \in {dir, inner, outer, link} |-> IF p = inner THEN dir ELSE Root]
=============================================================================
