\* The same, on first use.
SPECIFICATION MapsSpec
CONSTANTS
    w1 = w1
    w2 = w2
    l1 = l1
    l2 = l2
    Posts = {w1, w2}
    Gets = {l1, l2}
    Starts = {FALSE}
    None = None
SYMMETRY Symmetric
INVARIANT CreatedIsFound
\* Every request of the bounded run has been answered.
CHECK_DEADLOCK FALSE
