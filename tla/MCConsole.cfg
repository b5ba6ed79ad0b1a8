SPECIFICATION ConsoleSpec
CONSTANTS
  Projects = {p1}
  Seeded = p1
  Orders = {o1, o2}
  FirstOrder = o1
  Actions = {a1}
  MaxEntries = 1
INVARIANT IssuedHashesAreDrawn
