CONSTANTS
  Elements = {a, b, c}
  None = None
  Droppable <- AllDroppable
  MaxDepth = 3
  Habits <- Orderly
SPECIFICATION Spec
INVARIANTS FocusTold HoverTold DragTold
CHECK_DEADLOCK FALSE
SYMMETRY Symmetry
