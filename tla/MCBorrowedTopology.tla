------------------------- MODULE MCBorrowedTopology -------------------------
(* Model-checking instance of BorrowedTopology. *)
EXTENDS BorrowedTopology

Shape(size, points, closes) == [size |-> size, points |-> points, closes |-> closes]

\* Sizes 0 to 3 with a repeated first point, and ranges that go on
\* beyond their size.
AllShapes ==
  {Shape(0, 0, FALSE), Shape(0, 1, FALSE), Shape(1, 1, FALSE),
   Shape(2, 2, FALSE), Shape(2, 2, TRUE), Shape(2, 3, TRUE), Shape(3, 3, TRUE)}
=============================================================================
