---------------------------- MODULE MCOutputRings ----------------------------
(***************************************************************************)
(* Instances of OutputRings for TLC.  A drawing is a state the library was *)
(* in when it ran the clip named in the comment above it: at the end of    *)
(* its sweep, or, if it has segments, in the middle of it.  The paths of   *)
(* the clip are subjects; under Intersection, Difference and Xor, and      *)
(* where the clip says so, the second path is a clip.                      *)
(***************************************************************************)
EXTENDS OutputRings

Record(owner, has_edges, ring) == [owner |-> owner, has_edges |-> has_edges, ring |-> ring]

Open(owner, ring) == Record(owner, TRUE, ring)

Closed(owner, ring) == Record(owner, FALSE, ring)

\* The points are named in the order in which the rings are written; stale
\* points name a record that was joined to theirs, flagged ones begin a segment.
Drawing(records, stale, flagged, lefts, joined, kind, preserve) ==
  LET before[r \in Nat] == IF r = 1 THEN 0 ELSE before[r - 1] + Len(records[r - 1].ring)
      place == [p \in 1 .. before[Len(records) + 1] |->
                  CHOOSE r \in DOMAIN records : before[r] < p /\ p <= before[r + 1]]
      at(p) == p - before[place[p]]
      size(p) == Len(records[place[p]].ring)
  IN  [op |-> [p \in DOMAIN place |->
         [pt |-> [x |-> records[place[p]].ring[at(p)][1], y |-> records[place[p]].ring[at(p)][2]],
          next |-> IF at(p) = size(p) THEN before[place[p]] + 1 ELSE p + 1,
          prev |-> IF at(p) = 1 THEN before[place[p]] + size(p) ELSE p - 1,
          outrec |-> IF \E s \in stale : s[1] = p THEN (CHOOSE s \in stale : s[1] = p)[2] ELSE place[p],
          has_horizontal_segment |-> p \in flagged]],
       rec |-> [r \in DOMAIN records |->
         [NewRecord(IF records[r].ring = <<>> THEN None ELSE before[r] + 1, records[r].owner)
            EXCEPT !.has_edges = records[r].has_edges]],
       segments |-> [k \in DOMAIN lefts |-> [left |-> lefts[k], right |-> None, left_to_right |-> TRUE]],
       joins |-> joined,
       options |-> [answer |-> kind, preserve_collinear |-> preserve]]

\* Each drawing is what the engine had made of the clip named above it.
Recorded == {
  \* Union, EvenOdd: (2,3)(2,1)(5,4) (1,5)(1,0)(0,3)(0,2)
  Drawing(<<Closed(0, <<<<1, 0>>, <<1, 5>>, <<0, 2>>, <<0, 3>>>>),
      Closed(1, <<<<2, 1>>, <<5, 4>>, <<2, 3>>>>),
      Closed(1, <<>>)>>,
    {<<1, 3>>, <<4, 3>>}, {}, <<>>, <<>>, "topology", TRUE),
  \* Union, EvenOdd: (2,3)(2,1)(5,4) (1,5)(1,0)(0,3)(0,2)
  Drawing(<<Closed(0, <<<<1, 0>>, <<1, 5>>, <<0, 2>>, <<0, 3>>>>),
      Closed(1, <<<<2, 1>>, <<5, 4>>, <<2, 3>>>>),
      Closed(1, <<>>)>>,
    {<<1, 3>>, <<4, 3>>}, {}, <<>>, <<>>, "tree", TRUE),
  \* Union, EvenOdd: (2,0)(1,3)(1,3)(2,0)(1,2)(3,3)
  Drawing(<<Closed(0, <<<<2, 0>>, <<3, 3>>, <<1, 2>>, <<1, 3>>, <<2, 0>>>>),
      Closed(1, <<>>),
      Closed(1, <<>>),
      Closed(0, <<<<2, 0>>>>)>>,
    {<<1, 3>>, <<2, 2>>, <<3, 2>>}, {}, <<>>, <<>>, "paths", FALSE),
  \* Difference, NonZero: (3,0)(9,1)(6,6)(8,6)(3,7)(6,6) (4,10)(9,11)(6,7)(5,0)(11,7)
  Drawing(<<Closed(0, <<<<3, 0>>, <<5, 0>>, <<5, 6>>, <<3, 7>>, <<6, 6>>>>),
      Closed(1, <<<<5, 0>>, <<9, 1>>, <<7, 3>>>>)>>,
    {}, {}, <<>>, <<>>, "topology", FALSE),
  \* Union, NonZero: (3,2)(0,0)(2,0)(0,2) (1,3)(3,3)(0,1)(2,3)
  Drawing(<<Closed(0, <<<<2, 3>>, <<3, 3>>, <<1, 3>>>>)>>,
    {}, {}, <<2, 1>>, <<>>, "paths", FALSE),
  \* Union, NonZero: (4,1)(3,1)(3,3)(3,3)(3,4)(4,4) (1,2)(0,2)(0,1)(1,1)(1,0)(1,0)
  Drawing(<<Closed(2, <<<<3, 1>>, <<4, 1>>, <<4, 4>>, <<3, 4>>, <<3, 3>>>>),
      Closed(0, <<<<1, 0>>, <<1, 2>>, <<0, 2>>, <<0, 1>>, <<1, 1>>>>)>>,
    {}, {1, 4, 8, 9}, <<>>, <<>>, "tree", FALSE),
  \* Difference, EvenOdd: (1,1)(2,3)(2,1)(1,1)(3,2) (2,3)(0,2)(0,3)(1,0)(3,2)
  Drawing(<<Closed(0, <<<<2, 3>>>>)>>,
    {}, {}, <<>>, <<>>, "topology", FALSE),
  \* Union, NonZero: (3,3)(3,3)(1,0)(3,1) (0,0)(1,2)(2,0)
  Drawing(<<Closed(2, <<<<1, 0>>, <<3, 1>>, <<3, 3>>>>),
      Closed(0, <<<<0, 0>>, <<2, 0>>, <<1, 0>>, <<1, 0>>, <<1, 2>>>>),
      Closed(2, <<>>)>>,
    {<<6, 3>>}, {4}, <<>>, <<>>, "topology", FALSE),
  \* Union, EvenOdd: (4,0)(3,0)(3,3)(4,3)(4,3) (3,2)(3,2)(3,1)(4,1)(4,0)(0,0)(0,2)(3,2)
  Drawing(<<Closed(2, <<<<4, 0>>, <<4, 0>>, <<4, 3>>, <<3, 3>>, <<3, 2>>, <<3, 1>>, <<4, 1>>>>),
      Closed(0, <<<<0, 0>>, <<4, 0>>, <<3, 0>>, <<3, 2>>, <<0, 2>>>>),
      Closed(2, <<>>)>>,
    {<<9, 3>>}, {2, 4, 6, 8, 12}, <<>>, <<>>, "topology", TRUE),
  \* Union, NonZero: (6,6)(8,5)(11,8)(3,0)
  Drawing(<<Closed(0, <<<<3, 0>>, <<11, 8>>, <<8, 5>>, <<6, 6>>>>),
      Closed(1, <<>>)>>,
    {<<1, 2>>, <<3, 2>>, <<4, 2>>}, {}, <<>>, <<>>, "paths", TRUE),
  \* Union, EvenOdd: (0,1)(2,3)(3,3) (2,3)(3,3)(1,2)
  Drawing(<<Open(0, <<<<3, 3>>, <<3, 3>>>>),
      Closed(1, <<>>),
      Closed(0, <<<<2, 3>>, <<2, 3>>, <<3, 3>>>>)>>,
    {<<1, 2>>}, {}, <<1, 5, 3, 5, 4>>, <<>>, "paths", TRUE),
  \* Union, NonZero: (0,3)(0,6)(8,1)(5,0)(5,3)(3,3)
  Drawing(<<Closed(0, <<<<5, 0>>, <<8, 1>>, <<0, 6>>, <<0, 3>>, <<5, 3>>>>)>>,
    {}, {4}, <<>>, <<>>, "tree", FALSE),
  \* Union, NonZero: (0,0)(0,2)(1,2)(3,3)(1,2)
  Drawing(<<Closed(0, <<<<0, 0>>, <<1, 2>>, <<3, 3>>, <<1, 2>>, <<0, 2>>>>)>>,
    {}, {5}, <<>>, <<>>, "tree", TRUE),
  \* Xor, NonZero: (0,4)(3,4)(3,1)(2,1)(2,2)(0,2) (0,2)(1,2)(1,1)(4,1)(4,3)(0,3)(0,0)(0,0)
  Drawing(<<Closed(2, <<<<3, 3>>, <<3, 4>>, <<0, 4>>, <<0, 3>>>>),
      Closed(0, <<<<4, 1>>, <<4, 3>>, <<3, 3>>, <<3, 1>>, <<2, 1>>, <<2, 1>>, <<2, 2>>, <<0, 2>>, <<0, 2>>, <<0, 3>>, <<0, 2>>, <<0, 2>>, <<1, 2>>, <<1, 1>>, <<1, 1>>>>),
      Closed(2, <<>>),
      Closed(2, <<>>),
      Closed(0, <<<<0, 0>>>>)>>,
    {<<5, 4>>, <<6, 3>>, <<7, 3>>, <<8, 3>>, <<9, 4>>, <<10, 4>>, <<15, 4>>, <<16, 4>>, <<17, 4>>, <<18, 4>>, <<19, 4>>}, {3, 4, 7, 10, 13, 15, 18}, <<>>, <<<<16, 12>>, <<19, 9>>>>, "topology", FALSE),
  \* Difference, EvenOdd: (0,3)(1,3)(0,1)(1,2) (0,0)(1,3)(2,3)
  Drawing(<<Closed(0, <<<<0, 1>>, <<1, 3>>, <<0, 3>>, <<1, 2>>>>)>>,
    {}, {3}, <<>>, <<>>, "paths", TRUE),
  \* Xor, NonZero: (0,4)(3,4)(3,1)(2,1)(2,2)(0,2) (0,2)(1,2)(1,1)(4,1)(4,3)(0,3)(0,0)(0,0)
  Drawing(<<Closed(2, <<<<3, 3>>, <<3, 4>>, <<0, 4>>, <<0, 3>>>>),
      Closed(0, <<<<4, 1>>, <<4, 3>>, <<3, 3>>, <<3, 1>>, <<2, 1>>, <<2, 1>>, <<2, 2>>, <<0, 2>>, <<0, 2>>, <<0, 3>>, <<0, 2>>, <<0, 2>>, <<1, 2>>, <<1, 1>>, <<1, 1>>>>),
      Closed(2, <<>>),
      Closed(2, <<>>),
      Closed(0, <<<<0, 0>>>>)>>,
    {<<5, 4>>, <<6, 3>>, <<7, 3>>, <<8, 3>>, <<9, 4>>, <<10, 4>>, <<15, 4>>, <<16, 4>>, <<17, 4>>, <<18, 4>>, <<19, 4>>}, {3, 4, 7, 10, 13, 15, 18}, <<>>, <<<<16, 12>>, <<19, 9>>>>, "tree", FALSE),
  \* Union, NonZero: (2,3)(7,9)(6,7)(2,5)(5,4)(6,10)(6,7)
  Drawing(<<Closed(4, <<<<5, 6>>, <<6, 7>>, <<7, 9>>, <<6, 7>>, <<6, 10>>, <<5, 7>>, <<4, 6>>>>),
      Closed(1, <<>>),
      Closed(1, <<>>),
      Closed(7, <<<<5, 4>>, <<5, 6>>, <<4, 6>>, <<2, 5>>, <<3, 4>>, <<3, 4>>>>),
      Closed(4, <<>>),
      Closed(4, <<>>),
      Closed(0, <<<<2, 3>>, <<3, 4>>>>)>>,
    {<<1, 3>>, <<3, 2>>, <<8, 6>>, <<9, 5>>, <<13, 6>>}, {}, <<>>, <<>>, "tree", TRUE),
  \* Union, EvenOdd: (1,2)(0,3)(0,2)(3,2)(1,0)
  Drawing(<<Closed(0, <<<<1, 2>>, <<1, 2>>, <<0, 3>>, <<0, 2>>>>),
      Closed(0, <<<<1, 0>>, <<3, 2>>, <<1, 2>>>>)>>,
    {}, {4, 7}, <<>>, <<>>, "topology", TRUE),
  \* Union, NonZero: (10,6)(4,7)(9,8)(1,11)(7,6)(4,8)(7,1)
  Drawing(<<Closed(2, <<<<5, 7>>, <<9, 8>>, <<1, 11>>>>),
      Closed(0, <<<<7, 1>>, <<10, 6>>, <<6, 6>>, <<7, 6>>, <<6, 6>>, <<4, 7>>, <<5, 7>>, <<4, 8>>>>),
      Closed(2, <<<<6, 6>>, <<5, 7>>>>),
      Closed(2, <<>>)>>,
    {<<6, 4>>}, {}, <<>>, <<>>, "topology", FALSE),
  \* Union, EvenOdd: (0,1)(3,1)(3,2)(0,2) (3,0)(0,0)(0,3)(0,3)(3,3)
  Drawing(<<Closed(0, <<<<0, 0>>, <<3, 0>>, <<3, 3>>, <<0, 3>>>>),
      Closed(1, <<<<3, 1>>, <<0, 1>>, <<0, 2>>, <<3, 2>>>>)>>,
    {}, {1, 4, 6, 7}, <<>>, <<>>, "tree", FALSE),
  \* Union, NonZero: (1,0)(3,1)(0,4)(0,0)(1,4)(1,4)(3,0)(4,0)
  Drawing(<<Closed(0, <<<<0, 3>>, <<0, 3>>, <<0, 4>>>>),
      Closed(0, <<<<1, 0>>, <<3, 0>>, <<1, 4>>, <<0, 3>>, <<3, 1>>>>),
      Closed(0, <<<<0, 0>>>>)>>,
    {}, {4}, <<>>, <<>>, "topology", FALSE),
  \* Union, NonZero: (11,11)(10,0)(3,5)(2,2)(2,2)(11,8)(10,10)(7,11)
  Drawing(<<Closed(0, <<<<10, 0>>, <<11, 11>>, <<7, 11>>, <<10, 10>>, <<11, 8>>, <<4, 3>>>>),
      Closed(0, <<<<2, 2>>, <<4, 3>>, <<3, 5>>>>)>>,
    {}, {3}, <<>>, <<>>, "paths", FALSE),
  \* Union, EvenOdd: (0,2)(0,2)(0,1)(2,1)(2,0)(1,0)(1,1)(0,1)
  Drawing(<<Closed(0, <<<<1, 0>>, <<2, 0>>, <<2, 1>>, <<0, 1>>, <<0, 1>>, <<0, 2>>, <<0, 1>>, <<0, 1>>, <<1, 1>>>>)>>,
    {}, {1, 5, 7}, <<>>, <<<<8, 4>>>>, "paths", TRUE),
  \* Union, EvenOdd: (4,0)(5,1)(3,2)(3,1)(3,2)(3,0)(4,3)(5,0)
  Drawing(<<Closed(0, <<<<4, 0>>, <<5, 0>>, <<4, 3>>, <<3, 1>>, <<5, 1>>>>),
      Closed(0, <<<<3, 0>>, <<3, 1>>, <<3, 2>>, <<3, 2>>>>),
      Closed(2, <<>>),
      Closed(0, <<<<3, 1>>>>)>>,
    {<<6, 3>>, <<7, 3>>, <<9, 3>>}, {1}, <<>>, <<>>, "tree", TRUE),
  \* Xor, EvenOdd: (0,1)(1,3)(2,2)(1,0) (2,1)(1,2)(3,2)(0,3)
  Drawing(<<Closed(0, <<<<0, 2>>, <<0, 2>>, <<0, 3>>>>),
      Closed(1, <<<<1, 2>>, <<1, 3>>, <<0, 2>>>>),
      Closed(1, <<<<2, 2>>, <<3, 2>>, <<1, 2>>, <<1, 2>>>>),
      Closed(0, <<<<1, 0>>, <<2, 2>>, <<1, 2>>, <<1, 2>>, <<2, 1>>, <<0, 2>>, <<0, 1>>>>),
      Closed(4, <<>>)>>,
    {<<11, 5>>, <<15, 5>>, <<16, 5>>, <<17, 5>>}, {9, 14}, <<>>, <<<<10, 13>>>>, "topology", TRUE),
  \* Union, EvenOdd: (2,3)(1,3)(1,3)(4,3)(4,0)(1,0)(2,0) (3,0)(1,0)(1,0)(2,0)(2,0)(1,0)(1,3)(3,3)
  Drawing(<<Closed(0, <<<<3, 3>>>>),
      Closed(4, <<<<3, 0>>, <<4, 0>>, <<4, 3>>, <<3, 3>>>>),
      Closed(0, <<<<2, 3>>, <<2, 3>>, <<3, 3>>, <<1, 3>>, <<1, 3>>, <<1, 3>>>>),
      Closed(0, <<<<1, 0>>, <<3, 0>>, <<2, 0>>, <<2, 3>>, <<1, 3>>, <<1, 3>>>>),
      Closed(4, <<>>)>>,
    {<<13, 5>>}, {2, 5, 6, 10, 12, 17}, <<>>, <<<<11, 16>>, <<7, 9>>>>, "tree", FALSE),
  \* Union, EvenOdd: (2,2)(1,3)(3,0)(3,1)
  Drawing(<<Closed(0, <<<<3, 0>>, <<3, 1>>, <<2, 2>>, <<1, 3>>>>)>>,
    {}, {}, <<>>, <<>>, "paths", FALSE),
  \* Union, NonZero: (3,0)(2,3)(1,0)(3,1)
  Drawing(<<Closed(0, <<<<3, 0>>, <<2, 3>>, <<1, 0>>, <<3, 1>>>>),
      Closed(1, <<>>)>>,
    {<<1, 2>>, <<4, 2>>}, {}, <<>>, <<>>, "tree", FALSE),
  \* Difference, NonZero: (2,5)(5,3)(4,4)(4,0) (2,5)(2,0)(2,4)(2,3)
  Drawing(<<Closed(0, <<<<4, 0>>, <<4, 4>>, <<5, 3>>, <<2, 5>>>>),
      Closed(1, <<>>)>>,
    {<<2, 2>>, <<3, 2>>}, {}, <<>>, <<>>, "paths", FALSE),
  \* Xor, EvenOdd: (3,0)(1,1)(3,3)(1,3) (1,1)(2,2)(0,0)(0,3)(3,0)
  Drawing(<<Closed(0, <<<<0, 0>>, <<1, 1>>, <<0, 3>>>>),
      Closed(3, <<<<1, 1>>, <<3, 3>>, <<1, 3>>>>),
      Closed(1, <<<<1, 1>>, <<2, 2>>>>),
      Closed(0, <<<<3, 0>>, <<1, 1>>>>),
      Closed(1, <<<<1, 1>>>>),
      Closed(0, <<<<3, 0>>>>),
      Closed(4, <<>>)>>,
    {<<9, 7>>}, {6}, <<>>, <<>>, "tree", FALSE),
  \* Union, NonZero: (2,4)(4,5)(3,5)(1,2)(3,0)
  Drawing(<<Closed(0, <<<<3, 0>>, <<2, 4>>, <<4, 5>>, <<3, 5>>, <<1, 2>>>>)>>,
    {}, {4}, <<>>, <<>>, "tree", TRUE),
  \* Union, NonZero: (2,4)(4,5)(3,5)(1,2)(3,0)
  Drawing(<<Closed(0, <<<<3, 0>>, <<2, 4>>, <<4, 5>>, <<3, 5>>, <<1, 2>>>>)>>,
    {}, {4}, <<>>, <<>>, "topology", TRUE),
  \* Union, NonZero: (8,1)(5,10)(8,5)(2,8)
  Drawing(<<Closed(2, <<<<8, 5>>, <<5, 10>>, <<6, 5>>>>),
      Closed(0, <<<<8, 1>>, <<6, 5>>, <<2, 8>>>>)>>,
    {}, {}, <<>>, <<>>, "tree", FALSE),
  \* Union, EvenOdd: (4,0)(1,0)(1,2)(1,2)(1,4)(4,4) (2,1)(4,1)(4,2)(0,2)(2,2)
  Drawing(<<Closed(0, <<<<1, 0>>, <<4, 0>>, <<4, 4>>, <<1, 4>>, <<1, 2>>, <<1, 2>>, <<2, 2>>, <<4, 2>>, <<4, 1>>, <<2, 1>>, <<2, 2>>, <<1, 2>>, <<1, 2>>>>),
      Closed(1, <<>>),
      Closed(0, <<<<1, 2>>, <<1, 2>>, <<0, 2>>>>),
      Closed(1, <<>>)>>,
    {<<1, 4>>, <<2, 4>>, <<7, 2>>, <<8, 2>>, <<9, 4>>, <<10, 4>>, <<11, 4>>, <<12, 4>>, <<13, 4>>}, {1, 4, 5, 10, 13, 16}, <<>>, <<<<6, 12>>>>, "topology", TRUE),
  \* Union, NonZero: (1,2)(1,3)(2,2) (0,1)(2,2)(0,2)
  Drawing(<<Closed(0, <<<<1, 2>>, <<1, 2>>, <<2, 2>>, <<1, 3>>>>),
      Closed(0, <<<<0, 1>>, <<2, 2>>, <<0, 2>>, <<0, 2>>>>)>>,
    {}, {1, 8}, <<>>, <<<<2, 7>>>>, "paths", FALSE),
  \* Union, EvenOdd: (1,5)(5,3)(5,1) (3,2)(1,4)(0,0)(2,0)(0,1)(2,3)
  Drawing(<<Closed(2, <<<<5, 1>>, <<5, 3>>, <<1, 5>>>>),
      Closed(0, <<<<2, 0>>, <<0, 1>>, <<2, 3>>, <<3, 2>>, <<1, 4>>, <<0, 0>>>>),
      Closed(2, <<>>)>>,
    {<<6, 3>>, <<7, 3>>}, {9}, <<>>, <<>>, "tree", FALSE),
  \* Union, NonZero: (7,1)(9,2)(4,7)(10,3)(11,2)(0,3)(11,0)
  Drawing(<<Closed(2, <<<<11, 2>>, <<10, 3>>, <<4, 7>>, <<8, 2>>>>),
      Closed(0, <<<<11, 0>>, <<7, 1>>, <<9, 2>>, <<8, 2>>, <<0, 3>>>>)>>,
    {}, {}, <<>>, <<>>, "topology", TRUE),
  \* Union, EvenOdd: (10,1)(1,9)(7,6)(11,6)(3,7)(7,0)(6,1)
  Drawing(<<Closed(2, <<<<5, 6>>, <<1, 9>>, <<3, 7>>>>),
      Closed(0, <<<<7, 0>>, <<6, 1>>, <<10, 1>>, <<3, 7>>>>),
      Closed(2, <<<<11, 6>>, <<5, 6>>, <<7, 6>>>>)>>,
    {}, {5, 10}, <<>>, <<>>, "tree", FALSE),
  \* Union, EvenOdd: (4,1)(9,5)(8,11)(11,10) (7,5)(1,1)(3,2)(1,8)
  Drawing(<<Closed(0, <<<<8, 7>>, <<11, 10>>, <<8, 11>>>>),
      Closed(0, <<<<1, 1>>, <<7, 5>>, <<1, 8>>, <<3, 2>>>>),
      Closed(0, <<<<4, 1>>, <<9, 5>>, <<8, 7>>>>)>>,
    {}, {}, <<>>, <<>>, "paths", FALSE),
  \* Union, NonZero: (7,10)(9,0)(9,7)(6,8)(1,5)(2,9)(9,7)
  Drawing(<<Closed(4, <<<<9, 7>>, <<7, 10>>, <<7, 7>>>>),
      Closed(0, <<<<1, 5>>, <<6, 8>>, <<7, 7>>, <<7, 7>>, <<2, 9>>>>),
      Closed(2, <<>>),
      Closed(0, <<<<9, 0>>, <<9, 7>>, <<7, 7>>>>)>>,
    {<<5, 3>>, <<6, 3>>}, {}, <<>>, <<>>, "topology", TRUE),
  \* Xor, EvenOdd: (8,11)(11,4)(9,2) (11,11)(6,11)(2,5)(1,7)
  Drawing(<<Closed(0, <<<<4, 8>>, <<8, 9>>, <<8, 11>>, <<6, 11>>>>),
      Closed(1, <<<<8, 11>>>>),
      Closed(1, <<<<8, 9>>, <<11, 11>>, <<8, 11>>>>),
      Closed(0, <<<<9, 2>>, <<11, 4>>, <<8, 9>>>>),
      Closed(0, <<<<2, 5>>, <<4, 8>>, <<1, 7>>>>)>>,
    {}, {4, 8}, <<>>, <<>>, "topology", FALSE),
  \* Union, NonZero: (0,4)(0,4)(0,0)(1,0)(1,4)(0,4) (0,2)(1,2)(1,0)(0,0)(0,1)(2,1)(2,0)(0,0)
  Drawing(<<Closed(0, <<<<0, 2>>, <<0, 2>>, <<1, 2>>, <<1, 4>>, <<0, 4>>>>),
      Closed(1, <<>>),
      Closed(5, <<<<1, 0>>, <<2, 0>>, <<2, 1>>, <<1, 1>>>>),
      Closed(0, <<<<1, 1>>>>),
      Closed(6, <<<<0, 0>>, <<0, 0>>, <<1, 0>>, <<1, 1>>, <<0, 1>>>>),
      Closed(0, <<<<1, 0>>, <<1, 0>>, <<0, 0>>, <<0, 0>>, <<0, 0>>, <<0, 0>>, <<0, 0>>>>),
      Closed(6, <<>>),
      Closed(6, <<>>)>>,
    {<<3, 2>>, <<17, 7>>, <<18, 8>>, <<19, 8>>, <<20, 8>>}, {1, 5, 6, 9, 11, 15, 20, 21}, <<>>, <<<<22, 19>>, <<12, 18>>>>, "tree", FALSE),
  \* Union, NonZero: (1,4)(3,4)(3,4)(1,4)(1,4)(0,4)(0,3)(2,3)(2,0)(4,0)(4,3)(1,3)
  \* (2,2)(3,2)(3,1)(0,1)(2,1)
  Drawing(<<Closed(0, <<<<4, 0>>, <<4, 3>>, <<1, 3>>, <<1, 3>>, <<1, 4>>, <<0, 4>>, <<0, 3>>, <<0, 3>>, <<2, 3>>, <<2, 0>>>>),
      Closed(1, <<<<2, 1>>, <<2, 2>>, <<3, 2>>, <<3, 1>>>>)>>,
    {}, {4, 6, 7, 10, 11, 12}, <<>>, <<<<8, 3>>>>, "tree", TRUE),
  \* Union, NonZero: (1,2)(1,2)(1,1)(2,1)(2,3)(2,3)(1,3) (0,0)(0,0)(0,1)(1,1)(1,2)(3,2)(3,1)(0,1)
  Drawing(<<Closed(0, <<<<1, 2>>, <<1, 2>>, <<2, 2>>, <<2, 3>>, <<1, 3>>>>),
      Closed(3, <<<<2, 1>>, <<3, 1>>, <<3, 2>>, <<2, 2>>>>),
      Closed(0, <<<<2, 1>>, <<2, 1>>, <<1, 1>>, <<1, 1>>, <<0, 1>>, <<0, 1>>, <<0, 1>>, <<0, 1>>, <<1, 1>>, <<1, 1>>>>),
      Closed(3, <<>>),
      Closed(3, <<>>),
      Closed(0, <<<<0, 0>>>>)>>,
    {<<10, 5>>, <<11, 4>>, <<16, 5>>, <<17, 5>>, <<18, 5>>, <<19, 5>>}, {1, 5, 6, 9, 13, 15, 16, 18}, <<>>, <<<<17, 14>>, <<19, 12>>>>, "topology", FALSE),
  \* Union, EvenOdd: (4,0)(3,0)(3,3)(4,3) (0,3)(4,3)(4,4)(1,4)(0,4)
  Drawing(<<Closed(0, <<<<4, 3>>, <<4, 4>>, <<1, 4>>, <<0, 4>>, <<0, 3>>>>),
      Open(0, <<<<3, 3>>, <<4, 3>>>>)>>,
    {}, {4}, <<5, 7, 6>>, <<>>, "paths", TRUE),
  \* Union, EvenOdd: (2,2)(0,2)(0,0)(0,0)(2,0) (1,0)(0,0)(0,0)(1,0)(1,1)(1,1)
  Drawing(<<Closed(0, <<<<2, 0>>, <<2, 2>>, <<0, 2>>, <<0, 0>>>>),
      Closed(0, <<<<1, 0>>, <<1, 1>>, <<1, 0>>>>)>>,
    {}, {3}, <<7, 4>>, <<>>, "paths", TRUE),
  \* Union, NonZero: (0,3)(3,3)(3,2)(2,2)(0,2) (3,2)(2,2)(2,1)(2,1)(2,0)(1,0)(3,0)
  Drawing(<<Closed(0, <<<<0, 2>>, <<2, 2>>, <<3, 2>>, <<3, 3>>, <<0, 3>>>>),
      Open(0, <<<<2, 2>>, <<3, 2>>>>)>>,
    {}, {5}, <<3, 6, 7>>, <<>>, "paths", TRUE),
  \* Union, EvenOdd: (1,2)(2,2)(2,1)(0,1)(0,0)(1,0)(1,1)(1,1) (1,0)(1,0)(1,1)(2,1)(2,2)(1,2)
  Drawing(<<Closed(0, <<<<1, 2>>>>),
      Closed(0, <<<<2, 2>>, <<2, 2>>, <<1, 2>>>>),
      Closed(0, <<<<1, 1>>>>),
      Closed(3, <<<<2, 1>>>>),
      Closed(6, <<<<1, 1>>, <<1, 1>>, <<2, 1>>>>),
      Open(0, <<<<0, 1>>, <<1, 1>>>>)>>,
    {}, {2, 4}, <<6, 9, 5, 11, 10, 9, 8>>, <<>>, "paths", FALSE),
  \* Union, EvenOdd: (1,2)(3,2)(3,1)(3,1)(3,0)(3,0)(3,3)(1,3)
  \* (2,3)(1,3)(1,4)(2,4)(2,0)(4,0)(4,4)(2,4)
  Drawing(<<Closed(0, <<<<1, 3>>, <<2, 3>>, <<2, 4>>, <<2, 4>>, <<1, 4>>>>),
      Closed(1, <<>>),
      Open(1, <<<<3, 3>>, <<4, 4>>, <<2, 4>>, <<2, 3>>>>),
      Open(0, <<<<1, 3>>, <<2, 3>>>>)>>,
    {<<3, 2>>}, {5, 8}, <<2, 10, 9, 6>>, <<>>, "paths", TRUE),
  \* Xor, EvenOdd: (4,2)(0,2)(0,1)(2,1)(2,2)(4,2) (0,1)(0,1)(0,2)(3,2)(3,1)(0,1)
  Drawing(<<Closed(0, <<<<0, 2>>>>),
      Closed(0, <<<<3, 2>>, <<3, 2>>, <<0, 2>>>>),
      Closed(0, <<<<3, 2>>, <<4, 2>>>>),
      Open(0, <<<<2, 2>>, <<3, 2>>>>)>>,
    {}, {}, <<3, 1, 1, 4, 5, 8, 7>>, <<>>, "paths", FALSE),
  \* Union, EvenOdd: (0,2)(3,2)(3,0)(4,0)(4,2)(0,2) (1,4)(1,4)(1,3)(4,3)(4,1)(3,1)(1,1)
  Drawing(<<Open(0, <<<<4, 2>>, <<4, 3>>, <<1, 3>>, <<1, 4>>, <<1, 2>>, <<3, 2>>>>),
      Closed(1, <<>>),
      Closed(0, <<<<1, 2>>, <<1, 2>>, <<0, 2>>>>),
      Open(0, <<<<1, 2>>, <<3, 2>>>>)>>,
    {<<1, 2>>, <<6, 2>>}, {3}, <<6, 8, 10, 6, 1>>, <<>>, "paths", TRUE),
  \* Union, EvenOdd: (4,0)(3,0)(3,3)(4,3) (0,3)(4,3)(4,4)(1,4)(0,4)
  Drawing(<<Closed(0, <<<<4, 3>>, <<4, 4>>, <<1, 4>>, <<0, 4>>, <<0, 3>>>>),
      Open(0, <<<<3, 3>>, <<4, 3>>>>)>>,
    {}, {4}, <<5, 7, 6>>, <<>>, "paths", TRUE),
  \* Xor, NonZero: (1,2)(0,3)(2,2) (1,2)(1,2)(3,0)(3,0)(2,2)
  Drawing(<<Closed(0, <<<<1, 2>>, <<2, 2>>, <<0, 3>>>>),
      Open(0, <<<<1, 2>>, <<2, 2>>>>)>>,
    {}, {}, <<2, 4, 5>>, <<>>, "paths", TRUE),
  \* Union, NonZero: (0,3)(3,3)(3,2)(2,2)(0,2) (3,2)(2,2)(2,1)(2,1)(2,0)(1,0)(3,0)
  Drawing(<<Closed(0, <<<<0, 2>>, <<2, 2>>, <<3, 2>>, <<3, 3>>, <<0, 3>>>>),
      Open(0, <<<<2, 2>>, <<3, 2>>>>)>>,
    {}, {5}, <<3, 6, 7>>, <<>>, "paths", TRUE),
  \* Union, NonZero: (1,4)(3,4)(3,4)(1,4)(1,4)(0,4)(0,3)(2,3)(2,0)(4,0)(4,3)(1,3)
  \* (2,2)(3,2)(3,1)(0,1)(2,1)
  Drawing(<<Closed(0, <<<<4, 0>>, <<4, 3>>, <<1, 3>>, <<1, 3>>, <<1, 4>>, <<0, 4>>, <<0, 3>>, <<0, 3>>, <<2, 3>>, <<2, 0>>>>),
      Closed(1, <<<<2, 1>>, <<2, 2>>, <<3, 2>>, <<3, 1>>>>)>>,
    {}, {4, 6, 7, 10, 11, 12}, <<>>, <<<<8, 3>>>>, "tree", TRUE),
  \* Union, NonZero: (3,3)(0,3)(2,1)(1,0)
  Drawing(<<Closed(0, <<<<1, 0>>, <<3, 3>>, <<0, 3>>, <<2, 1>>>>)>>,
    {}, {3}, <<>>, <<>>, "topology", FALSE),
  \* Union, NonZero: (1,1)(1,1)(1,0)(0,0)(0,2)(0,2)(1,2) (0,0)(4,0)(4,4)(2,4)(2,0)(0,0)(0,0)
  Drawing(<<Open(0, <<<<2, 4>>, <<4, 4>>>>),
      Open(0, <<<<0, 2>>, <<1, 2>>>>)>>,
    {}, {1}, <<4, 3>>, <<>>, "paths", FALSE),
  \* Intersection, EvenOdd: (1,2)(3,0)(0,1)(3,2)(3,3)(2,1) (2,1)(3,3)(2,3)
  Drawing(<<Closed(0, <<<<2, 1>>>>)>>,
    {}, {}, <<>>, <<>>, "tree", TRUE),
  \* Union, NonZero: (0,1)(2,1)(2,3)(2,3)(0,3) (4,3)(3,3)(3,2)(1,2)(1,1)(0,1)(0,2)(1,2)(4,2)
  Drawing(<<Closed(0, <<<<2, 1>>, <<2, 2>>, <<1, 2>>, <<1, 2>>, <<1, 1>>, <<0, 1>>, <<0, 1>>, <<0, 2>>, <<0, 2>>, <<2, 2>>, <<2, 3>>, <<0, 3>>, <<0, 1>>, <<0, 1>>>>),
      Closed(1, <<<<3, 2>>, <<4, 2>>, <<4, 3>>, <<3, 3>>>>),
      Closed(1, <<<<2, 2>>, <<3, 2>>>>),
      Closed(1, <<>>)>>,
    {<<2, 4>>, <<3, 4>>, <<4, 4>>, <<5, 4>>}, {4, 7, 8, 12, 13, 15, 18, 19}, <<>>, <<<<9, 3>>, <<14, 6>>>>, "tree", FALSE),
  \* Xor, NonZero: (3,4)(0,4)(0,0)(3,0) (1,2)(2,2)(2,3)(4,3)(1,3)
  Drawing(<<Closed(0, <<<<3, 0>>, <<3, 3>>, <<2, 3>>, <<2, 3>>, <<2, 2>>, <<1, 2>>, <<1, 3>>, <<1, 3>>, <<3, 3>>, <<3, 4>>, <<0, 4>>, <<0, 0>>>>),
      Closed(1, <<>>),
      Closed(1, <<<<3, 3>>, <<4, 3>>>>),
      Closed(1, <<>>)>>,
    {<<2, 4>>, <<3, 4>>, <<4, 4>>, <<7, 2>>, <<8, 2>>, <<9, 2>>}, {4, 6, 7, 11, 12, 13}, <<>>, <<<<8, 3>>>>, "tree", FALSE),
  \* Union, NonZero: (2,3)(1,1)(3,1) (2,1)(1,0)(0,3)
  Drawing(<<Closed(0, <<<<1, 0>>, <<2, 1>>, <<1, 1>>, <<1, 1>>, <<0, 3>>>>),
      Closed(1, <<<<3, 1>>, <<2, 3>>, <<1, 1>>, <<1, 1>>, <<2, 1>>>>)>>,
    {}, {4, 8}, <<>>, <<<<9, 3>>>>, "topology", TRUE),
  \* Union, EvenOdd: (2,0)(0,2)(2,3) (0,4)(2,0)(3,2)
  Drawing(<<Closed(0, <<<<2, 0>>, <<3, 2>>, <<0, 4>>, <<0, 2>>, <<2, 3>>>>),
      Closed(1, <<>>),
      Closed(0, <<<<2, 0>>, <<0, 2>>>>),
      Closed(1, <<>>)>>,
    {<<1, 4>>, <<2, 2>>, <<5, 2>>}, {}, <<>>, <<>>, "topology", FALSE),
  \* Union, EvenOdd: (4,2)(1,2)(1,4)(2,4)(3,2)(4,4)(0,4)(1,2)(1,4)(0,4)(4,4) (4,2)(4,4)(0,4)(1,1)
  Drawing(<<Closed(2, <<<<0, 4>>>>),
      Closed(0, <<<<1, 1>>, <<4, 2>>, <<1, 2>>, <<1, 2>>, <<0, 4>>>>),
      Closed(1, <<<<2, 4>>>>),
      Closed(8, <<<<4, 4>>, <<4, 4>>, <<2, 4>>, <<2, 4>>>>),
      Closed(7, <<<<1, 4>>, <<1, 4>>, <<1, 4>>, <<1, 4>>, <<1, 4>>, <<2, 4>>, <<0, 4>>, <<0, 4>>, <<0, 4>>, <<0, 4>>>>),
      Closed(2, <<<<0, 4>>>>),
      Closed(2, <<<<0, 4>>>>),
      Closed(2, <<<<2, 4>>, <<2, 4>>, <<1, 4>>, <<1, 4>>, <<1, 4>>, <<0, 4>>, <<0, 4>>, <<1, 4>>, <<1, 4>>>>),
      Closed(8, <<<<1, 4>>>>),
      Closed(8, <<>>),
      Closed(8, <<>>),
      Closed(2, <<<<1, 4>>>>),
      Closed(2, <<<<3, 2>>, <<4, 4>>, <<2, 4>>, <<2, 4>>>>),
      Closed(2, <<>>),
      Closed(2, <<<<4, 2>>>>),
      Closed(2, <<>>)>>,
    {<<3, 16>>, <<4, 14>>, <<24, 11>>, <<26, 10>>, <<27, 10>>, <<32, 11>>}, {5, 8, 10, 12, 13, 20, 27, 30, 32, 38}, <<>>, <<<<21, 29>>, <<14, 19>>, <<15, 18>>, <<16, 26>>, <<11, 37>>>>, "topology", FALSE)}

\* Clips whose topology the engine answers otherwise than their tree.
LostInTopology == {
  \* Union, EvenOdd: (1,3)(2,0)(0,1)(0,0)
  Drawing(<<Closed(0, <<<<2, 0>>, <<1, 3>>, <<0, 0>>, <<0, 1>>>>),
      Closed(1, <<>>)>>,
    {<<1, 2>>, <<4, 2>>}, {}, <<>>, <<>>, "topology", FALSE)}
=============================================================================
