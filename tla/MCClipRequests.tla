---------------------------- MODULE MCClipRequests ----------------------------
(* Instances of ClipRequests for TLC.  Coordinates stay below 14, where no   *)
(* edge runs through a sample.                                               *)
EXTENDS ClipRequests

\* Paths are written as sequences of pairs.
Path(points) == [k \in DOMAIN points |-> Point(points[k][1], points[k][2])]

Box(left, top, right, bottom) ==
  Path(<<<<left, top>>, <<right, top>>, <<right, bottom>>, <<left, bottom>>>>)

Request(api, clip_type, fill_rule, subjects, clips) ==
  [api |-> api, checked |-> FALSE, in_range |-> TRUE, clip_type |-> clip_type, fill_rule |-> fill_rule,
   subjects |-> subjects, open_subjects |-> <<>>, clips |-> clips,
   preserve_collinear |-> TRUE, reverse_solution |-> FALSE, decompose |-> TRUE]

Operations == {"intersection", "union", "difference", "xor"}

\* A rectangle and every other one of a grid around it.
Boxes(size) ==
  {Box(l, t, r, b) : <<l, t, r, b>> \in {q \in (0 .. size) \X (0 .. size) \X (0 .. size) \X (0 .. size) :
                                            q[1] < q[3] /\ q[2] < q[4]}}

TwoRectangles ==
  {Request("clip", clip_type, "nonzero", <<Box(1, 1, 3, 3)>>, <<box>>) :
     clip_type \in Operations, box \in Boxes(4)}

\* Subjects in a rectangle: up to two of a list of paths that do not cross.
Frame == Box(0, 0, 12, 12)

Triangle == Path(<<<<4, 4>>, <<8, 4>>, <<6, 8>>>>)

\* A box with a point on a side; one with a point repeated; one with a spike;
\* one with a spike from the corner it begins at; one that is closed by its
\* first point; a bent one; one that crosses itself; flat ones.
Shapes ==
  {Box(2, 2, 10, 10), Reverse(Box(4, 4, 8, 8)), Box(4, 4, 8, 8), Box(8, 0, 12, 2), Triangle,
   Path(<<<<4, 4>>, <<6, 4>>, <<8, 4>>, <<8, 8>>, <<4, 8>>>>),
   Path(<<<<4, 4>>, <<8, 4>>, <<8, 4>>, <<8, 8>>, <<4, 8>>>>),
   Path(<<<<4, 4>>, <<8, 4>>, <<8, 6>>, <<10, 6>>, <<8, 6>>, <<8, 8>>, <<4, 8>>>>),
   Path(<<<<4, 4>>, <<8, 4>>, <<8, 8>>, <<4, 8>>, <<4, 2>>>>),
   Path(<<<<4, 4>>, <<8, 4>>, <<8, 8>>, <<4, 8>>, <<4, 4>>>>),
   Path(<<<<4, 4>>, <<8, 4>>, <<8, 6>>, <<6, 6>>, <<6, 8>>, <<4, 8>>>>),
   Path(<<<<4, 4>>, <<8, 8>>, <<8, 4>>, <<4, 8>>>>),
   Path(<<<<4, 4>>, <<8, 4>>, <<6, 4>>>>), Path(<<<<4, 4>>, <<8, 4>>, <<4, 4>>, <<8, 4>>, <<6, 4>>>>),
   Path(<<<<4, 4>>, <<8, 8>>, <<8, 9>>>>), Box(8, 8, 13, 10), Path(<<<<4, 4>>, <<8, 4>>>>), <<>>}

Contained ==
  {Request("clip", "intersection", fill_rule, subjects, <<Frame>>) :
     fill_rule \in {"evenodd", "nonzero"},
     subjects \in {<<path>> : path \in Shapes}
                    \cup {<<Box(2, 2, 10, 10), path>> : path \in Shapes}
                    \cup {<<path, Box(2, 2, 10, 10)>> : path \in Shapes}
                    \cup {<<Box(1, 1, 11, 11), Reverse(Box(2, 2, 10, 10)), path>> : path \in Shapes}}

\* Operations that are none of the shortcuts' business for one option each,
\* on shapes they would take otherwise.
Meeting(clip_type) == Request("clip", clip_type, "nonzero", <<Box(2, 2, 6, 6)>>, <<Box(4, 4, 8, 8)>>)

OtherOptions ==
  {[Meeting(clip_type) EXCEPT !.fill_rule = fill_rule, !.preserve_collinear = preserve,
                              !.reverse_solution = reverse] :
     clip_type \in Operations, fill_rule \in {"evenodd", "nonzero", "positive", "negative"},
     preserve \in BOOLEAN, reverse \in BOOLEAN}
  \cup {Meeting("noclip"), [Meeting("intersection") EXCEPT !.open_subjects = <<Path(<<<<0, 0>>, <<9, 9>>>>)>>]}

\* Several boxes, and shapes that are no boxes, that may lie apart.
Apart2 ==
  {Request("clip", clip_type, "evenodd", subjects, clips) :
     clip_type \in {"intersection", "difference"},
     subjects \in {<<Box(0, 0, 2, 2), Box(0, 4, 2, 6)>>, <<Triangle>>, <<<<>>>>, <<>>},
     clips \in {<<Box(2, 0, 4, 6), Box(3, 1, 5, 2)>>, <<Box(1, 3, 5, 5)>>, <<Triangle, Box(0, 0, 4, 4)>>, <<>>}}

\* Trees: a first rectangle, and others in it or not.
Trees ==
  {[Request("tree", "union", fill_rule, subjects, <<>>) EXCEPT !.reverse_solution = reverse] :
     fill_rule \in {"nonzero", "evenodd"}, reverse \in BOOLEAN,
     subjects \in {<<Box(0, 0, 8, 8)>>, <<Reverse(Box(0, 0, 8, 8)), Reverse(Box(2, 2, 4, 4))>>,
                   <<Box(0, 0, 8, 8), Reverse(Box(2, 2, 4, 4))>>, <<Box(0, 0, 8, 8), Box(2, 2, 4, 4), Box(4, 4, 8, 8)>>,
                   <<Box(0, 0, 8, 8), Box(2, 2, 10, 4)>>, <<Box(0, 0, 8, 8), Triangle>>, <<>>}}
  \cup {Request("tree", clip_type, "nonzero", <<Box(0, 0, 8, 8)>>, <<Box(2, 2, 4, 4)>>) : clip_type \in Operations}

\* Unions: of boxes in a row, of which some meet, in any order; of one path.
Row == {Box(0, 0, 2, 2), Box(2, 1, 4, 3), Box(5, 0, 7, 2), Box(6, 2, 9, 4)}

Union(subjects) == [Request("union", "union", "positive", subjects, <<>>) EXCEPT !.preserve_collinear = FALSE]

Unions ==
  {Union(subjects) : subjects \in SetToAllKPermutations(Row) \cup {<<path>> : path \in Shapes}}
  \cup {[Union(<<path, Box(0, 0, 2, 2), <<>>, Box(9, 0, 12, 2)>>) EXCEPT
           !.fill_rule = fill_rule, !.decompose = decompose, !.preserve_collinear = preserve,
           !.reverse_solution = reverse] :
          path \in Shapes \ {Box(2, 2, 10, 10)}, fill_rule \in {"positive", "negative"}, decompose \in BOOLEAN,
          preserve \in BOOLEAN, reverse \in BOOLEAN}

\* Requests of the calls after the first: one for the engine, one whose exact
\* result a preparation keeps, one out of range, one for a shortcut.
ForTheEngine == Request("clip", "union", "nonzero", <<Triangle>>, <<Box(5, 6, 9, 9)>>)

LineInBox ==
  [Request("clip", "intersection", "nonzero", <<>>, <<Box(2, 2, 6, 6)>>) EXCEPT
     !.open_subjects = <<Path(<<<<0, 4>>, <<4, 4>>, <<4, 0>>>>), Path(<<<<3, 3>>, <<5, 3>>, <<7, 3>>>>)>>]

OutOfRange == [ForTheEngine EXCEPT !.in_range = FALSE]

Checked(q) == [q EXCEPT !.checked = TRUE]

RepeatedRequests == {ForTheEngine, LineInBox, OutOfRange, Checked(OutOfRange), Meeting("intersection"),
                     Union(<<Reverse(Triangle), Box(9, 0, 12, 2), Box(8, 1, 10, 5)>>)}

AllRequests ==
  RepeatedRequests \cup TwoRectangles \cup Contained \cup OtherOptions \cup Apart2 \cup Trees \cup Unions
    \cup {Checked(ForTheEngine), Union(<<Box(0, 0, 2, 2), Reverse(Triangle)>>)}

\* The union of a bowtie and a box in it, as a tree.
BowtieRequests ==
  {Request("tree", "union", "nonzero", <<Path(<<<<0, 0>>, <<8, 8>>, <<8, 0>>, <<0, 8>>>>), Box(1, 1, 7, 7)>>, <<>>)}
=============================================================================
