----------------------------- MODULE MCFaceData -----------------------------
(* Three people, one with two pictures; seven buckets' worth of collisions  *)
(* in a table that is exactly full at the end; pictures of four by four    *)
(* pixels in four blocks.                                                  *)
EXTENDS FaceData, TLC

Row(a, b, c, d) == [k \in 0..3 |-> <<a, b, c, d>>[k + 1]]
Picture(a, b, c, d) == [k \in 0..3 |-> <<a, b, c, d>>[k + 1]]

MCPictures == << Picture(Row(2, 0, 2, 0), Row(0, 1, 2, 3), Row(2, 0, 1, 0), Row(3, 2, 0, 1)),
                Picture(Row(1, 1, 1, 1), Row(1, 3, 1, 1), Row(1, 1, 0, 2), Row(0, 1, 1, 1)) >>
MCFiles == { [name |-> "n1", seq |-> 1], [name |-> "n1", seq |-> 2],
             [name |-> "n2", seq |-> 1], [name |-> "n9", seq |-> 1] }
MCNumber == ("n1" :> 0) @@ ("n2" :> 2) @@ ("n9" :> 9)
============================================================================
