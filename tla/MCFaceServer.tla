---------------------------- MODULE MCFaceServer ----------------------------
(***************************************************************************)
(* Instances of FaceServer: two clients with two requests each, to accept  *)
(* or to reject, in messages of four units that are written in two pieces *)
(* and read in any.  One client may lose its connection.  The build        *)
(* outside the enclave runs two workers, the one in the enclave one; with  *)
(* two it is refuted (FaceShared.cfg).                                     *)
(***************************************************************************)
EXTENDS FaceServer, TLC

CONSTANTS w1, w2, p1, p2

TwoOutside == [b \in Builds |-> IF b = "native" THEN {w1, w2} ELSE {w1}]
TwoInside  == [b \in Builds |-> {w1, w2}]

\* Once a message was cut or a connection freed in use, the run follows the
\* clients only to their first answer: what it checks then says nothing more.
Followed == sound \/ \A c \in Clients : client[c].seq <= 1

RightAndWrong == {<<p1, p1>>, <<p2, p1>>, <<NoPerson, p1>>}
=============================================================================
