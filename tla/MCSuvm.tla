------------------------------- MODULE MCSuvm -------------------------------
(***************************************************************************)
(* Instances of Suvm: two threads with one spointer each, and three pages  *)
(* in two buckets (0 and 2 collide) over three frames, of which Slack = 1  *)
(* is kept back; the third page therefore has to evict.                    *)
(***************************************************************************)
EXTENDS Suvm, TLC

CONSTANTS t1, t2, a1, a2

OneEach == (a1 :> t1) @@ (a2 :> t2)

\* One thread writes every page, the other writes one and reads one of the
\* two that share a bucket; both read, one of them only the last two pages.
MixedUse   == (a1 :> (Pages \X {TRUE})) @@ (a2 :> {<<0, TRUE>>, <<2, FALSE>>})
TwoReaders == (a1 :> ({0, 1, 2} \X {FALSE})) @@ (a2 :> ({2, 3} \X {FALSE}))

\* Frames and values are interchangeable.
FrameValueSymmetry ==
  {f @@ v : f \in Permutations(Frames), v \in Permutations(Values)}
=============================================================================
