------------------------------ MODULE Allocator ------------------------------
(***************************************************************************)
(* What the pool allocator promises its callers: a block is an aligned run *)
(* of atoms, the smallest power of two that holds the bytes asked for; it  *)
(* overlaps no other outstanding block and stays as it is until it is      *)
(* freed; and a request fails only when no aligned run of its size is      *)
(* free, so that free neighbours that were not coalesced never show.       *)
(***************************************************************************)
EXTENDS Integers

CONSTANTS
  NBlock, SzAtom, LogMax, MaxRequest, Null,
  Sizes     \* the byte counts that callers ask for

VARIABLES
  held,     \* first atom of each outstanding block |-> log2 of its size
  result    \* what the last request asked for and was given

Run(i, l)   == i .. i + 2^l - 1
Taken       == UNION {Run(i, held[i]) : i \in DOMAIN held}
FreeRuns(l) == {i \in 0 .. NBlock - 1 : /\ i % 2^l = 0
                                        /\ i + 2^l <= NBlock
                                        /\ Run(i, l) \cap Taken = {}}
Fits(n, l)  == SzAtom * 2^l >= n /\ (l = 0 \/ SzAtom * 2^(l - 1) < n)
Answer(n, p) == result' = [asked |-> n, block |-> p]

Init ==
  /\ held = << >>
  /\ result = [asked |-> 0, block |-> Null]

Allocate(n) ==
  \E l \in 0 .. LogMax : \E i \in FreeRuns(l) :
    /\ Fits(n, l)
    /\ held' = [j \in DOMAIN held \cup {i} |-> IF j = i THEN l ELSE held[j]]
    /\ Answer(n, i)

Refuse(n) ==
  /\ \/ n = 0 \/ n > MaxRequest
     \/ \E l \in 0 .. LogMax : Fits(n, l) /\ FreeRuns(l) = {}
  /\ Answer(n, Null)
  /\ UNCHANGED held

\* A reallocation to a size that the block has room for already.
Keep(n, i) ==
  /\ n <= SzAtom * 2^held[i]
  /\ Answer(n, i)
  /\ UNCHANGED held

Release(i) ==
  /\ held' = [j \in DOMAIN held \ {i} |-> held[j]]
  /\ UNCHANGED result

Next ==
  \/ \E n \in Sizes :
       Allocate(n) \/ Refuse(n) \/ \E i \in DOMAIN held : Keep(n, i)
  \/ \E i \in DOMAIN held : Release(i)

Spec == Init /\ [][Next]_<<held, result>>
=============================================================================
