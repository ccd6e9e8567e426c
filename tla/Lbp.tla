-------------------------------- MODULE Lbp --------------------------------
(***************************************************************************)
(* Local binary patterns, as every program of the face verification server *)
(* computes them.  The code exists in five copies: in the enclave, in the  *)
(* native server, in the Windows enclave, in the generator of requests and *)
(* in the client.  The bodies of the five are the same token for token, so *)
(* one operator translates them all; what is of each copy's own are its    *)
(* #defines, which therefore are five definitions.  A histogram made by    *)
(* one program is compared with one made by another, so the copies must    *)
(* agree on them; that their bodies stay the same is read, not checked.    *)
(*                                                                         *)
(* An image is a function of rows, a row a function of columns, both from  *)
(* 0.  A histogram is the function from the offsets that occur to their    *)
(* counts: every other int of the array is 0.  Width and Block stand for   *)
(* IMG_WIDTH 512 and BLOCK_WIDTH 16; patterns and bins have their size.    *)
(***************************************************************************)
EXTENDS Integers, Sequences, FiniteSets, FiniteSetsExt, SequencesExt

CONSTANTS Width, Block

Patterns == 0..255
Unset == 255                     \* 0xff in pattern2bin: not yet assigned

Bit(p, k) == (p \div 2^k) % 2

(* The neighbours of a pixel, in the order of the bits 0 to 7. *)
Neighbours ==
  << <<0, -1>>, <<1, -1>>, <<1, 0>>, <<1, 1>>, <<0, 1>>, <<-1, 1>>, <<-1, 0>>, <<-1, -1>> >>

get_pattern(img, r, c) ==
  MapThenSumSet(LAMBDA k : IF img[r + Neighbours[k][1]][c + Neighbours[k][2]] > img[r][c]
                           THEN 2^(k - 1) ELSE 0, 1..8)

is_pattern_uniform(p) ==
  LET transitions == {k \in 1..7 : Bit(p, k) # Bit(p, k - 1)}
      circular == IF Bit(p, 0) # Bit(p, 7) THEN 1 ELSE 0
  IN Cardinality(transitions) + circular < 3

(* The low bit goes round to the top, j times. *)
rotate(p, j) == p \div 2^j + 2^(8 - j) * (p % 2^j)

(* One round of the loop of create_pattern2bin: t.bin is the table, t.next *)
(* the next free bin.                                                      *)
AssignBin(t, i, d) ==
  CASE t.bin[i] # Unset        -> t
    [] t.bin[i] = Unset /\ ~is_pattern_uniform(i)
                               -> [t EXCEPT !.bin[i] = d.len - 1]
    [] OTHER -> LET turned == IF d.rotInvariant THEN {rotate(i, j) : j \in 0..7} ELSE {}
                IN [bin  |-> [p \in Patterns |-> IF p \in turned \cup {i} THEN t.next ELSE t.bin[p]],
                    next |-> t.next + 1]

create_pattern2bin(d) ==
  FoldLeft(LAMBDA t, i : AssignBin(t, i, d),
           [bin |-> [p \in Patterns |-> Unset], next |-> 0],
           [k \in 1..256 |-> k - 1]).bin

(* Only the pixels with eight neighbours count. *)
Interior == (1..(Width - 2)) \X (1..(Width - 2))

(* Where a pixel is counted: the histogram of its block, the bin of its pattern. *)
Offset(img, rc, d, pattern2bin) ==
  (rc[1] \div Block) * (Width \div Block) * d.len + (rc[2] \div Block) * d.len
    + pattern2bin[get_pattern(img, rc[1], rc[2])]

calc_histogram(img, d, pattern2bin) ==
  [o \in {Offset(img, rc, d, pattern2bin) : rc \in Interior} |->
     Cardinality({rc \in Interior : Offset(img, rc, d, pattern2bin) = o})]

(***************************************************************************)
(* The copies: HISTOGRAM_LEN and ROT_INVARIANT as each file defines them,  *)
(* the table each program builds when it starts and the histogram it       *)
(* computes.  The client builds the table and computes no histogram.       *)
(***************************************************************************)
EnclaveDefines == [len |-> 58, rotInvariant |-> TRUE]
NativeDefines == [len |-> 58, rotInvariant |-> TRUE]
WindowsDefines == [len |-> 58, rotInvariant |-> TRUE]
(* Mutant: one copy is built without ROT_INVARIANT. *)
BugGeneratorDefines == [len |-> 58, rotInvariant |-> FALSE]
GeneratorDefines == [len |-> 58, rotInvariant |-> TRUE]
ClientDefines == [len |-> 58, rotInvariant |-> TRUE]

EnclaveBins == create_pattern2bin(EnclaveDefines)
NativeBins == create_pattern2bin(NativeDefines)
WindowsBins == create_pattern2bin(WindowsDefines)
GeneratorBins == create_pattern2bin(GeneratorDefines)
ClientBins == create_pattern2bin(ClientDefines)

enclave_histogram(img) == calc_histogram(img, EnclaveDefines, EnclaveBins)
native_histogram(img) == calc_histogram(img, NativeDefines, NativeBins)
generator_histogram(img) == calc_histogram(img, GeneratorDefines, GeneratorBins)

----------------------------------------------------------------------------
(* What a rotation-invariant table means: a uniform pattern is classified   *)
(* by how many of its bits are set, every other pattern goes to the last bin. *)
ReferenceBins ==
  [p \in Patterns |->
     LET ones == {k \in 0..7 : Bit(p, k) = 1}
         changes == {k \in 0..7 : Bit(p, k) # Bit(p, (k + 1) % 8)}
     IN IF Cardinality(changes) <= 2 THEN Cardinality(ones) ELSE 57]

(* The picture turned by a quarter, and the histogram of a block as a bag   *)
(* of bins.                                                                *)
Turned(img) == [r \in 0..(Width - 1) |-> [c \in 0..(Width - 1) |-> img[Width - 1 - c][r]]]
BlockBins(h, block) == [b \in {x \in 0..57 : block * 58 + x \in DOMAIN h} |-> h[block * 58 + b]]
============================================================================
