---------------------------- MODULE MerkleProof ----------------------------
(***************************************************************************)
(* The keyed Merkle tree of a matrix - built by pearl_proof_build_tree of  *)
(* cuda/pearl_gpu_proof_lib.cu and commit_simple of cuda/merkle_simple.cuh *)
(* - and the walk of assemble_matrix_proof (src/official_grind.rs) that    *)
(* collects the siblings a share's leaves need.                            *)
(*                                                                         *)
(* Hashes are terms: a leaf is <<its index>>, a parent is                  *)
(* <<left, right, whether it is hashed as a root>>.                        *)
(***************************************************************************)
EXTENDS Ascending, SequencesExt, Input

Halve(len) == (len + 1) \div 2

(* Mutated form: every parent of a layer of at most three is a root. *)
IsRoot_Three(in_count) == in_count <= 3

(* The parent of the last two nodes is the root. *)
IsRoot(in_count) == in_count = 2

(* parent_level_kernel: pairs are merged, a lone odd node is carried up.   *)
ParentLevel(layer) ==
  LET n == Len(layer) IN
  [p \in 1..Halve(n) |->
     IF 2 * p <= n THEN <<layer[2 * p - 1], layer[2 * p], IsRoot(n)>> ELSE layer[2 * p - 1]]

Leaves(n) == [i \in 1..n |-> <<i - 1>>]

(* The layers, and again the root once it is reached. *)
Above(layer) == IF Len(layer) > 1 THEN ParentLevel(layer) ELSE layer

Built(n) ==
  LET layer[l \in 0..n] == IF l = 0 THEN Leaves(n) ELSE Above(layer[l - 1])
  IN layer

Height(n) == CHOOSE h \in 0..n : Len(Built(n)[h]) = 1 /\ \A l \in 0..h - 1 : Len(Built(n)[l]) > 1

(* The layers up to the root: Layers(n)[l] for l = 0, 1, ... *)
Layers(n) == [l \in 0..Height(n) |-> Built(n)[l]]

Root(n) == Layers(n)[Height(n)][1]

(* total_nodes *)
Nodes(n) ==
  LET sum[l \in 0..Height(n)] == Len(Layers(n)[l]) + IF l = 0 THEN 0 ELSE sum[l - 1]
  IN sum[Height(n)]

(* What ProofGpuCtx sets aside for the nodes of n leaves. *)
Capacity(n) == 2 * n + 8

(* msimple_layers_words, in nodes of 8 words. *)
LayersWords(n) ==
  LET total[cur \in 1..n] == IF cur > 1 THEN cur + total[Halve(cur)] ELSE 0
  IN total[n] + 1

-----------------------------------------------------------------------------
Partner(i) == IF i % 2 = 1 THEN i - 1 ELSE i + 1

(* Whether node i asks for its sibling: it is not known, and there is one. *)
Asks(i, current, level_len) == Partner(i) \notin current /\ Partner(i) < level_len

(* One level of the walk, in the ascending order of the BTreeSet. *)
Asking(current, level_len) == Sorted({i \in current : Asks(i, current, level_len)})

SiblingsOf(layer, current) ==
  LET asking == Asking(current, Len(layer))
  IN [x \in 1..Len(asking) |-> layer[Partner(asking[x]) + 1]]

Parents(nodes) == {i \div 2 : i \in nodes}

Siblings(n, leaf_indices) ==
  LET current[l \in 0..n] == IF l = 0 THEN leaf_indices ELSE Parents(current[l - 1])
  IN FlattenSeq([l \in 1..Height(n) |-> SiblingsOf(Layers(n)[l - 1], current[l - 1])])

-----------------------------------------------------------------------------
(* The verifier, which is not part of the repository: it rebuilds the root *)
(* from the leaves shown, level by level, of which len has nodes and those *)
(* of known are known, taking siblings off the list in order: `used` are.  *)
ValueAt(i, level, asking, siblings) ==
  IF i \in DOMAIN level.known THEN level.known[i]
  ELSE siblings[level.used + CHOOSE x \in 1..Len(asking) : Partner(asking[x]) = i]

Climb(level, siblings) ==
  LET ids      == DOMAIN level.known
      asking   == Asking(ids, level.len)
      value(i) == ValueAt(i, level, asking, siblings)
  IN IF level.len = 1 \/ ~level.enough THEN level
     ELSE IF level.used + Len(asking) > Len(siblings) THEN [level EXCEPT !.enough = FALSE]
     ELSE [len    |-> Halve(level.len),
           known  |-> [p \in Parents(ids) |->
                         IF 2 * p + 1 < level.len
                         THEN <<value(2 * p), value(2 * p + 1), level.len = 2>>
                         ELSE value(2 * p)],
           used   |-> level.used + Len(asking),
           enough |-> TRUE]

Accepts(n, shown, siblings, root) ==
  LET level[l \in 0..n] ==
        IF l = 0 THEN [len |-> n, known |-> shown, used |-> 0, enough |-> TRUE]
        ELSE Climb(level[l - 1], siblings)
  IN /\ level[n].enough /\ level[n].used = Len(siblings)
     /\ level[n].known[0] = root

-----------------------------------------------------------------------------
TreeInputs(trees) == [fn : {"tree"}, leaves : trees]

(* The trees, as the number of their leaves, with leaves that are shown. *)
Trees(sizes) == UNION {{<<n, S>> : S \in (SUBSET (0..n - 1)) \ {{}}} : n \in sizes}

(* Whichever leaves a hit shows, of a tree of whatever shape: the siblings *)
(* collected are exactly those the verifier asks for, in its order, and    *)
(* the root it arrives at is the one committed to.                         *)
ProofsVerify ==
  input.fn = "tree" =>
    LET n == input.leaves[1]
        S == input.leaves[2]
    IN Accepts(n, [i \in S |-> Leaves(n)[i + 1]], Siblings(n, S), Root(n))

=============================================================================
