------------------------------- MODULE Poptrie -------------------------------
(***************************************************************************)
(* The poptrie crate: a builder that collects prefixes in a binary trie,   *)
(* the tables it emits (a direct array, stride nodes with two bitmaps, and *)
(* leaf runs), and the lookup that walks them with population counts.      *)
(*                                                                         *)
(* A node of the binary trie is the path to it, a sequence of bits; the    *)
(* paths in DOMAIN bin are the nodes that exist.  A bitmap is a set of     *)
(* slots.  Indexes count from zero as in the code, so element i of a table *)
(* is t[i + 1].  The code has BITS 32 or 128, DIRECT_BITS 14, STRIDE 6.    *)
(***************************************************************************)
EXTENDS Integers, Sequences, FiniteSets, SequencesExt, FiniteSetsExt

CONSTANTS
    BITS,           \* K::BITS
    DIRECT_BITS,    \* width of the direct-pointing root
    STRIDE

\* build panics on other parameters
ASSUME PoptrieAssumption ==
    /\ STRIDE \in Nat \ {0} /\ DIRECT_BITS \in Nat \ {0} /\ BITS \in Nat
    /\ DIRECT_BITS < BITS /\ (BITS - DIRECT_BITS) % STRIDE = 0

Key == 0 .. 2 ^ BITS - 1
Slots == 0 .. 2 ^ STRIDE - 1

bit(key, i) == (key \div 2 ^ (BITS - 1 - i)) % 2
stride(key, offset) == (key \div 2 ^ (BITS - offset - STRIDE)) % 2 ^ STRIDE
direct(key) == key \div 2 ^ (BITS - DIRECT_BITS)

-----------------------------------------------------------------------------
(* The builder.                                                            *)

NewBuilder == [bin |-> [p \in {<<>>} |-> 0], values |-> <<>>]

Path(prefix, prefix_len) == [i \in 1 .. prefix_len |-> bit(prefix, i - 1)]

Position(s, v) == CHOOSE i \in DOMAIN s : s[i] = v

intern(values, v) == IF Contains(values, v) THEN values ELSE Append(values, v)

insert(b, prefix, prefix_len, v) ==
    LET values == intern(b.values, v)
        path == Path(prefix, prefix_len)
        old(p) == IF p \in DOMAIN b.bin THEN b.bin[p] ELSE 0
    IN [values |-> values,
        bin |-> [p \in DOMAIN b.bin \cup Prefixes(path) |->
                    IF p = path THEN Position(values, v) ELSE old(p)]]

\* The values still referenced, and the nodes with their ids made dense; the
\* order of the dense table is immaterial.
compact_live_values(b) ==
    LET live == SetToSeq({b.bin[p] : p \in DOMAIN b.bin} \ {0})
    IN [values |-> [i \in 1 .. Len(live) |-> b.values[live[i]]],
        bin |-> [p \in DOMAIN b.bin |->
                    IF b.bin[p] = 0 THEN 0 ELSE Position(live, b.bin[p])]]

-----------------------------------------------------------------------------
(* Emitter.                                                                *)

effective(bin, node, inherited) ==
    IF node \in DOMAIN bin /\ bin[node] # 0 THEN bin[node] ELSE inherited

children(node) == <<Append(node, 0), Append(node, 1)>>

has_children(bin, node) == \E c \in Range(children(node)) : c \in DOMAIN bin

Leaf(v) == [internal |-> FALSE, node |-> <<>>, value |-> v]
Internal(node, v) == [internal |-> TRUE, node |-> node, value |-> v]

\* The slots below `root', from the lowest pattern to the highest.
resolve_stride(bin, root, default) ==
    LET resolve[node \in Seq({0, 1}), inherited \in Nat, depth \in 0 .. STRIDE] ==
            LET eff == effective(bin, node, inherited)
            IN IF ~has_children(bin, node)
               THEN [i \in 1 .. 2 ^ (STRIDE - depth) |-> Leaf(eff)]
               ELSE IF depth = STRIDE
               THEN <<Internal(node, eff)>>
               ELSE resolve[children(node)[1], eff, depth + 1]
                    \o resolve[children(node)[2], eff, depth + 1]
    IN resolve[root, default, 0]

Ascending(S) == SetToSortSeq(S, <)

\* Mutant of BeginsRun: an internal slot does not end the run.
BeginsRunAcross(slots, i) ==
    /\ ~slots[i + 1].internal
    /\ LET before == {j \in 0 .. i - 1 : ~slots[j + 1].internal}
       IN before = {} \/ slots[Max(before) + 1].value # slots[i + 1].value

\* Slot i begins a leaf run: an internal slot or another value ends the run
\* before it.
BeginsRun(slots, i) ==
    /\ ~slots[i + 1].internal
    /\ \/ i = 0
       \/ slots[i].internal
       \/ slots[i].value # slots[i + 1].value

\* A direct entry or a leaf: the LEAF_FLAG and the index below it.
LeafEntry(v) == [leaf |-> TRUE, index |-> v]
NodeEntry(n) == [leaf |-> FALSE, index |-> n]

EmptyNode == [vector |-> {}, leafvec |-> {}, base0 |-> 0, base1 |-> 0]

Nodes == [vector : SUBSET Slots, leafvec : SUBSET Slots, base0 : Nat, base1 : Nat]

Emitters == [direct : Seq([leaf : BOOLEAN, index : Nat]), nodes : Seq(Nodes), leaves : Seq(Nat)]

\* Children are reserved contiguously before the recursion fills them.
fill(emitter, bin, root_slot, root, default) ==
    LET filled[em \in Emitters, slot \in Nat, node \in Seq({0, 1}), inherited \in Nat] ==
            LET slots == resolve_stride(bin, node, inherited)
                vector == {i \in Slots : slots[i + 1].internal}
                leafvec == {i \in Slots : BeginsRun(slots, i)}
                kids == Ascending(vector)
                runs == Ascending(leafvec)
                base1 == Len(em.nodes)
                reserved == em.nodes \o [k \in 1 .. Len(kids) |-> EmptyNode]
                emitted == [em EXCEPT
                    !.leaves = @ \o [k \in 1 .. Len(runs) |-> slots[runs[k] + 1].value],
                    !.nodes = [reserved EXCEPT ![slot + 1] =
                        [vector |-> vector, leafvec |-> leafvec,
                         base0 |-> Len(em.leaves), base1 |-> base1]]]
            IN FoldLeftDomain(
                LAMBDA e, k : filled[e, base1 + k - 1, slots[kids[k] + 1].node,
                                     slots[kids[k] + 1].value],
                emitted, kids)
    IN filled[emitter, root_slot, root, default]

build_subtree(em, bin, node, inherited) ==
    fill([em EXCEPT !.nodes = Append(@, EmptyNode)], bin, Len(em.nodes), node, inherited)

\* The direct array is appended to in pattern order.
fill_direct(bin) ==
    LET filled[em \in Emitters, node \in Seq({0, 1}), inherited \in Nat,
               depth \in 0 .. DIRECT_BITS] ==
            LET eff == effective(bin, node, inherited)
            IN IF ~has_children(bin, node)
               THEN [em EXCEPT !.direct =
                        @ \o [i \in 1 .. 2 ^ (DIRECT_BITS - depth) |-> LeafEntry(eff)]]
               ELSE IF depth = DIRECT_BITS
               THEN [build_subtree(em, bin, node, eff) EXCEPT
                        !.direct = Append(@, NodeEntry(Len(em.nodes)))]
               ELSE filled[filled[em, children(node)[1], eff, depth + 1],
                           children(node)[2], eff, depth + 1]
    IN filled[[direct |-> <<>>, nodes |-> <<>>, leaves |-> <<>>], <<>>, 0, 0]

build(b) ==
    LET compact == compact_live_values(b)
        em == fill_direct(compact.bin)
    IN [direct |-> em.direct, nodes |-> em.nodes, leaves |-> em.leaves,
        values |-> compact.values]

-----------------------------------------------------------------------------
(* Lookup.                                                                 *)

\* value: an encoding of zero is no route
Value(t, encoding) == IF encoding = 0 THEN {} ELSE {t.values[encoding]}

Descend(t, key, root) ==
    LET descend[node_index \in Nat, offset \in Nat] ==
            LET node == t.nodes[node_index + 1]
                v == stride(key, offset)
            IN IF v \in node.vector
               THEN descend[node.base1 + Cardinality({i \in node.vector : i < v}),
                            offset + STRIDE]
               ELSE Value(t, t.leaves[node.base0 + Cardinality({i \in node.leafvec : i <= v})])
    IN descend[root, DIRECT_BITS]

\* The set with the value of the most specific prefix of `key', or {}.
lookup(t, key) ==
    LET entry == t.direct[direct(key) + 1]
    IN IF entry.leaf THEN Value(t, entry.index) ELSE Descend(t, key, entry.index)

-----------------------------------------------------------------------------
(* What the tables must satisfy for the unchecked accesses of lookup.      *)

ValidEncoding(t, encoding) == encoding \in 0 .. Len(t.values)

validate_node(t, node) ==
    /\ node.vector \cap node.leafvec = {}
    /\ node.base1 + Cardinality(node.vector) <= Len(t.nodes)
    /\ node.base0 + Cardinality(node.leafvec) <= Len(t.leaves)
    /\ \A s \in Slots \ node.vector :
        \E r \in node.leafvec : r <= s /\ (r .. s) \cap node.vector = {}
    /\ \A k \in 1 .. Cardinality(node.leafvec) : ValidEncoding(t, t.leaves[node.base0 + k])

\* No node below the last stride, so that every descent ends in a leaf.
validate_reachable_node(t, root) ==
    LET valid[node_index \in Nat, depth \in Nat] ==
            LET node == t.nodes[node_index + 1]
            IN /\ depth < (BITS - DIRECT_BITS) \div STRIDE
               /\ \A k \in 0 .. Cardinality(node.vector) - 1 :
                    valid[node.base1 + k, depth + 1]
    IN valid[root, 0]

validate_invariants(t) ==
    /\ Len(t.direct) = 2 ^ DIRECT_BITS
    /\ \A i \in DOMAIN t.direct :
        IF t.direct[i].leaf
        THEN ValidEncoding(t, t.direct[i].index)
        ELSE t.direct[i].index < Len(t.nodes)
    /\ \A n \in Range(t.nodes) : validate_node(t, n)
    /\ \A i \in DOMAIN t.direct :
        ~t.direct[i].leaf => validate_reachable_node(t, t.direct[i].index)
=============================================================================
