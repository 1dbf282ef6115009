------------------------------ MODULE Listing ------------------------------
(***************************************************************************)
(* Filtering, joining and sorting sequences, by counting: an entry is at   *)
(* the place that has as many entries before it. This is what SelectSeq,   *)
(* FlattenSeq and SortSeq of the libraries return, which are defined by    *)
(* recursion and take operators, and so cannot be reasoned about.          *)
(***************************************************************************)
EXTENDS Naturals, Sequences, FiniteSets

\* The values of f in an order of its arguments, a set of pairs <<earlier, later>>.
Listed(f, order) ==
    [n \in 1 .. Cardinality(DOMAIN f) |->
        f[CHOOSE x \in DOMAIN f : Cardinality({y \in DOMAIN f : <<y, x>> \in order}) = n - 1]]

\* The entries of s at some of its indices.
Those(s, indices) ==
    Listed([i \in indices |-> s[i]], {p \in indices \X indices : p[1] < p[2]})

\* The entries of the sequences in ss, one sequence after the other.
Places(ss) == UNION {{k} \X (DOMAIN ss[k]) : k \in DOMAIN ss}
Sooner(p, q) == p[1] < q[1] \/ (p[1] = q[1] /\ p[2] < q[2])
Joined(ss) ==
    Listed([p \in Places(ss) |-> ss[p[1]][p[2]]],
           {pq \in Places(ss) \X Places(ss) : Sooner(pq[1], pq[2])})

=============================================================================
