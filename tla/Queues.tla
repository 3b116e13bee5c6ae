------------------------------- MODULE Queues -------------------------------
(***************************************************************************)
(* Queues that elements leave from within and enter in the order of their  *)
(* deadlines: std::list::remove_if, boost::multi_index::ordered_non_unique *)
(***************************************************************************)
EXTENDS Integers, Sequences, SequencesExt, FiniteSets

\* The elements of q that S has, in their order.  It is SelectSeq with a set for
\* a test, as a recursive function, so that it can be reasoned about.
Kept(q, S) ==
  LET kept[i \in 0..Len(q)] ==
        IF i = 0 THEN <<>> ELSE IF q[i] \in S THEN Append(kept[i - 1], q[i]) ELSE kept[i - 1]
  IN  kept[Len(q)]

\* q, which is sorted, with e behind the elements S of it that come first.
Behind(q, S, e) == InsertAt(q, Cardinality({i \in DOMAIN q : q[i] \in S}) + 1, e)
=============================================================================
