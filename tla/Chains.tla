------------------------------- MODULE Chains -------------------------------
(***************************************************************************)
(* Lists that are kept as links: link says of every item what is behind it.*)
(***************************************************************************)
EXTENDS SequencesExt

\* The items of S from x on, along link to the first that is not in S, and no
\* more than one step for each item: links that go in a circle are cut off.
Along(link, S, x) ==
  LET walk[k \in 0 .. Cardinality(S)] ==
        [y \in S |-> <<y>> \o IF k > 0 /\ link[y] \in S THEN walk[k - 1][link[y]] ELSE <<>>]
  IN IF x \in S THEN walk[Cardinality(S)][x] ELSE <<>>
=============================================================================
