---------------------------- MODULE MCInspector -----------------------------
(* Two sessions on two pages of the unfiltered list, the second one alone    *)
(* under a query: a page beyond the end, and a first session to select that  *)
(* differs from list to list.                                                *)
EXTENDS KeywordPresets

CONSTANTS s1, s2

TwoPages == [q \in Query |-> IF q = "" THEN <<<<s1>>, <<s2>>>> ELSE <<<<s2>>>>]

\* One preset, and a default that is not in the file: the first is picked.
OnePreset == {[default |-> "p2", items |-> <<[id |-> "p1", words |-> "w"]>>]}
=============================================================================
