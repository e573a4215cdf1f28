----------------------------- MODULE MCThreadList -----------------------------
(***************************************************************************)
(* ThreadList with three threads of two timestamps and pages of one or two *)
(* threads, so that every page border falls between equal timestamps.      *)
(***************************************************************************)
EXTENDS ThreadList, TLC

MCIds      == 1 .. 3
MCInstants == 1 .. 2
MCContents == {[tags |-> {"a", "b"}, text |-> {}], [tags |-> {"a"}, text |-> {"a"}]}
MCFilters  == {[status |-> "open", tags |-> {"b"}]}
MCQueries  == {{"a"}}
MCLimits   == {0, 2}
MCSymmetry == Permutations(Requests)
=============================================================================
