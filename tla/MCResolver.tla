----------------------------- MODULE MCResolver -----------------------------
(* Import graphs for the runs of module Resolver. *)
EXTENDS Resolver

Parses(list)   == [status |-> "parses", imports |-> list, dangling |-> FALSE]
Dangling(list) == [status |-> "parses", imports |-> list, dangling |-> TRUE]
Malformed      == [status |-> "malformed", imports |-> << >>, dangling |-> FALSE]
Unreadable     == [status |-> "unreadable", imports |-> << >>, dangling |-> FALSE]

Lists(fs) == {<< >>} \cup {<<f>> : f \in fs} \cup {<<f, g>> : f, g \in fs}

\* The entry with any two imports, the others with at most one but "b", which
\* may have two: diamonds, chains, cycles, repeated and self imports.
Sound ==
  {[main |-> Parses(m), a |-> Parses(x), b |-> Parses(y), c |-> Parses(z)] :
     m \in {<<f, g>> : f, g \in {"a", "b", "c"}},
     x \in {<< >>, <<"b">>, <<"c">>, <<"main">>},
     y \in Lists({"b", "c"}),
     z \in {<< >>, <<"a">>}}

\* Each file with each fault, below imports in both orders.
Broken ==
  {[main |-> m, a |-> x, b |-> y, c |-> z] :
     m \in {Parses(<<"a", "b">>), Dangling(<<"b", "a">>), Malformed, Unreadable},
     x \in {Parses(<<"c">>), Dangling(<<"c">>), Malformed},
     y \in {Parses(<<"c">>), Unreadable},
     z \in {Parses(<< >>), Malformed, Dangling(<< >>)}}

MCFiles == {"main", "a", "b", "c"}
MCGraphs == Sound \cup Broken
=============================================================================
