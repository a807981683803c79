----------------------------- MODULE LinkOrder -----------------------------
(***************************************************************************)
(* What resolving an entry file promises, whatever the order the threads   *)
(* of the walk worked in: the program is every module the entry reaches,   *)
(* once, each after the modules it imports, in the order of the imports of *)
(* the entry; or, when files it reaches have faults, exactly those files   *)
(* are reported.                                                           *)
(*                                                                         *)
(* A file is what parsing it gives: its status, the modules its imports    *)
(* were resolved to, and whether an import of it could not be resolved.    *)
(***************************************************************************)
EXTENDS Integers, Sequences

CONSTANTS
  Files,    \* the canonical paths of the modules
  Entry,    \* the file given to resolve
  Graphs    \* the contents of the files a run starts from

Statuses == {"parses", "malformed", "unreadable"}

File == [status : Statuses, imports : Seq(Files), dangling : BOOLEAN]

VARIABLES
  graph,    \* the contents of the files
  answer    \* what resolve returned

Pending == [kind |-> "pending"]
Program(s) == [kind |-> "program", modules |-> s]
Errors(fs) == [kind |-> "errors", files |-> fs]

-----------------------------------------------------------------------------
(* The modules a file imports, and those reached from a set of files. *)

Links(g, f) ==
  IF g[f].status = "parses" THEN {g[f].imports[i] : i \in 1..Len(g[f].imports)} ELSE {}

Closed(g, fs) == \A f \in fs : Links(g, f) \subseteq fs

\* The files in every set that has those of fs and the imports of its own.
ReachedFrom(g, fs) ==
  {f \in Files : \A S \in SUBSET Files : fs \subseteq S /\ Closed(g, S) => f \in S}

Reached(g) == ReachedFrom(g, {Entry})

Cyclic(g) == \E f \in Reached(g) : f \in ReachedFrom(g, Links(g, f))

Faulty(g, f) == g[f].status # "parses" \/ g[f].dangling

Faults(g) == {f \in Reached(g) : Faulty(g, f)}

-----------------------------------------------------------------------------
\* d is before f in s.
Before(s, d, f) ==
  \E i, j \in 1..Len(s) : i < j /\ s[i] = d /\ s[j] = f

\* Of two imports of the entry the first comes first, unless it or an import
\* before it needs the other.
InImportOrder(g, s) ==
  LET list == g[Entry].imports
  IN  \A i, j \in 1..Len(list) :
        i < j => \/ Before(s, list[i], list[j])
                 \/ \E k \in 1..i : list[j] \in ReachedFrom(g, {list[k]})

IsProgram(g, s) ==
  /\ {s[i] : i \in 1..Len(s)} = Reached(g)
  /\ \A i, j \in 1..Len(s) : s[i] = s[j] => i = j
  /\ \A f \in Reached(g) : \A d \in Links(g, f) : Before(s, d, f)
  /\ InImportOrder(g, s)

Init ==
  /\ graph \in Graphs
  /\ answer = Pending

Answer ==
  /\ answer = Pending
  /\ \/ /\ Faults(graph) # {}
        /\ answer' = Errors(Faults(graph))
     \/ /\ Faults(graph) = {}
        /\ answer'.kind = "program"
        /\ IsProgram(graph, answer'.modules)
  /\ UNCHANGED graph

Spec == Init /\ [][Answer]_<<graph, answer>>
=============================================================================
