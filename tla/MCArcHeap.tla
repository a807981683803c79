----------------------------- MODULE MCArcHeap -----------------------------
(***************************************************************************)
(* Model-checking instances of ArcHeap: the kinds of statement a run's     *)
(* programs use.                                                           *)
(***************************************************************************)
EXTENDS ArcHeap

\* No arena, and no object bound twice.
Owned == {"block", "weak", "finalizer"}

\* Everything but finalizers.
Scopes == Statements \ {"finalizer"}
=============================================================================
