----------------------------- MODULE MCMailbox -----------------------------
(* Three priorities, a migration threshold small enough that a run migrates *)
(* and then keeps inserting and popping.                                    *)
EXTENDS Mailbox

MCPriorities == {-1, 0, 2}
=============================================================================
