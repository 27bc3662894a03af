------------------------------ MODULE ListNodes ------------------------------
(***************************************************************************)
(* The pointers of src/lib/datastructures/linkedlist.h that point to no    *)
(* node: the null pointer, and the two values list_del and hlist_del leave *)
(* behind, through which any access is a page fault.                       *)
(***************************************************************************)

CONSTANTS NULL, LIST_POISON1, LIST_POISON2

ASSUME PoisonAssumption ==
  NULL # LIST_POISON1 /\ NULL # LIST_POISON2 /\ LIST_POISON1 # LIST_POISON2

=============================================================================
