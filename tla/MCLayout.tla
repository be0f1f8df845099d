------------------------------ MODULE MCLayout ------------------------------
(* Values for Layout: the empty type and two scalars; pointers add alignment 8. *)
EXTENDS Layout

SomeScalars ==
    <<[size |-> 0, align |-> 0], [size |-> 1, align |-> 1], [size |-> 4, align |-> 4]>>
=============================================================================
