----------------------------- MODULE MCTypeCheck -----------------------------
(* Values for TypeCheck: a built-in type, the one type that is shared and can *)
(* be bound, and a reference to it.                                            *)
EXTENDS TypeCheck

Builtin(c) == [base |-> c, wrap |-> "", name |-> ""]

SomeAnnotations ==
    {Builtin(I32), Builtin(Auto), [base |-> Auto, wrap |-> "MUTREF", name |-> ""]}
=============================================================================
