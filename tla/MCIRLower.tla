----------------------------- MODULE MCIRLower -----------------------------
(* Expressions of every kind lower_expr tells apart, one inside another.   *)
EXTENDS IRLower

Lit == [kind |-> "lit"]
Var == [kind |-> "var"]
Other == [kind |-> "other"]
Bin(l, r) == [kind |-> "bin", left |-> l, right |-> r]
Neg(a) == [kind |-> "unary", arg |-> a]
Call(a) == [kind |-> "call", arg |-> a]

MCExprs == {Lit, Var, Other, Neg(Var), Call(Var), Bin(Neg(Var), Other), Bin(Call(Var), Lit)}
MCValues == {Bin(Neg(Var), Other), Bin(Call(Var), Lit)}
MCConds == {Var}
MCArguments == {Var, Call(Var)}

MCDepth ==
    LET depth[e \in MCExprs] ==
            CASE e.kind \in {"unary", "call"} -> 1 + depth[e.arg]
              [] e.kind = "bin" -> 1 + depth[e.left] + depth[e.right]
              [] OTHER -> 0
    IN  depth
=============================================================================
