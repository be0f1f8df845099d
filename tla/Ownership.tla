------------------------------ MODULE Ownership ------------------------------
(***************************************************************************)
(* The rules of docs/language/borrowing.md for one variable as a protocol: *)
(* a value is owned, lent out to readers, lent out to one writer, or gone; *)
(* a loan forbids moving it, and a loan to a writer forbids further loans. *)
(* Only a new declaration or an assignment gives a moved variable a value  *)
(* again, and only a new declaration ends a loan.                          *)
(***************************************************************************)
CONSTANT Names

VARIABLE mode

Modes == {"unknown", "owned", "lent", "exclusive", "gone"}

Init == mode = [v \in Names |-> "unknown"]

Become(v, m) == mode' = [mode EXCEPT ![v] = m]

Declare(v) == Become(v, "owned")
Move(v) == mode[v] = "owned" /\ Become(v, "gone")
Lend(v) == mode[v] \in {"owned", "lent"} /\ Become(v, "lent")
LendToWriter(v) == mode[v] = "owned" /\ Become(v, "exclusive")
Revive(v) == mode[v] = "gone" /\ Become(v, "owned")

Next ==
    \E v \in Names :
        Declare(v) \/ Move(v) \/ Lend(v) \/ LendToWriter(v) \/ Revive(v)

Spec == Init /\ [][Next]_mode
=============================================================================
