------------------------------- MODULE MCBank -------------------------------
(* Values of the constants of Bank for TLC.                                *)
EXTENDS Bank, TLC

CONSTANTS p1, p2, o1, o2

MCOwn    == <<p1, p2>>
MCNameOf == (p1 :> "handle") @@ (p2 :> "alias") @@ (o1 :> "one") @@ (o2 :> "two")
MCMoney  == (p1 :> 0) @@ (p2 :> 0) @@ (o1 :> 2) @@ (o2 :> 0)
\* A theft, from an account of part of the other's address, and into one that may
\* not be open yet; a fine paid; own money moved, also onto itself.
MCPairs  == {<<o1, p1>>, <<o2, p2>>, <<p1, o2>>, <<p2, p1>>, <<p1, p1>>}
\* The address of o2 is a part of that of o1.
MCFound  == {<<a, a>> : a \in Accounts} \cup {<<o2, o1>>}
=============================================================================
