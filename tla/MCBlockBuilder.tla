---- MODULE MCBlockBuilder ----
(* Two accounts, of which the second comes from a forked network and is    *)
(* ahead of the chain, and a foreign address with the id of the first.     *)
EXTENDS BlockBuilder

CONSTANTS giver, wallet, elsewhere

MCSameId == [f \in {elsewhere} |-> giver]

MCFirstLt == [a \in {giver, wallet} |-> IF a = wallet THEN 3 ELSE 0]

====
