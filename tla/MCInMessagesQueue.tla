---- MODULE MCInMessagesQueue ----
(* InMessagesQueue for TLC: two requests of records for the workchain, the *)
(* masterchain and a workchain the node lacks.  Each has a record without  *)
(* a key, one in the middle and one at the end; the second one also has a  *)
(* record that cannot be parsed.                                           *)
EXTENDS InMessagesQueue

(* For the runs' cfg files.                                                *)
MCMessages == 1..9
MCSenders == {"s1", "s2"}
MCRequest == [s \in MCSenders |-> IF s = "s1" THEN <<1, 2, 3, 9>> ELSE <<4, 8, 5, 6, 7>>]
MCKeyless == {8, 9}
MCWorkchainOf == <<"W", "M", "W", "W", "F", "W", "W", "W", "W">>
LocalWorkchainOf == <<"W", "M", "W", "M", "W", "W", "W", "W", "W">>

====
