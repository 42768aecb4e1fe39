------------------------------ MODULE MCVendas ------------------------------
(* Small instances of Vendas: the first order costs 10, the second nothing. *)
EXTENDS Vendas, TLC

CONSTANTS p1, p2, g1, g2, r1, r2

SubtotalUm == p1 :> 10
SubtotalDois == p1 :> 10 @@ p2 :> 0

\* Orders, payments and slots are told apart by nothing but their name; orders have prices.
Simetria == Permutations(Pg) \cup Permutations(Req)
=============================================================================
