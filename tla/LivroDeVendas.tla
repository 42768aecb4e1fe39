--------------------------- MODULE LivroDeVendas ---------------------------
(***************************************************************************)
(* What VendasService promises about an order, without handlers, payments  *)
(* or webhooks: the money of the sale comes before the photos, the refund  *)
(* before the order is marked as returned, and the gallery's total changes *)
(* exactly when a sale begins or ends.  Vendas implements it.              *)
(***************************************************************************)
EXTENDS Integers

CONSTANTS
  Pedido,  \* ids of orders
  Custo    \* what each costs; 0 needs no money

VARIABLES
  situacao,   \* "nao_paga", "paga" or "devolvida"
  recebido,   \* orders whose money has come
  devolvido,  \* orders some of whose money has gone back
  contado,    \* what each order counts for in the gallery's total
  entregue    \* orders whose photos can be downloaded

livro == <<situacao, recebido, devolvido, contado, entregue>>

Init ==
  /\ situacao = [p \in Pedido |-> "nao_paga"]
  /\ recebido = {}
  /\ devolvido = {}
  /\ contado = [p \in Pedido |-> 0]
  /\ entregue = {}

Receber(p) ==
  /\ recebido' = recebido \cup {p}
  /\ UNCHANGED <<situacao, devolvido, contado, entregue>>

\* a refund or a chargeback
Devolver(p) ==
  /\ p \in recebido
  /\ devolvido' = devolvido \cup {p}
  /\ UNCHANGED <<situacao, recebido, contado, entregue>>

\* an order that was returned is sold again when another payment of it is approved late
Vender(p) ==
  /\ situacao[p] # "paga"
  /\ p \in recebido \/ Custo[p] = 0
  /\ situacao' = [situacao EXCEPT ![p] = "paga"]
  /\ contado' = [contado EXCEPT ![p] = @ + Custo[p]]
  /\ entregue' = entregue \cup {p}
  /\ UNCHANGED <<recebido, devolvido>>

Desfazer(p) ==
  /\ situacao[p] = "paga"
  /\ p \in devolvido \/ Custo[p] = 0
  /\ situacao' = [situacao EXCEPT ![p] = "devolvida"]
  /\ contado' = [contado EXCEPT ![p] = @ - Custo[p]]
  /\ UNCHANGED <<recebido, devolvido, entregue>>

Next == \E p \in Pedido : Receber(p) \/ Devolver(p) \/ Vender(p) \/ Desfazer(p)

\* one handler at a time
Spec == Init /\ [][Next]_livro

\* The one thing interleavings add: a status written by a handler that read the order
\* before (pagarPix, pagarCartao, consultar), which takes neither photos nor total back.
Reabrir(p) ==
  /\ situacao' = [situacao EXCEPT ![p] = "nao_paga"]
  /\ UNCHANGED <<recebido, devolvido, contado, entregue>>

SpecConcorrente == Init /\ [][Next \/ \E p \in Pedido : Reabrir(p)]_livro
=============================================================================
