----------------------------- MODULE PuxarPedidos -----------------------------
(***************************************************************************)
(* SyncService.puxarPedidos: the desktop program copies the paid and the   *)
(* refunded orders, page by page, in the order of (atualizadoEm, id), and  *)
(* keeps the cursor of the last one it got.  atualizadoEm is taken when a  *)
(* writer begins its transaction; the row is seen when it commits, which   *)
(* may be later than a younger one.  An answer may be lost: the desktop    *)
(* asks again with the cursor it has.                                      *)
(*                                                                         *)
(* Left out: what an order holds besides its status; a writer that rolls   *)
(* back (it leaves nothing).                                               *)
(***************************************************************************)
EXTENDS Integers, FiniteSets

CONSTANTS
  MaxPedidos,  \* orders, numbered as their ids compare
  PorPagina,      \* LIMITE: orders in a page
  MaxHora      \* bound: the last instant

ASSUME PuxarAssumption == MaxPedidos \in Nat /\ {PorPagina, MaxHora} \subseteq Nat \ {0}

VARIABLES
  hora,        \* the clock
  situacao,    \* Pedido.status
  atualizado,  \* Pedido.atualizadoEm
  escrevendo,  \* the writers in flight: what each will commit
  pagina,      \* the answer on its way to the desktop, none or one
  cursor,      \* the desktop's cursor
  copia        \* the status of each order on the desktop

servidorPux == <<situacao, atualizado>>
desktopPux == <<cursor, copia>>
varsPuxar == <<hora, servidorPux, escrevendo, pagina, desktopPux>>

PedidoPux == 1 .. MaxPedidos
Situacao == {"ABERTO", "PAGO", "ESTORNADO"}
Marca == (0 .. MaxHora) \X (0 .. MaxPedidos)

InitPuxar ==
  /\ hora = 1
  /\ situacao = [p \in PedidoPux |-> "ABERTO"]
  /\ atualizado = [p \in PedidoPux |-> 0]
  /\ escrevendo = [p \in PedidoPux |-> <<>>]
  /\ pagina = <<>>
  /\ cursor = <<0, 0>>
  /\ copia = [p \in PedidoPux |-> "ABERTO"]

-----------------------------------------------------------------------------
\* (atualizadoEm, id): the order of the pages
Antes(a, b) == a[1] < b[1] \/ (a[1] = b[1] /\ a[2] < b[2])
MarcaDe(p) == <<atualizado[p], p>>
Fechados == {p \in PedidoPux : situacao[p] # "ABERTO"}

-----------------------------------------------------------------------------
(* the writers: liberar, marcarEstornado *)

\* the instant is taken before the transaction commits
Escrever(p, s) ==
  /\ escrevendo[p] = <<>>
  /\ \/ situacao[p] = "ABERTO" /\ s = "PAGO"
     \/ situacao[p] = "PAGO" /\ s = "ESTORNADO"
  /\ escrevendo' = [escrevendo EXCEPT ![p] = <<s, hora>>]
  /\ UNCHANGED <<hora, servidorPux, pagina, desktopPux>>

Comitar(p) ==
  /\ escrevendo[p] # <<>>
  /\ situacao' = [situacao EXCEPT ![p] = escrevendo[p][1]]
  /\ atualizado' = [atualizado EXCEPT ![p] = escrevendo[p][2]]
  /\ escrevendo' = [escrevendo EXCEPT ![p] = <<>>]
  /\ UNCHANGED <<hora, pagina, desktopPux>>

Relogio ==
  /\ hora < MaxHora
  /\ hora' = hora + 1
  /\ UNCHANGED <<servidorPux, escrevendo, pagina, desktopPux>>

-----------------------------------------------------------------------------
(* puxarPedidos, and the desktop that repeats it *)

\* fault: the instant alone, without the id
DepoisSoDaHora(p) == atualizado[p] > cursor[1]

\* the where of the query
Depois(p) == Antes(cursor, MarcaDe(p))

\* the first PorPagina orders after the cursor
Pagina == {p \in Fechados : /\ Depois(p)
                            /\ Cardinality({q \in Fechados : Depois(q) /\ Antes(MarcaDe(q), MarcaDe(p))}) < PorPagina}

\* the page read by the server; its cursor is the last order's
Puxar ==
  /\ pagina = <<>>
  /\ \E u \in Pagina :
       /\ \A p \in Pagina : p = u \/ Antes(MarcaDe(p), MarcaDe(u))
       /\ pagina' = <<[p \in Pagina |-> situacao[p]], MarcaDe(u)>>
  /\ UNCHANGED <<hora, servidorPux, escrevendo, desktopPux>>

\* nothing after the cursor: an empty page, and the cursor stays
PuxarVazio ==
  /\ pagina = <<>> /\ Pagina = {}
  /\ UNCHANGED varsPuxar

ReceberPagina ==
  /\ pagina # <<>>
  /\ copia' = [p \in PedidoPux |-> IF p \in DOMAIN pagina[1] THEN pagina[1][p] ELSE copia[p]]
  /\ cursor' = pagina[2]
  /\ pagina' = <<>>
  /\ UNCHANGED <<hora, servidorPux, escrevendo>>

PerderPagina ==
  /\ pagina # <<>>
  /\ pagina' = <<>>
  /\ UNCHANGED <<hora, servidorPux, escrevendo, desktopPux>>

NextPuxar ==
  \/ \E p \in PedidoPux : Comitar(p) \/ \E s \in Situacao : Escrever(p, s)
  \/ Relogio \/ Puxar \/ PuxarVazio \/ ReceberPagina \/ PerderPagina

\* the desktop goes on asking, and not every answer is lost
JusticaPuxar == WF_varsPuxar(Puxar) /\ SF_varsPuxar(ReceberPagina)

SpecPuxar == InitPuxar /\ [][NextPuxar]_varsPuxar /\ JusticaPuxar
-----------------------------------------------------------------------------
(* Properties *)

\* Type invariant.
TypeOKPuxar ==
  /\ hora \in 1 .. MaxHora
  /\ situacao \in [PedidoPux -> Situacao]
  /\ atualizado \in [PedidoPux -> 0 .. MaxHora]
  /\ \A p \in PedidoPux : escrevendo[p] = <<>> \/ escrevendo[p] \in Situacao \X (1 .. MaxHora)
  /\ cursor \in Marca
  /\ copia \in [PedidoPux -> Situacao]
=============================================================================
