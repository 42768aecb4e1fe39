------------------------------- MODULE Pacote -------------------------------
(***************************************************************************)
(* A gallery sold as a package (modoVenda PACOTE): the contract includes   *)
(* some photos at no price, what passes them is an extra.  criarPedido     *)
(* counts what the paid orders already took, and baixar counts the links   *)
(* of each photo against a limit.  As in Vendas, handlers run in slots of  *)
(* Req and are cut at each await; how an order with extras comes to be     *)
(* paid or returned is the business of Vendas (Pagar, Devolver).           *)
(*                                                                         *)
(* Left out: the checks of the gallery that only refuse (closed, private,  *)
(* blocked account, photos withdrawn) and the amounts: an extra has a      *)
(* price or there are no extras.                                           *)
(***************************************************************************)
EXTENDS Integers, FiniteSets

CONSTANTS
  Pedido,   \* ids of orders
  Foto,     \* the gallery's photos
  Req,      \* request slots: how many handlers may be in flight at once
  Pacotes,  \* the values fotosIncluidas may be given
  Extras,   \* whether extras may have a price: {FALSE}, {TRUE} or both
  Limite,   \* DOWNLOAD_LIMITE
  Nenhum    \* no value

ASSUME FotoAssumption == IsFiniteSet(Foto)
ASSUME PacotesAssumption == Pacotes \subseteq Nat
ASSUME ExtrasAssumption == Extras \subseteq BOOLEAN
ASSUME LimiteAssumption == Limite \in Nat

VARIABLES
  incluidas,  \* Galeria.fotosIncluidas
  extra,      \* Galeria.precoFotoCentavos is above zero
  status,     \* Pedido.status
  itens,      \* ItemPedido rows
  gratis,     \* those with incluida
  downloads,  \* Download rows
  baixadas,   \* Download.baixadas
  links,      \* how many signed links the buyer got (not stored)
  req         \* the handlers in flight

vars == <<incluidas, extra, status, itens, gratis, downloads, baixadas, links, req>>
galeria == <<incluidas, extra>>
pedidos == <<status, itens, gratis, downloads>>
contagem == <<baixadas, links>>

\* ABERTO stands for every status before the payment
StatusPedido == {"INEXISTENTE", "ABERTO", "PAGO", "ESTORNADO"}
Item == Pedido \X Foto

\* a handler: where it is, its order, the photos asked for, those that go as included,
\* and what it read of the gallery
Handler == [pc : {"livre", "seleciona", "cria", "libera", "conta"},
            pedido : Pedido \cup {Nenhum}, fotos : SUBSET Foto, gratis : SUBSET Foto,
            incluidas : Nat, extra : BOOLEAN]

Livre == [pc |-> "livre", pedido |-> Nenhum, fotos |-> {}, gratis |-> {}, incluidas |-> 0,
          extra |-> FALSE]

Init ==
  /\ incluidas \in Pacotes
  /\ extra \in Extras
  /\ status = [p \in Pedido |-> "INEXISTENTE"]
  /\ itens = {}
  /\ gratis = {}
  /\ downloads = {}
  /\ baixadas = [i \in Item |-> 0]
  /\ links = [i \in Item |-> 0]
  /\ req = [r \in Req |-> Livre]

-----------------------------------------------------------------------------
Em(r, pc) == req[r].pc = pc
Segue(r, q) == req' = [req EXCEPT ![r] = q]

Pago(p) == status[p] = "PAGO"

Escolhidas == {i[2] : i \in {j \in itens : Pago(j[1])}}
Usadas == {i \in gratis : Pago(i[1])}

\* fault: what the paid orders took does not count
RestantesDoContrato(n) == n

\* how many included photos are left, of the n the gallery was read to have
Restantes(n) == IF n > Cardinality(Usadas) THEN n - Cardinality(Usadas) ELSE 0

-----------------------------------------------------------------------------
(* criarPedido: the gallery, then the items of the paid orders, then the row *)

AbrirGaleria(r, p, F) ==
  /\ Em(r, "livre")
  /\ status[p] = "INEXISTENTE"
  /\ F # {}
  /\ Segue(r, [Livre EXCEPT !.pc = "seleciona", !.pedido = p, !.fotos = F,
                 !.incluidas = incluidas, !.extra = extra])
  /\ UNCHANGED <<galeria, pedidos, contagem>>

\* the first ones of the cart go as included, the rest as extras; without a price for
\* extras, or with a photo chosen before, the order is refused (Desistir)
Selecionar(r) ==
  /\ Em(r, "seleciona")
  /\ req[r].fotos \cap Escolhidas = {}
  /\ \E I \in SUBSET req[r].fotos :
       /\ Cardinality(I) <= Restantes(req[r].incluidas)
       /\ I # req[r].fotos => Cardinality(I) = Restantes(req[r].incluidas) /\ req[r].extra
       /\ Segue(r, [req[r] EXCEPT !.pc = "cria", !.gratis = I])
  /\ UNCHANGED <<galeria, pedidos, contagem>>

\* fault: what goes as included is no item
CriarSoExtras(r) ==
  LET q == req[r]
  IN /\ Em(r, "cria")
     /\ status[q.pedido] = "INEXISTENTE"
     /\ status' = [status EXCEPT ![q.pedido] = "ABERTO"]
     /\ itens' = itens \cup ({q.pedido} \X (q.fotos \ q.gratis))
     /\ gratis' = gratis \cup ({q.pedido} \X q.gratis)
     /\ Segue(r, IF q.gratis = q.fotos THEN [Livre EXCEPT !.pc = "libera", !.pedido = q.pedido]
                 ELSE Livre)
     /\ UNCHANGED <<galeria, downloads, contagem>>

\* nothing to pay: liberar at once
Criar(r) ==
  LET q == req[r]
  IN /\ Em(r, "cria")
     /\ status[q.pedido] = "INEXISTENTE"
     /\ status' = [status EXCEPT ![q.pedido] = "ABERTO"]
     /\ itens' = itens \cup ({q.pedido} \X q.fotos)
     /\ gratis' = gratis \cup ({q.pedido} \X q.gratis)
     /\ Segue(r, IF q.gratis = q.fotos THEN [Livre EXCEPT !.pc = "libera", !.pedido = q.pedido]
                 ELSE Livre)
     /\ UNCHANGED <<galeria, downloads, contagem>>

\* liberar's transaction; createMany skips the rows that exist
Libera(p) ==
  /\ status[p] # "PAGO"
  /\ status' = [status EXCEPT ![p] = "PAGO"]
  /\ downloads' = downloads \cup {i \in itens : i[1] = p}

Liberar(r) ==
  /\ Em(r, "libera")
  /\ IF status[req[r].pedido] # "PAGO" THEN Libera(req[r].pedido)
     ELSE UNCHANGED <<status, downloads>>
  /\ Segue(r, Livre)
  /\ UNCHANGED <<galeria, itens, gratis, contagem>>

\* refused, an exception, or a restart
Desistir(r) ==
  /\ ~Em(r, "livre")
  /\ Segue(r, Livre)
  /\ UNCHANGED <<galeria, pedidos, contagem>>

-----------------------------------------------------------------------------
(* Vendas: an order with extras is paid (even a returned one: liberar asks only that it *)
(* is not PAGO); a paid order is returned *)

Pagar(r, p) ==
  /\ Em(r, "livre")
  /\ {i \in itens \ gratis : i[1] = p} # {}
  /\ Libera(p)
  /\ UNCHANGED <<galeria, itens, gratis, contagem, req>>

Devolver(r, p) ==
  /\ Em(r, "livre")
  /\ Pago(p)
  /\ status' = [status EXCEPT ![p] = "ESTORNADO"]
  /\ UNCHANGED <<galeria, itens, gratis, downloads, contagem, req>>

\* the photographer changes the package
AlterarPrecos(r, n, e) ==
  /\ Em(r, "livre")
  /\ incluidas' = n
  /\ extra' = e
  /\ UNCHANGED <<pedidos, contagem, req>>

-----------------------------------------------------------------------------
(* baixar *)

AbrirDownload(r, p, f) ==
  /\ Em(r, "livre")
  /\ <<p, f>> \in downloads
  /\ Pago(p)
  /\ Segue(r, [Livre EXCEPT !.pc = "conta", !.pedido = p, !.fotos = {f}])
  /\ UNCHANGED <<galeria, pedidos, contagem>>

\* fault: the limit is checked on what was read before, not by the update
ContarSempre(r) ==
  /\ Em(r, "conta")
  /\ \E f \in req[r].fotos :
       LET i == <<req[r].pedido, f>>
       IN /\ baixadas' = [baixadas EXCEPT ![i] = @ + 1]
          /\ links' = [links EXCEPT ![i] = @ + 1]
  /\ Segue(r, Livre)
  /\ UNCHANGED <<galeria, pedidos>>

\* updateMany where baixadas < limiteBaixadas; then the link is signed
Contar(r) ==
  /\ Em(r, "conta")
  /\ \E f \in req[r].fotos :
       LET i == <<req[r].pedido, f>>
       IN /\ baixadas[i] < Limite
          /\ baixadas' = [baixadas EXCEPT ![i] = @ + 1]
          /\ links' = [links EXCEPT ![i] = @ + 1]
  /\ Segue(r, Livre)
  /\ UNCHANGED <<galeria, pedidos>>

\* the storage cannot sign the link: the download counts all the same
ContarSemLink(r) ==
  /\ Em(r, "conta")
  /\ \E f \in req[r].fotos :
       /\ baixadas[<<req[r].pedido, f>>] < Limite
       /\ baixadas' = [baixadas EXCEPT ![<<req[r].pedido, f>>] = @ + 1]
  /\ Segue(r, Livre)
  /\ UNCHANGED <<galeria, pedidos, links>>

-----------------------------------------------------------------------------
\* orders and the package; downloads
PassoPedido(r) ==
  \/ \E p \in Pedido, F \in SUBSET Foto : AbrirGaleria(r, p, F)
  \/ Selecionar(r)
  \/ Criar(r)
  \/ Liberar(r)
  \/ \E p \in Pedido : Pagar(r, p) \/ Devolver(r, p)
  \/ \E n \in Pacotes, e \in Extras : AlterarPrecos(r, n, e)

PassoDownload(r) ==
  \/ \E p \in Pedido, f \in Foto : AbrirDownload(r, p, f)
  \/ Contar(r)
  \/ ContarSemLink(r)

Next == \E r \in Req : PassoPedido(r) \/ PassoDownload(r) \/ Desistir(r)

Spec == Init /\ [][Next]_vars
-----------------------------------------------------------------------------
(* Properties *)

\* Type invariant.
TypeOK ==
  /\ incluidas \in Pacotes
  /\ extra \in Extras
  /\ status \in [Pedido -> StatusPedido]
  /\ itens \subseteq Item
  /\ gratis \subseteq itens
  /\ downloads \subseteq itens
  /\ baixadas \in [Item -> Nat]
  /\ links \in [Item -> Nat]
  /\ req \in [Req -> Handler]

\* However many downloads of a photo run at once, and orders are returned meanwhile, at most
\* Limite links of it are handed out, each of them counted, and only for what was once paid.
LinksContados ==
  \A i \in Item :
    /\ links[i] <= baixadas[i]
    /\ baixadas[i] <= Limite
    /\ baixadas[i] > 0 => i \in downloads
=============================================================================
