--------------------------- MODULE Pacote_proofs ---------------------------
(***************************************************************************)
(* Proofs about Pacote: type correctness, and the count of the links, for  *)
(* every number of orders, photos and handlers.  LinksContados says that   *)
(* what is counted was paid; a handler counts what it read before, so the  *)
(* invariant also says that what a handler is about to count has its row.  *)
(***************************************************************************)
EXTENDS Pacote, TLAPS

\* A handler about to count holds photos with a Download row; one past the first await holds an
\* order, and the included photos it is about to write are among its items.
CoerentePac(q) ==
  /\ q.pc \in {"seleciona", "cria", "libera", "conta"} => q.pedido \in Pedido
  /\ q.pc = "cria" => q.gratis \subseteq q.fotos
  /\ q.pc = "conta" => {q.pedido} \X q.fotos \subseteq downloads

PacoteInv ==
  /\ TypeOK
  /\ \A r \in Req : CoerentePac(req[r])
  /\ LinksContados

\* An idle handler.
LEMMA LivreTipo == Livre \in Handler /\ CoerentePac(Livre)
  BY DEF Livre, Handler, CoerentePac

\* The invariant holds at the start.
LEMMA InitPacoteInv == Init => PacoteInv
<1> SUFFICES ASSUME Init PROVE PacoteInv
  OBVIOUS
<1>1. TypeOK
  BY LivreTipo DEF Init, TypeOK, StatusPedido, Item
<1>2. LinksContados
  BY LimiteAssumption DEF Init, LinksContados
<1> QED BY <1>1, <1>2, LivreTipo DEF Init, PacoteInv

\* A step that only moves one handler.
LEMMA SoHandlerPac ==
  ASSUME PacoteInv, NEW r \in Req, NEW q \in Handler, CoerentePac(q), Segue(r, q),
         UNCHANGED <<galeria, pedidos, contagem>>
  PROVE  PacoteInv'
  BY DEF PacoteInv, TypeOK, CoerentePac, LinksContados, Segue, galeria, pedidos, contagem

\* A step on the orders that keeps the rows it found and gives each download its item.
LEMMA SoPedidos ==
  ASSUME PacoteInv, NEW r \in Req, NEW q \in Handler, CoerentePac(q), Segue(r, q) \/ UNCHANGED req,
         UNCHANGED <<galeria, contagem>>,
         status' \in [Pedido -> StatusPedido], itens' \subseteq Item, itens \subseteq itens',
         gratis' \subseteq itens', downloads' \subseteq itens', downloads \subseteq downloads'
  PROVE  PacoteInv'
  BY DEF PacoteInv, TypeOK, CoerentePac, LinksContados, Segue, galeria, contagem

\* The rows of a release are rows of items.
LEMMA LiberaTipo ==
  ASSUME PacoteInv, NEW p \in Pedido, Libera(p), UNCHANGED <<itens, gratis>>
  PROVE  /\ status' \in [Pedido -> StatusPedido]
         /\ downloads' \subseteq itens' /\ downloads \subseteq downloads'
  BY DEF PacoteInv, TypeOK, Libera, StatusPedido

\* criarPedido, once it has read the gallery.
LEMMA AbrirGaleriaIInv ==
  ASSUME PacoteInv, NEW r \in Req, NEW p \in Pedido, NEW F \in SUBSET Foto, AbrirGaleria(r, p, F)
  PROVE  PacoteInv'
<1> DEFINE q == [Livre EXCEPT !.pc = "seleciona", !.pedido = p, !.fotos = F,
                   !.incluidas = incluidas, !.extra = extra]
<1>1. q \in Handler /\ CoerentePac(q)
  BY PacotesAssumption, ExtrasAssumption DEF PacoteInv, TypeOK, Livre, Handler, CoerentePac
<1>2. Segue(r, q) /\ UNCHANGED <<galeria, pedidos, contagem>>
  BY DEF AbrirGaleria
<1> HIDE DEF q
<1> QED BY <1>1, <1>2, SoHandlerPac

\* criarPedido, once it has chosen what goes as included.
LEMMA SelecionarIInv ==
  ASSUME PacoteInv, NEW r \in Req, Selecionar(r)
  PROVE  PacoteInv'
<1>1. PICK I \in SUBSET req[r].fotos : Segue(r, [req[r] EXCEPT !.pc = "cria", !.gratis = I])
  BY DEF Selecionar
<1> DEFINE q == [req[r] EXCEPT !.pc = "cria", !.gratis = I]
<1>2. req[r] \in Handler /\ req[r].pedido \in Pedido
  BY DEF PacoteInv, TypeOK, CoerentePac, Selecionar, Em
<1>3. q \in Handler /\ CoerentePac(q)
  BY <1>2 DEF Handler, CoerentePac
<1>4. Segue(r, q) /\ UNCHANGED <<galeria, pedidos, contagem>>
  BY <1>1 DEF Selecionar
<1> HIDE DEF q
<1> QED BY <1>3, <1>4, SoHandlerPac

\* criarPedido, once it has written the order and its items.
LEMMA CriarIInv ==
  ASSUME PacoteInv, NEW r \in Req, Criar(r)
  PROVE  PacoteInv'
<1> DEFINE q == req[r]
           l == IF q.gratis = q.fotos THEN [Livre EXCEPT !.pc = "libera", !.pedido = q.pedido]
                ELSE Livre
<1>1. q \in Handler /\ q.pedido \in Pedido /\ q.gratis \subseteq q.fotos
  BY DEF PacoteInv, TypeOK, CoerentePac, Criar, Em
<1>2. l \in Handler /\ CoerentePac(l)
  BY <1>1, LivreTipo DEF Livre, Handler, CoerentePac
<1>3. status' \in [Pedido -> StatusPedido]
  BY <1>1 DEF PacoteInv, TypeOK, Criar, StatusPedido
<1>4. itens' \subseteq Item /\ itens \subseteq itens' /\ downloads' \subseteq itens'
  BY <1>1 DEF PacoteInv, TypeOK, Criar, Item, Handler
<1>5. Segue(r, l) /\ UNCHANGED <<galeria, downloads, contagem>>
  BY DEF Criar
<1>6. gratis' \subseteq itens'
  BY <1>1 DEF PacoteInv, TypeOK, Criar, Handler
<1>7. downloads \subseteq downloads'
  BY <1>5
<1> HIDE DEF q, l
<1> QED BY <1>2, <1>3, <1>4, <1>5, <1>6, <1>7, SoPedidos

\* liberar of an order with nothing to pay.
LEMMA LiberarPacoteInv ==
  ASSUME PacoteInv, NEW r \in Req, Liberar(r)
  PROVE  PacoteInv'
<1>1. req[r].pedido \in Pedido
  BY DEF PacoteInv, CoerentePac, Liberar, Em
<1>2. status' \in [Pedido -> StatusPedido] /\ downloads' \subseteq itens' /\ downloads \subseteq downloads'
  <2>1. CASE status[req[r].pedido] # "PAGO"
    BY <1>1, <2>1, LiberaTipo DEF Liberar
  <2>2. CASE status[req[r].pedido] = "PAGO"
    BY <2>2 DEF PacoteInv, TypeOK, Liberar
  <2> QED BY <2>1, <2>2
<1>3. itens' \subseteq Item /\ itens \subseteq itens' /\ gratis' \subseteq itens'
  BY DEF PacoteInv, TypeOK, Liberar
<1>4. Segue(r, Livre) /\ UNCHANGED <<galeria, contagem>>
  BY DEF Liberar
<1> QED BY <1>2, <1>3, <1>4, LivreTipo, SoPedidos

\* Payment and return of an order, as Vendas does them.
LEMMA PagarDevolverIInv ==
  ASSUME PacoteInv, NEW r \in Req, NEW p \in Pedido, Pagar(r, p) \/ Devolver(r, p)
  PROVE  PacoteInv'
<1>1. status' \in [Pedido -> StatusPedido] /\ downloads' \subseteq itens' /\ downloads \subseteq downloads'
  <2>1. CASE Pagar(r, p)
    BY <2>1, LiberaTipo DEF Pagar
  <2>2. CASE Devolver(r, p)
    BY <2>2 DEF PacoteInv, TypeOK, Devolver, StatusPedido
  <2> QED BY <2>1, <2>2
<1>2. itens' \subseteq Item /\ itens \subseteq itens' /\ gratis' \subseteq itens'
  BY DEF PacoteInv, TypeOK, Pagar, Devolver
<1>3. UNCHANGED <<galeria, contagem, req>>
  BY DEF Pagar, Devolver
<1> QED BY <1>1, <1>2, <1>3, LivreTipo, SoPedidos

\* The photographer changes the package: no row is touched.
LEMMA AlterarPrecosIInv ==
  ASSUME PacoteInv, NEW r \in Req, NEW n \in Pacotes, NEW e \in Extras, AlterarPrecos(r, n, e)
  PROVE  PacoteInv'
  BY DEF PacoteInv, TypeOK, CoerentePac, LinksContados, AlterarPrecos, pedidos, contagem

\* baixar, once it has read the row: the photo it holds has one.
LEMMA AbrirDownloadIInv ==
  ASSUME PacoteInv, NEW r \in Req, NEW p \in Pedido, NEW f \in Foto, AbrirDownload(r, p, f)
  PROVE  PacoteInv'
<1> DEFINE q == [Livre EXCEPT !.pc = "conta", !.pedido = p, !.fotos = {f}]
<1>1. q \in Handler /\ q.pc = "conta" /\ q.pedido = p /\ q.fotos = {f}
  BY DEF Livre, Handler
<1>2. <<p, f>> \in downloads
  BY DEF AbrirDownload
<1>3. CoerentePac(q)
  BY <1>1, <1>2 DEF CoerentePac
<1>4. Segue(r, q) /\ UNCHANGED <<galeria, pedidos, contagem>>
  BY DEF AbrirDownload
<1> HIDE DEF q
<1> QED BY <1>1, <1>3, <1>4, SoHandlerPac

\* baixar, once it has counted: the update refuses a photo at its limit.
LEMMA ContarIInv ==
  ASSUME PacoteInv, NEW r \in Req, Contar(r) \/ ContarSemLink(r)
  PROVE  PacoteInv'
<1>1. PICK f \in req[r].fotos :
        /\ baixadas[<<req[r].pedido, f>>] < Limite
        /\ baixadas' = [baixadas EXCEPT ![<<req[r].pedido, f>>] = @ + 1]
        /\ \/ links' = [links EXCEPT ![<<req[r].pedido, f>>] = @ + 1]
           \/ links' = links
  BY DEF Contar, ContarSemLink
<1> DEFINE i == <<req[r].pedido, f>>
<1>2. i \in Item /\ i \in downloads
  BY DEF PacoteInv, TypeOK, CoerentePac, Contar, ContarSemLink, Em, Handler, Item
<1>3. baixadas \in [Item -> Nat] /\ links \in [Item -> Nat]
  BY DEF PacoteInv, TypeOK
<1>4. Segue(r, Livre) /\ UNCHANGED <<galeria, pedidos>>
  BY DEF Contar, ContarSemLink
<1> HIDE DEF i
<1>5. baixadas' \in [Item -> Nat] /\ links' \in [Item -> Nat]
  BY <1>1, <1>2, <1>3 DEF i
<1>6. LinksContados'
  <2> SUFFICES ASSUME NEW j \in Item
               PROVE  links'[j] <= baixadas'[j] /\ baixadas'[j] <= Limite
                      /\ (baixadas'[j] > 0 => j \in downloads')
    BY DEF LinksContados
  <2>1. links[j] <= baixadas[j] /\ baixadas[j] <= Limite /\ (baixadas[j] > 0 => j \in downloads)
    BY DEF PacoteInv, LinksContados
  <2>2. downloads' = downloads
    BY <1>4 DEF pedidos
  <2>3. CASE j = i
    BY <1>1, <1>2, <1>3, <2>1, <2>2, <2>3, LimiteAssumption DEF i
  <2>4. CASE j # i
    BY <1>1, <1>2, <1>3, <2>1, <2>2, <2>4 DEF i
  <2> QED BY <2>3, <2>4
<1>7. TypeOK'
  BY <1>4, <1>5, LivreTipo DEF PacoteInv, TypeOK, Segue, galeria, pedidos
<1>8. \A s \in Req : CoerentePac(req[s])'
  BY <1>4, LivreTipo DEF PacoteInv, TypeOK, CoerentePac, Segue, pedidos
<1> QED BY <1>6, <1>7, <1>8 DEF PacoteInv

\* Every step keeps the invariant.
LEMMA NextPacoteInv == PacoteInv /\ [Next]_vars => PacoteInv'
<1> SUFFICES ASSUME PacoteInv, [Next]_vars PROVE PacoteInv'
  OBVIOUS
<1>1. CASE Next
  <2>1. PICK r \in Req :
          \/ \E p \in Pedido, F \in SUBSET Foto : AbrirGaleria(r, p, F)
          \/ Selecionar(r)
          \/ Criar(r)
          \/ Liberar(r)
          \/ Desistir(r)
          \/ \E p \in Pedido : Pagar(r, p) \/ Devolver(r, p)
          \/ \E n \in Pacotes, e \in Extras : AlterarPrecos(r, n, e)
          \/ \E p \in Pedido, f \in Foto : AbrirDownload(r, p, f)
          \/ Contar(r)
          \/ ContarSemLink(r)
    BY <1>1 DEF Next, PassoPedido, PassoDownload
  <2>2. CASE \E p \in Pedido, F \in SUBSET Foto : AbrirGaleria(r, p, F)
    BY <2>2, AbrirGaleriaIInv
  <2>3. CASE Selecionar(r)
    BY <2>3, SelecionarIInv
  <2>4. CASE Criar(r)
    BY <2>4, CriarIInv
  <2>5. CASE Liberar(r)
    BY <2>5, LiberarPacoteInv
  <2>6. CASE Desistir(r)
    BY <2>6, LivreTipo, SoHandlerPac DEF Desistir
  <2>7. CASE \E p \in Pedido : Pagar(r, p) \/ Devolver(r, p)
    BY <2>7, PagarDevolverIInv
  <2>8. CASE \E n \in Pacotes, e \in Extras : AlterarPrecos(r, n, e)
    BY <2>8, AlterarPrecosIInv
  <2>9. CASE \E p \in Pedido, f \in Foto : AbrirDownload(r, p, f)
    BY <2>9, AbrirDownloadIInv
  <2>10. CASE Contar(r) \/ ContarSemLink(r)
    BY <2>10, ContarIInv
  <2> QED BY <2>1, <2>2, <2>3, <2>4, <2>5, <2>6, <2>7, <2>8, <2>9, <2>10
<1>2. CASE UNCHANGED vars
  BY <1>2 DEF PacoteInv, TypeOK, CoerentePac, LinksContados, vars
<1> QED BY <1>1, <1>2

\* The inductive invariant of criarPedido and baixar.
THEOREM InvariantePacote == Spec => []PacoteInv
  BY InitPacoteInv, NextPacoteInv, PTL DEF Spec

\* Rows, counts and handlers keep their types.
THEOREM TiposPacote == Spec => []TypeOK
<1>1. PacoteInv => TypeOK
  BY DEF PacoteInv
<1> QED BY <1>1, InvariantePacote, PTL

\* baixar hands out at most Limite links of a photo, each counted, and only of what was paid.
THEOREM LimiteDeLinks == Spec => []LinksContados
<1>1. PacoteInv => LinksContados
  BY DEF PacoteInv
<1> QED BY <1>1, InvariantePacote, PTL

=============================================================================
