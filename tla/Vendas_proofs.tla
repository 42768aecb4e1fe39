--------------------------- MODULE Vendas_proofs ---------------------------
(***************************************************************************)
(* Proofs about Vendas, for every number of orders, payments and handlers; *)
(* about Webhooks, whose steps seen from the sale are steps of Vendas or   *)
(* none; and about the desktop's pull.                                     *)
(* PagoTemAprovacao is not inductive: a handler that read `approved' goes  *)
(* on to liberar later, so what each handler carries (HandlersCoerentes)   *)
(* must stay true while others run.  It does because MP's payments only    *)
(* grow (MpCresce): every lemma of the first sections either leaves MP     *)
(* alone or shows MpCresce.                                                *)
(***************************************************************************)
EXTENDS MCFalhas, FiniteSetTheorems, TLAPS

\* The inductive invariant.
IInv ==
  /\ TypeOK
  /\ HandlersCoerentes
  /\ RegistrosTemPagamento
  /\ PagoTemAprovacao
  /\ EstornadoTemDevolucao
  /\ TotalCobrePagos

\* What MP never takes back: a payment keeps its order, an approval or a refund happened.
MpCresce ==
  \A g \in Pg :
    /\ mp[g].pedido \in Pedido => mp'[g].pedido = mp[g].pedido
    /\ FoiAprovado(g) => FoiAprovado(g)'
    /\ Devolvido(g) => Devolvido(g)'

\* An idle handler is well typed and coherent.
LEMMA LivreTipo == Livre \in Handler /\ Coerente(Livre) /\ Coerente(Livre)'
  BY DEF Livre, Handler, Pc, Coerente

\* A step that leaves MP alone takes nothing back.
LEMMA MpParado == UNCHANGED mp => MpCresce
  BY DEF MpCresce, FoiAprovado, Devolvido

\* An order keeps its approval and its refund while MP's payments only grow.
LEMMA TemCresce ==
  ASSUME MpCresce, NEW p \in Pedido
  PROVE  /\ TemAprovado(p) => TemAprovado(p)'
         /\ TemDevolvido(p) => TemDevolvido(p)'
  BY DEF MpCresce, TemAprovado, TemDevolvido

\* What a handler carries stays true while MP's payments only grow.
LEMMA CoerenteCresce ==
  ASSUME MpCresce, NEW q \in Handler, Coerente(q)
  PROVE  Coerente(q)'
  BY TemCresce DEF MpCresce, Coerente, Handler, Pc

\* The step of one handler to a coherent value keeps every handler coherent.
LEMMA HandlersSeguem ==
  ASSUME TypeOK, HandlersCoerentes, MpCresce, NEW r \in Req, NEW q \in Handler,
         Coerente(q)', req' = [req EXCEPT ![r] = q]
  PROVE  HandlersCoerentes' /\ req' \in [Req -> Handler]
<1>1. req' \in [Req -> Handler]
  BY DEF TypeOK
<1>2. ASSUME NEW s \in Req PROVE Coerente(req[s])'
  <2>1. CASE s = r
    <3>1. req'[s] = q
      BY <2>1 DEF TypeOK
    <3> QED BY <3>1 DEF Coerente, FoiAprovado, Devolvido, TemAprovado, TemDevolvido
  <2>2. CASE s # r
    <3>1. PICK v \in Handler : v = req[s]
      BY DEF TypeOK
    <3>2. req'[s] = v
      BY <2>2, <3>1 DEF TypeOK
    <3>3. Coerente(v)
      BY <3>1 DEF HandlersCoerentes
    <3>4. Coerente(v)'
      BY <3>3, CoerenteCresce
    <3> QED BY <3>2, <3>4 DEF Coerente, FoiAprovado, Devolvido, TemAprovado, TemDevolvido
  <2> QED BY <2>1, <2>2
<1> QED BY <1>1, <1>2 DEF HandlersCoerentes

-----------------------------------------------------------------------------
(* Steps that only read *)

\* A step that only moves one handler: the rows and MP are as they were (the awaits that read).
LEMMA SoLe ==
  ASSUME IInv, NEW r \in Req, NEW q \in Handler, Coerente(q),
         req' = [req EXCEPT ![r] = q], UNCHANGED <<banco, mp, reembolso>>
  PROVE  IInv'
<1>1. MpCresce
  BY MpParado
<1>2. Coerente(q)'
  BY <1>1, CoerenteCresce
<1>3. HandlersCoerentes' /\ req' \in [Req -> Handler]
  BY <1>1, <1>2, HandlersSeguem DEF IInv
<1>4. TypeOK'
  BY <1>3 DEF IInv, TypeOK, banco
<1>5. RegistrosTemPagamento' /\ PagoTemAprovacao' /\ EstornadoTemDevolucao' /\ TotalCobrePagos'
  BY DEF IInv, banco, RegistrosTemPagamento, PagoTemAprovacao, EstornadoTemDevolucao,
         TotalCobrePagos, TemAprovado, TemDevolvido, FoiAprovado, Devolvido
<1> QED BY <1>3, <1>4, <1>5 DEF IInv

\* A handler about to run consultar is well typed and coherent.
LEMMA ConsultandoTipo ==
  ASSUME NEW p \in Pedido
  PROVE  /\ Consultando(p) \in Handler /\ Coerente(Consultando(p))
         /\ Expirando(p) \in Handler /\ Coerente(Expirando(p))
  BY DEF Consultando, Expirando, Livre, Handler, Pc, Coerente

\* pagamentos.length is a natural number.
LEMMA TamanhoTipo == ASSUME NEW p PROVE Cardinality(Pagamentos(p)) \in Nat
  BY PgAssumption, FS_Subset, FS_CardinalityType DEF Pagamentos

\* STATUS_DO_MP gives a status of the enum.
LEMMA StatusLocalTipo == ASSUME NEW st PROVE StatusLocal(st) \in StatusPagamento
  BY DEF StatusLocal, StatusPagamento

\* pagarPix up to the call to MP.
LEMMA PagarPixIInv ==
  ASSUME IInv, NEW r \in Req, NEW p \in Pedido, PagarPix(r, p)
  PROVE  IInv'
<1> DEFINE q == IF PixAberto(p) # {}
                THEN Consultando(p)
                ELSE [Livre EXCEPT !.pc = "pix_mp", !.pedido = p,
                        !.chave = [metodo |-> "PIX", id |-> Cardinality(Pagamentos(p))]]
<1>1. q \in Handler /\ Coerente(q)
  BY ConsultandoTipo, TamanhoTipo DEF Livre, Handler, Pc, Chave, Metodo, Coerente
<1>2. req' = [req EXCEPT ![r] = q] /\ UNCHANGED <<banco, mp, reembolso>>
  BY DEF PagarPix, Segue
<1> HIDE DEF q
<1> QED BY <1>1, <1>2, SoLe

\* pagarCartao up to the call to MP.
LEMMA PagarCartaoIInv ==
  ASSUME IInv, NEW r \in Req, NEW p \in Pedido, NEW t \in Token, PagarCartao(r, p, t)
  PROVE  IInv'
<1> DEFINE q == [Livre EXCEPT !.pc = "cartao_mp", !.pedido = p, !.lido = pedido[p],
                   !.chave = [metodo |-> "CARTAO", id |-> t], !.volta = "consulta"]
<1>1. q \in Handler /\ Coerente(q)
  BY TokenAssumption DEF IInv, TypeOK, PagarCartao, PodePagar, StatusPedido, Livre, Handler, Pc,
                         Chave, Metodo, Coerente
<1>2. req' = [req EXCEPT ![r] = q] /\ UNCHANGED <<banco, mp, reembolso>>
  BY DEF PagarCartao, Segue
<1> HIDE DEF q
<1> QED BY <1>1, <1>2, SoLe

\* processarAviso up to the call to MP.
LEMMA ReceberAvisoIInv ==
  ASSUME IInv, NEW r \in Req, NEW g \in Pg, ReceberAviso(r, g)
  PROVE  IInv'
<1> DEFINE q == [Livre EXCEPT !.pc = "aviso_mp", !.pedido = mp[g].pedido, !.pg = g]
<1>1. q \in Handler /\ Coerente(q)
  BY DEF IInv, RegistrosTemPagamento, ReceberAviso, Livre, Handler, Pc, Coerente
<1>2. req' = [req EXCEPT ![r] = q] /\ UNCHANGED <<banco, mp, reembolso>>
  BY DEF ReceberAviso, Segue
<1> HIDE DEF q
<1> QED BY <1>1, <1>2, SoLe

\* obterPagamento: the status read is one MP has reached.
LEMMA PerguntaAoMpIInv ==
  ASSUME IInv, NEW r \in Req, PerguntaAoMp(r)
  PROVE  IInv'
<1> DEFINE q == [req[r] EXCEPT !.pc = "aplica", !.st = mp[req[r].pg].status]
<1>1. req[r] \in Handler /\ Coerente(req[r])
  BY DEF IInv, TypeOK, HandlersCoerentes
<1>2. req[r].pg \in Pg /\ req[r].pedido \in Pedido /\ mp[req[r].pg].pedido = req[r].pedido
  BY <1>1 DEF Coerente, PerguntaAoMp
<1>3. mp[req[r].pg].status \in StatusMp
  BY <1>2, NenhumAssumption DEF IInv, TypeOK, SemPagamento
<1>4. q \in Handler /\ Coerente(q)
  BY <1>1, <1>2, <1>3 DEF Handler, Pc, Coerente, FoiAprovado, Devolvido
<1>5. req' = [req EXCEPT ![r] = q] /\ UNCHANGED <<banco, mp, reembolso>>
  BY DEF PerguntaAoMp, Segue
<1> HIDE DEF q
<1> QED BY <1>4, <1>5, SoLe

\* devolver up to the refund.
LEMMA DevolverIInv ==
  ASSUME IInv, NEW r \in Req, NEW p \in Pedido, Devolver(r, p)
  PROVE  IInv'
<1>1. CASE Subtotal[p] = 0 /\ Segue(r, [Livre EXCEPT !.pc = "estorna", !.pedido = p])
  <2> DEFINE q == [Livre EXCEPT !.pc = "estorna", !.pedido = p]
  <2>1. q \in Handler /\ Coerente(q)
    BY <1>1 DEF Livre, Handler, Pc, Coerente
  <2>2. req' = [req EXCEPT ![r] = q] /\ UNCHANGED <<banco, mp, reembolso>>
    BY <1>1 DEF Devolver, Segue
  <2> HIDE DEF q
  <2> QED BY <2>1, <2>2, SoLe
<1>2. ASSUME NEW g \in Pg, MaisNovo(g, ComStatus(p, "APROVADO")),
             Segue(r, [Livre EXCEPT !.pc = "devolve_mp", !.pedido = p, !.pg = g])
      PROVE  IInv'
  <2> DEFINE q == [Livre EXCEPT !.pc = "devolve_mp", !.pedido = p, !.pg = g]
  <2>1. q \in Handler /\ Coerente(q)
    BY <1>2 DEF Livre, Handler, Pc, Coerente, MaisNovo, ComStatus, Pagamentos
  <2>2. req' = [req EXCEPT ![r] = q] /\ UNCHANGED <<banco, mp, reembolso>>
    BY <1>2 DEF Devolver, Segue
  <2> HIDE DEF q
  <2> QED BY <2>1, <2>2, SoLe
<1> QED BY <1>1, <1>2 DEF Devolver

\* consultar, when it asks MP again.
LEMMA ReconsultarIInv ==
  ASSUME IInv, NEW r \in Req, Reconsultar(r)
  PROVE  IInv'
<1> DEFINE p == req[r].pedido
<1>1. p \in Pedido
  BY DEF IInv, HandlersCoerentes, Coerente, Reconsultar, Em
<1>2. PICK g \in Pg :
        /\ MaisNovo(g, ComStatus(p, "PENDENTE"))
        /\ Segue(r, [Livre EXCEPT !.pc = "consulta_mp", !.pedido = p, !.pg = g,
                       !.volta = "recarrega", !.expira = DeveExpirar(p)])
  BY DEF Reconsultar
<1> DEFINE q == [Livre EXCEPT !.pc = "consulta_mp", !.pedido = p, !.pg = g,
                   !.volta = "recarrega", !.expira = DeveExpirar(p)]
<1>3. DeveExpirar(p) \in BOOLEAN
  BY DEF DeveExpirar
<1>4. q \in Handler /\ Coerente(q)
  BY <1>1, <1>2, <1>3 DEF Livre, Handler, Pc, Coerente, MaisNovo, ComStatus, Pagamentos
<1>5. req' = [req EXCEPT ![r] = q] /\ UNCHANGED <<banco, mp, reembolso>>
  BY <1>2 DEF Reconsultar, Segue
<1> HIDE DEF q
<1> QED BY <1>4, <1>5, SoLe

\* consultar, when it does not ask.
LEMMA ConsultarIInv ==
  ASSUME IInv, NEW r \in Req, Consultar(r)
  PROVE  IInv'
<1> DEFINE q == IF DeveExpirar(req[r].pedido) THEN Expirando(req[r].pedido) ELSE Livre
<1>1. req[r].pedido \in Pedido
  BY DEF IInv, HandlersCoerentes, Coerente, Consultar, Em
<1>2. q \in Handler /\ Coerente(q)
  BY <1>1, ConsultandoTipo, LivreTipo
<1>3. req' = [req EXCEPT ![r] = q] /\ UNCHANGED <<banco, mp, reembolso>>
  BY DEF Consultar, Segue
<1> HIDE DEF q
<1> QED BY <1>2, <1>3, SoLe

\* The order's page.
LEMMA AbrirPedidoIInv ==
  ASSUME IInv, NEW r \in Req, NEW p \in Pedido, AbrirPedido(r, p)
  PROVE  IInv'
  BY ConsultandoTipo, SoLe DEF AbrirPedido, Segue

\* consultar's second read of the order.
LEMMA RecarregarIInv ==
  ASSUME IInv, NEW r \in Req, Recarregar(r)
  PROVE  IInv'
<1> DEFINE q == IF DeveExpirar(req[r].pedido) THEN Expirando(req[r].pedido) ELSE Livre
<1>1. req[r].pedido \in Pedido
  BY DEF IInv, HandlersCoerentes, Coerente, Recarregar, Em
<1>2. q \in Handler /\ Coerente(q)
  BY <1>1, ConsultandoTipo, LivreTipo
<1>3. req' = [req EXCEPT ![r] = q] /\ UNCHANGED <<banco, mp, reembolso>>
  BY DEF Recarregar, Segue
<1> HIDE DEF q
<1> QED BY <1>2, <1>3, SoLe

\* A handler that dies.
LEMMA FalharIInv ==
  ASSUME IInv, NEW r \in Req, Falhar(r)
  PROVE  IInv'
  BY LivreTipo, SoLe DEF Falhar, Termina

\* The error consultar swallows.
LEMMA ErroNaReconsultaIInv ==
  ASSUME IInv, NEW r \in Req, ErroNaReconsulta(r)
  PROVE  IInv'
<1> DEFINE q == IF req[r].expira THEN Expirando(req[r].pedido) ELSE Livre
<1>1. req[r].pedido \in Pedido
  BY DEF IInv, HandlersCoerentes, Coerente, ErroNaReconsulta
<1>2. q \in Handler /\ Coerente(q)
  BY <1>1, ConsultandoTipo, LivreTipo
<1>3. req' = [req EXCEPT ![r] = q] /\ UNCHANGED <<banco, mp, reembolso>>
  BY DEF ErroNaReconsulta, Segue
<1> HIDE DEF q
<1> QED BY <1>2, <1>3, SoLe

-----------------------------------------------------------------------------
(* Steps that write the database *)

\* After aplicar a coherent handler goes on to a coherent one.
LEMMA ContinuaTipo ==
  ASSUME NEW q \in Handler, Coerente(q), q.pc # "livre"
  PROVE  Continua(q) \in Handler /\ Coerente(Continua(q))
<1>1. CASE q.volta = "consulta"
  BY <1>1, ConsultandoTipo DEF Continua, Coerente
<1>2. CASE q.volta = "recarrega"
  BY <1>2 DEF Continua, Coerente, Handler, Pc
<1>3. CASE q.volta = "livre"
  BY <1>3, LivreTipo DEF Continua
<1> QED BY <1>1, <1>2, <1>3 DEF Handler

\* Of the invariant, only PagoTemAprovacao, EstornadoTemDevolucao and TotalCobrePagos speak
\* of the orders, and only RegistrosTemPagamento of the local rows.
LEMMA EscreveNoBanco ==
  ASSUME IInv, NEW r \in Req, NEW q \in Handler, Coerente(q),
         req' = [req EXCEPT ![r] = q], UNCHANGED <<mp, reembolso>>,
         /\ pedido' \in [Pedido -> StatusPedido \cup {"INEXISTENTE"}]
         /\ vencido' \subseteq Pedido
         /\ pag' \in [Pg -> StatusPagamento \cup {"INEXISTENTE"}]
         /\ ordem' \in [Pg -> Nat]
         /\ pixVencido' \subseteq Pg
         /\ vendas' \in [Pedido -> Int]
         /\ downloads' \subseteq Pedido,
         \A g \in Pg : pag'[g] # "INEXISTENTE" => mp[g].pedido \in Pedido,
         \A p \in Pedido :
            /\ pedido'[p] = "PAGO" /\ Subtotal[p] > 0 => TemAprovado(p)
            /\ pedido'[p] = "ESTORNADO" /\ Subtotal[p] > 0 => TemDevolvido(p)
            /\ vendas'[p] >= IF pedido'[p] = "PAGO" THEN Subtotal[p] ELSE 0
  PROVE  IInv'
<1>1. MpCresce
  BY MpParado
<1>2. Coerente(q)'
  BY <1>1, CoerenteCresce
<1>3. HandlersCoerentes' /\ req' \in [Req -> Handler]
  BY <1>1, <1>2, HandlersSeguem DEF IInv
<1>4. TypeOK'
  BY <1>3 DEF IInv, TypeOK
<1>5. RegistrosTemPagamento'
  BY DEF IInv, RegistrosTemPagamento, TemDevolvido, Devolvido
<1>6. PagoTemAprovacao' /\ EstornadoTemDevolucao'
  BY DEF PagoTemAprovacao, EstornadoTemDevolucao, TemAprovado, TemDevolvido, FoiAprovado, Devolvido
<1>7. TotalCobrePagos'
  BY DEF TotalCobrePagos
<1> QED BY <1>3, <1>4, <1>5, <1>6, <1>7 DEF IInv

\* What an order has put into the total is never negative.
LEMMA VendasNaoNegativas ==
  ASSUME IInv, NEW p \in Pedido PROVE vendas[p] \in Int /\ vendas[p] >= 0
  BY SubtotalAssumption DEF IInv, TypeOK, TotalCobrePagos

\* criarPedido.
LEMMA CriarPedidoIInv ==
  ASSUME IInv, NEW r \in Req, NEW p \in Pedido, CriarPedido(r, p)
  PROVE  IInv'
<1> DEFINE q == IF Subtotal[p] = 0 THEN [Livre EXCEPT !.pc = "libera", !.pedido = p] ELSE Livre
<1> USE DEF CriarPedido
<1>1. q \in Handler /\ Coerente(q)
  BY LivreTipo DEF Livre, Handler, Pc, Coerente
<1>2. CASE Subtotal[p] = 0
  <2>1. req' = [req EXCEPT ![r] = q]
    BY <1>2
  <2> HIDE DEF q
  <2> QED BY <1>1, <2>1, EscreveNoBanco, SubtotalAssumption
          DEF IInv, TypeOK, StatusPedido, RegistrosTemPagamento, PagoTemAprovacao,
              EstornadoTemDevolucao, TotalCobrePagos
<1>3. CASE Subtotal[p] # 0
  <2>1. req' = [req EXCEPT ![r] = req[r]]
    BY <1>3 DEF IInv, TypeOK
  <2>2. req[r] \in Handler /\ Coerente(req[r])
    BY DEF IInv, TypeOK, HandlersCoerentes
  <2> QED BY <2>1, <2>2, EscreveNoBanco, SubtotalAssumption
          DEF IInv, TypeOK, StatusPedido, RegistrosTemPagamento, PagoTemAprovacao,
              EstornadoTemDevolucao, TotalCobrePagos
<1> QED BY <1>2, <1>3

\* The transaction of pagarPix.
LEMMA PixGravaIInv ==
  ASSUME IInv, NEW r \in Req, PixGrava(r)
  PROVE  IInv'
<1> DEFINE p == req[r].pedido
           g == req[r].pg
<1>1. p \in Pedido /\ g \in Pg /\ mp[g].pedido = p
  BY DEF IInv, HandlersCoerentes, Coerente, PixGrava, Em
<1>2. CASE pag[g] # "INEXISTENTE"
  BY <1>2, LivreTipo, SoLe DEF PixGrava, Termina
<1>3. CASE pag[g] = "INEXISTENTE"
  <2>1. /\ pag' = [pag EXCEPT ![g] = StatusLocal(req[r].st)]
        /\ ordem' = [ordem EXCEPT ![g] = Cardinality(Pagamentos(p)) + 1]
        /\ pedido' = [pedido EXCEPT ![p] = "AGUARDANDO_PAGAMENTO"]
        /\ vencido' = vencido \ {p}
        /\ req' = [req EXCEPT ![r] = Consultando(p)]
        /\ UNCHANGED <<pixVencido, vendas, downloads, mp, reembolso>>
    BY <1>3 DEF PixGrava, Segue
  <2>2. Cardinality(Pagamentos(p)) + 1 \in Nat
    BY TamanhoTipo
  <2>3. StatusLocal(req[r].st) \in StatusPagamento
    BY StatusLocalTipo
  <2>4. /\ pedido' \in [Pedido -> StatusPedido \cup {"INEXISTENTE"}]
        /\ vencido' \subseteq Pedido
        /\ pag' \in [Pg -> StatusPagamento \cup {"INEXISTENTE"}]
        /\ ordem' \in [Pg -> Nat]
        /\ pixVencido' \subseteq Pg
        /\ vendas' \in [Pedido -> Int]
        /\ downloads' \subseteq Pedido
    BY <1>1, <2>1, <2>2, <2>3 DEF IInv, TypeOK, StatusPedido
  <2>5. \A h \in Pg : pag'[h] # "INEXISTENTE" => mp[h].pedido \in Pedido
    BY <1>1, <2>1 DEF IInv, TypeOK, RegistrosTemPagamento
  <2>6. \A o \in Pedido :
           /\ pedido'[o] = "PAGO" /\ Subtotal[o] > 0 => TemAprovado(o)
           /\ pedido'[o] = "ESTORNADO" /\ Subtotal[o] > 0 => TemDevolvido(o)
           /\ vendas'[o] >= IF pedido'[o] = "PAGO" THEN Subtotal[o] ELSE 0
    <3> TAKE o \in Pedido
    <3>1. vendas[o] >= 0 /\ vendas'[o] = vendas[o]
      BY <2>1, VendasNaoNegativas
    <3>2. pedido'[o] = pedido[o] \/ pedido'[o] = "AGUARDANDO_PAGAMENTO"
      BY <1>1, <2>1 DEF IInv, TypeOK
    <3> QED BY <3>1, <3>2
            DEF IInv, TypeOK, PagoTemAprovacao, EstornadoTemDevolucao, TotalCobrePagos
  <2> HIDE DEF p, g
  <2> QED BY <1>1, <2>1, <2>4, <2>5, <2>6, ConsultandoTipo, EscreveNoBanco
<1> QED BY <1>2, <1>3

\* The upsert of pagarCartao.
LEMMA CartaoGravaIInv ==
  ASSUME IInv, NEW r \in Req, CartaoGrava(r)
  PROVE  IInv'
<1> DEFINE p == req[r].pedido
           g == req[r].pg
           q == [req[r] EXCEPT !.pc = IF req[r].lido = "ABERTO" THEN "cartao_aguarda" ELSE "aplica"]
<1>1. p \in Pedido /\ g \in Pg /\ mp[g].pedido = p
  BY DEF IInv, HandlersCoerentes, Coerente, CartaoGrava, Em
<1>2. req[r] \in Handler /\ Coerente(req[r]) /\ req[r].pc = "cartao_grava"
  BY DEF IInv, TypeOK, HandlersCoerentes, CartaoGrava, Em
<1>3. q \in Handler /\ Coerente(q)
  BY <1>2 DEF Handler, Pc, Coerente
<1>4. /\ req' = [req EXCEPT ![r] = q]
      /\ UNCHANGED <<pedido, vencido, pixVencido, vendas, downloads, mp, reembolso>>
  BY DEF CartaoGrava, Segue
<1>5. pag' \in [Pg -> StatusPagamento \cup {"INEXISTENTE"}] /\ ordem' \in [Pg -> Nat]
  BY TamanhoTipo, StatusLocalTipo DEF CartaoGrava, IInv, TypeOK
<1>6. \A h \in Pg : pag'[h] # "INEXISTENTE" => mp[h].pedido \in Pedido
  BY <1>1 DEF CartaoGrava, IInv, TypeOK, RegistrosTemPagamento
<1> HIDE DEF p, g, q
<1> QED BY <1>3, <1>4, <1>5, <1>6, EscreveNoBanco
        DEF IInv, TypeOK, PagoTemAprovacao, EstornadoTemDevolucao, TotalCobrePagos

\* CartaoAguarda and Expirar: the order gets a status that promises nothing.
LEMMA SoStatus ==
  ASSUME IInv, NEW r \in Req, NEW q \in Handler, Coerente(q), NEW p \in Pedido,
         NEW st \in {"AGUARDANDO_PAGAMENTO", "EXPIRADO"},
         req' = [req EXCEPT ![r] = q], pedido' = [pedido EXCEPT ![p] = st],
         UNCHANGED <<vencido, pag, ordem, pixVencido, vendas, downloads, mp, reembolso>>
  PROVE  IInv'
<1>1. pedido' \in [Pedido -> StatusPedido \cup {"INEXISTENTE"}]
  BY DEF IInv, TypeOK, StatusPedido
<1>2. \A o \in Pedido :
         /\ pedido'[o] = "PAGO" /\ Subtotal[o] > 0 => TemAprovado(o)
         /\ pedido'[o] = "ESTORNADO" /\ Subtotal[o] > 0 => TemDevolvido(o)
         /\ vendas'[o] >= IF pedido'[o] = "PAGO" THEN Subtotal[o] ELSE 0
  <2> TAKE o \in Pedido
  <2>1. vendas[o] >= 0 /\ vendas'[o] = vendas[o]
    BY VendasNaoNegativas
  <2>2. pedido'[o] = pedido[o] \/ pedido'[o] \in {"AGUARDANDO_PAGAMENTO", "EXPIRADO"}
    BY DEF IInv, TypeOK
  <2> QED BY <2>1, <2>2
          DEF IInv, TypeOK, PagoTemAprovacao, EstornadoTemDevolucao, TotalCobrePagos
<1> QED BY <1>1, <1>2, EscreveNoBanco DEF IInv, TypeOK, RegistrosTemPagamento

\* The update of pagarCartao after the upsert.
LEMMA CartaoAguardaIInv ==
  ASSUME IInv, NEW r \in Req, CartaoAguarda(r)
  PROVE  IInv'
<1> DEFINE q == [req[r] EXCEPT !.pc = "aplica"]
<1>1. req[r] \in Handler /\ Coerente(req[r]) /\ req[r].pc = "cartao_aguarda"
  BY DEF IInv, TypeOK, HandlersCoerentes, CartaoAguarda, Em
<1>2. q \in Handler /\ Coerente(q) /\ req[r].pedido \in Pedido
  BY <1>1 DEF Handler, Pc, Coerente
<1>3. req' = [req EXCEPT ![r] = q]
  BY DEF CartaoAguarda, Segue
<1> HIDE DEF q
<1> QED BY <1>2, <1>3, SoStatus DEF CartaoAguarda

\* The update by which consultar gives an order up.
LEMMA ExpirarIInv ==
  ASSUME IInv, NEW r \in Req, Expirar(r)
  PROVE  IInv'
<1>1. req[r].pedido \in Pedido
  BY DEF IInv, HandlersCoerentes, Coerente, Expirar, Em
<1> QED BY <1>1, LivreTipo, SoStatus DEF Expirar, Termina

\* aplicar: the local row takes MP's status and the handler goes to liberar or marcarEstornado.
LEMMA AplicarIInv ==
  ASSUME IInv, NEW r \in Req, Aplicar(r)
  PROVE  IInv'
<1> DEFINE q == req[r]
           local == StatusLocal(q.st)
           n == CASE local = "APROVADO"  -> [q EXCEPT !.pc = "libera"]
                  [] local = "ESTORNADO" -> [q EXCEPT !.pc = "estorna"]
                  [] OTHER -> Continua(q)
<1>1. /\ q \in Handler /\ Coerente(q) /\ q.pc = "aplica"
      /\ q.pg \in Pg /\ mp[q.pg].pedido = q.pedido /\ q.pedido \in Pedido
  BY DEF IInv, TypeOK, HandlersCoerentes, Aplicar, Em, Coerente
<1>2. local = "APROVADO" => TemAprovado(q.pedido)
  BY <1>1 DEF StatusLocal, Coerente, TemAprovado
<1>3. local = "ESTORNADO" => TemDevolvido(q.pedido)
  BY <1>1 DEF StatusLocal, Coerente, TemDevolvido
<1>4. n \in Handler /\ Coerente(n)
  <2>1. CASE local = "APROVADO"
    BY <1>1, <1>2, <2>1 DEF Handler, Pc, Coerente
  <2>2. CASE local = "ESTORNADO"
    BY <1>1, <1>3, <2>2 DEF Handler, Pc, Coerente
  <2>3. CASE local \notin {"APROVADO", "ESTORNADO"}
    <3>1. n = Continua(q)
      BY <2>3
    <3> QED BY <1>1, <3>1, ContinuaTipo
  <2> QED BY <2>1, <2>2, <2>3
<1>5. req' = [req EXCEPT ![r] = n]
  BY DEF Aplicar, Segue
<1>6. pag' \in [Pg -> StatusPagamento \cup {"INEXISTENTE"}]
  BY <1>1, StatusLocalTipo DEF Aplicar, IInv, TypeOK
<1>7. \A h \in Pg : pag'[h] # "INEXISTENTE" => mp[h].pedido \in Pedido
  BY <1>1 DEF Aplicar, IInv, TypeOK, RegistrosTemPagamento
<1>8. UNCHANGED <<pedido, vencido, ordem, pixVencido, vendas, downloads, mp, reembolso>>
  BY DEF Aplicar
<1> HIDE DEF n, q, local
<1> QED BY <1>4, <1>5, <1>6, <1>7, <1>8, EscreveNoBanco
        DEF IInv, TypeOK, PagoTemAprovacao, EstornadoTemDevolucao, TotalCobrePagos

\* The transaction of liberar.
LEMMA LiberarIInv ==
  ASSUME IInv, NEW r \in Req, Liberar(r)
  PROVE  IInv'
<1> DEFINE q == req[r]
           p == req[r].pedido
<1>1. q \in Handler /\ Coerente(q) /\ q.pc = "libera" /\ p \in Pedido
  BY DEF IInv, TypeOK, HandlersCoerentes, Liberar, Em, Coerente
<1>2. Continua(q) \in Handler /\ Coerente(Continua(q))
  BY <1>1, ContinuaTipo
<1>3. /\ req' = [req EXCEPT ![r] = Continua(q)]
      /\ UNCHANGED <<vencido, pag, ordem, pixVencido, mp, reembolso>>
  BY DEF Liberar, Segue
<1>4. CASE ~(pedido[p] # "PAGO" /\ Confere(q))
  <2>1. UNCHANGED <<pedido, downloads, vendas>>
    BY <1>4 DEF Liberar
  <2> QED BY <1>2, <1>3, <2>1, SoLe DEF banco
<1>5. CASE pedido[p] # "PAGO" /\ Confere(q)
  <2>1. /\ pedido' = [pedido EXCEPT ![p] = "PAGO"]
        /\ downloads' = downloads \cup {p}
        /\ vendas' = [vendas EXCEPT ![p] = @ + Subtotal[p]]
    BY <1>5 DEF Liberar
  <2>2. Subtotal[p] = 0 \/ TemAprovado(p)
    BY <1>1 DEF Coerente
  <2>3. \A o \in Pedido :
           /\ pedido'[o] = "PAGO" /\ Subtotal[o] > 0 => TemAprovado(o)
           /\ pedido'[o] = "ESTORNADO" /\ Subtotal[o] > 0 => TemDevolvido(o)
           /\ vendas'[o] \in Int
           /\ vendas'[o] >= IF pedido'[o] = "PAGO" THEN Subtotal[o] ELSE 0
    <3> TAKE o \in Pedido
    <3>1. CASE o = p
      <4>1. vendas[p] \in Int /\ vendas[p] >= 0 /\ Subtotal[p] \in Nat
        BY <1>1, VendasNaoNegativas, SubtotalAssumption
      <4>2. pedido'[p] = "PAGO" /\ vendas'[p] = vendas[p] + Subtotal[p]
        BY <1>1, <2>1 DEF IInv, TypeOK
      <4> HIDE DEF p
      <4> QED BY <2>2, <3>1, <4>1, <4>2
    <3>2. CASE o # p
      <4>1. pedido'[o] = pedido[o] /\ vendas'[o] = vendas[o]
        BY <1>1, <2>1, <3>2 DEF IInv, TypeOK
      <4> QED BY <4>1, VendasNaoNegativas
              DEF IInv, TypeOK, PagoTemAprovacao, EstornadoTemDevolucao, TotalCobrePagos
    <3> QED BY <3>1, <3>2
  <2>4. /\ pedido' \in [Pedido -> StatusPedido \cup {"INEXISTENTE"}]
        /\ downloads' \subseteq Pedido
        /\ vendas' \in [Pedido -> Int]
    BY <1>1, <2>1, <2>3 DEF IInv, TypeOK, StatusPedido
  <2> HIDE DEF p, q
  <2> QED BY <1>2, <1>3, <2>3, <2>4, EscreveNoBanco DEF IInv, TypeOK, RegistrosTemPagamento
<1> QED BY <1>4, <1>5

\* The transaction of marcarEstornado.
LEMMA MarcarEstornadoIInv ==
  ASSUME IInv, NEW r \in Req, MarcarEstornado(r)
  PROVE  IInv'
<1> DEFINE q == req[r]
           p == req[r].pedido
<1>1. q \in Handler /\ Coerente(q) /\ q.pc = "estorna" /\ p \in Pedido
  BY DEF IInv, TypeOK, HandlersCoerentes, MarcarEstornado, Em, Coerente
<1>2. Continua(q) \in Handler /\ Coerente(Continua(q))
  BY <1>1, ContinuaTipo
<1>3. /\ req' = [req EXCEPT ![r] = Continua(q)]
      /\ UNCHANGED <<vencido, ordem, pixVencido, downloads, mp, reembolso>>
  BY DEF MarcarEstornado, Segue
<1>4. CASE pedido[p] # "PAGO"
  <2>1. UNCHANGED <<pedido, pag, vendas>>
    BY <1>4 DEF MarcarEstornado
  <2> QED BY <1>2, <1>3, <2>1, SoLe DEF banco
<1>5. CASE pedido[p] = "PAGO"
  <2>1. /\ pedido' = [pedido EXCEPT ![p] = "ESTORNADO"]
        /\ pag' = [g \in Pg |-> IF g \in ComStatus(p, "APROVADO") THEN "ESTORNADO" ELSE pag[g]]
        /\ vendas' = [vendas EXCEPT ![p] = @ - Subtotal[p]]
    BY <1>5 DEF MarcarEstornado
  <2>2. Subtotal[p] = 0 \/ TemDevolvido(p)
    BY <1>1 DEF Coerente
  <2>3. \A o \in Pedido :
           /\ pedido'[o] = "PAGO" /\ Subtotal[o] > 0 => TemAprovado(o)
           /\ pedido'[o] = "ESTORNADO" /\ Subtotal[o] > 0 => TemDevolvido(o)
           /\ vendas'[o] \in Int
           /\ vendas'[o] >= IF pedido'[o] = "PAGO" THEN Subtotal[o] ELSE 0
    <3> TAKE o \in Pedido
    <3>1. CASE o = p
      <4>1. vendas[p] \in Int /\ vendas[p] >= Subtotal[p] /\ Subtotal[p] \in Nat
        BY <1>1, <1>5, SubtotalAssumption DEF IInv, TypeOK, TotalCobrePagos
      <4>2. pedido'[p] = "ESTORNADO" /\ vendas'[p] = vendas[p] - Subtotal[p]
        BY <1>1, <2>1 DEF IInv, TypeOK
      <4> HIDE DEF p
      <4> QED BY <2>2, <3>1, <4>1, <4>2
    <3>2. CASE o # p
      <4>1. pedido'[o] = pedido[o] /\ vendas'[o] = vendas[o]
        BY <1>1, <2>1, <3>2 DEF IInv, TypeOK
      <4> QED BY <4>1, VendasNaoNegativas
              DEF IInv, TypeOK, PagoTemAprovacao, EstornadoTemDevolucao, TotalCobrePagos
    <3> QED BY <3>1, <3>2
  <2>4. /\ pedido' \in [Pedido -> StatusPedido \cup {"INEXISTENTE"}]
        /\ pag' \in [Pg -> StatusPagamento \cup {"INEXISTENTE"}]
        /\ vendas' \in [Pedido -> Int]
    BY <1>1, <2>1, <2>3 DEF IInv, TypeOK, StatusPedido, StatusPagamento
  <2>5. \A h \in Pg : pag'[h] # "INEXISTENTE" => mp[h].pedido \in Pedido
    BY <2>1 DEF IInv, TypeOK, RegistrosTemPagamento, ComStatus, Pagamentos
  <2> HIDE DEF p, q
  <2> QED BY <1>2, <1>3, <2>3, <2>4, <2>5, EscreveNoBanco DEF IInv, TypeOK
<1> QED BY <1>4, <1>5

-----------------------------------------------------------------------------
(* Steps of the provider *)

MpTipo == [Pg -> [pedido : Pedido, chave : Chave, status : StatusMp] \cup {SemPagamento}]

\* A step that changes MP's payments and one handler keeps IInv if MP takes nothing back.
LEMMA MexeNoMp ==
  ASSUME IInv, MpCresce, mp' \in MpTipo, UNCHANGED banco,
         reembolso' \subseteq Pedido, \A p \in reembolso' : TemDevolvido(p)',
         HandlersCoerentes', req' \in [Req -> Handler]
  PROVE  IInv'
<1>1. TypeOK'
  BY DEF IInv, TypeOK, banco, MpTipo
<1>2. RegistrosTemPagamento'
  BY DEF IInv, RegistrosTemPagamento, banco, MpCresce
<1>3. PagoTemAprovacao' /\ EstornadoTemDevolucao' /\ TotalCobrePagos'
  BY TemCresce DEF IInv, PagoTemAprovacao, EstornadoTemDevolucao, TotalCobrePagos, banco
<1> QED BY <1>1, <1>2, <1>3 DEF IInv

\* A payment MP makes (or finds again by its key) is of the order that asked.
LEMMA CriaNoMpCresce ==
  ASSUME IInv, NEW p \in Pedido, NEW chave \in Chave, NEW g \in Pg, NEW iniciais,
         CriaNoMp(p, chave, g, iniciais)
  PROVE  /\ MpCresce /\ mp' \in MpTipo
         /\ mp'[g].pedido = p /\ mp'[g].status \in StatusMp
<1>1. CASE mp[g].pedido = p /\ UNCHANGED mp
  <2>1. mp[g] # SemPagamento
    BY <1>1, NenhumAssumption DEF SemPagamento
  <2>2. mp[g].status \in StatusMp
    BY <2>1 DEF IInv, TypeOK
  <2> QED BY <1>1, <2>2, MpParado DEF IInv, TypeOK, MpTipo
<1>2. ASSUME mp[g] = SemPagamento, NEW st \in iniciais \cap Desfechos,
             mp' = [mp EXCEPT ![g] = [pedido |-> p, chave |-> chave, status |-> st]]
      PROVE  /\ MpCresce /\ mp' \in MpTipo
             /\ mp'[g].pedido = p /\ mp'[g].status \in StatusMp
  <2>1. st \in StatusMp
    BY DesfechosAssumption
  <2>2. mp' \in MpTipo
    BY <1>2, <2>1 DEF IInv, TypeOK, MpTipo
  <2>3. ~FoiAprovado(g) /\ ~Devolvido(g) /\ mp[g].pedido \notin Pedido
    BY <1>2, NenhumAssumption DEF FoiAprovado, Devolvido, SemPagamento, StatusMp
  <2>4. MpCresce
    BY <1>2, <2>3 DEF MpCresce, FoiAprovado, Devolvido, IInv, TypeOK
  <2> QED BY <1>2, <2>1, <2>2, <2>4 DEF IInv, TypeOK
<1> QED BY <1>1, <1>2 DEF CriaNoMp

\* criarPagamento of pagarPix.
LEMMA PixCriaNoMpIInv ==
  ASSUME IInv, NEW r \in Req, NEW g \in Pg, PixCriaNoMp(r, g)
  PROVE  IInv'
<1> DEFINE q == [req[r] EXCEPT !.pc = "pix_grava", !.pg = g, !.st = mp'[g].status]
<1>1. /\ req[r] \in Handler /\ Coerente(req[r])
      /\ req[r].pedido \in Pedido /\ req[r].chave \in Chave
  BY DEF IInv, TypeOK, HandlersCoerentes, PixCriaNoMp, Em, Coerente
<1>2. /\ MpCresce /\ mp' \in MpTipo
      /\ mp'[g].pedido = req[r].pedido /\ mp'[g].status \in StatusMp
  BY <1>1, CriaNoMpCresce DEF PixCriaNoMp
<1>3. PICK v \in Handler : v = q
  BY <1>1, <1>2 DEF Handler, Pc
<1>4. Coerente(v)'
  BY <1>1, <1>2, <1>3 DEF Handler, Pc, Coerente, FoiAprovado, Devolvido
<1>5. req' = [req EXCEPT ![r] = v] /\ UNCHANGED <<banco, reembolso>>
  BY <1>3 DEF PixCriaNoMp, Segue
<1>6. HandlersCoerentes' /\ req' \in [Req -> Handler]
  BY <1>2, <1>4, <1>5, HandlersSeguem DEF IInv
<1>7. reembolso' \subseteq Pedido /\ \A p \in reembolso' : TemDevolvido(p)'
  BY <1>2, <1>5, TemCresce DEF IInv, TypeOK, RegistrosTemPagamento
<1> QED BY <1>2, <1>5, <1>6, <1>7, MexeNoMp

\* criarPagamento of pagarCartao.
LEMMA CartaoCriaNoMpIInv ==
  ASSUME IInv, NEW r \in Req, NEW g \in Pg, CartaoCriaNoMp(r, g)
  PROVE  IInv'
<1> DEFINE q == [req[r] EXCEPT !.pc = "cartao_grava", !.pg = g, !.st = mp'[g].status]
<1>1. /\ req[r] \in Handler /\ Coerente(req[r])
      /\ req[r].pedido \in Pedido /\ req[r].chave \in Chave
  BY DEF IInv, TypeOK, HandlersCoerentes, CartaoCriaNoMp, Em, Coerente
<1>2. /\ MpCresce /\ mp' \in MpTipo
      /\ mp'[g].pedido = req[r].pedido /\ mp'[g].status \in StatusMp
  BY <1>1, CriaNoMpCresce DEF CartaoCriaNoMp
<1>3. PICK v \in Handler : v = q
  BY <1>1, <1>2 DEF Handler, Pc
<1>4. Coerente(v)'
  BY <1>1, <1>2, <1>3 DEF Handler, Pc, Coerente, FoiAprovado, Devolvido
<1>5. req' = [req EXCEPT ![r] = v] /\ UNCHANGED <<banco, reembolso>>
  BY <1>3 DEF CartaoCriaNoMp, Segue
<1>6. HandlersCoerentes' /\ req' \in [Req -> Handler]
  BY <1>2, <1>4, <1>5, HandlersSeguem DEF IInv
<1>7. reembolso' \subseteq Pedido /\ \A p \in reembolso' : TemDevolvido(p)'
  BY <1>2, <1>5, TemCresce DEF IInv, TypeOK, RegistrosTemPagamento
<1> QED BY <1>2, <1>5, <1>6, <1>7, MexeNoMp

\* A payment of an order changes its status along MP's life cycle.
LEMMA StatusCresce ==
  ASSUME IInv, NEW g \in Pg, NEW st \in StatusMp, mp[g].pedido \in Pedido,
         mp[g].status = "approved" => st \in {"refunded", "charged_back"},
         mp[g].status \in {"approved", "pending"}, mp' = [mp EXCEPT ![g].status = st]
  PROVE  MpCresce /\ mp' \in MpTipo
<1>1. mp[g] \in [pedido : Pedido, chave : Chave, status : StatusMp]
  BY NenhumAssumption DEF IInv, TypeOK, SemPagamento
<1>2. mp' \in MpTipo
  BY <1>1 DEF IInv, TypeOK, MpTipo
<1>3. MpCresce
  BY <1>1 DEF MpCresce, FoiAprovado, Devolvido, IInv, TypeOK
<1> QED BY <1>2, <1>3

\* reembolsar.
LEMMA DevolverNoMpIInv ==
  ASSUME IInv, NEW r \in Req, DevolverNoMp(r)
  PROVE  IInv'
<1> DEFINE q == [req[r] EXCEPT !.pc = "estorna"]
<1>0. /\ req[r] \in Handler /\ Coerente(req[r])
      /\ req[r].pedido \in Pedido /\ req[r].pg \in Pg
      /\ mp[req[r].pg].pedido = req[r].pedido
  BY DEF IInv, TypeOK, HandlersCoerentes, DevolverNoMp, Em, Coerente
<1>1. PICK p \in Pedido, g \in Pg :
         p = req[r].pedido /\ g = req[r].pg /\ mp[g].pedido = p
  BY <1>0
<1>2. req' = [req EXCEPT ![r] = q] /\ UNCHANGED banco
  BY DEF DevolverNoMp, Segue
<1>3. CASE p \in reembolso /\ UNCHANGED <<mp, reembolso>>
  <2>1. TemDevolvido(p)
    BY <1>3 DEF IInv, RegistrosTemPagamento
  <2>2. q \in Handler /\ Coerente(q)
    BY <1>0, <1>1, <2>1 DEF Handler, Pc, Coerente
  <2> HIDE DEF q
  <2> QED BY <1>2, <1>3, <2>2, SoLe
<1>4. CASE /\ mp[g].status = "approved"
           /\ mp' = [mp EXCEPT ![g].status = "refunded"]
           /\ reembolso' = reembolso \cup {p}
  <2>1. MpCresce /\ mp' \in MpTipo
    BY <1>1, <1>4, StatusCresce DEF StatusMp
  <2>2. TemDevolvido(p)'
    BY <1>1, <1>4 DEF TemDevolvido, Devolvido, IInv, TypeOK
  <2>3. PICK v \in Handler : v = q
    BY <1>0 DEF Handler, Pc
  <2>4. Coerente(v)'
    BY <1>0, <1>1, <2>2, <2>3 DEF Handler, Pc, Coerente
  <2>5. HandlersCoerentes' /\ req' \in [Req -> Handler]
    BY <1>2, <2>1, <2>3, <2>4, HandlersSeguem DEF IInv
  <2>6. reembolso' \subseteq Pedido /\ \A o \in reembolso' : TemDevolvido(o)'
    BY <1>1, <1>4, <2>1, <2>2, TemCresce DEF IInv, TypeOK, RegistrosTemPagamento
  <2> QED BY <1>2, <2>1, <2>5, <2>6, MexeNoMp
<1> QED BY <1>1, <1>3, <1>4 DEF DevolverNoMp

\* MP approves, refuses, cancels or gives back.
LEMMA MpDecideIInv ==
  ASSUME IInv, NEW g \in Pg, MpDecide(g)
  PROVE  IInv'
<1>1. PICK st \in StatusMp :
         /\ mp[g].status = "approved" => st \in {"refunded", "charged_back"}
         /\ mp[g].status \in {"approved", "pending"}
         /\ mp' = [mp EXCEPT ![g].status = st]
  BY DesfechosAssumption DEF MpDecide
<1>2. mp[g].pedido \in Pedido
  BY <1>1, NenhumAssumption DEF IInv, TypeOK, SemPagamento, StatusMp
<1>3. MpCresce /\ mp' \in MpTipo
  BY <1>1, <1>2, StatusCresce
<1>4. UNCHANGED <<banco, reembolso, req>>
  BY DEF MpDecide
<1>5. ASSUME NEW s \in Req PROVE Coerente(req[s])'
  <2>1. PICK v \in Handler : v = req[s]
    BY DEF IInv, TypeOK
  <2>2. Coerente(v)'
    BY <1>3, <2>1, CoerenteCresce DEF IInv, HandlersCoerentes
  <2> QED BY <1>4, <2>1, <2>2 DEF Coerente, FoiAprovado, Devolvido, TemAprovado, TemDevolvido
<1>6. HandlersCoerentes' /\ req' \in [Req -> Handler]
  BY <1>4, <1>5 DEF HandlersCoerentes, IInv, TypeOK
<1>7. reembolso' \subseteq Pedido /\ \A o \in reembolso' : TemDevolvido(o)'
  BY <1>3, <1>4, TemCresce DEF IInv, TypeOK, RegistrosTemPagamento
<1> QED BY <1>3, <1>4, <1>6, <1>7, MexeNoMp

-----------------------------------------------------------------------------
(* The whole *)

\* Steps that leave the orders, the payments and the handlers alone.
LEMMA ParadoIInv ==
  ASSUME IInv, UNCHANGED <<pedido, pag, ordem, vendas, downloads, mp, reembolso, req>>,
         vencido' \subseteq Pedido, pixVencido' \subseteq Pg
  PROVE  IInv'
<1>1. TypeOK'
  BY DEF IInv, TypeOK
<1>2. HandlersCoerentes'
  BY DEF IInv, HandlersCoerentes, Coerente, TemAprovado, TemDevolvido, FoiAprovado, Devolvido
<1>3. RegistrosTemPagamento' /\ PagoTemAprovacao' /\ EstornadoTemDevolucao' /\ TotalCobrePagos'
  BY DEF IInv, RegistrosTemPagamento, PagoTemAprovacao, EstornadoTemDevolucao,
         TotalCobrePagos, TemAprovado, TemDevolvido, FoiAprovado, Devolvido
<1> QED BY <1>1, <1>2, <1>3 DEF IInv

\* Every step of Vendas preserves the inductive invariant.
LEMMA NextIInv == IInv /\ [Next]_vars => IInv'
<1> SUFFICES ASSUME IInv, [Next]_vars PROVE IInv'
  OBVIOUS
<1>1. ASSUME NEW r \in Req, Iniciar(r) PROVE IInv'
  BY <1>1, CriarPedidoIInv, PagarPixIInv, PagarCartaoIInv, DevolverIInv, AbrirPedidoIInv,
     ReceberAvisoIInv DEF Iniciar
<1>2. ASSUME NEW r \in Req, Passo(r) PROVE IInv'
  BY <1>2, PixCriaNoMpIInv, CartaoCriaNoMpIInv, PixGravaIInv, CartaoGravaIInv,
     CartaoAguardaIInv, PerguntaAoMpIInv, AplicarIInv, LiberarIInv, MarcarEstornadoIInv,
     DevolverNoMpIInv, ReconsultarIInv, ConsultarIInv, RecarregarIInv, ExpirarIInv DEF Passo
<1>3. ASSUME NEW r \in Req, ErroNaReconsulta(r) \/ Falhar(r) PROVE IInv'
  BY <1>3, ErroNaReconsultaIInv, FalharIInv
<1>4. ASSUME NEW g \in Pg, MpDecide(g) PROVE IInv'
  BY <1>4, MpDecideIInv
<1>5. ASSUME NEW g \in Pg, VencerPix(g) PROVE IInv'
  BY <1>5, ParadoIInv DEF VencerPix, IInv, TypeOK
<1>6. ASSUME NEW p \in Pedido, VencerPedido(p) PROVE IInv'
  BY <1>6, ParadoIInv DEF VencerPedido, IInv, TypeOK
<1>7. CASE UNCHANGED vars
  BY <1>7, ParadoIInv DEF vars, IInv, TypeOK
<1> QED BY <1>1, <1>2, <1>3, <1>4, <1>5, <1>6, <1>7 DEF Next, Ambiente

\* The invariant holds when the program starts.
LEMMA InitIInv == Init => IInv
<1> SUFFICES ASSUME Init PROVE IInv
  OBVIOUS
<1>1. TypeOK
  BY LivreTipo DEF Init, TypeOK
<1>2. HandlersCoerentes
  BY LivreTipo DEF Init, HandlersCoerentes
<1>3. RegistrosTemPagamento /\ PagoTemAprovacao /\ EstornadoTemDevolucao /\ TotalCobrePagos
  BY DEF Init, RegistrosTemPagamento, PagoTemAprovacao, EstornadoTemDevolucao, TotalCobrePagos
<1> QED BY <1>1, <1>2, <1>3 DEF IInv

\* The inductive invariant holds in every reachable state.
THEOREM Invariante == Spec => []IInv
  BY InitIInv, NextIInv, PTL DEF Spec

\* The rows, MP's payments and the handlers always hold values of their kind, for every
\* number of orders, payments and handlers in flight (VendasService).
THEOREM TiposCorretos == Spec => []TypeOK
  BY Invariante, PTL DEF IInv

\* An order is PAGO only if MP approved a payment of it, whatever card, webhook, reload
\* and crash interleave (confirmarPago, liberar).
THEOREM PagoSoComAprovacao == Spec => []PagoTemAprovacao
  BY Invariante, PTL DEF IInv

\* An order is ESTORNADO only if MP gave the money of one of its payments back (devolver,
\* marcarEstornado).
THEOREM EstornadoSoComDevolucao == Spec => []EstornadoTemDevolucao
  BY Invariante, PTL DEF IInv

\* The cached total of a gallery never falls below what its paid orders add up to, nor
\* below zero (liberar's increment, marcarEstornado's decrement).
THEOREM TotalNuncaMenor == Spec => []TotalCobrePagos
  BY Invariante, PTL DEF IInv

\* The three together: what the shop says of an order and of its gallery's total is what the
\* money says (liberar, marcarEstornado and the stale writes of the other handlers).
THEOREM DinheiroSempreConfere == Spec => []DinheiroConfere
<1>1. IInv => DinheiroConfere
  BY DEF IInv, DinheiroConfere
<1> QED BY <1>1, Invariante, PTL

-----------------------------------------------------------------------------
(* The order book.  Every step of Vendas is a step of it or none: MP's     *)
(* payments are its money, liberar and marcarEstornado its sale and its    *)
(* return, and every other write of the status one that reopens.           *)

PassoDoLivro == [Livro!Next \/ \E p \in Pedido : Livro!Reabrir(p)]_(Livro!livro)

\* A step that changes neither orders, nor totals, nor downloads, nor MP.
LEMMA LivroParado ==
  ASSUME UNCHANGED <<pedido, vendas, downloads, mp>>
  PROVE  PassoDoLivro
<1>1. Situacoes' = Situacoes
  BY DEF Situacoes
<1>2. ComAprovado' = ComAprovado /\ ComDevolvido' = ComDevolvido
  BY DEF ComAprovado, ComDevolvido, TemAprovado, TemDevolvido, FoiAprovado, Devolvido
<1> QED BY <1>1, <1>2 DEF PassoDoLivro, Livro!livro

\* A write of a status that is neither PAGO nor ESTORNADO reopens the order, or changes nothing.
LEMMA LivroReabre ==
  ASSUME IInv, NEW p \in Pedido, NEW s, s \notin {"PAGO", "ESTORNADO"},
         pedido' = [pedido EXCEPT ![p] = s], UNCHANGED <<vendas, downloads, mp>>
  PROVE  PassoDoLivro
<1>1. Situacoes' = [Situacoes EXCEPT ![p] = "nao_paga"]
  BY DEF Situacoes, IInv, TypeOK
<1>2. ComAprovado' = ComAprovado /\ ComDevolvido' = ComDevolvido
  BY DEF ComAprovado, ComDevolvido, TemAprovado, TemDevolvido, FoiAprovado, Devolvido
<1>3. Livro!Reabrir(p)
  BY <1>1, <1>2 DEF Livro!Reabrir
<1> QED BY <1>3 DEF PassoDoLivro

\* liberar sells the order, or finds it sold.
LEMMA LivroVende ==
  ASSUME IInv, NEW r \in Req, Liberar(r)
  PROVE  PassoDoLivro
<1> DEFINE p == req[r].pedido
<1>1. p \in Pedido /\ (Subtotal[p] = 0 \/ TemAprovado(p))
  BY DEF IInv, HandlersCoerentes, Coerente, Liberar, Em
<1>2. CASE UNCHANGED <<pedido, downloads, vendas>>
  BY <1>2, LivroParado DEF Liberar
<1>3. CASE /\ pedido[p] # "PAGO"
           /\ pedido' = [pedido EXCEPT ![p] = "PAGO"]
           /\ downloads' = downloads \cup {p}
           /\ vendas' = [vendas EXCEPT ![p] = @ + Subtotal[p]]
  <2> HIDE DEF p
  <2>1. Situacoes[p] # "paga" /\ Situacoes' = [Situacoes EXCEPT ![p] = "paga"]
    BY <1>1, <1>3 DEF Situacoes, IInv, TypeOK
  <2>2. ComAprovado' = ComAprovado /\ ComDevolvido' = ComDevolvido
    BY DEF Liberar, ComAprovado, ComDevolvido, TemAprovado, TemDevolvido, FoiAprovado, Devolvido
  <2>3. p \in ComAprovado \/ Subtotal[p] = 0
    BY <1>1 DEF ComAprovado
  <2>4. Livro!Vender(p)
    BY <1>3, <2>1, <2>2, <2>3 DEF Livro!Vender
  <2> QED BY <1>1, <2>4 DEF PassoDoLivro, Livro!Next
<1> QED BY <1>2, <1>3 DEF Liberar

\* marcarEstornado undoes the sale, or finds the order not paid.
LEMMA LivroDesfaz ==
  ASSUME IInv, NEW r \in Req, MarcarEstornado(r)
  PROVE  PassoDoLivro
<1> DEFINE p == req[r].pedido
<1>1. p \in Pedido /\ (Subtotal[p] = 0 \/ TemDevolvido(p))
  BY DEF IInv, HandlersCoerentes, Coerente, MarcarEstornado, Em
<1>2. CASE UNCHANGED <<pedido, pag, vendas>>
  BY <1>2, LivroParado DEF MarcarEstornado
<1>3. CASE /\ pedido[p] = "PAGO"
           /\ pedido' = [pedido EXCEPT ![p] = "ESTORNADO"]
           /\ vendas' = [vendas EXCEPT ![p] = @ - Subtotal[p]]
  <2> HIDE DEF p
  <2>1. Situacoes[p] = "paga" /\ Situacoes' = [Situacoes EXCEPT ![p] = "devolvida"]
    BY <1>1, <1>3 DEF Situacoes, IInv, TypeOK
  <2>2. ComAprovado' = ComAprovado /\ ComDevolvido' = ComDevolvido /\ downloads' = downloads
    BY DEF MarcarEstornado, ComAprovado, ComDevolvido, TemAprovado, TemDevolvido, FoiAprovado,
           Devolvido
  <2>3. p \in ComDevolvido \/ Subtotal[p] = 0
    BY <1>1 DEF ComDevolvido
  <2>4. Livro!Desfazer(p)
    BY <1>3, <2>1, <2>2, <2>3 DEF Livro!Desfazer
  <2> QED BY <1>1, <2>4 DEF PassoDoLivro, Livro!Next
<1> QED BY <1>2, <1>3 DEF MarcarEstornado

\* A step of one payment of MP brings money in, takes it back, or neither; never both.
LEMMA LivroDinheiro ==
  ASSUME NEW p \in Pedido, NEW g \in Pg, mp'[g].pedido = p,
         mp[g].pedido \in Pedido => mp[g].pedido = p,
         \A h \in Pg : h # g => mp'[h] = mp[h],
         \/ mp[g].pedido \in Pedido /\ FoiAprovado(g) /\ FoiAprovado(g)'
            /\ (Devolvido(g) => Devolvido(g)')
         \/ ~FoiAprovado(g) /\ ~Devolvido(g)',
         UNCHANGED <<pedido, vendas, downloads>>
  PROVE  PassoDoLivro
<1>1. Situacoes' = Situacoes
  BY DEF Situacoes
<1>2. \A o \in Pedido : o # p => /\ TemAprovado(o)' <=> TemAprovado(o)
                               /\ TemDevolvido(o)' <=> TemDevolvido(o)
  BY DEF TemAprovado, TemDevolvido, FoiAprovado, Devolvido
<1>3. CASE ~FoiAprovado(g) /\ ~Devolvido(g)'
  <2>1. ComDevolvido' = ComDevolvido
    <3>1. TemDevolvido(p)' <=> TemDevolvido(p)
      BY <1>3 DEF TemDevolvido, Devolvido, FoiAprovado
    <3>2. \A o \in Pedido : o \in ComDevolvido' <=> o \in ComDevolvido
      BY <1>2, <3>1 DEF ComDevolvido, TemDevolvido, Devolvido
    <3> QED BY <3>2 DEF ComDevolvido
  <2>2. TemAprovado(p) => TemAprovado(p)'
    BY <1>3 DEF TemAprovado, FoiAprovado
  <2>3. ComAprovado' \in {ComAprovado, ComAprovado \cup {p}}
    <3>1. \A o \in Pedido : /\ o # p => (o \in ComAprovado' <=> o \in ComAprovado)
                            /\ p \in ComAprovado => p \in ComAprovado'
      BY <1>2, <2>2 DEF ComAprovado, TemAprovado, FoiAprovado
    <3>2. ComAprovado \subseteq Pedido /\ ComAprovado' \subseteq Pedido
      BY DEF ComAprovado
    <3> QED BY <3>1, <3>2
  <2>4. CASE ComAprovado' = ComAprovado
    BY <1>1, <2>1, <2>4 DEF PassoDoLivro, Livro!livro
  <2>5. CASE ComAprovado' = ComAprovado \cup {p}
    <3>1. Livro!Receber(p)
      BY <1>1, <2>1, <2>5 DEF Livro!Receber
    <3> QED BY <3>1 DEF PassoDoLivro, Livro!Next
  <2> QED BY <2>3, <2>4, <2>5
<1>4. CASE mp[g].pedido \in Pedido /\ FoiAprovado(g) /\ FoiAprovado(g)'
           /\ (Devolvido(g) => Devolvido(g)')
  <2>1. TemAprovado(p) /\ TemAprovado(p)'
    BY <1>4 DEF TemAprovado
  <2>2. ComAprovado' = ComAprovado /\ p \in ComAprovado
    <3>1. \A o \in Pedido : o \in ComAprovado' <=> o \in ComAprovado
      BY <1>2, <2>1 DEF ComAprovado, TemAprovado, FoiAprovado
    <3> QED BY <2>1, <3>1 DEF ComAprovado
  <2>3. TemDevolvido(p) => TemDevolvido(p)'
    BY <1>4 DEF TemDevolvido, Devolvido
  <2>4. ComDevolvido' \in {ComDevolvido, ComDevolvido \cup {p}}
    <3>1. \A o \in Pedido : /\ o # p => (o \in ComDevolvido' <=> o \in ComDevolvido)
                            /\ p \in ComDevolvido => p \in ComDevolvido'
      BY <1>2, <2>3 DEF ComDevolvido, TemDevolvido, Devolvido
    <3>2. ComDevolvido \subseteq Pedido /\ ComDevolvido' \subseteq Pedido
      BY DEF ComDevolvido
    <3> QED BY <3>1, <3>2
  <2>5. CASE ComDevolvido' = ComDevolvido
    BY <1>1, <2>2, <2>5 DEF PassoDoLivro, Livro!livro
  <2>6. CASE ComDevolvido' = ComDevolvido \cup {p}
    <3>1. Livro!Devolver(p)
      BY <1>1, <2>2, <2>6 DEF Livro!Devolver
    <3> QED BY <3>1 DEF PassoDoLivro, Livro!Next
  <2> QED BY <2>4, <2>5, <2>6
<1> QED BY <1>3, <1>4

\* MP makes a payment (pending, approved or rejected) or finds it by its key.
LEMMA LivroCria ==
  ASSUME IInv, NEW p \in Pedido, NEW chave \in Chave, NEW g \in Pg, NEW iniciais,
         iniciais \subseteq {"pending", "approved", "rejected"},
         CriaNoMp(p, chave, g, iniciais), UNCHANGED <<pedido, vendas, downloads>>
  PROVE  PassoDoLivro
<1>1. CASE UNCHANGED mp
  BY <1>1, LivroParado
<1>2. ASSUME mp[g] = SemPagamento, NEW st \in iniciais,
             mp' = [mp EXCEPT ![g] = [pedido |-> p, chave |-> chave, status |-> st]]
      PROVE  PassoDoLivro
  <2>1. mp[g].pedido \notin Pedido /\ ~FoiAprovado(g)
    BY <1>2, NenhumAssumption DEF SemPagamento, FoiAprovado, StatusMp
  <2>2. mp'[g] = [pedido |-> p, chave |-> chave, status |-> st]
    BY <1>2 DEF IInv, TypeOK
  <2>3. mp'[g].pedido = p /\ ~Devolvido(g)'
    BY <2>2 DEF Devolvido
  <2>4. \A h \in Pg : h # g => mp'[h] = mp[h]
    BY <1>2 DEF IInv, TypeOK
  <2> QED BY <2>1, <2>3, <2>4, LivroDinheiro
<1> QED BY <1>1, <1>2 DEF CriaNoMp

\* MP moves a payment along its life cycle.
LEMMA LivroMuda ==
  ASSUME IInv, NEW g \in Pg, NEW st \in StatusMp, mp[g].status \in {"approved", "pending"},
         mp[g].status = "pending" => st \in {"approved", "rejected", "cancelled"},
         mp[g].status = "approved" => st \in {"refunded", "charged_back"},
         mp' = [mp EXCEPT ![g].status = st], UNCHANGED <<pedido, vendas, downloads>>
  PROVE  PassoDoLivro
<1>1. mp[g] \in [pedido : Pedido, chave : Chave, status : StatusMp]
  BY NenhumAssumption DEF IInv, TypeOK, SemPagamento, StatusMp
<1>2. mp'[g].pedido = mp[g].pedido /\ mp'[g].status = st
  BY <1>1 DEF IInv, TypeOK
<1>3. \A h \in Pg : h # g => mp'[h] = mp[h]
  BY DEF IInv, TypeOK
<1>4. \/ FoiAprovado(g) /\ FoiAprovado(g)' /\ ~Devolvido(g)
      \/ ~FoiAprovado(g) /\ ~Devolvido(g)'
  BY <1>2 DEF FoiAprovado, Devolvido
<1> QED BY <1>1, <1>2, <1>3, <1>4, LivroDinheiro

\* Every step of a handler is the order book's.
LEMMA LivroPasso ==
  ASSUME IInv, NEW r \in Req, Passo(r)
  PROVE  PassoDoLivro
<1>0. req[r].pc # "livre" => req[r].pedido \in Pedido
  BY DEF IInv, HandlersCoerentes, Coerente
<1>1. ASSUME NEW g \in Pg, PixCriaNoMp(r, g) PROVE PassoDoLivro
  <2>1. req[r].pedido \in Pedido /\ req[r].chave \in Chave
    BY <1>1 DEF IInv, HandlersCoerentes, PixCriaNoMp, Em, Coerente
  <2> QED BY <1>1, <2>1, LivroCria DEF PixCriaNoMp, banco
<1>2. ASSUME NEW g \in Pg, CartaoCriaNoMp(r, g) PROVE PassoDoLivro
  <2>1. req[r].pedido \in Pedido /\ req[r].chave \in Chave
    BY <1>2 DEF IInv, HandlersCoerentes, CartaoCriaNoMp, Em, Coerente
  <2> QED BY <1>2, <2>1, LivroCria DEF CartaoCriaNoMp, banco
<1>3. CASE PixGrava(r)
  <2>1. CASE UNCHANGED banco
    BY <1>3, <2>1, LivroParado DEF PixGrava, banco
  <2>2. CASE /\ pedido' = [pedido EXCEPT ![req[r].pedido] = "AGUARDANDO_PAGAMENTO"]
             /\ UNCHANGED <<vendas, downloads>>
    BY <1>0, <1>3, <2>2, LivroReabre DEF PixGrava, Em
  <2> QED BY <1>3, <2>1, <2>2 DEF PixGrava
<1>4. CASE CartaoGrava(r)
  BY <1>4, LivroParado DEF CartaoGrava
<1>5. CASE CartaoAguarda(r)
  BY <1>0, <1>5, LivroReabre DEF CartaoAguarda, Em
<1>6. CASE PerguntaAoMp(r) \/ Reconsultar(r) \/ Consultar(r) \/ Recarregar(r)
  BY <1>6, LivroParado DEF PerguntaAoMp, Reconsultar, Consultar, Recarregar, banco
<1>7. CASE Aplicar(r)
  BY <1>7, LivroParado DEF Aplicar
<1>8. CASE Liberar(r)
  BY <1>8, LivroVende
<1>9. CASE MarcarEstornado(r)
  BY <1>9, LivroDesfaz
<1>10. CASE DevolverNoMp(r)
  <2>1. req[r].pg \in Pg
    BY <1>10 DEF IInv, HandlersCoerentes, DevolverNoMp, Em, Coerente
  <2>2. CASE UNCHANGED mp
    BY <1>10, <2>2, LivroParado DEF DevolverNoMp, banco
  <2>3. CASE mp[req[r].pg].status = "approved" /\ mp' = [mp EXCEPT ![req[r].pg].status = "refunded"]
    BY <1>10, <2>1, <2>3, LivroMuda DEF DevolverNoMp, banco, StatusMp
  <2> QED BY <1>10, <2>2, <2>3 DEF DevolverNoMp
<1>11. CASE Expirar(r)
  BY <1>0, <1>11, LivroReabre DEF Expirar, Em
<1> QED BY <1>1, <1>2, <1>3, <1>4, <1>5, <1>6, <1>7, <1>8, <1>9, <1>10, <1>11 DEF Passo

\* So is every step of the system.
LEMMA NextLivro == IInv /\ [Next]_vars => PassoDoLivro
<1> SUFFICES ASSUME IInv, [Next]_vars PROVE PassoDoLivro
  OBVIOUS
<1>1. ASSUME NEW r \in Req, Iniciar(r) PROVE PassoDoLivro
  <2>1. ASSUME NEW p \in Pedido, CriarPedido(r, p) PROVE PassoDoLivro
    BY <2>1, LivroReabre DEF CriarPedido
  <2>2. CASE UNCHANGED <<banco, mp, reembolso>>
    BY <2>2, LivroParado DEF banco
  <2> QED BY <1>1, <2>1, <2>2
          DEF Iniciar, PagarPix, PagarCartao, Devolver, AbrirPedido, ReceberAviso
<1>2. ASSUME NEW r \in Req, Passo(r) PROVE PassoDoLivro
  BY <1>2, LivroPasso
<1>3. ASSUME NEW r \in Req, ErroNaReconsulta(r) \/ Falhar(r) PROVE PassoDoLivro
  BY <1>3, LivroParado DEF ErroNaReconsulta, Falhar, banco
<1>4. ASSUME NEW g \in Pg, MpDecide(g) PROVE PassoDoLivro
  BY <1>4, DesfechosAssumption, LivroMuda DEF MpDecide, banco, StatusMp
<1>5. CASE UNCHANGED <<pedido, vendas, downloads, mp>>
  BY <1>5, LivroParado
<1> QED BY <1>1, <1>2, <1>3, <1>4, <1>5 DEF Next, Ambiente, VencerPix, VencerPedido, vars

\* Before the first order the book is empty.
LEMMA InitLivro == Init => Livro!Init
<1> SUFFICES ASSUME Init PROVE Livro!Init
  OBVIOUS
<1>1. \A g \in Pg : ~FoiAprovado(g) /\ ~Devolvido(g)
  BY NenhumAssumption DEF Init, SemPagamento, FoiAprovado, Devolvido, StatusMp
<1>2. ComAprovado = {} /\ ComDevolvido = {}
  BY <1>1 DEF ComAprovado, ComDevolvido, TemAprovado, TemDevolvido
<1>3. Situacoes = [p \in Pedido |-> "nao_paga"]
  BY DEF Init, Situacoes
<1> QED BY <1>2, <1>3 DEF Init, Livro!Init

\* VendasService implements the order book, whatever interleaves, fails or comes late: money
\* before photos, refund before return, and a total that moves only with a sale or a return.
THEOREM ImplementaLivro == Spec => CumpreLivroConcorrente
  BY InitIInv, NextIInv, InitLivro, NextLivro, PTL
     DEF Spec, CumpreLivroConcorrente, Livro!SpecConcorrente, PassoDoLivro

-----------------------------------------------------------------------------
(* The idempotency key of the Pix.  While an order has only Pix, its rows   *)
(* are numbered by their keys 0, 1, 2, ...: a payment without a row has the *)
(* next number, and no Pix with a row can be paid once that number is used. *)

Linhas(p) == Cardinality(Pagamentos(p))
SemPagavel(p) == \A g \in Pg : mp[g].pedido = p => ~Pagavel(g)

\* What a handler knows of keys and statuses: rows are never deleted, a key keeps its method,
\* and MP never goes back to pending.
ChaveCoerente(q) ==
  /\ q.pc = "pix_mp" => q.chave.metodo = "PIX" /\ q.chave.id <= Linhas(q.pedido)
  /\ q.pc = "cartao_mp" => q.chave.metodo = "CARTAO"
  /\ q.pc = "cartao_grava" => ~EhPix(q.pg)
  /\ q.pc \in {"pix_grava", "cartao_grava", "cartao_aguarda", "aplica"} =>
       (q.st # "pending" => mp[q.pg].status # "pending")

ChavesUnicas ==
  \A g, h \in Pg :
     mp[g].pedido \in Pedido /\ mp[h].pedido = mp[g].pedido /\ mp[h].chave = mp[g].chave => g = h

\* A row that is not PENDENTE is of a payment MP has decided.
LinhaDecidida == \A g \in Pg : pag[g] \notin {"INEXISTENTE", "PENDENTE"} => mp[g].status # "pending"

NumeroDoPix(p, g) ==
  /\ pag[g] = "INEXISTENTE" => mp[g].chave.id = Linhas(p) /\ SemPagavel(p)
  /\ pag[g] # "INEXISTENTE" => mp[g].chave.id < Linhas(p)
  /\ Pagavel(g) => mp[g].chave.id = Linhas(p) - 1

ChavesContadas(p) ==
  /\ \A g \in Pg : mp[g].pedido = p => NumeroDoPix(p, g)
  /\ \A i \in Nat : i < Linhas(p) => \E g \in Pg : mp[g].pedido = p /\ mp[g].chave.id = i
  /\ \A r \in Req : req[r].pc = "pix_mp" /\ req[r].pedido = p /\ req[r].chave.id = Linhas(p)
                      => SemPagavel(p)

PixInv ==
  /\ ChavesUnicas
  /\ LinhaDecidida
  /\ \A r \in Req : ChaveCoerente(req[r])
  /\ \A p \in Pedido : SoPix(p) => ChavesContadas(p)

\* What every step keeps of a payment and of its row.
PixCresce ==
  /\ \A g \in Pg : mp[g].pedido \in Pedido =>
        /\ mp'[g].pedido = mp[g].pedido
        /\ mp'[g].chave = mp[g].chave
        /\ mp[g].status # "pending" => mp'[g].status # "pending"
  /\ \A g \in Pg : pag[g] # "INEXISTENTE" => pag'[g] # "INEXISTENTE"

\* The rows of an order only grow in number.
LEMMA LinhasCrescem ==
  ASSUME IInv, PixCresce, NEW p
  PROVE  Linhas(p) \in Nat /\ Linhas(p)' \in Nat /\ Linhas(p) <= Linhas(p)'
<1>1. Pagamentos(p) \subseteq Pagamentos(p)'
  BY DEF IInv, RegistrosTemPagamento, PixCresce, Pagamentos
<1>2. IsFiniteSet(Pagamentos(p)) /\ IsFiniteSet(Pagamentos(p)')
  BY PgAssumption, FS_Subset DEF Pagamentos
<1> QED BY <1>1, <1>2, FS_Subset, FS_CardinalityType DEF Linhas

\* The count of the rows depends on the payments and their rows alone.
LEMMA LinhasParadas ==
  ASSUME NEW p, \A g \in Pg : mp'[g].pedido = mp[g].pedido,
         \A g \in Pg : pag'[g] = "INEXISTENTE" <=> pag[g] = "INEXISTENTE"
  PROVE  Linhas(p)' = Linhas(p)
<1>1. Pagamentos(p)' = Pagamentos(p)
  BY DEF Pagamentos
<1> QED BY <1>1 DEF Linhas

\* What a handler knows stays true.
LEMMA ChaveCoerenteCresce ==
  ASSUME IInv, PixCresce, NEW q \in Handler, Coerente(q), ChaveCoerente(q)
  PROVE  ChaveCoerente(q)'
<1>1. CASE q.pc = "pix_mp"
  <2>1. q.pedido \in Pedido /\ q.chave \in Chave
    BY <1>1 DEF Coerente
  <2>2. q.chave.id \in Nat /\ q.chave.id <= Linhas(q.pedido)
    BY <1>1, <2>1 DEF Chave, ChaveCoerente
  <2>3. q.chave.id <= Linhas(q.pedido)'
    BY <2>2, LinhasCrescem
  <2> QED BY <1>1, <2>3 DEF ChaveCoerente
<1>2. CASE q.pc # "pix_mp"
  BY <1>2 DEF ChaveCoerente, Coerente, PixCresce, EhPix
<1> QED BY <1>1, <1>2

\* A step of one handler that leaves it with the truth leaves every handler with it.
LEMMA ChavesSeguem ==
  ASSUME IInv, PixInv, PixCresce, NEW r \in Req, ChaveCoerente(req[r])',
         \A s \in Req : s # r => req'[s] = req[s]
  PROVE  \A s \in Req : ChaveCoerente(req[s])'
<1> SUFFICES ASSUME NEW s \in Req, s # r PROVE ChaveCoerente(req[s])'
  OBVIOUS
<1>1. PICK v \in Handler : v = req[s]
  BY DEF IInv, TypeOK
<1>2. Coerente(v) /\ ChaveCoerente(v) /\ req'[s] = v
  BY <1>1 DEF IInv, HandlersCoerentes, PixInv
<1>3. ChaveCoerente(v)'
  BY <1>2, ChaveCoerenteCresce
<1> QED BY <1>2, <1>3 DEF ChaveCoerente, EhPix, Linhas, Pagamentos

\* Where a handler goes, and that the others stay.
LEMMA SegueUm ==
  ASSUME IInv, NEW r \in Req, NEW q, req' = [req EXCEPT ![r] = q]
  PROVE  req'[r] = q /\ \A s \in Req : s # r => req'[s] = req[s]
  BY DEF IInv, TypeOK

\* Steps that make neither a payment nor a row and start no Pix: MP decides payments, Pix run
\* out, rows take a status MP has decided, handlers go on.
LEMMA PixParado ==
  ASSUME IInv, PixInv,
         \A g \in Pg : /\ mp'[g].pedido = mp[g].pedido
                       /\ mp'[g].chave = mp[g].chave
                       /\ mp'[g].status = "pending" => mp[g].status = "pending",
         \A g \in Pg : pag'[g] = "INEXISTENTE" <=> pag[g] = "INEXISTENTE",
         LinhaDecidida', pixVencido \subseteq pixVencido',
         \A r \in Req : ChaveCoerente(req[r])',
         \A r \in Req : req'[r].pc = "pix_mp" => req'[r] = req[r]
  PROVE  PixInv'
<1>1. ChavesUnicas'
  BY DEF PixInv, ChavesUnicas
<1>2. ASSUME NEW p \in Pedido, SoPix(p)' PROVE ChavesContadas(p)'
  <2>1. SoPix(p)
    BY <1>2 DEF SoPix, EhPix
  <2>2. Linhas(p)' = Linhas(p)
    BY LinhasParadas
  <2>3. \A g \in Pg : Pagavel(g)' => Pagavel(g)
    <3> SUFFICES ASSUME NEW g \in Pg, Pagavel(g)' PROVE Pagavel(g)
      OBVIOUS
    <3>1. /\ mp[g].status = "pending" /\ EhPix(g) /\ g \notin pixVencido
          /\ pag[g] # "INEXISTENTE"
      BY DEF Pagavel, EhPix
    <3>2. pag[g] = "PENDENTE"
      BY <3>1 DEF PixInv, LinhaDecidida
    <3> QED BY <3>1, <3>2 DEF Pagavel
  <2>4. SemPagavel(p) => SemPagavel(p)'
    BY <2>3 DEF SemPagavel
  <2>5. ChavesContadas(p)
    BY <2>1 DEF PixInv
  <2>6. ASSUME NEW g \in Pg, mp'[g].pedido = p PROVE NumeroDoPix(p, g)'
    BY <2>2, <2>3, <2>4, <2>5, <2>6 DEF ChavesContadas, NumeroDoPix
  <2>7. \A i \in Nat : i < Linhas(p)' => \E g \in Pg : mp'[g].pedido = p /\ mp'[g].chave.id = i
    BY <2>2, <2>5 DEF ChavesContadas
  <2>8. \A r \in Req : req'[r].pc = "pix_mp" /\ req'[r].pedido = p /\ req'[r].chave.id = Linhas(p)'
                         => SemPagavel(p)'
    BY <2>2, <2>4, <2>5 DEF ChavesContadas
  <2> QED BY <2>6, <2>7, <2>8 DEF ChavesContadas
<1> QED BY <1>1, <1>2 DEF PixInv

\* The same, for the step of one handler.
LEMMA PixAnda ==
  ASSUME IInv, PixInv, NEW r \in Req, NEW q, req' = [req EXCEPT ![r] = q],
         req'[r].pc # "pix_mp", ChaveCoerente(req[r])',
         \A g \in Pg : /\ mp'[g].pedido = mp[g].pedido
                       /\ mp'[g].chave = mp[g].chave
                       /\ mp'[g].status = "pending" => mp[g].status = "pending",
         \A g \in Pg : pag'[g] = "INEXISTENTE" <=> pag[g] = "INEXISTENTE",
         LinhaDecidida', pixVencido' = pixVencido
  PROVE  PixInv'
<1>1. \A s \in Req : s # r => req'[s] = req[s]
  BY SegueUm
<1>2. PixCresce
  BY DEF PixCresce
<1>3. \A s \in Req : ChaveCoerente(req[s])'
  BY <1>1, <1>2, ChavesSeguem
<1> QED BY <1>1, <1>3, PixParado

\* Most steps of a handler leave MP and the rows alone and carry no key on.
LEMMA PixSoLe ==
  ASSUME IInv, PixInv, NEW r \in Req, NEW q, req' = [req EXCEPT ![r] = q],
         UNCHANGED <<mp, pag, pixVencido>>,
         \/ q.pc \notin {"pix_mp", "cartao_mp", "pix_grava", "cartao_grava", "cartao_aguarda", "aplica"}
         \/ q.pc = "cartao_mp" /\ q.chave.metodo = "CARTAO"
         \/ q.pc = "aplica" /\ (q.st # "pending" => mp[q.pg].status # "pending")
  PROVE  PixInv'
<1>1. req'[r] = q
  BY SegueUm
<1>2. req'[r].pc # "pix_mp"
  BY <1>1
<1>3. ChaveCoerente(req[r])'
  BY <1>1 DEF ChaveCoerente
<1>4. LinhaDecidida'
  BY DEF PixInv, LinhaDecidida
<1> QED BY <1>2, <1>3, <1>4, PixAnda

\* pagarPix asks for the key of the next row only when no Pix of the order can be paid.
LEMMA PagarPixPix ==
  ASSUME IInv, PixInv, NEW r \in Req, NEW p \in Pedido, PagarPix(r, p), PixAberto(p) = {}
  PROVE  PixInv'
<1> DEFINE q == [Livre EXCEPT !.pc = "pix_mp", !.pedido = p,
                   !.chave = [metodo |-> "PIX", id |-> Linhas(p)]]
<1>0. req' = [req EXCEPT ![r] = q] /\ UNCHANGED <<pag, pixVencido, mp>>
  BY DEF PagarPix, Segue, banco, Linhas
<1>1. /\ req'[r].pc = "pix_mp" /\ req'[r].pedido = p
      /\ req'[r].chave.metodo = "PIX" /\ req'[r].chave.id = Linhas(p)
      /\ \A s \in Req : s # r => req'[s] = req[s]
      /\ UNCHANGED <<pag, pixVencido, mp>>
  <2>1. q.pc = "pix_mp" /\ q.pedido = p /\ q.chave.metodo = "PIX" /\ q.chave.id = Linhas(p)
    BY DEF Livre
  <2> HIDE DEF q
  <2> QED BY <1>0, <2>1, SegueUm
<1> HIDE DEF q
<1>2. \A o : Linhas(o)' = Linhas(o) /\ Linhas(o) \in Nat
  BY <1>1, LinhasParadas, TamanhoTipo DEF Linhas
<1>3. ChaveCoerente(req[r])'
  BY <1>1, <1>2 DEF ChaveCoerente
<1>4. \A s \in Req : ChaveCoerente(req[s])'
  BY <1>1, <1>3, ChavesSeguem DEF PixCresce
<1>5. SemPagavel(p)
  BY DEF SemPagavel, Pagavel, PixAberto, ComStatus, Pagamentos
<1>6. ChavesUnicas' /\ LinhaDecidida'
  BY <1>1 DEF PixInv, ChavesUnicas, LinhaDecidida
<1>7. ASSUME NEW o \in Pedido, SoPix(o)' PROVE ChavesContadas(o)'
  <2>1. ChavesContadas(o)
    BY <1>1, <1>7 DEF PixInv, SoPix, EhPix
  <2>2. SemPagavel(o)' <=> SemPagavel(o)
    BY <1>1 DEF SemPagavel, Pagavel, EhPix
  <2>3. ASSUME NEW g \in Pg, mp'[g].pedido = o PROVE NumeroDoPix(o, g)'
    BY <1>1, <1>2, <2>1, <2>2, <2>3 DEF ChavesContadas, NumeroDoPix, Pagavel, EhPix
  <2>4. \A i \in Nat : i < Linhas(o)' => \E g \in Pg : mp'[g].pedido = o /\ mp'[g].chave.id = i
    BY <1>1, <1>2, <2>1 DEF ChavesContadas
  <2>5. ASSUME NEW s \in Req, req'[s].pc = "pix_mp", req'[s].pedido = o,
               req'[s].chave.id = Linhas(o)'
        PROVE  SemPagavel(o)'
    BY <1>1, <1>2, <1>5, <2>1, <2>2, <2>5 DEF ChavesContadas
  <2> QED BY <2>3, <2>4, <2>5 DEF ChavesContadas
<1> QED BY <1>4, <1>6, <1>7 DEF PixInv

\* devolver.
LEMMA DevolverPix ==
  ASSUME IInv, PixInv, NEW r \in Req, NEW p \in Pedido, Devolver(r, p)
  PROVE  PixInv'
<1>1. CASE Subtotal[p] = 0 /\ Segue(r, [Livre EXCEPT !.pc = "estorna", !.pedido = p])
  <2> DEFINE q == [Livre EXCEPT !.pc = "estorna", !.pedido = p]
  <2>1. q.pc = "estorna"
    BY DEF Livre
  <2>2. req' = [req EXCEPT ![r] = q] /\ UNCHANGED <<banco, mp, reembolso>>
    BY <1>1 DEF Devolver, Segue
  <2> HIDE DEF q
  <2> QED BY <2>1, <2>2, PixSoLe DEF banco
<1>2. ASSUME NEW g \in Pg, MaisNovo(g, ComStatus(p, "APROVADO")),
             Segue(r, [Livre EXCEPT !.pc = "devolve_mp", !.pedido = p, !.pg = g])
      PROVE  PixInv'
  <2> DEFINE q == [Livre EXCEPT !.pc = "devolve_mp", !.pedido = p, !.pg = g]
  <2>1. q.pc = "devolve_mp"
    BY DEF Livre
  <2>2. req' = [req EXCEPT ![r] = q] /\ UNCHANGED <<banco, mp, reembolso>>
    BY <1>2 DEF Devolver, Segue
  <2> HIDE DEF q
  <2> QED BY <2>1, <2>2, PixSoLe DEF banco
<1> QED BY <1>1, <1>2 DEF Devolver

\* The handlers that start.
LEMMA IniciarPix ==
  ASSUME IInv, PixInv, NEW r \in Req, Iniciar(r)
  PROVE  PixInv'
<1>1. ASSUME NEW p \in Pedido, CriarPedido(r, p) PROVE PixInv'
  <2>1. CASE req' = [req EXCEPT ![r] = [Livre EXCEPT !.pc = "libera", !.pedido = p]]
    BY <1>1, <2>1, PixSoLe DEF CriarPedido, Livre
  <2>2. CASE UNCHANGED req
    <3>1. req[r].pc = "livre" /\ req' = [req EXCEPT ![r] = req[r]]
      BY <1>1, <2>2 DEF CriarPedido, Em, IInv, TypeOK
    <3> QED BY <1>1, <3>1, PixSoLe DEF CriarPedido
  <2> QED BY <1>1, <2>1, <2>2 DEF CriarPedido
<1>2. ASSUME NEW p \in Pedido, PagarPix(r, p) PROVE PixInv'
  <2>1. CASE PixAberto(p) = {}
    BY <1>2, <2>1, PagarPixPix
  <2>2. CASE PixAberto(p) # {}
    <3>1. req' = [req EXCEPT ![r] = Consultando(p)] /\ UNCHANGED <<mp, pag, pixVencido>>
      BY <1>2, <2>2 DEF PagarPix, Segue, banco
    <3>2. Consultando(p).pc = "consulta"
      BY DEF Consultando, Livre
    <3> QED BY <3>1, <3>2, PixSoLe
  <2> QED BY <2>1, <2>2
<1>3. ASSUME NEW p \in Pedido, NEW t \in Token, PagarCartao(r, p, t) PROVE PixInv'
  <2> DEFINE q == [Livre EXCEPT !.pc = "cartao_mp", !.pedido = p, !.lido = pedido[p],
                     !.chave = [metodo |-> "CARTAO", id |-> t], !.volta = "consulta"]
  <2>1. q.pc = "cartao_mp" /\ q.chave.metodo = "CARTAO"
    BY DEF Livre
  <2>2. req' = [req EXCEPT ![r] = q] /\ UNCHANGED <<mp, pag, pixVencido>>
    BY <1>3 DEF PagarCartao, Segue, banco
  <2> HIDE DEF q
  <2> QED BY <2>1, <2>2, PixSoLe
<1>4. ASSUME NEW p \in Pedido, Devolver(r, p) PROVE PixInv'
  BY <1>4, DevolverPix
<1>5. ASSUME NEW p \in Pedido, AbrirPedido(r, p) PROVE PixInv'
  BY <1>5, PixSoLe DEF AbrirPedido, Segue, banco, Consultando, Livre
<1>6. ASSUME NEW g \in Pg, ReceberAviso(r, g) PROVE PixInv'
  BY <1>6, PixSoLe DEF ReceberAviso, Segue, banco, Livre
<1> QED BY <1>1, <1>2, <1>3, <1>4, <1>5, <1>6 DEF Iniciar

\* criarPagamento at MP, found by its key or made: what it leaves of payments and keys.
LEMMA CriaNoMpPix ==
  ASSUME IInv, PixInv, NEW p \in Pedido, NEW chave \in Chave, NEW g \in Pg, NEW iniciais,
         CriaNoMp(p, chave, g, iniciais), UNCHANGED pag
  PROVE  /\ PixCresce /\ ChavesUnicas' /\ LinhaDecidida'
         /\ mp'[g].pedido = p /\ mp'[g].chave = chave
         /\ \A o \in Pedido : Linhas(o)' = Linhas(o) /\ Linhas(o) \in Nat
         /\ \A h \in Pg : h # g => mp'[h] = mp[h]
         /\ \/ UNCHANGED mp
            \/ /\ mp[g].pedido \notin Pedido /\ pag[g] = "INEXISTENTE"
               /\ \A h \in Pg : mp[h].pedido = p => mp[h].chave # chave
<1>1. CASE mp[g].pedido = p /\ mp[g].chave = chave /\ UNCHANGED mp
  <2>1. \A o \in Pedido : Linhas(o)' = Linhas(o) /\ Linhas(o) \in Nat
    BY <1>1, LinhasParadas, TamanhoTipo DEF Linhas
  <2>2. ChavesUnicas' /\ LinhaDecidida'
    BY <1>1 DEF PixInv, ChavesUnicas, LinhaDecidida
  <2> QED BY <1>1, <2>1, <2>2 DEF PixCresce
<1>2. ASSUME mp[g] = SemPagamento, \A h \in Pg : mp[h].pedido = p => mp[h].chave # chave,
             NEW st \in iniciais \cap Desfechos,
             mp' = [mp EXCEPT ![g] = [pedido |-> p, chave |-> chave, status |-> st]]
      PROVE  /\ PixCresce /\ ChavesUnicas' /\ LinhaDecidida'
             /\ mp'[g].pedido = p /\ mp'[g].chave = chave
             /\ \A o \in Pedido : Linhas(o)' = Linhas(o) /\ Linhas(o) \in Nat
             /\ \A h \in Pg : h # g => mp'[h] = mp[h]
             /\ mp[g].pedido \notin Pedido /\ pag[g] = "INEXISTENTE"
  <2>1. mp[g].pedido \notin Pedido
    BY <1>2, NenhumAssumption DEF SemPagamento
  <2>2. pag[g] = "INEXISTENTE"
    BY <2>1 DEF IInv, RegistrosTemPagamento
  <2>3. /\ mp'[g].pedido = p /\ mp'[g].chave = chave
        /\ \A h \in Pg : h # g => mp'[h] = mp[h]
    BY <1>2 DEF IInv, TypeOK
  <2>4. PixCresce
    BY <2>1, <2>3 DEF PixCresce
  <2>5. ChavesUnicas'
    BY <1>2, <2>3 DEF PixInv, ChavesUnicas
  <2>6. LinhaDecidida'
    BY <2>2, <2>3 DEF PixInv, LinhaDecidida
  <2>7. ASSUME NEW o \in Pedido PROVE Linhas(o)' = Linhas(o) /\ Linhas(o) \in Nat
    <3>1. Pagamentos(o)' = Pagamentos(o)
      BY <2>2, <2>3 DEF Pagamentos
    <3> QED BY <3>1, TamanhoTipo DEF Linhas
  <2> QED BY <2>1, <2>2, <2>3, <2>4, <2>5, <2>6, <2>7
<1> QED BY <1>1, <1>2 DEF CriaNoMp

\* An order that has only Pix had only Pix before.
LEMMA SoPixAntes ==
  ASSUME IInv, PixCresce, NEW p \in Pedido, SoPix(p)'
  PROVE  SoPix(p)
  BY DEF PixCresce, SoPix, EhPix

\* pagarPix at MP: a key below the count of the rows is one MP has seen, so a new payment has
\* the key of the next row.
LEMMA PixCriaNoMpPix ==
  ASSUME IInv, PixInv, NEW r \in Req, NEW g \in Pg, PixCriaNoMp(r, g)
  PROVE  PixInv'
<1>1. PICK p \in Pedido, chave \in Chave :
         /\ p = req[r].pedido /\ chave = req[r].chave /\ req[r].pc = "pix_mp"
         /\ chave.metodo = "PIX" /\ chave.id \in Nat /\ chave.id <= Linhas(p)
         /\ CriaNoMp(p, chave, g, {"pending"}) /\ UNCHANGED <<banco, reembolso>>
  BY DEF IInv, HandlersCoerentes, Coerente, PixInv, ChaveCoerente, PixCriaNoMp, Em, Chave
<1>2. /\ PixCresce /\ ChavesUnicas' /\ LinhaDecidida'
      /\ mp'[g].pedido = p /\ mp'[g].chave = chave
      /\ \A o \in Pedido : Linhas(o)' = Linhas(o) /\ Linhas(o) \in Nat
      /\ \A h \in Pg : h # g => mp'[h] = mp[h]
      /\ \/ UNCHANGED mp
         \/ /\ mp[g].pedido \notin Pedido /\ pag[g] = "INEXISTENTE"
            /\ \A h \in Pg : mp[h].pedido = p => mp[h].chave # chave
  BY <1>1, CriaNoMpPix DEF banco
<1>3. /\ req'[r].pc = "pix_grava" /\ req'[r].pg = g /\ req'[r].st = mp'[g].status
      /\ \A s \in Req : s # r => req'[s] = req[s]
  <2>1. req[r] \in Handler
    BY DEF IInv, TypeOK
  <2>2. req' = [req EXCEPT ![r] = [req[r] EXCEPT !.pc = "pix_grava", !.pg = g, !.st = mp'[g].status]]
    BY DEF PixCriaNoMp, Segue
  <2> QED BY <2>1, <2>2 DEF IInv, TypeOK, Handler
<1>4. ChaveCoerente(req[r])'
  BY <1>3 DEF ChaveCoerente
<1>5. \A s \in Req : ChaveCoerente(req[s])'
  BY <1>2, <1>3, <1>4, ChavesSeguem
<1>6. UNCHANGED <<pag, pixVencido>>
  BY <1>1 DEF banco
<1>7. ASSUME NEW o \in Pedido, SoPix(o)' PROVE ChavesContadas(o)'
  <2>1. SoPix(o) /\ ChavesContadas(o)
    BY <1>2, <1>7, SoPixAntes DEF PixInv
  <2>2. \A h \in Pg : Pagavel(h)' => Pagavel(h) /\ mp'[h] = mp[h]
    BY <1>2, <1>6 DEF Pagavel, EhPix
  <2>3. SemPagavel(o) => SemPagavel(o)'
    BY <2>2 DEF SemPagavel
  <2>4. mp[g].pedido \notin Pedido /\ o = p => chave.id = Linhas(p) /\ SemPagavel(p)
    <3> SUFFICES ASSUME mp[g].pedido \notin Pedido, o = p
                 PROVE  chave.id = Linhas(p) /\ SemPagavel(p)
      OBVIOUS
    <3>1. \A h \in Pg : mp[h].pedido = p => mp[h].chave # chave
      BY <1>2, NenhumAssumption
    <3>2. \A h \in Pg : mp[h].pedido = p => mp[h].chave \in Chave /\ mp[h].chave.metodo = "PIX"
      BY <2>1, NenhumAssumption DEF SoPix, EhPix, IInv, TypeOK, SemPagamento
    <3>3. \A h \in Pg : mp[h].pedido = p => mp[h].chave.id # chave.id
      BY <1>1, <3>1, <3>2 DEF Chave
    <3>4. chave.id = Linhas(p)
      BY <1>1, <1>2, <2>1, <3>3 DEF ChavesContadas
    <3> QED BY <1>1, <2>1, <3>4 DEF ChavesContadas
  <2>5. ASSUME NEW h \in Pg, mp'[h].pedido = o PROVE NumeroDoPix(o, h)'
    <3>1. CASE mp'[h] = mp[h]
      BY <1>2, <1>6, <2>1, <2>2, <2>3, <2>5, <3>1 DEF ChavesContadas, NumeroDoPix
    <3>2. CASE mp'[h] # mp[h]
      <4>1. h = g /\ o = p /\ mp[g].pedido \notin Pedido /\ pag[g] = "INEXISTENTE"
        BY <1>2, <2>5, <3>2
      <4>2. mp'[h].chave.id = Linhas(o)' /\ SemPagavel(o)' /\ pag'[h] = "INEXISTENTE"
        BY <1>2, <1>6, <2>3, <2>4, <4>1
      <4>3. ~Pagavel(h)'
        BY <4>2 DEF Pagavel
      <4> QED BY <4>2, <4>3 DEF NumeroDoPix
    <3> QED BY <3>1, <3>2
  <2>6. \A i \in Nat : i < Linhas(o)' => \E h \in Pg : mp'[h].pedido = o /\ mp'[h].chave.id = i
    BY <1>2, <2>1 DEF ChavesContadas, PixCresce
  <2>7. \A s \in Req : req'[s].pc = "pix_mp" /\ req'[s].pedido = o /\ req'[s].chave.id = Linhas(o)'
                         => SemPagavel(o)'
    BY <1>2, <1>3, <2>1, <2>3 DEF ChavesContadas
  <2> QED BY <2>5, <2>6, <2>7 DEF ChavesContadas
<1> QED BY <1>2, <1>5, <1>7 DEF PixInv

\* What happens to the payments of another order changes nothing of an order's keys.
LEMMA OutroPedido ==
  ASSUME NEW o \in Pedido, ChavesContadas(o), Linhas(o)' = Linhas(o), pixVencido' = pixVencido,
         \A h \in Pg : mp'[h].pedido = o \/ mp[h].pedido = o => mp'[h] = mp[h] /\ pag'[h] = pag[h],
         \A s \in Req : req'[s].pc = "pix_mp" => req'[s] = req[s]
  PROVE  ChavesContadas(o)'
<1>1. \A h \in Pg : mp'[h].pedido = o => (Pagavel(h)' <=> Pagavel(h))
  BY DEF Pagavel, EhPix
<1>2. SemPagavel(o) => SemPagavel(o)'
  BY <1>1 DEF SemPagavel
<1>3. \A h \in Pg : mp'[h].pedido = o => NumeroDoPix(o, h)'
  BY <1>1, <1>2 DEF ChavesContadas, NumeroDoPix
<1>4. \A i \in Nat : i < Linhas(o)' => \E h \in Pg : mp'[h].pedido = o /\ mp'[h].chave.id = i
  BY DEF ChavesContadas
<1>5. \A s \in Req : req'[s].pc = "pix_mp" /\ req'[s].pedido = o /\ req'[s].chave.id = Linhas(o)'
                       => SemPagavel(o)'
  BY <1>2 DEF ChavesContadas
<1> QED BY <1>3, <1>4, <1>5 DEF ChavesContadas

\* pagarCartao at MP: from then on the order has not only Pix.
LEMMA CartaoCriaNoMpPix ==
  ASSUME IInv, PixInv, NEW r \in Req, NEW g \in Pg, CartaoCriaNoMp(r, g)
  PROVE  PixInv'
<1>1. PICK p \in Pedido, chave \in Chave :
         /\ p = req[r].pedido /\ chave = req[r].chave /\ req[r].pc = "cartao_mp"
         /\ chave.metodo = "CARTAO"
         /\ CriaNoMp(p, chave, g, {"pending", "approved", "rejected"})
         /\ UNCHANGED <<banco, reembolso>>
  BY DEF IInv, HandlersCoerentes, Coerente, PixInv, ChaveCoerente, CartaoCriaNoMp, Em
<1>2. /\ PixCresce /\ ChavesUnicas' /\ LinhaDecidida'
      /\ mp'[g].pedido = p /\ mp'[g].chave = chave
      /\ \A o \in Pedido : Linhas(o)' = Linhas(o) /\ Linhas(o) \in Nat
      /\ \A h \in Pg : h # g => mp'[h] = mp[h]
      /\ \/ UNCHANGED mp
         \/ /\ mp[g].pedido \notin Pedido /\ pag[g] = "INEXISTENTE"
            /\ \A h \in Pg : mp[h].pedido = p => mp[h].chave # chave
  BY <1>1, CriaNoMpPix DEF banco
<1>3. /\ req'[r].pc = "cartao_grava" /\ req'[r].pg = g /\ req'[r].st = mp'[g].status
      /\ \A s \in Req : s # r => req'[s] = req[s]
  <2>1. req[r] \in Handler
    BY DEF IInv, TypeOK
  <2>2. req' = [req EXCEPT ![r] = [req[r] EXCEPT !.pc = "cartao_grava", !.pg = g, !.st = mp'[g].status]]
    BY DEF CartaoCriaNoMp, Segue
  <2> QED BY <2>1, <2>2 DEF IInv, TypeOK, Handler
<1>4. ~EhPix(g)'
  BY <1>1, <1>2 DEF EhPix
<1>5. ChaveCoerente(req[r])'
  BY <1>3, <1>4 DEF ChaveCoerente, EhPix
<1>6. \A s \in Req : ChaveCoerente(req[s])'
  BY <1>2, <1>3, <1>5, ChavesSeguem
<1>7. ASSUME NEW o \in Pedido, SoPix(o)' PROVE ChavesContadas(o)'
  <2>1. SoPix(o) /\ ChavesContadas(o)
    BY <1>2, <1>7, SoPixAntes DEF PixInv
  <2>2. o # p
    BY <1>2, <1>4, <1>7 DEF SoPix, EhPix
  <2>3. \A h \in Pg : mp'[h].pedido = o \/ mp[h].pedido = o => mp'[h] = mp[h]
    BY <1>2, <2>2
  <2> QED BY <1>1, <1>2, <1>3, <2>1, <2>3, OutroPedido DEF banco
<1> QED BY <1>2, <1>6, <1>7 DEF PixInv

\* A row stored for a payment adds one to the rows of its order.
LEMMA NovaLinha ==
  ASSUME IInv, PixInv, NEW p \in Pedido, NEW g \in Pg, NEW st, mp[g].pedido = p,
         pag[g] = "INEXISTENTE", st # "pending" => mp[g].status # "pending",
         pag' = [pag EXCEPT ![g] = StatusLocal(st)], UNCHANGED mp
  PROVE  /\ PixCresce /\ ChavesUnicas' /\ LinhaDecidida'
         /\ Linhas(p) \in Nat /\ Linhas(p)' = Linhas(p) + 1
         /\ \A o \in Pedido : o # p => Linhas(o)' = Linhas(o)
         /\ pag'[g] # "INEXISTENTE" /\ \A h \in Pg : h # g => pag'[h] = pag[h]
<1>1. /\ pag'[g] = StatusLocal(st) /\ pag'[g] \in StatusPagamento
      /\ pag'[g] # "INEXISTENTE" /\ \A h \in Pg : h # g => pag'[h] = pag[h]
  BY StatusLocalTipo DEF IInv, TypeOK, StatusPagamento
<1>2. PixCresce
  BY <1>1 DEF PixCresce
<1>3. ChavesUnicas'
  BY DEF PixInv, ChavesUnicas
<1>4. LinhaDecidida'
  <2>1. pag'[g] # "PENDENTE" => mp[g].status # "pending"
    BY <1>1 DEF StatusLocal
  <2> QED BY <1>1, <2>1 DEF PixInv, LinhaDecidida
<1>5. Linhas(p) \in Nat /\ Linhas(p)' = Linhas(p) + 1
  <2>1. Pagamentos(p)' = Pagamentos(p) \cup {g} /\ g \notin Pagamentos(p)
    BY <1>1 DEF Pagamentos
  <2>2. IsFiniteSet(Pagamentos(p))
    BY PgAssumption, FS_Subset DEF Pagamentos
  <2> QED BY <2>1, <2>2, FS_AddElement, FS_CardinalityType DEF Linhas
<1>6. ASSUME NEW o \in Pedido, o # p PROVE Linhas(o)' = Linhas(o)
  <2>1. Pagamentos(o)' = Pagamentos(o)
    BY <1>1, <1>6 DEF Pagamentos
  <2> QED BY <2>1 DEF Linhas
<1> QED BY <1>1, <1>2, <1>3, <1>4, <1>5, <1>6

\* The transaction of pagarPix: the row takes the next number, and its Pix is the one that can
\* be paid.
LEMMA PixGravaPix ==
  ASSUME IInv, PixInv, NEW r \in Req, PixGrava(r)
  PROVE  PixInv'
<1>0. PICK p \in Pedido, g \in Pg :
         /\ p = req[r].pedido /\ g = req[r].pg /\ mp[g].pedido = p
         /\ req[r].st # "pending" => mp[g].status # "pending"
  BY DEF IInv, HandlersCoerentes, Coerente, PixInv, ChaveCoerente, PixGrava, Em
<1>1. CASE pag[g] # "INEXISTENTE"
  <2>1. req' = [req EXCEPT ![r] = Livre] /\ UNCHANGED <<mp, pag, pixVencido>>
    BY <1>0, <1>1 DEF PixGrava, Termina, banco
  <2> QED BY <2>1, PixSoLe DEF Livre
<1>2. CASE pag[g] = "INEXISTENTE"
  <2>1. /\ pag' = [pag EXCEPT ![g] = StatusLocal(req[r].st)]
        /\ req' = [req EXCEPT ![r] = Consultando(p)]
        /\ UNCHANGED <<pixVencido, mp>>
    BY <1>0, <1>2 DEF PixGrava, Segue
  <2>2. /\ PixCresce /\ ChavesUnicas' /\ LinhaDecidida'
        /\ Linhas(p) \in Nat /\ Linhas(p)' = Linhas(p) + 1
        /\ \A o \in Pedido : o # p => Linhas(o)' = Linhas(o)
        /\ pag'[g] # "INEXISTENTE" /\ \A h \in Pg : h # g => pag'[h] = pag[h]
    BY <1>0, <1>2, <2>1, NovaLinha
  <2>3. req'[r].pc = "consulta" /\ \A s \in Req : s # r => req'[s] = req[s]
    <3>1. req'[r] = Consultando(p) /\ \A s \in Req : s # r => req'[s] = req[s]
      BY <2>1, SegueUm
    <3>2. Consultando(p).pc = "consulta"
      BY DEF Consultando, Livre
    <3> QED BY <3>1, <3>2
  <2>4. ChaveCoerente(req[r])'
    BY <2>3 DEF ChaveCoerente
  <2>5. \A s \in Req : ChaveCoerente(req[s])'
    BY <2>2, <2>3, <2>4, ChavesSeguem
  <2>6. ASSUME NEW o \in Pedido, SoPix(o)', o # p PROVE ChavesContadas(o)'
    <3>1. ChavesContadas(o)
      BY <2>2, <2>6, SoPixAntes DEF PixInv
    <3> QED BY <1>0, <2>1, <2>2, <2>3, <2>6, <3>1, OutroPedido
  <2>7. ASSUME SoPix(p)' PROVE ChavesContadas(p)'
    <3>1. SoPix(p) /\ ChavesContadas(p)
      BY <2>2, <2>7, SoPixAntes DEF PixInv
    <3>2. mp[g].chave.id = Linhas(p) /\ SemPagavel(p)
      BY <1>0, <1>2, <3>1 DEF ChavesContadas, NumeroDoPix
    <3>3. \A h \in Pg : mp[h].pedido = p /\ h # g =>
             /\ mp[h].chave.id \in Nat /\ mp[h].chave.id < Linhas(p)
             /\ pag[h] # "INEXISTENTE" /\ ~Pagavel(h)'
      <4> SUFFICES ASSUME NEW h \in Pg, mp[h].pedido = p, h # g
                   PROVE  /\ mp[h].chave.id \in Nat /\ mp[h].chave.id < Linhas(p)
                          /\ pag[h] # "INEXISTENTE" /\ ~Pagavel(h)'
        OBVIOUS
      <4>1. mp[h].chave \in Chave /\ mp[g].chave \in Chave /\ EhPix(h) /\ EhPix(g)
        BY <1>0, <3>1, NenhumAssumption DEF SoPix, IInv, TypeOK, SemPagamento
      <4>2. mp[h].chave # mp[g].chave
        BY <1>0 DEF PixInv, ChavesUnicas
      <4>3. mp[h].chave.id \in Nat /\ mp[h].chave.id # mp[g].chave.id
        BY <4>1, <4>2 DEF Chave, EhPix
      <4>4. pag[h] # "INEXISTENTE" /\ mp[h].chave.id < Linhas(p)
        BY <3>1, <3>2, <4>3 DEF ChavesContadas, NumeroDoPix
      <4>5. ~Pagavel(h)'
        BY <2>1, <2>2, <3>2 DEF SemPagavel, Pagavel, EhPix
      <4> QED BY <4>3, <4>4, <4>5
    <3>4. ASSUME NEW h \in Pg, mp'[h].pedido = p PROVE NumeroDoPix(p, h)'
      BY <2>1, <2>2, <3>2, <3>3, <3>4 DEF NumeroDoPix
    <3>5. ASSUME NEW i \in Nat, i < Linhas(p)'
          PROVE  \E h \in Pg : mp'[h].pedido = p /\ mp'[h].chave.id = i
      <4>1. CASE i = Linhas(p)
        BY <1>0, <2>1, <3>2, <4>1
      <4>2. CASE i # Linhas(p)
        <5>1. i < Linhas(p)
          BY <2>2, <3>5, <4>2
        <5> QED BY <2>1, <3>1, <5>1 DEF ChavesContadas
      <4> QED BY <4>1, <4>2
    <3>6. ASSUME NEW s \in Req, req'[s].pc = "pix_mp", req'[s].pedido = p,
                 req'[s].chave.id = Linhas(p)'
          PROVE  SemPagavel(p)'
      <4>1. req[s].pc = "pix_mp" /\ req[s].pedido = p /\ req[s].chave.id = Linhas(p) + 1
        BY <2>2, <2>3, <3>6
      <4>2. req[s].chave.id <= Linhas(p)
        BY <4>1 DEF PixInv, ChaveCoerente
      <4> QED BY <2>2, <4>1, <4>2
    <3> QED BY <3>4, <3>5, <3>6 DEF ChavesContadas
  <2> QED BY <2>2, <2>5, <2>6, <2>7 DEF PixInv
<1> QED BY <1>1, <1>2

\* The upsert of pagarCartao: the order has not only Pix.
LEMMA CartaoGravaPix ==
  ASSUME IInv, PixInv, NEW r \in Req, CartaoGrava(r)
  PROVE  PixInv'
<1>0. PICK p \in Pedido, g \in Pg :
         /\ p = req[r].pedido /\ g = req[r].pg /\ mp[g].pedido = p /\ ~EhPix(g)
         /\ req[r].st # "pending" => mp[g].status # "pending"
  BY DEF IInv, HandlersCoerentes, Coerente, PixInv, ChaveCoerente, CartaoGrava, Em
<1> DEFINE q == [req[r] EXCEPT !.pc = IF req[r].lido = "ABERTO" THEN "cartao_aguarda" ELSE "aplica"]
<1>1. req' = [req EXCEPT ![r] = q] /\ UNCHANGED <<mp, pixVencido>>
  BY DEF CartaoGrava, Segue
<1>2. q.pc \in {"cartao_aguarda", "aplica"} /\ q.st = req[r].st /\ q.pg = g
  <2>1. req[r] \in Handler
    BY DEF IInv, TypeOK
  <2> QED BY <1>0, <2>1 DEF Handler
<1> HIDE DEF q
<1>3. /\ req'[r].pc \in {"cartao_aguarda", "aplica"} /\ req'[r].st = req[r].st /\ req'[r].pg = g
      /\ \A s \in Req : s # r => req'[s] = req[s]
  BY <1>1, <1>2, SegueUm
<1>4. ChaveCoerente(req[r])'
  BY <1>0, <1>1, <1>3 DEF ChaveCoerente
<1>5. CASE pag[g] # "INEXISTENTE"
  <2>1. UNCHANGED pag
    BY <1>0, <1>5 DEF CartaoGrava
  <2>2. LinhaDecidida'
    BY <1>1, <2>1 DEF PixInv, LinhaDecidida
  <2> QED BY <1>1, <1>3, <1>4, <2>1, <2>2, PixAnda
<1>6. CASE pag[g] = "INEXISTENTE"
  <2>1. pag' = [pag EXCEPT ![g] = StatusLocal(req[r].st)]
    BY <1>0, <1>6 DEF CartaoGrava
  <2>2. /\ PixCresce /\ ChavesUnicas' /\ LinhaDecidida'
        /\ \A o \in Pedido : o # p => Linhas(o)' = Linhas(o)
        /\ \A h \in Pg : h # g => pag'[h] = pag[h]
    BY <1>0, <1>1, <1>6, <2>1, NovaLinha
  <2>3. \A s \in Req : ChaveCoerente(req[s])'
    BY <1>3, <1>4, <2>2, ChavesSeguem
  <2>4. ASSUME NEW o \in Pedido, SoPix(o)' PROVE ChavesContadas(o)'
    <3>1. SoPix(o) /\ ChavesContadas(o)
      BY <2>2, <2>4, SoPixAntes DEF PixInv
    <3>2. o # p
      BY <1>0, <3>1 DEF SoPix
    <3> QED BY <1>0, <1>1, <1>3, <2>2, <3>1, <3>2, OutroPedido
  <2> QED BY <2>2, <2>3, <2>4 DEF PixInv
<1> QED BY <1>5, <1>6

\* The update of pagarCartao after the upsert.
LEMMA CartaoAguardaPix ==
  ASSUME IInv, PixInv, NEW r \in Req, CartaoAguarda(r)
  PROVE  PixInv'
<1> DEFINE q == [req[r] EXCEPT !.pc = "aplica"]
<1>1. req' = [req EXCEPT ![r] = q] /\ UNCHANGED <<mp, pag, pixVencido>>
  BY DEF CartaoAguarda, Segue
<1>2. q.pc = "aplica" /\ (q.st # "pending" => mp[q.pg].status # "pending")
  <2>1. req[r] \in Handler
    BY DEF IInv, TypeOK
  <2>2. req[r].st # "pending" => mp[req[r].pg].status # "pending"
    BY DEF PixInv, ChaveCoerente, CartaoAguarda, Em
  <2> QED BY <2>1, <2>2 DEF Handler
<1> HIDE DEF q
<1> QED BY <1>1, <1>2, PixSoLe

\* obterPagamento: the status read is MP's.
LEMMA PerguntaAoMpPix ==
  ASSUME IInv, PixInv, NEW r \in Req, PerguntaAoMp(r)
  PROVE  PixInv'
<1> DEFINE q == [req[r] EXCEPT !.pc = "aplica", !.st = mp[req[r].pg].status]
<1>1. req' = [req EXCEPT ![r] = q] /\ UNCHANGED <<mp, pag, pixVencido>>
  BY DEF PerguntaAoMp, Segue, banco
<1>2. q.pc = "aplica" /\ (q.st # "pending" => mp[q.pg].status # "pending")
  <2>1. req[r] \in Handler
    BY DEF IInv, TypeOK
  <2> QED BY <2>1 DEF Handler
<1> HIDE DEF q
<1> QED BY <1>1, <1>2, PixSoLe

\* Where a handler goes after aplicar, liberar or marcarEstornado carries no key on.
LEMMA ContinuaPc ==
  ASSUME NEW q \in Handler
  PROVE  Continua(q).pc \in {"livre", "consulta", "recarrega"}
  BY DEF Continua, Consultando, Livre, Handler

\* aplicar: the row takes a status its payment has at MP, or pending.
LEMMA AplicarPix ==
  ASSUME IInv, PixInv, NEW r \in Req, Aplicar(r)
  PROVE  PixInv'
<1> DEFINE q == req[r]
           n == CASE StatusLocal(q.st) = "APROVADO"  -> [q EXCEPT !.pc = "libera"]
                  [] StatusLocal(q.st) = "ESTORNADO" -> [q EXCEPT !.pc = "estorna"]
                  [] OTHER -> Continua(q)
<1>1. /\ q \in Handler /\ q.pg \in Pg
      /\ q.st # "pending" => mp[q.pg].status # "pending"
  BY DEF IInv, TypeOK, HandlersCoerentes, Coerente, PixInv, ChaveCoerente, Aplicar, Em
<1>2. n.pc \in {"livre", "consulta", "recarrega", "libera", "estorna"}
  BY <1>1, ContinuaPc DEF Handler
<1>3. req' = [req EXCEPT ![r] = n] /\ UNCHANGED <<mp, pixVencido>>
  BY DEF Aplicar, Segue
<1>4. pag' = IF pag[q.pg] = "INEXISTENTE" THEN pag ELSE [pag EXCEPT ![q.pg] = StatusLocal(q.st)]
  BY DEF Aplicar
<1>5. StatusLocal(q.st) # "INEXISTENTE" /\ (StatusLocal(q.st) # "PENDENTE" => q.st # "pending")
  BY StatusLocalTipo DEF StatusPagamento, StatusLocal
<1> HIDE DEF n, q
<1>6. \A g \in Pg : pag'[g] = "INEXISTENTE" <=> pag[g] = "INEXISTENTE"
  BY <1>1, <1>4, <1>5 DEF IInv, TypeOK
<1>7. LinhaDecidida'
  BY <1>1, <1>3, <1>4, <1>5 DEF IInv, TypeOK, PixInv, LinhaDecidida
<1>8. req'[r].pc \in {"livre", "consulta", "recarrega", "libera", "estorna"}
  BY <1>2, <1>3, SegueUm
<1>9. ChaveCoerente(req[r])'
  BY <1>8 DEF ChaveCoerente
<1> QED BY <1>3, <1>6, <1>7, <1>8, <1>9, PixAnda

\* The transaction of liberar.
LEMMA LiberarPix ==
  ASSUME IInv, PixInv, NEW r \in Req, Liberar(r)
  PROVE  PixInv'
<1>1. req[r] \in Handler
  BY DEF IInv, TypeOK
<1>2. req' = [req EXCEPT ![r] = Continua(req[r])] /\ UNCHANGED <<mp, pag, pixVencido>>
  BY DEF Liberar, Segue
<1> QED BY <1>1, <1>2, ContinuaPc, PixSoLe

\* The transaction of marcarEstornado.
LEMMA MarcarEstornadoPix ==
  ASSUME IInv, PixInv, NEW r \in Req, MarcarEstornado(r)
  PROVE  PixInv'
<1>1. req[r] \in Handler
  BY DEF IInv, TypeOK
<1>2. req' = [req EXCEPT ![r] = Continua(req[r])] /\ UNCHANGED <<mp, pixVencido>>
  BY DEF MarcarEstornado, Segue
<1>3. req'[r].pc \in {"livre", "consulta", "recarrega"}
  BY <1>1, <1>2, SegueUm, ContinuaPc
<1>4. ChaveCoerente(req[r])'
  BY <1>3 DEF ChaveCoerente
<1>5. \A g \in Pg : pag'[g] = pag[g] \/ (pag[g] = "APROVADO" /\ pag'[g] = "ESTORNADO")
  BY DEF MarcarEstornado, ComStatus, Pagamentos
<1>6. LinhaDecidida'
  BY <1>2, <1>5 DEF PixInv, LinhaDecidida
<1> QED BY <1>2, <1>3, <1>4, <1>5, <1>6, PixAnda

\* reembolsar.
LEMMA DevolverNoMpPix ==
  ASSUME IInv, PixInv, NEW r \in Req, DevolverNoMp(r)
  PROVE  PixInv'
<1> DEFINE q == [req[r] EXCEPT !.pc = "estorna"]
<1>1. req[r] \in Handler /\ req[r].pg \in Pg /\ mp[req[r].pg].pedido \in Pedido
  BY DEF IInv, TypeOK, HandlersCoerentes, Coerente, DevolverNoMp, Em
<1>2. req' = [req EXCEPT ![r] = q] /\ UNCHANGED <<pag, pixVencido>>
  BY DEF DevolverNoMp, Segue, banco
<1>3. q.pc = "estorna"
  BY <1>1 DEF Handler
<1> HIDE DEF q
<1>4. req'[r].pc = "estorna"
  BY <1>2, <1>3, SegueUm
<1>5. ChaveCoerente(req[r])'
  BY <1>4 DEF ChaveCoerente
<1>6. UNCHANGED mp \/ mp' = [mp EXCEPT ![req[r].pg].status = "refunded"]
  BY DEF DevolverNoMp
<1>7. mp[req[r].pg] \in [pedido : Pedido, chave : Chave, status : StatusMp]
  BY <1>1, NenhumAssumption DEF IInv, TypeOK, SemPagamento
<1>8. \A g \in Pg : /\ mp'[g].pedido = mp[g].pedido /\ mp'[g].chave = mp[g].chave
                    /\ mp'[g].status = "pending" => mp[g].status = "pending"
  BY <1>6, <1>7 DEF IInv, TypeOK
<1>9. LinhaDecidida'
  BY <1>2, <1>8 DEF PixInv, LinhaDecidida
<1> QED BY <1>2, <1>4, <1>5, <1>8, <1>9, PixAnda

\* consultar and its errors, and handlers that die.
LEMMA ConsultaPix ==
  ASSUME IInv, PixInv, NEW r \in Req,
         \/ Reconsultar(r) \/ Consultar(r) \/ Recarregar(r) \/ Expirar(r)
         \/ ErroNaReconsulta(r) \/ Falhar(r)
  PROVE  PixInv'
<1>1. \A p : Expirando(p).pc = "expira" /\ Livre.pc = "livre"
  BY DEF Expirando, Livre
<1>2. CASE Reconsultar(r)
  <2>1. PICK g \in Pg :
          Segue(r, [Livre EXCEPT !.pc = "consulta_mp", !.pedido = req[r].pedido, !.pg = g,
                      !.volta = "recarrega", !.expira = DeveExpirar(req[r].pedido)])
    BY <1>2 DEF Reconsultar
  <2> DEFINE q == [Livre EXCEPT !.pc = "consulta_mp", !.pedido = req[r].pedido, !.pg = g,
                     !.volta = "recarrega", !.expira = DeveExpirar(req[r].pedido)]
  <2>2. q.pc = "consulta_mp"
    BY DEF Livre
  <2>3. req' = [req EXCEPT ![r] = q]
    BY <2>1 DEF Segue
  <2>4. UNCHANGED <<mp, pag, pixVencido>>
    BY <1>2 DEF Reconsultar, banco
  <2> HIDE DEF q
  <2> QED BY <2>2, <2>3, <2>4, PixSoLe
<1>3. CASE Consultar(r) \/ Recarregar(r)
  <2>1. UNCHANGED <<mp, pag, pixVencido>>
    BY <1>3 DEF Consultar, Recarregar, banco
  <2>2. \/ req' = [req EXCEPT ![r] = Expirando(req[r].pedido)]
        \/ req' = [req EXCEPT ![r] = Livre]
    BY <1>3 DEF Consultar, Recarregar, Segue
  <2> QED BY <1>1, <2>1, <2>2, PixSoLe
<1>4. CASE ErroNaReconsulta(r)
  <2>1. UNCHANGED <<mp, pag, pixVencido>>
    BY <1>4 DEF ErroNaReconsulta, banco
  <2>2. \/ req' = [req EXCEPT ![r] = Expirando(req[r].pedido)]
        \/ req' = [req EXCEPT ![r] = Livre]
    BY <1>4 DEF ErroNaReconsulta, Segue
  <2> QED BY <1>1, <2>1, <2>2, PixSoLe
<1>5. CASE Expirar(r) \/ Falhar(r)
  BY <1>1, <1>5, PixSoLe DEF Expirar, Falhar, Termina, banco
<1> QED BY <1>2, <1>3, <1>4, <1>5

\* The provider, the clock and the steps outside Vendas.
LEMMA AmbientePix ==
  ASSUME IInv, PixInv, UNCHANGED <<pag, req>>, pixVencido \subseteq pixVencido',
         \A g \in Pg : /\ mp'[g].pedido = mp[g].pedido
                       /\ mp'[g].chave = mp[g].chave
                       /\ mp'[g].status = "pending" => mp[g].status = "pending"
  PROVE  PixInv'
<1>1. PixCresce
  BY DEF PixCresce
<1>2. ASSUME NEW r \in Req PROVE ChaveCoerente(req[r])'
  <2>1. PICK v \in Handler : v = req[r]
    BY DEF IInv, TypeOK
  <2>2. Coerente(v) /\ ChaveCoerente(v)
    BY <2>1 DEF IInv, HandlersCoerentes, PixInv
  <2>3. ChaveCoerente(v)'
    BY <1>1, <2>2, ChaveCoerenteCresce
  <2> QED BY <2>1, <2>3 DEF ChaveCoerente, EhPix, Linhas, Pagamentos
<1>3. LinhaDecidida'
  BY DEF PixInv, LinhaDecidida
<1> QED BY <1>2, <1>3, PixParado

\* Every step keeps the count of the keys.
LEMMA NextPix == IInv /\ PixInv /\ [Next]_vars => PixInv'
<1> SUFFICES ASSUME IInv, PixInv, [Next]_vars PROVE PixInv'
  OBVIOUS
<1>1. ASSUME NEW r \in Req, Iniciar(r) PROVE PixInv'
  BY <1>1, IniciarPix
<1>2. ASSUME NEW r \in Req, Passo(r) PROVE PixInv'
  BY <1>2, PixCriaNoMpPix, CartaoCriaNoMpPix, PixGravaPix, CartaoGravaPix, CartaoAguardaPix,
     PerguntaAoMpPix, AplicarPix, LiberarPix, MarcarEstornadoPix, DevolverNoMpPix, ConsultaPix
     DEF Passo
<1>3. ASSUME NEW r \in Req, ErroNaReconsulta(r) \/ Falhar(r) PROVE PixInv'
  BY <1>3, ConsultaPix
<1>4. ASSUME NEW g \in Pg, MpDecide(g) PROVE PixInv'
  <2>1. PICK st \in {"approved", "rejected", "cancelled", "refunded", "charged_back"} :
          mp' = [mp EXCEPT ![g].status = st] /\ mp[g].status \in {"pending", "approved"}
    BY <1>4 DEF MpDecide
  <2>2. mp[g] \in [pedido : Pedido, chave : Chave, status : StatusMp]
    BY <2>1, NenhumAssumption DEF IInv, TypeOK, SemPagamento, StatusMp
  <2>3. \A h \in Pg : /\ mp'[h].pedido = mp[h].pedido /\ mp'[h].chave = mp[h].chave
                      /\ mp'[h].status = "pending" => mp[h].status = "pending"
    BY <2>1, <2>2 DEF IInv, TypeOK
  <2> QED BY <1>4, <2>3, AmbientePix DEF MpDecide, banco
<1>5. CASE UNCHANGED <<pag, req, mp>> /\ pixVencido \subseteq pixVencido'
  BY <1>5, AmbientePix
<1> QED BY <1>1, <1>2, <1>3, <1>4, <1>5 DEF Next, Ambiente, VencerPix, VencerPedido, vars

\* Before the first order there is no key.
LEMMA InitPix == Init => PixInv
<1> SUFFICES ASSUME Init PROVE PixInv
  OBVIOUS
<1>1. \A g \in Pg : mp[g].pedido \notin Pedido /\ pag[g] = "INEXISTENTE"
  BY NenhumAssumption DEF Init, SemPagamento
<1>2. \A p \in Pedido : Linhas(p) = 0
  <2>1. \A p \in Pedido : Pagamentos(p) = {}
    BY <1>1 DEF Pagamentos
  <2> QED BY <2>1, FS_EmptySet DEF Linhas
<1>3. \A r \in Req : req[r].pc = "livre"
  BY DEF Init, Livre
<1>4. \A p \in Pedido : ChavesContadas(p)
  BY <1>1, <1>2, <1>3 DEF ChavesContadas
<1> QED BY <1>1, <1>3, <1>4 DEF PixInv, ChavesUnicas, LinhaDecidida, ChaveCoerente

\* The numbers of the Pix leave at most one that can be paid.
LEMMA UmPorNumero == IInv /\ PixInv => UmPixAberto
<1> SUFFICES ASSUME IInv, PixInv, NEW p \in Pedido, SoPix(p), NEW g \in Pagamentos(p),
                    NEW h \in Pagamentos(p), Pagavel(g), Pagavel(h)
             PROVE  g = h
  BY DEF UmPixAberto
<1>1. g \in Pg /\ h \in Pg /\ mp[g].pedido = p /\ mp[h].pedido = p
  BY DEF Pagamentos
<1>2. mp[g].chave.id = Linhas(p) - 1 /\ mp[h].chave.id = Linhas(p) - 1
  BY <1>1 DEF PixInv, ChavesContadas, NumeroDoPix
<1>3. /\ mp[g].chave \in Chave /\ mp[h].chave \in Chave
      /\ mp[g].chave.metodo = "PIX" /\ mp[h].chave.metodo = "PIX"
  BY <1>1, NenhumAssumption DEF SoPix, EhPix, IInv, TypeOK, SemPagamento
<1>4. mp[g].chave = mp[h].chave
  BY <1>2, <1>3 DEF Chave
<1> QED BY <1>1, <1>4 DEF PixInv, ChavesUnicas

\* The idempotency key of the Pix, for every number of clicks, reloads, retries and handlers
\* that die: while no card is tried on an order it has at most one Pix that can be paid.
THEOREM PixSempreUm == Spec => []UmPixAberto
  BY Invariante, InitIInv, NextIInv, InitPix, NextPix, UmPorNumero, PTL DEF Spec

-----------------------------------------------------------------------------
(* One handler at a time, on a database that answers: what a handler read   *)
(* of its order still holds when it writes the status, so no order that was *)
(* sold or returned is reopened, and none expires with a payment pending.   *)

UmDeCadaVez == ~BancoFalha /\ \A r, s \in Req : r = s

\* Every pending payment of the order is a Pix whose time is over.
SoVencidos(p) == \A g \in ComStatus(p, "PENDENTE") : EhPix(g) /\ g \in pixVencido

\* What the one handler at work knows of its order and of its payment's row.
Sabe(q) ==
  /\ q.pc \in {"pix_mp", "pix_grava", "cartao_mp", "cartao_grava", "cartao_aguarda"} =>
       pedido[q.pedido] \in {"ABERTO", "AGUARDANDO_PAGAMENTO"}
  /\ q.pc = "expira" \/ (q.pc = "consulta_mp" /\ q.expira) =>
       pedido[q.pedido] = "AGUARDANDO_PAGAMENTO" /\ SoVencidos(q.pedido)
  /\ q.pc \in {"pix_grava", "cartao_grava", "cartao_aguarda", "aplica"} /\ q.st = "pending" =>
       pag[q.pg] \in {"PENDENTE", "INEXISTENTE"}

UmInv == ExpiradoSemPendente /\ \A r \in Req : Sabe(req[r])

\* An order sold or returned stays one or the other.
NadaReabre ==
  \A p \in Pedido : pedido[p] \in {"PAGO", "ESTORNADO"} => pedido'[p] \in {"PAGO", "ESTORNADO"}

\* No payment becomes pending: the pending ones of an order are still over.
LEMMA VencidosFicam ==
  ASSUME IInv, PixCresce, pixVencido \subseteq pixVencido', NEW p, SoVencidos(p),
         \A g \in Pg : mp'[g].pedido = p /\ pag'[g] = "PENDENTE" => pag[g] = "PENDENTE"
  PROVE  SoVencidos(p)'
<1> SUFFICES ASSUME NEW g \in Pg, mp'[g].pedido = p, pag'[g] = "PENDENTE"
             PROVE  mp'[g].chave.metodo = "PIX" /\ g \in pixVencido'
  BY DEF SoVencidos, ComStatus, Pagamentos, EhPix
<1>1. pag[g] = "PENDENTE" /\ mp[g].pedido \in Pedido
  BY DEF IInv, RegistrosTemPagamento
<1>2. mp[g].pedido = p /\ mp'[g].chave = mp[g].chave
  BY <1>1 DEF PixCresce
<1> QED BY <1>1, <1>2 DEF SoVencidos, ComStatus, Pagamentos, EhPix

\* Orders expire only with what is over, and the rows of those that have get none pending.
LEMMA ExpiradosFicam ==
  ASSUME IInv, UmInv, PixCresce, pixVencido \subseteq pixVencido',
         \A p \in Pedido : pedido'[p] = "EXPIRADO" => pedido[p] = "EXPIRADO" \/ SoVencidos(p),
         \A g \in Pg : pag'[g] = "PENDENTE" =>
           pag[g] = "PENDENTE" \/ pedido'[mp'[g].pedido] # "EXPIRADO"
  PROVE  ExpiradoSemPendente'
<1> SUFFICES ASSUME NEW p \in Pedido, pedido'[p] = "EXPIRADO" PROVE SoVencidos(p)'
  BY DEF ExpiradoSemPendente, SoVencidos
<1>1. SoVencidos(p)
  BY DEF UmInv, ExpiradoSemPendente, SoVencidos
<1> QED BY <1>1, VencidosFicam

\* With one handler, what it knows after its step is all there is to know.
LEMMA SabeUm ==
  ASSUME UmDeCadaVez, IInv, NEW r \in Req, NEW q, req' = [req EXCEPT ![r] = q],
         req'[r] = q => Sabe(req[r])'
  PROVE  \A s \in Req : Sabe(req[s])'
<1>1. req'[r] = q
  BY DEF IInv, TypeOK
<1> QED BY <1>1 DEF UmDeCadaVez

\* Steps that leave rows, orders and MP alone.
LEMMA UmSoLe ==
  ASSUME UmDeCadaVez, IInv, UmInv, NEW r \in Req, NEW q, req' = [req EXCEPT ![r] = q],
         UNCHANGED <<pedido, pag, pixVencido, mp>>, Sabe(q)
  PROVE  UmInv' /\ NadaReabre
<1>1. PixCresce
  BY DEF PixCresce
<1>2. ExpiradoSemPendente'
  BY DEF UmInv, ExpiradoSemPendente, ComStatus, Pagamentos, EhPix
<1>3. ASSUME req'[r] = q PROVE Sabe(req[r])'
  BY <1>3 DEF Sabe, SoVencidos, ComStatus, Pagamentos, EhPix
<1> QED BY <1>2, <1>3, SabeUm DEF UmInv, NadaReabre

\* A handler that reads, is idle, or has sold or returned, knows nothing that matters.
LEMMA NadaSabe ==
  ASSUME NEW q, \/ q.pc \in {"livre", "libera", "aviso_mp", "estorna", "devolve_mp", "consulta", "recarrega"}
                \/ q.pc = "consulta_mp" /\ ~q.expira
  PROVE  Sabe(q)
  BY DEF Sabe

\* What DeveExpirar has seen.
LEMMA DeveExpirarSabe ==
  ASSUME NEW p, DeveExpirar(p)
  PROVE  pedido[p] = "AGUARDANDO_PAGAMENTO" /\ SoVencidos(p)
  BY DEF DeveExpirar, SoVencidos

LEMMA IniciarUm ==
  ASSUME UmDeCadaVez, IInv, UmInv, NEW r \in Req, Iniciar(r)
  PROVE  UmInv' /\ NadaReabre
<1>1. ASSUME NEW p \in Pedido, CriarPedido(r, p) PROVE UmInv' /\ NadaReabre
  <2>1. pedido[p] = "INEXISTENTE" /\ pedido' = [pedido EXCEPT ![p] = "ABERTO"]
    BY <1>1 DEF CriarPedido
  <2>2. PixCresce /\ NadaReabre
    BY <1>1, <2>1 DEF PixCresce, NadaReabre, CriarPedido, IInv, TypeOK
  <2>3. ExpiradoSemPendente'
    BY <1>1, <2>1, <2>2, ExpiradosFicam DEF CriarPedido, IInv, TypeOK
  <2>4. \A s \in Req : Sabe(req[s])'
    <3> SUFFICES ASSUME NEW s \in Req PROVE Sabe(req[s])'
      OBVIOUS
    <3>1. req[s].pc = "livre"
      BY <1>1 DEF UmDeCadaVez, CriarPedido, Em
    <3>2. req'[s].pc \in {"livre", "libera"}
      BY <1>1, <3>1 DEF CriarPedido, IInv, TypeOK, Livre, UmDeCadaVez
    <3> QED BY <3>2 DEF Sabe
  <2> QED BY <2>2, <2>3, <2>4 DEF UmInv
<1>2. ASSUME NEW p \in Pedido, PagarPix(r, p) PROVE UmInv' /\ NadaReabre
  <2> DEFINE q == IF PixAberto(p) # {}
                  THEN Consultando(p)
                  ELSE [Livre EXCEPT !.pc = "pix_mp", !.pedido = p,
                          !.chave = [metodo |-> "PIX", id |-> Cardinality(Pagamentos(p))]]
  <2>1. Sabe(q)
    <3>1. pedido[p] \in {"ABERTO", "AGUARDANDO_PAGAMENTO"}
      BY <1>2 DEF PagarPix, PodePagar
    <3> QED BY <3>1 DEF Sabe, Consultando, Livre
  <2>2. req' = [req EXCEPT ![r] = q] /\ UNCHANGED <<pedido, pag, pixVencido, mp>>
    BY <1>2 DEF PagarPix, Segue, banco
  <2> HIDE DEF q
  <2> QED BY <2>1, <2>2, UmSoLe
<1>3. ASSUME NEW p \in Pedido, NEW t \in Token, PagarCartao(r, p, t) PROVE UmInv' /\ NadaReabre
  <2> DEFINE q == [Livre EXCEPT !.pc = "cartao_mp", !.pedido = p, !.lido = pedido[p],
                     !.chave = [metodo |-> "CARTAO", id |-> t], !.volta = "consulta"]
  <2>1. Sabe(q)
    <3>1. pedido[p] \in {"ABERTO", "AGUARDANDO_PAGAMENTO"}
      BY <1>3 DEF PagarCartao, PodePagar
    <3> QED BY <3>1 DEF Sabe, Livre
  <2>2. req' = [req EXCEPT ![r] = q] /\ UNCHANGED <<pedido, pag, pixVencido, mp>>
    BY <1>3 DEF PagarCartao, Segue, banco
  <2> HIDE DEF q
  <2> QED BY <2>1, <2>2, UmSoLe
<1>4. ASSUME NEW p \in Pedido, Devolver(r, p) PROVE UmInv' /\ NadaReabre
  <2>1. ASSUME NEW q, Segue(r, q), q.pc \in {"estorna", "devolve_mp"} PROVE UmInv' /\ NadaReabre
    BY <1>4, <2>1, NadaSabe, UmSoLe DEF Devolver, banco, Segue
  <2> DEFINE q(g) == [Livre EXCEPT !.pc = "devolve_mp", !.pedido = p, !.pg = g]
             o == [Livre EXCEPT !.pc = "estorna", !.pedido = p]
  <2>2. o.pc = "estorna" /\ \A g : q(g).pc = "devolve_mp"
    BY DEF Livre
  <2>3. Segue(r, o) \/ \E g \in Pg : Segue(r, q(g))
    BY <1>4 DEF Devolver
  <2> HIDE DEF q, o
  <2> QED BY <2>1, <2>2, <2>3
<1>5. ASSUME NEW p \in Pedido, AbrirPedido(r, p) PROVE UmInv' /\ NadaReabre
  <2>1. Sabe(Consultando(p))
    BY DEF Sabe, Consultando, Livre
  <2> QED BY <1>5, <2>1, UmSoLe DEF AbrirPedido, Segue, banco
<1>6. ASSUME NEW g \in Pg, ReceberAviso(r, g) PROVE UmInv' /\ NadaReabre
  <2> DEFINE q == [Livre EXCEPT !.pc = "aviso_mp", !.pedido = mp[g].pedido, !.pg = g]
  <2>1. Sabe(q)
    BY DEF Sabe, Livre
  <2>2. req' = [req EXCEPT ![r] = q] /\ UNCHANGED <<pedido, pag, pixVencido, mp>>
    BY <1>6 DEF ReceberAviso, Segue, banco
  <2> HIDE DEF q
  <2> QED BY <2>1, <2>2, UmSoLe
<1> QED BY <1>1, <1>2, <1>3, <1>4, <1>5, <1>6 DEF Iniciar

\* MP makes or finds the payment: one that is pending has a row that says so, or none.
LEMMA CriaNoMpUm ==
  ASSUME UmDeCadaVez, IInv, PixInv, UmInv, NEW r \in Req, NEW g \in Pg,
         PixCriaNoMp(r, g) \/ CartaoCriaNoMp(r, g)
  PROVE  UmInv' /\ NadaReabre
<1> DEFINE p == req[r].pedido
           de == IF Em(r, "pix_mp") THEN "pix_grava" ELSE "cartao_grava"
           q == [req[r] EXCEPT !.pc = de, !.pg = g, !.st = mp'[g].status]
<1>1. p \in Pedido /\ req[r].chave \in Chave /\ req[r] \in Handler
  BY DEF IInv, TypeOK, HandlersCoerentes, Coerente, PixCriaNoMp, CartaoCriaNoMp, Em
<1>2. UNCHANGED <<pedido, pag, pixVencido>> /\ req' = [req EXCEPT ![r] = q]
  BY DEF PixCriaNoMp, CartaoCriaNoMp, banco, Segue, Em
<1>3. PixCresce /\ LinhaDecidida'
  BY <1>1, <1>2, CriaNoMpPix DEF PixCriaNoMp, CartaoCriaNoMp
<1>4. ExpiradoSemPendente'
  BY <1>2, <1>3, ExpiradosFicam
<1>5. ASSUME req'[r] = q PROVE Sabe(req[r])'
  <2>1. /\ q.pc = de /\ q.pg = g /\ q.st = mp'[g].status /\ q.pedido = p
        /\ de \in {"pix_grava", "cartao_grava"}
    BY <1>1 DEF Handler
  <2>2. pedido[p] \in {"ABERTO", "AGUARDANDO_PAGAMENTO"}
    BY DEF UmInv, Sabe, PixCriaNoMp, CartaoCriaNoMp, Em
  <2>3. q.st = "pending" => pag'[g] \in {"PENDENTE", "INEXISTENTE"}
    BY <1>3, <2>1 DEF LinhaDecidida
  <2> HIDE DEF q, de
  <2> QED BY <1>2, <1>5, <2>1, <2>2, <2>3 DEF Sabe
<1> HIDE DEF q
<1> QED BY <1>2, <1>4, <1>5, SabeUm DEF UmInv, NadaReabre

\* Where a handler that has applied a status goes, it knows nothing that matters.
LEMMA ContinuaUm == ASSUME NEW q \in Handler PROVE Continua(q).pc \in {"livre", "consulta", "recarrega"}
  BY DEF Continua, Consultando, Livre, Handler

\* Only what is pending at MP is PENDENTE in a row.
LEMMA PendenteLocal ==
  ASSUME NEW st \in StatusMp, StatusLocal(st) = "PENDENTE"
  PROVE  st = "pending"
  BY DEF StatusLocal, StatusMp

\* The transaction of pagarPix, of an order that can still be paid.
LEMMA PixGravaUm ==
  ASSUME UmDeCadaVez, IInv, UmInv, NEW r \in Req, PixGrava(r)
  PROVE  UmInv' /\ NadaReabre
<1> DEFINE p == req[r].pedido
           g == req[r].pg
<1>1. p \in Pedido /\ g \in Pg /\ mp[g].pedido = p
  BY DEF IInv, HandlersCoerentes, Coerente, PixGrava, Em
<1>2. pedido[p] \in {"ABERTO", "AGUARDANDO_PAGAMENTO"}
  BY DEF UmInv, Sabe, PixGrava, Em
<1>3. CASE Termina(r) /\ UNCHANGED banco
  BY <1>3, NadaSabe, UmSoLe DEF PixGrava, Termina, banco, Livre
<1>4. CASE /\ pag[g] = "INEXISTENTE"
           /\ pag' = [pag EXCEPT ![g] = StatusLocal(req[r].st)]
           /\ pedido' = [pedido EXCEPT ![p] = "AGUARDANDO_PAGAMENTO"]
           /\ Segue(r, Consultando(p))
           /\ UNCHANGED pixVencido
  <2> HIDE DEF p, g
  <2>0. UNCHANGED mp
    BY DEF PixGrava
  <2>1. /\ pag'[g] = StatusLocal(req[r].st) /\ \A h \in Pg : h # g => pag'[h] = pag[h]
        /\ pedido'[p] = "AGUARDANDO_PAGAMENTO" /\ \A o \in Pedido : o # p => pedido'[o] = pedido[o]
    BY <1>1, <1>4 DEF IInv, TypeOK
  <2>2. PixCresce
    BY <2>0, <2>1, StatusLocalTipo DEF PixCresce, StatusPagamento
  <2>3. NadaReabre
    BY <1>2, <2>1 DEF NadaReabre
  <2>4. ExpiradoSemPendente'
    BY <1>1, <1>4, <2>0, <2>1, <2>2, ExpiradosFicam
  <2>5. ASSUME req'[r] = Consultando(p) PROVE Sabe(req[r])'
    BY <2>5 DEF Sabe, Consultando, Livre
  <2> QED BY <1>4, <2>3, <2>4, <2>5, SabeUm DEF UmInv, Segue
<1> QED BY <1>3, <1>4 DEF PixGrava

\* The row of a card, of an order that can still be paid.
LEMMA CartaoGravaUm ==
  ASSUME UmDeCadaVez, IInv, UmInv, NEW r \in Req, CartaoGrava(r)
  PROVE  UmInv' /\ NadaReabre
<1> DEFINE p == req[r].pedido
           g == req[r].pg
           q == [req[r] EXCEPT !.pc = IF req[r].lido = "ABERTO" THEN "cartao_aguarda" ELSE "aplica"]
<1>1. p \in Pedido /\ g \in Pg /\ mp[g].pedido = p /\ req[r] \in Handler /\ req[r].st \in StatusMp
  BY DEF IInv, TypeOK, HandlersCoerentes, Coerente, CartaoGrava, Em
<1>2. /\ pedido[p] \in {"ABERTO", "AGUARDANDO_PAGAMENTO"}
      /\ req[r].st = "pending" => pag[g] \in {"PENDENTE", "INEXISTENTE"}
  BY DEF UmInv, Sabe, CartaoGrava, Em
<1>3. UNCHANGED <<pedido, mp, pixVencido>> /\ req' = [req EXCEPT ![r] = q]
  BY DEF CartaoGrava, Segue
<1>4. /\ pag'[g] = IF pag[g] = "INEXISTENTE" THEN StatusLocal(req[r].st) ELSE pag[g]
      /\ \A h \in Pg : h # g => pag'[h] = pag[h]
  BY <1>1 DEF CartaoGrava, IInv, TypeOK
<1>5. /\ q.pc \in {"cartao_aguarda", "aplica"} /\ q.pedido = p /\ q.pg = g /\ q.st = req[r].st
  BY <1>1 DEF Handler
<1> HIDE DEF p, g, q
<1>6. PixCresce
  BY <1>3, <1>4, StatusLocalTipo DEF PixCresce, StatusPagamento
<1>7. ExpiradoSemPendente'
  BY <1>1, <1>2, <1>3, <1>4, <1>6, ExpiradosFicam
<1>8. ASSUME req'[r] = q PROVE Sabe(req[r])'
  <2>1. q.st = "pending" => pag'[g] \in {"PENDENTE", "INEXISTENTE"}
    BY <1>2, <1>4, <1>5 DEF StatusLocal
  <2> QED BY <1>2, <1>3, <1>5, <1>8, <2>1 DEF Sabe
<1> QED BY <1>3, <1>7, <1>8, SabeUm DEF UmInv, NadaReabre

\* The status read before MP was called still holds.
LEMMA CartaoAguardaUm ==
  ASSUME UmDeCadaVez, IInv, UmInv, NEW r \in Req, CartaoAguarda(r)
  PROVE  UmInv' /\ NadaReabre
<1> DEFINE p == req[r].pedido
           q == [req[r] EXCEPT !.pc = "aplica"]
<1>1. p \in Pedido /\ req[r] \in Handler
  BY DEF IInv, TypeOK, HandlersCoerentes, Coerente, CartaoAguarda, Em
<1>2. /\ pedido[p] \in {"ABERTO", "AGUARDANDO_PAGAMENTO"}
      /\ req[r].st = "pending" => pag[req[r].pg] \in {"PENDENTE", "INEXISTENTE"}
  BY DEF UmInv, Sabe, CartaoAguarda, Em
<1>3. UNCHANGED <<pag, mp, pixVencido>> /\ req' = [req EXCEPT ![r] = q]
  BY DEF CartaoAguarda, Segue
<1>4. pedido'[p] = "AGUARDANDO_PAGAMENTO" /\ \A o \in Pedido : o # p => pedido'[o] = pedido[o]
  BY <1>1 DEF CartaoAguarda, IInv, TypeOK
<1>5. q.pc = "aplica" /\ q.pg = req[r].pg /\ q.st = req[r].st
  BY <1>1 DEF Handler
<1> HIDE DEF p, q
<1>6. PixCresce
  BY <1>3 DEF PixCresce
<1>7. ExpiradoSemPendente'
  BY <1>3, <1>4, <1>6, ExpiradosFicam
<1>8. ASSUME req'[r] = q PROVE Sabe(req[r])'
  BY <1>2, <1>3, <1>5, <1>8 DEF Sabe
<1> QED BY <1>2, <1>3, <1>4, <1>7, <1>8, SabeUm DEF UmInv, NadaReabre

\* MP is asked: what is pending there has a row that says so.
LEMMA PerguntaUm ==
  ASSUME UmDeCadaVez, IInv, PixInv, UmInv, NEW r \in Req, PerguntaAoMp(r)
  PROVE  UmInv' /\ NadaReabre
<1> DEFINE q == [req[r] EXCEPT !.pc = "aplica", !.st = mp[req[r].pg].status]
<1>1. req[r] \in Handler /\ req[r].pg \in Pg
  BY DEF IInv, TypeOK, HandlersCoerentes, Coerente, PerguntaAoMp
<1>2. q.pc = "aplica" /\ q.pg = req[r].pg /\ q.st = mp[req[r].pg].status
  BY <1>1 DEF Handler
<1>3. UNCHANGED <<pedido, pag, pixVencido, mp>> /\ req' = [req EXCEPT ![r] = q]
  BY DEF PerguntaAoMp, banco, Segue
<1> HIDE DEF q
<1>4. Sabe(q)
  BY <1>1, <1>2 DEF Sabe, PixInv, LinhaDecidida
<1> QED BY <1>3, <1>4, UmSoLe

\* aplicar writes PENDENTE where it was.
LEMMA AplicarUm ==
  ASSUME UmDeCadaVez, IInv, UmInv, NEW r \in Req, Aplicar(r)
  PROVE  UmInv' /\ NadaReabre
<1> DEFINE g == req[r].pg
           q == CASE StatusLocal(req[r].st) = "APROVADO"  -> [req[r] EXCEPT !.pc = "libera"]
                  [] StatusLocal(req[r].st) = "ESTORNADO" -> [req[r] EXCEPT !.pc = "estorna"]
                  [] OTHER -> Continua(req[r])
<1>1. g \in Pg /\ req[r] \in Handler /\ req[r].st \in StatusMp
  BY DEF IInv, TypeOK, HandlersCoerentes, Coerente, Aplicar, Em
<1>2. req[r].st = "pending" => pag[g] \in {"PENDENTE", "INEXISTENTE"}
  BY DEF UmInv, Sabe, Aplicar, Em
<1>3. UNCHANGED <<pedido, mp, pixVencido>> /\ req' = [req EXCEPT ![r] = q]
  BY DEF Aplicar, Segue
<1>4. /\ pag'[g] = IF pag[g] = "INEXISTENTE" THEN "INEXISTENTE" ELSE StatusLocal(req[r].st)
      /\ \A h \in Pg : h # g => pag'[h] = pag[h]
  BY <1>1 DEF Aplicar, IInv, TypeOK
<1>5. q.pc \in {"livre", "libera", "estorna", "consulta", "recarrega"}
  <2>1. [req[r] EXCEPT !.pc = "libera"].pc = "libera" /\ [req[r] EXCEPT !.pc = "estorna"].pc = "estorna"
    BY <1>1 DEF Handler
  <2> QED BY <1>1, <2>1, ContinuaUm
<1> HIDE DEF g, q
<1>6. PixCresce
  BY <1>3, <1>4, StatusLocalTipo DEF PixCresce, StatusPagamento
<1>7. pag'[g] = "PENDENTE" => pag[g] = "PENDENTE"
  BY <1>1, <1>2, <1>4, PendenteLocal
<1>8. ExpiradoSemPendente'
  BY <1>3, <1>4, <1>6, <1>7, ExpiradosFicam
<1>9. ASSUME req'[r] = q PROVE Sabe(req[r])'
  BY <1>5, <1>9 DEF Sabe
<1> QED BY <1>3, <1>8, <1>9, SabeUm DEF UmInv, NadaReabre

\* liberar and marcarEstornado sell and return.
LEMMA LiberarUm ==
  ASSUME UmDeCadaVez, IInv, UmInv, NEW r \in Req, Liberar(r)
  PROVE  UmInv' /\ NadaReabre
<1>1. Continua(req[r]).pc \in {"livre", "consulta", "recarrega"}
  BY ContinuaUm DEF IInv, TypeOK
<1>2. UNCHANGED <<pag, mp, pixVencido>> /\ req' = [req EXCEPT ![r] = Continua(req[r])]
  BY DEF Liberar, Segue
<1>3. \A o \in Pedido : pedido'[o] \in {pedido[o], "PAGO"}
  BY DEF Liberar, IInv, TypeOK
<1>4. PixCresce
  BY <1>2 DEF PixCresce
<1>5. ExpiradoSemPendente'
  BY <1>2, <1>3, <1>4, ExpiradosFicam
<1>6. ASSUME req'[r] = Continua(req[r]) PROVE Sabe(req[r])'
  BY <1>1, <1>6 DEF Sabe
<1> QED BY <1>2, <1>3, <1>5, <1>6, SabeUm DEF UmInv, NadaReabre

LEMMA MarcarEstornadoUm ==
  ASSUME UmDeCadaVez, IInv, UmInv, NEW r \in Req, MarcarEstornado(r)
  PROVE  UmInv' /\ NadaReabre
<1>1. Continua(req[r]).pc \in {"livre", "consulta", "recarrega"}
  BY ContinuaUm DEF IInv, TypeOK
<1>2. UNCHANGED <<mp, pixVencido>> /\ req' = [req EXCEPT ![r] = Continua(req[r])]
  BY DEF MarcarEstornado, Segue
<1>3. \A o \in Pedido : pedido'[o] \in {pedido[o], "ESTORNADO"}
  BY DEF MarcarEstornado, IInv, TypeOK
<1>4. \A g \in Pg : pag'[g] = pag[g] \/ (pag[g] = "APROVADO" /\ pag'[g] = "ESTORNADO")
  BY DEF MarcarEstornado, ComStatus, Pagamentos
<1>5. PixCresce
  BY <1>2, <1>4 DEF PixCresce
<1>6. ExpiradoSemPendente'
  BY <1>2, <1>3, <1>4, <1>5, ExpiradosFicam
<1>7. ASSUME req'[r] = Continua(req[r]) PROVE Sabe(req[r])'
  BY <1>1, <1>7 DEF Sabe
<1> QED BY <1>2, <1>3, <1>6, <1>7, SabeUm DEF UmInv, NadaReabre

\* A refund decides a payment that was decided.
LEMMA DevolverNoMpUm ==
  ASSUME UmDeCadaVez, IInv, UmInv, NEW r \in Req, DevolverNoMp(r)
  PROVE  UmInv' /\ NadaReabre
<1> DEFINE q == [req[r] EXCEPT !.pc = "estorna"]
<1>1. req[r] \in Handler /\ req[r].pg \in Pg
  BY DEF IInv, TypeOK, HandlersCoerentes, Coerente, DevolverNoMp, Em
<1>2. UNCHANGED <<pedido, pag, pixVencido>> /\ req' = [req EXCEPT ![r] = q]
  BY DEF DevolverNoMp, banco, Segue
<1>3. q.pc = "estorna"
  BY <1>1 DEF Handler
<1> HIDE DEF q
<1>4. PixCresce
  <2>1. CASE UNCHANGED mp
    BY <1>2, <2>1 DEF PixCresce
  <2>2. CASE mp' = [mp EXCEPT ![req[r].pg].status = "refunded"]
    BY <1>1, <1>2, <2>2 DEF PixCresce, IInv, TypeOK, SemPagamento
  <2> QED BY <2>1, <2>2 DEF DevolverNoMp
<1>5. ExpiradoSemPendente'
  BY <1>2, <1>4, ExpiradosFicam
<1>6. ASSUME req'[r] = q PROVE Sabe(req[r])'
  BY <1>3, <1>6 DEF Sabe
<1> QED BY <1>2, <1>5, <1>6, SabeUm DEF UmInv, NadaReabre

\* consultar, and the handlers that die; an error while MP is asked leaves the first read to decide.
LEMMA ConsultaUm ==
  ASSUME UmDeCadaVez, IInv, UmInv, NEW r \in Req,
         Reconsultar(r) \/ Consultar(r) \/ ErroNaReconsulta(r) \/ Recarregar(r) \/ Falhar(r)
  PROVE  UmInv' /\ NadaReabre
<1> DEFINE p == req[r].pedido
<1>0. UNCHANGED <<pedido, pag, pixVencido, mp>>
  BY DEF Reconsultar, Consultar, ErroNaReconsulta, Recarregar, Falhar, banco
<1>1. ASSUME NEW q, Segue(r, q), Sabe(q) PROVE UmInv' /\ NadaReabre
  BY <1>0, <1>1, UmSoLe DEF Segue
<1>2. Sabe(Livre)
  BY DEF Sabe, Livre
<1>3. ASSUME pedido[p] = "AGUARDANDO_PAGAMENTO", SoVencidos(p) PROVE Sabe(Expirando(p))
  BY <1>3 DEF Sabe, Expirando, Livre
<1>4. CASE Reconsultar(r)
  <2> DEFINE q(g) == [Livre EXCEPT !.pc = "consulta_mp", !.pedido = p, !.pg = g,
                        !.volta = "recarrega", !.expira = DeveExpirar(p)]
  <2>1. \A g : Sabe(q(g))
    BY DeveExpirarSabe DEF Sabe, Livre
  <2>2. \E g \in Pg : Segue(r, q(g))
    BY <1>4 DEF Reconsultar
  <2> HIDE DEF q
  <2> QED BY <1>1, <2>1, <2>2
<1>5. CASE Consultar(r) \/ Recarregar(r)
  <2>1. Sabe(IF DeveExpirar(p) THEN Expirando(p) ELSE Livre)
    BY <1>2, <1>3, DeveExpirarSabe
  <2> QED BY <1>1, <1>5, <2>1 DEF Consultar, Recarregar
<1>6. CASE ErroNaReconsulta(r)
  <2>1. req[r].expira => pedido[p] = "AGUARDANDO_PAGAMENTO" /\ SoVencidos(p)
    BY <1>6 DEF ErroNaReconsulta, UmDeCadaVez, UmInv, Sabe, Em
  <2>2. Sabe(IF req[r].expira THEN Expirando(p) ELSE Livre)
    BY <1>2, <1>3, <2>1
  <2> QED BY <1>1, <1>6, <2>2 DEF ErroNaReconsulta
<1>7. CASE Falhar(r)
  BY <1>1, <1>2, <1>7 DEF Falhar, Termina, Segue
<1> QED BY <1>4, <1>5, <1>6, <1>7

\* What consultar expires is what DeveExpirar saw.
LEMMA ExpirarUm ==
  ASSUME UmDeCadaVez, IInv, UmInv, NEW r \in Req, Expirar(r)
  PROVE  UmInv' /\ NadaReabre
<1> DEFINE p == req[r].pedido
<1>1. p \in Pedido /\ pedido[p] = "AGUARDANDO_PAGAMENTO" /\ SoVencidos(p)
  BY DEF IInv, HandlersCoerentes, Coerente, UmInv, Sabe, Expirar, Em
<1>2. UNCHANGED <<pag, mp, pixVencido>> /\ req' = [req EXCEPT ![r] = Livre]
  BY DEF Expirar, Termina
<1>3. pedido'[p] = "EXPIRADO" /\ \A o \in Pedido : o # p => pedido'[o] = pedido[o]
  BY <1>1 DEF Expirar, IInv, TypeOK
<1> HIDE DEF p
<1>4. PixCresce
  BY <1>2 DEF PixCresce
<1>5. ExpiradoSemPendente'
  BY <1>1, <1>2, <1>3, <1>4, ExpiradosFicam
<1>6. ASSUME req'[r] = Livre PROVE Sabe(req[r])'
  BY <1>6 DEF Sabe, Livre
<1> QED BY <1>1, <1>2, <1>3, <1>5, <1>6, SabeUm DEF UmInv, NadaReabre

\* MP and the clock make no payment pending.
LEMMA AmbienteUm ==
  ASSUME IInv, UmInv, UNCHANGED <<pedido, pag, req>>, pixVencido \subseteq pixVencido', PixCresce
  PROVE  UmInv' /\ NadaReabre
<1>1. ExpiradoSemPendente'
  BY ExpiradosFicam
<1>2. ASSUME NEW p, SoVencidos(p) PROVE SoVencidos(p)'
  BY <1>2, VencidosFicam
<1>3. ASSUME NEW r \in Req PROVE Sabe(req[r])'
  <2>1. Sabe(req[r])
    BY DEF UmInv
  <2>2. SoVencidos(req[r].pedido) => SoVencidos(req[r].pedido)'
    BY <1>2
  <2> QED BY <2>1, <2>2 DEF Sabe, SoVencidos, ComStatus, Pagamentos, EhPix
<1> QED BY <1>1, <1>3 DEF UmInv, NadaReabre

LEMMA NextUm ==
  ASSUME UmDeCadaVez, IInv, PixInv, UmInv, [Next]_vars
  PROVE  UmInv' /\ NadaReabre
<1>1. ASSUME NEW r \in Req, Iniciar(r) PROVE UmInv' /\ NadaReabre
  BY <1>1, IniciarUm
<1>2. ASSUME NEW r \in Req, Passo(r) PROVE UmInv' /\ NadaReabre
  BY <1>2, CriaNoMpUm, PixGravaUm, CartaoGravaUm, CartaoAguardaUm, PerguntaUm, AplicarUm, LiberarUm,
     MarcarEstornadoUm, DevolverNoMpUm, ConsultaUm, ExpirarUm DEF Passo
<1>3. ASSUME NEW r \in Req, ErroNaReconsulta(r) \/ Falhar(r) PROVE UmInv' /\ NadaReabre
  BY <1>3, ConsultaUm
<1>4. ASSUME NEW g \in Pg, MpDecide(g) PROVE UmInv' /\ NadaReabre
  <2>1. PICK st \in {"approved", "rejected", "cancelled", "refunded", "charged_back"} :
          mp' = [mp EXCEPT ![g].status = st] /\ mp[g].status \in {"pending", "approved"}
    BY <1>4 DEF MpDecide
  <2>2. mp[g] \in [pedido : Pedido, chave : Chave, status : StatusMp]
    BY <2>1, NenhumAssumption DEF IInv, TypeOK, SemPagamento, StatusMp
  <2>3. UNCHANGED <<pedido, pag, req, pixVencido>>
    BY <1>4 DEF MpDecide, banco
  <2>4. PixCresce
    BY <2>1, <2>2, <2>3 DEF PixCresce, IInv, TypeOK
  <2> QED BY <2>3, <2>4, AmbienteUm
<1>5. CASE UNCHANGED <<pedido, pag, req, mp>> /\ pixVencido \subseteq pixVencido'
  BY <1>5, AmbienteUm DEF PixCresce
<1> QED BY <1>1, <1>2, <1>3, <1>4, <1>5 DEF Next, Ambiente, VencerPix, VencerPedido, vars

LEMMA InitUm == ASSUME Init PROVE UmInv
<1>1. \A p \in Pedido : pedido[p] = "INEXISTENTE"
  BY DEF Init
<1>2. \A r \in Req : req[r].pc = "livre"
  BY DEF Init, Livre
<1> QED BY <1>1, <1>2 DEF UmInv, ExpiradoSemPendente, Sabe

\* With one handler at a time, cut short anywhere, an order expires only when no payment of it can
\* still be made: it shows no Pix that can be paid and waits for no card.
THEOREM ExpiradoNuncaPende == ASSUME UmDeCadaVez PROVE Spec => []ExpiradoSemPendente
<1>1. Init => IInv /\ PixInv /\ UmInv
  BY InitIInv, InitPix, InitUm
<1>2. IInv /\ PixInv /\ UmInv /\ [Next]_vars => (IInv /\ PixInv /\ UmInv)'
  BY NextIInv, NextPix, NextUm
<1>3. UmInv => ExpiradoSemPendente
  BY DEF UmInv
<1> QED BY <1>1, <1>2, <1>3, PTL DEF Spec

\* What stays sold or returned leaves nothing to reopen.
LEMMA LivroSemReabrir ==
  ASSUME IInv, IInv', NadaReabre, PassoDoLivro
  PROVE  [Livro!Next]_(Livro!livro)
<1> SUFFICES ASSUME NEW p \in Pedido, Livro!Reabrir(p) PROVE UNCHANGED Livro!livro
  BY DEF PassoDoLivro
<1>1. Situacoes' = [Situacoes EXCEPT ![p] = "nao_paga"]
  BY DEF Livro!Reabrir
<1>2. pedido[p] \notin {"PAGO", "ESTORNADO"}
  <2>1. Situacoes'[p] = "nao_paga"
    BY <1>1 DEF Situacoes
  <2>2. pedido'[p] \notin {"PAGO", "ESTORNADO"}
    BY <2>1 DEF Situacoes
  <2> QED BY <2>2 DEF NadaReabre
<1>3. Situacoes[p] = "nao_paga"
  BY <1>2 DEF Situacoes
<1>4. Situacoes' = Situacoes
  BY <1>1, <1>3 DEF Situacoes
<1> QED BY <1>4 DEF Livro!Reabrir, Livro!livro

\* With one handler at a time, whatever MP does and wherever handlers die, VendasService is the
\* order book with nothing added: no sale and no return is taken back by a stale write.
THEOREM ImplementaLivroUm == ASSUME UmDeCadaVez PROVE Spec => CumpreLivro
<1>1. Init => IInv /\ PixInv /\ UmInv /\ Livro!Init
  BY InitIInv, InitPix, InitUm, InitLivro
<1>2. IInv /\ PixInv /\ UmInv /\ [Next]_vars => (IInv /\ PixInv /\ UmInv)' /\ [Livro!Next]_(Livro!livro)
  <2> SUFFICES ASSUME IInv, PixInv, UmInv, [Next]_vars
               PROVE  (IInv /\ PixInv /\ UmInv)' /\ [Livro!Next]_(Livro!livro)
    OBVIOUS
  <2>1. IInv' /\ PixInv' /\ UmInv' /\ NadaReabre
    BY NextIInv, NextPix, NextUm
  <2>2. PassoDoLivro
    BY NextLivro
  <2> QED BY <2>1, <2>2, LivroSemReabrir
<1> QED BY <1>1, <1>2, PTL DEF Spec, CumpreLivro, Livro!Spec

-----------------------------------------------------------------------------
(* The notifications of MP.  One that says `approved' is about a payment MP *)
(* approved, and the delivery that processes it holds that payment until    *)
(* the order is released or the money is on its way back.                   *)

Pago(st) == st \in {"approved", "refunded", "charged_back"}

\* A Pix is approved only after its row exists; a PAGO order has its downloads.
LojaEntrega ==
  /\ \A g \in Pg : EhPix(g) /\ FoiAprovado(g) => pag[g] # "INEXISTENTE"
  /\ \A p \in Pedido : pedido[p] = "PAGO" => p \in downloads

\* What no step of the sale takes back.
LojaCresce == MpCresce /\ PixCresce /\ downloads \subseteq downloads'

\* Steps that leave MP and the downloads alone, delete no row and make no order PAGO.
LEMMA LojaParada ==
  ASSUME IInv, LojaEntrega, UNCHANGED <<mp, downloads>>,
         \A g \in Pg : pag[g] # "INEXISTENTE" => pag'[g] # "INEXISTENTE",
         \A p \in Pedido : pedido'[p] = "PAGO" => pedido[p] = "PAGO"
  PROVE  LojaCresce /\ LojaEntrega'
<1>1. MpCresce
  BY MpParado
<1>2. PixCresce
  BY DEF PixCresce
<1>3. LojaEntrega'
  BY DEF LojaEntrega, EhPix, FoiAprovado
<1> QED BY <1>1, <1>2, <1>3 DEF LojaCresce

\* criarPagamento: a Pix begins pending, and what begins otherwise is a card.
LEMMA LojaCria ==
  ASSUME IInv, PixInv, LojaEntrega, NEW p \in Pedido, NEW chave \in Chave, NEW g \in Pg,
         NEW iniciais, CriaNoMp(p, chave, g, iniciais), UNCHANGED <<pedido, pag, downloads>>,
         chave.metodo = "PIX" => iniciais = {"pending"}
  PROVE  LojaCresce /\ LojaEntrega'
<1>1. MpCresce
  BY CriaNoMpCresce
<1>2. /\ PixCresce /\ mp'[g].chave = chave
      /\ \A h \in Pg : h # g => mp'[h] = mp[h]
  BY CriaNoMpPix
<1>3. CASE UNCHANGED mp
  BY <1>3, LojaParada
<1>4. ASSUME NEW st \in iniciais, mp' = [mp EXCEPT ![g] = [pedido |-> p, chave |-> chave, status |-> st]]
      PROVE  LojaEntrega'
  <2>1. mp'[g].status = st
    BY <1>4 DEF IInv, TypeOK
  <2>2. EhPix(g)' => ~FoiAprovado(g)'
    BY <1>2, <2>1 DEF EhPix, FoiAprovado
  <2> QED BY <1>2, <2>2 DEF LojaEntrega, EhPix, FoiAprovado
<1> QED BY <1>1, <1>2, <1>3, <1>4 DEF CriaNoMp, LojaCresce

\* MP moves a payment along its life cycle.
LEMMA LojaMuda ==
  ASSUME IInv, LojaEntrega, NEW g \in Pg,
         NEW st \in {"approved", "rejected", "cancelled", "refunded", "charged_back"},
         mp[g].status \in {"pending", "approved"}, mp' = [mp EXCEPT ![g].status = st],
         mp[g].status = "approved" => st \in {"refunded", "charged_back"},
         mp[g].status = "pending" =>
            /\ st \notin {"refunded", "charged_back"}
            /\ st = "approved" /\ EhPix(g) => pag[g] # "INEXISTENTE",
         UNCHANGED <<pedido, pag, downloads>>
  PROVE  LojaCresce /\ LojaEntrega'
<1>1. mp[g] \in [pedido : Pedido, chave : Chave, status : StatusMp]
  BY NenhumAssumption DEF IInv, TypeOK, SemPagamento, StatusMp
<1>2. MpCresce
  BY <1>1, StatusCresce DEF StatusMp
<1>3. /\ mp'[g].status = st /\ mp'[g].pedido = mp[g].pedido /\ mp'[g].chave = mp[g].chave
      /\ \A h \in Pg : h # g => mp'[h] = mp[h]
  BY <1>1 DEF IInv, TypeOK
<1>4. PixCresce
  BY <1>3 DEF PixCresce
<1>5. EhPix(g)' /\ FoiAprovado(g)' => pag[g] # "INEXISTENTE"
  BY <1>3 DEF LojaEntrega, EhPix, FoiAprovado
<1>6. LojaEntrega'
  BY <1>3, <1>5 DEF LojaEntrega, EhPix, FoiAprovado
<1> QED BY <1>2, <1>4, <1>6 DEF LojaCresce

\* The steps of a handler.
LEMMA LojaPasso ==
  ASSUME IInv, PixInv, LojaEntrega, NEW r \in Req, Passo(r)
  PROVE  LojaCresce /\ LojaEntrega'
<1>0. req[r].pc # "livre" => req[r].pedido \in Pedido
  BY DEF IInv, HandlersCoerentes, Coerente
<1>1. ASSUME NEW g \in Pg, PixCriaNoMp(r, g) PROVE LojaCresce /\ LojaEntrega'
  <2>1. req[r].pedido \in Pedido /\ req[r].chave \in Chave
    BY <1>1 DEF IInv, HandlersCoerentes, PixCriaNoMp, Em, Coerente
  <2> QED BY <1>1, <2>1, LojaCria DEF PixCriaNoMp, banco
<1>2. ASSUME NEW g \in Pg, CartaoCriaNoMp(r, g) PROVE LojaCresce /\ LojaEntrega'
  <2>1. req[r].pedido \in Pedido /\ req[r].chave \in Chave /\ req[r].chave.metodo = "CARTAO"
    BY <1>2 DEF IInv, HandlersCoerentes, PixInv, ChaveCoerente, CartaoCriaNoMp, Em, Coerente
  <2> QED BY <1>2, <2>1, LojaCria DEF CartaoCriaNoMp, banco
<1>3. CASE PixGrava(r)
  <2>1. req[r].pedido \in Pedido /\ req[r].pg \in Pg
    BY <1>3 DEF IInv, HandlersCoerentes, PixGrava, Em, Coerente
  <2>2. \A g \in Pg : pag[g] # "INEXISTENTE" => pag'[g] # "INEXISTENTE"
    BY <1>3, <2>1 DEF PixGrava, banco, IInv, TypeOK
  <2>3. \A p \in Pedido : pedido'[p] = "PAGO" => pedido[p] = "PAGO"
    BY <1>3, <2>1 DEF PixGrava, banco, IInv, TypeOK
  <2>4. UNCHANGED <<mp, downloads>>
    BY <1>3 DEF PixGrava, banco
  <2> QED BY <2>2, <2>3, <2>4, LojaParada
<1>4. CASE CartaoGrava(r)
  <2>1. \A g \in Pg : pag[g] # "INEXISTENTE" => pag'[g] # "INEXISTENTE"
    BY <1>4 DEF CartaoGrava, IInv, TypeOK
  <2> QED BY <1>4, <2>1, LojaParada DEF CartaoGrava
<1>5. CASE CartaoAguarda(r) \/ Expirar(r)
  <2>1. \A p \in Pedido : pedido'[p] = "PAGO" => pedido[p] = "PAGO"
    BY <1>0, <1>5 DEF CartaoAguarda, Expirar, Em, IInv, TypeOK
  <2> QED BY <1>5, <2>1, LojaParada DEF CartaoAguarda, Expirar
<1>6. CASE PerguntaAoMp(r) \/ Reconsultar(r) \/ Consultar(r) \/ Recarregar(r)
  BY <1>6, LojaParada DEF PerguntaAoMp, Reconsultar, Consultar, Recarregar, banco
<1>7. CASE Aplicar(r)
  <2>1. \A g \in Pg : pag[g] # "INEXISTENTE" => pag'[g] # "INEXISTENTE"
    BY <1>7, StatusLocalTipo DEF Aplicar, IInv, TypeOK, StatusPagamento
  <2> QED BY <1>7, <2>1, LojaParada DEF Aplicar
<1>8. CASE Liberar(r)
  <2>1. req[r].pedido \in Pedido /\ UNCHANGED <<mp, pag>>
    BY <1>0, <1>8 DEF Liberar, Em
  <2>2. downloads \subseteq downloads' /\ \A p \in Pedido : pedido'[p] = "PAGO" => p \in downloads'
    BY <1>8, <2>1 DEF Liberar, LojaEntrega, IInv, TypeOK
  <2>3. MpCresce /\ PixCresce
    BY <2>1, MpParado DEF PixCresce
  <2>4. LojaEntrega'
    BY <2>1, <2>2 DEF LojaEntrega, EhPix, FoiAprovado
  <2> QED BY <2>2, <2>3, <2>4 DEF LojaCresce
<1>9. CASE MarcarEstornado(r)
  <2>1. \A g \in Pg : pag[g] # "INEXISTENTE" => pag'[g] # "INEXISTENTE"
    BY <1>9 DEF MarcarEstornado
  <2>2. \A p \in Pedido : pedido'[p] = "PAGO" => pedido[p] = "PAGO"
    BY <1>0, <1>9 DEF MarcarEstornado, Em, IInv, TypeOK
  <2> QED BY <1>9, <2>1, <2>2, LojaParada DEF MarcarEstornado
<1>10. CASE DevolverNoMp(r)
  <2>1. req[r].pg \in Pg
    BY <1>10 DEF IInv, HandlersCoerentes, DevolverNoMp, Em, Coerente
  <2>2. CASE UNCHANGED mp
    BY <1>10, <2>2, LojaParada DEF DevolverNoMp, banco
  <2>3. CASE mp[req[r].pg].status = "approved" /\ mp' = [mp EXCEPT ![req[r].pg].status = "refunded"]
    BY <1>10, <2>1, <2>3, LojaMuda DEF DevolverNoMp, banco
  <2> QED BY <1>10, <2>2, <2>3 DEF DevolverNoMp
<1> QED BY <1>1, <1>2, <1>3, <1>4, <1>5, <1>6, <1>7, <1>8, <1>9, <1>10 DEF Passo

\* So does every step of the sale.
LEMMA NextLoja ==
  ASSUME IInv, PixInv, LojaEntrega, [Next]_vars
  PROVE  LojaCresce /\ LojaEntrega'
<1>1. ASSUME NEW r \in Req, Iniciar(r) PROVE LojaCresce /\ LojaEntrega'
  <2>1. ASSUME NEW p \in Pedido, CriarPedido(r, p) PROVE LojaCresce /\ LojaEntrega'
    <3>1. \A o \in Pedido : pedido'[o] = "PAGO" => pedido[o] = "PAGO"
      BY <2>1 DEF CriarPedido, IInv, TypeOK
    <3> QED BY <2>1, <3>1, LojaParada DEF CriarPedido
  <2>2. CASE UNCHANGED <<banco, mp, reembolso>>
    BY <2>2, LojaParada DEF banco
  <2> QED BY <1>1, <2>1, <2>2
          DEF Iniciar, PagarPix, PagarCartao, Devolver, AbrirPedido, ReceberAviso
<1>2. ASSUME NEW r \in Req, Passo(r) PROVE LojaCresce /\ LojaEntrega'
  BY <1>2, LojaPasso
<1>3. ASSUME NEW r \in Req, ErroNaReconsulta(r) \/ Falhar(r) PROVE LojaCresce /\ LojaEntrega'
  BY <1>3, LojaParada DEF ErroNaReconsulta, Falhar, banco
<1>4. ASSUME NEW g \in Pg, MpDecide(g) PROVE LojaCresce /\ LojaEntrega'
  <2>1. PICK st \in {"approved", "rejected", "cancelled", "refunded", "charged_back"} :
          /\ mp' = [mp EXCEPT ![g].status = st]
          /\ \/ /\ mp[g].status = "pending" /\ st \notin {"refunded", "charged_back"}
                /\ st = "approved" /\ EhPix(g) => pag[g] # "INEXISTENTE"
             \/ mp[g].status = "approved" /\ st \in {"refunded", "charged_back"}
    BY <1>4 DEF MpDecide
  <2> QED BY <1>4, <2>1, LojaMuda DEF MpDecide, banco
<1>5. CASE UNCHANGED <<pedido, pag, downloads, mp>>
  BY <1>5, LojaParada
<1> QED BY <1>1, <1>2, <1>3, <1>4, <1>5 DEF Next, Ambiente, VencerPix, VencerPedido, vars

\* The sale has done what the approval of a payment asks.
Feito(g) == mp[g].status # "approved" \/ mp[g].pedido \in downloads

\* A delivery of g's approval in the hands of processarAviso.
Atende(q, g) ==
  /\ q.volta = "livre"
  /\ \/ q.pc = "livre" /\ Feito(g)
     \/ q.pc = "aviso_mp" /\ q.pg = g
     \/ q.pc = "aplica" /\ q.pg = g /\ Pago(q.st)
     \/ q.pc = "libera" /\ q.pg = g /\ q.pedido = mp[g].pedido
     \/ q.pc = "estorna" /\ Feito(g)

Verdadeiro(a) == a[2] = "approved" => FoiAprovado(a[1])

EntregaCerta(h) ==
  /\ entrega[h].fase # "livre" => entrega[h].aviso \in Aviso /\ Verdadeiro(entrega[h].aviso)
  /\ entrega[h].fase # "vendas" => req[h].pc = "livre"
  /\ \A g \in Pg : entrega[h].aviso = <<g, "approved">> =>
        /\ entrega[h].fase = "vendas" => Atende(req[h], g)
        /\ entrega[h].fase = "marca" => ~EhPix(g)

RegistroCerto ==
  \A g \in Pg : registro[<<g, "approved">>] = "processado" =>
     FoiAprovado(g) /\ (EhPix(g) => Feito(g))

WebInv ==
  /\ IInv
  /\ PixInv
  /\ LojaEntrega
  /\ avisos \subseteq Aviso /\ \A a \in avisos : Verdadeiro(a)
  /\ registro \in [Aviso -> {"ausente", "recebido", "processado"}]
  /\ entrega \in [Hook -> [fase : Fase, aviso : Aviso \cup {Nenhum}]]
  /\ \A h \in Hook : EntregaCerta(h)
  /\ RegistroCerto

\* Every step seen from the sale is a step of Vendas or none.
LEMMA WebPasso ==
  ASSUME WebInv, [NextWebhooks]_todas
  PROVE  [Next]_vars
<1> USE HookAssumption
<1>1. ASSUME NEW h \in Hook, Processar(h) PROVE [Next]_vars
  <2>1. entrega[h].aviso[1] \in Pg
    BY <1>1 DEF WebInv, EntregaCerta, Processar, NaFase, Aviso
  <2>2. (\E g \in Pg : ReceberAviso(h, g)) \/ UNCHANGED vars
    BY <1>1, <2>1 DEF Processar
  <2> QED BY <2>2 DEF Next, Iniciar
<1>2. ASSUME NEW h \in Hook, FalharEntrega(h) PROVE [Next]_vars
  <2>1. Falhar(h) \/ UNCHANGED vars
    BY <1>2 DEF FalharEntrega
  <2> QED BY <2>1 DEF Next
<1>3. ASSUME NEW r \in Req, IniciarVendas(r) PROVE [Next]_vars
  BY <1>3 DEF IniciarVendas, Next, Iniciar
<1>4. ASSUME NEW r \in Req, PassoVendas(r) \/ MpRecusa(r) \/ FalharVendas(r) PROVE [Next]_vars
  <2>1. Passo(r) \/ Falhar(r) \/ ErroNaReconsulta(r)
    BY <1>4 DEF PassoVendas, MpRecusa, FalharVendas
  <2> QED BY <2>1 DEF Next
<1>5. CASE AmbienteVendas
  BY <1>5 DEF AmbienteVendas, Next
<1>6. ASSUME NEW h \in Hook, NEW a \in Aviso, Entregar(h, a) PROVE [Next]_vars
  BY <1>6 DEF Entregar
<1>7. ASSUME NEW h \in Hook, Criar(h) \/ Marcar(h) PROVE [Next]_vars
  BY <1>7 DEF Criar, Marcar
<1>8. CASE UNCHANGED todas
  BY <1>8 DEF todas
<1> QED BY <1>1, <1>2, <1>3, <1>4, <1>5, <1>6, <1>7, <1>8 DEF NextWebhooks, Servir

\* An approval stays one, and what it asked stays done.
LEMMA FeitoFica ==
  ASSUME IInv, LojaCresce, NEW g \in Pg, FoiAprovado(g)
  PROVE  /\ FoiAprovado(g)' /\ mp'[g].pedido = mp[g].pedido /\ mp[g].pedido \in Pedido
         /\ EhPix(g)' <=> EhPix(g)
         /\ Feito(g) => Feito(g)'
<1>1. mp[g].pedido \in Pedido
  BY NenhumAssumption DEF FoiAprovado, IInv, TypeOK, SemPagamento, StatusMp
<1>2. /\ FoiAprovado(g)' /\ mp'[g].pedido = mp[g].pedido /\ mp'[g].chave = mp[g].chave
      /\ Devolvido(g) => Devolvido(g)'
  BY <1>1 DEF LojaCresce, MpCresce, PixCresce
<1>3. Feito(g) => Feito(g)'
  BY <1>2 DEF Feito, FoiAprovado, Devolvido, LojaCresce
<1> QED BY <1>1, <1>2, <1>3 DEF EhPix

\* What MP knows to be approved is: the notifications it sends and those it has sent.
LEMMA AvisosFicam ==
  ASSUME WebInv, LojaCresce, IInv', MpAvisa \/ avisos' \subseteq avisos
  PROVE  avisos' \subseteq Aviso /\ \A a \in avisos' : Verdadeiro(a)'
<1> SUFFICES ASSUME NEW a \in avisos' PROVE a \in Aviso /\ Verdadeiro(a)'
  OBVIOUS
<1>1. CASE a \in avisos
  <2>1. a \in Aviso /\ Verdadeiro(a) /\ a[1] \in Pg
    BY <1>1 DEF WebInv, Aviso
  <2> QED BY <2>1 DEF Verdadeiro, LojaCresce, MpCresce
<1>2. ASSUME NEW g \in Pg, mp'[g] # mp[g], a = <<g, mp'[g].status>>
      PROVE  a \in Aviso /\ Verdadeiro(a)'
  <2>1. mp[g] # SemPagamento => mp'[g].pedido \in Pedido
    BY DEF WebInv, IInv, TypeOK, LojaCresce, MpCresce
  <2>2. mp'[g] # SemPagamento
    BY <1>2, <2>1, NenhumAssumption DEF SemPagamento
  <2>3. mp'[g].status \in StatusMp
    BY <2>2 DEF IInv, TypeOK, SemPagamento
  <2> QED BY <1>2, <2>3 DEF Aviso, Verdadeiro, FoiAprovado
<1> QED BY <1>1, <1>2 DEF MpAvisa

\* A delivery that does not move, and whose handler does not, is as it was.
LEMMA EntregaFica ==
  ASSUME WebInv, LojaCresce, NEW h \in Hook, entrega'[h] = entrega[h], req'[h] = req[h]
  PROVE  EntregaCerta(h)'
<1>1. EntregaCerta(h)
  BY DEF WebInv
<1>2. ASSUME entrega[h].fase # "livre"
      PROVE  entrega[h].aviso \in Aviso /\ Verdadeiro(entrega[h].aviso)'
  <2>1. PICK a \in Aviso : a = entrega[h].aviso /\ Verdadeiro(a)
    BY <1>1, <1>2 DEF EntregaCerta
  <2>2. a[1] \in Pg
    BY DEF Aviso
  <2>3. FoiAprovado(a[1]) => FoiAprovado(a[1])'
    BY <2>2 DEF LojaCresce, MpCresce
  <2>4. Verdadeiro(a)'
    BY <2>1, <2>3 DEF Verdadeiro
  <2>5. a = entrega'[h].aviso
    BY <2>1
  <2> QED BY <2>1, <2>4, <2>5 DEF Verdadeiro, FoiAprovado
<1>3. ASSUME NEW g \in Pg, entrega[h].aviso = <<g, "approved">>,
             entrega[h].fase \in {"vendas", "marca"}
      PROVE  /\ entrega[h].fase = "vendas" => Atende(req[h], g)'
             /\ entrega[h].fase = "marca" => ~EhPix(g)'
  <2>1. FoiAprovado(g)
    BY <1>1, <1>3 DEF EntregaCerta, Verdadeiro
  <2>2. /\ mp'[g].pedido = mp[g].pedido /\ (EhPix(g)' <=> EhPix(g)) /\ (Feito(g) => Feito(g)')
    BY <2>1, FeitoFica DEF WebInv
  <2> QED BY <1>1, <1>3, <2>2 DEF EntregaCerta, Atende
<1> QED BY <1>1, <1>2, <1>3 DEF EntregaCerta, Verdadeiro, FoiAprovado

\* What is registered as processed stays done.
LEMMA RegistroFica ==
  ASSUME WebInv, LojaCresce, UNCHANGED registro
  PROVE  RegistroCerto'
  BY FeitoFica DEF WebInv, RegistroCerto

\* A step of one slot keeps the invariant if it keeps what that slot delivers.
LEMMA WebUm ==
  ASSUME WebInv, LojaCresce, IInv', PixInv', LojaEntrega', RegistroCerto',
         MpAvisa \/ avisos' \subseteq avisos,
         registro' \in [Aviso -> {"ausente", "recebido", "processado"}],
         entrega' \in [Hook -> [fase : Fase, aviso : Aviso \cup {Nenhum}]],
         NEW r \in Req, \A s \in Req : s # r => req'[s] = req[s],
         \A h \in Hook : h # r => entrega'[h] = entrega[h],
         r \in Hook => EntregaCerta(r)'
  PROVE  WebInv'
<1>1. ASSUME NEW h \in Hook PROVE EntregaCerta(h)'
  <2>1. CASE h = r
    BY <2>1
  <2>2. CASE h # r
    BY <2>2, EntregaFica, HookAssumption
  <2> QED BY <2>1, <2>2
<1>2. avisos' \subseteq Aviso /\ \A a \in avisos' : Verdadeiro(a)'
  BY AvisosFicam
<1> QED BY <1>1, <1>2 DEF WebInv

\* A step of the sale moves one handler.
LEMMA SoUm ==
  ASSUME IInv, NEW r \in Req, Iniciar(r) \/ Passo(r) \/ Falhar(r) \/ ErroNaReconsulta(r)
  PROVE  \A s \in Req : s # r => req'[s] = req[s]
<1> SUFFICES ASSUME NEW s \in Req, s # r PROVE req'[s] = req[s]
  OBVIOUS
<1> USE DEF IInv, TypeOK
<1>1. ASSUME NEW q, req' = [req EXCEPT ![r] = q] PROVE req'[s] = req[s]
  BY <1>1
<1>2. CASE Iniciar(r)
  BY <1>2 DEF Iniciar, CriarPedido, PagarPix, PagarCartao, Devolver, AbrirPedido, ReceberAviso, Segue
<1>3. CASE Passo(r)
  BY <1>3 DEF Passo, PixCriaNoMp, CartaoCriaNoMp, PixGrava, CartaoGrava, CartaoAguarda,
              PerguntaAoMp, Aplicar, Liberar, MarcarEstornado, DevolverNoMp, Reconsultar,
              Consultar, Recarregar, Expirar, Segue, Termina
<1>4. CASE Falhar(r) \/ ErroNaReconsulta(r)
  BY <1>4 DEF Falhar, ErroNaReconsulta, Segue, Termina
<1> QED BY <1>2, <1>3, <1>4

\* processarAviso of an approval: it asks MP, applies the answer and releases the order.
LEMMA AtendePasso ==
  ASSUME IInv, LojaEntrega, LojaCresce, NEW h \in Req, NEW g \in Pg, FoiAprovado(g),
         Atende(req[h], g), Passo(h)
  PROVE  Atende(req[h], g)'
<1>0. /\ req[h] \in Handler /\ Coerente(req[h])
      /\ mp'[g].pedido = mp[g].pedido /\ mp[g].pedido \in Pedido /\ (Feito(g) => Feito(g)')
  BY FeitoFica DEF IInv, TypeOK, HandlersCoerentes
<1>1. CASE req[h].pc = "livre"
  BY <1>1 DEF Passo, PixCriaNoMp, CartaoCriaNoMp, PixGrava, CartaoGrava, CartaoAguarda,
              PerguntaAoMp, Aplicar, Liberar, MarcarEstornado, DevolverNoMp, Reconsultar,
              Consultar, Recarregar, Expirar, Em
<1>2. CASE req[h].pc = "aviso_mp" /\ req[h].pg = g
  <2>1. PerguntaAoMp(h)
    BY <1>2 DEF Passo, PixCriaNoMp, CartaoCriaNoMp, PixGrava, CartaoGrava, CartaoAguarda,
                Aplicar, Liberar, MarcarEstornado, DevolverNoMp, Reconsultar,
                Consultar, Recarregar, Expirar, Em
  <2>2. req' = [req EXCEPT ![h] = [req[h] EXCEPT !.pc = "aplica", !.st = mp[req[h].pg].status]]
    BY <2>1 DEF PerguntaAoMp, Segue
  <2>3. req'[h].pc = "aplica" /\ req'[h].pg = g /\ req'[h].st = mp[g].status /\ req'[h].volta = req[h].volta
    BY <1>0, <1>2, <2>2 DEF IInv, TypeOK, Handler
  <2> QED BY <2>3 DEF Atende, Pago, FoiAprovado
<1>3. CASE req[h].pc = "aplica" /\ req[h].pg = g /\ Pago(req[h].st)
  <2>1. Aplicar(h)
    BY <1>3 DEF Passo, PixCriaNoMp, CartaoCriaNoMp, PixGrava, CartaoGrava, CartaoAguarda,
                PerguntaAoMp, Liberar, MarcarEstornado, DevolverNoMp, Reconsultar,
                Consultar, Recarregar, Expirar, Em
  <2>2. CASE req[h].st = "approved"
    <3>1. req' = [req EXCEPT ![h] = [req[h] EXCEPT !.pc = "libera"]]
      BY <2>1, <2>2 DEF Aplicar, Segue, StatusLocal
    <3>2. /\ req'[h].pc = "libera" /\ req'[h].pg = g /\ req'[h].pedido = req[h].pedido
          /\ req'[h].volta = req[h].volta
      BY <1>0, <1>3, <3>1 DEF IInv, TypeOK, Handler
    <3>3. mp[g].pedido = req[h].pedido
      BY <1>0, <1>3 DEF Coerente
    <3> QED BY <1>0, <3>2, <3>3 DEF Atende
  <2>3. CASE req[h].st \in {"refunded", "charged_back"}
    <3>1. req' = [req EXCEPT ![h] = [req[h] EXCEPT !.pc = "estorna"]]
      BY <2>1, <2>3 DEF Aplicar, Segue, StatusLocal
    <3>2. req'[h].pc = "estorna" /\ req'[h].volta = req[h].volta
      BY <1>0, <1>3, <3>1 DEF IInv, TypeOK, Handler
    <3>3. Feito(g)
      BY <1>0, <1>3, <2>3 DEF Coerente, Devolvido, Feito
    <3> QED BY <1>0, <3>2, <3>3 DEF Atende, Feito
  <2> QED BY <1>3, <2>2, <2>3 DEF Pago
<1>4. CASE req[h].pc = "libera" /\ req[h].pg = g /\ req[h].pedido = mp[g].pedido
  <2>1. Liberar(h)
    BY <1>4 DEF Passo, PixCriaNoMp, CartaoCriaNoMp, PixGrava, CartaoGrava, CartaoAguarda,
                PerguntaAoMp, Aplicar, MarcarEstornado, DevolverNoMp, Reconsultar,
                Consultar, Recarregar, Expirar, Em
  <2>2. Confere(req[h])
    BY <1>4 DEF Confere
  <2>3. req[h].pedido \in downloads'
    BY <1>0, <1>4, <2>1, <2>2 DEF Liberar, LojaEntrega
  <2>4. req' = [req EXCEPT ![h] = Livre]
    BY <2>1 DEF Liberar, Segue, Continua, Atende
  <2>5. req'[h].pc = "livre" /\ req'[h].volta = "livre"
    BY <2>4 DEF IInv, TypeOK, Livre
  <2> QED BY <1>0, <1>4, <2>3, <2>5 DEF Atende, Feito
<1>5. CASE req[h].pc = "estorna" /\ Feito(g)
  <2>1. MarcarEstornado(h)
    BY <1>5 DEF Passo, PixCriaNoMp, CartaoCriaNoMp, PixGrava, CartaoGrava, CartaoAguarda,
                PerguntaAoMp, Aplicar, Liberar, DevolverNoMp, Reconsultar,
                Consultar, Recarregar, Expirar, Em
  <2>2. req' = [req EXCEPT ![h] = Livre]
    BY <2>1 DEF MarcarEstornado, Segue, Continua, Atende
  <2>3. req'[h].pc = "livre" /\ req'[h].volta = "livre"
    BY <2>2 DEF IInv, TypeOK, Livre
  <2> QED BY <1>0, <1>5, <2>3 DEF Atende, Feito
<1> QED BY <1>1, <1>2, <1>3, <1>4, <1>5 DEF Atende

\* MP's step of a delivery: the notification it takes up is true, and its handler idle.
LEMMA EntregarWeb ==
  ASSUME WebInv, LojaCresce, NEW h \in Hook, NEW a \in Aviso, Entregar(h, a)
  PROVE  WebInv'
<1>1. IInv' /\ PixInv' /\ LojaEntrega'
  BY NextIInv, NextPix, NextLoja DEF WebInv, Entregar
<1>2. UNCHANGED <<vars, registro>> /\ avisos' \subseteq avisos /\ h \in Req
  BY HookAssumption DEF Entregar
<1>3. entrega[h].fase = "livre" /\ req[h].pc = "livre" /\ Verdadeiro(a)
  BY DEF Entregar, NaFase, WebInv, EntregaCerta
<1>4. Verdadeiro(a)'
  BY <1>2, <1>3 DEF vars, Verdadeiro, FoiAprovado
<1>5. /\ entrega' \in [Hook -> [fase : Fase, aviso : Aviso \cup {Nenhum}]]
      /\ \A k \in Hook : k # h => entrega'[k] = entrega[k]
      /\ \/ entrega'[h] = entrega[h]
         \/ entrega'[h].fase \in {"cria", "processa"} /\ entrega'[h].aviso = a
  BY DEF Entregar, WebInv, Fase
<1>6. EntregaCerta(h)'
  <2>1. CASE entrega'[h] = entrega[h]
    BY <1>2, <2>1, EntregaFica DEF vars
  <2>2. CASE entrega'[h].fase \in {"cria", "processa"} /\ entrega'[h].aviso = a
    BY <1>2, <1>3, <1>4, <2>2 DEF EntregaCerta, vars, Verdadeiro, FoiAprovado
  <2> QED BY <1>5, <2>1, <2>2
<1>7. RegistroCerto'
  BY <1>2, RegistroFica
<1> QED BY <1>1, <1>2, <1>5, <1>6, <1>7, WebUm DEF vars, WebInv

\* A delivery that ends, at the answer or at a failure, leaves its slot free.
LEMMA EntregaLivre ==
  ASSUME WebInv, NEW h \in Hook, Encerra(h), req'[h].pc = "livre"
  PROVE  /\ EntregaCerta(h)'
         /\ entrega' \in [Hook -> [fase : Fase, aviso : Aviso \cup {Nenhum}]]
         /\ \A k \in Hook : k # h => entrega'[k] = entrega[k]
<1>1. entrega'[h].fase = "livre"
  BY DEF Encerra, SemEntrega, WebInv
<1>2. EntregaCerta(h)'
  BY <1>1 DEF EntregaCerta
<1>3. SemEntrega \in [fase : Fase, aviso : Aviso \cup {Nenhum}]
  BY DEF SemEntrega, Fase
<1> QED BY <1>2, <1>3 DEF Encerra, WebInv

\* The row of a notification: created once, or the delivery answered as repeated.
LEMMA CriarWeb ==
  ASSUME WebInv, LojaCresce, NEW h \in Hook, Criar(h)
  PROVE  WebInv'
<1>1. IInv' /\ PixInv' /\ LojaEntrega'
  BY NextIInv, NextPix, NextLoja DEF WebInv, Criar
<1>2. UNCHANGED vars /\ avisos' \subseteq avisos /\ h \in Req
  BY HookAssumption DEF Criar, Responde200
<1>3. PICK a \in Aviso : a = entrega[h].aviso /\ Verdadeiro(a)
  BY DEF Criar, NaFase, WebInv, EntregaCerta
<1>4. req[h].pc = "livre"
  BY DEF Criar, NaFase, WebInv, EntregaCerta
<1>5. CASE registro' = [registro EXCEPT ![a] = "recebido"] /\ Passa(h, "processa")
  <2>1. /\ entrega' \in [Hook -> [fase : Fase, aviso : Aviso \cup {Nenhum}]]
        /\ \A k \in Hook : k # h => entrega'[k] = entrega[k]
        /\ entrega'[h].fase = "processa" /\ entrega'[h].aviso = a
    BY <1>3, <1>5 DEF Passa, WebInv, Fase
  <2>2. Verdadeiro(a)'
    BY <1>2, <1>3 DEF vars, Verdadeiro, FoiAprovado
  <2>3. EntregaCerta(h)'
    BY <1>2, <1>4, <2>1, <2>2 DEF EntregaCerta, vars, Verdadeiro, FoiAprovado
  <2>4. registro' \in [Aviso -> {"ausente", "recebido", "processado"}]
    BY <1>5 DEF WebInv
  <2>5. \A g \in Pg : registro'[<<g, "approved">>] = "processado"
                        => registro[<<g, "approved">>] = "processado"
    BY <1>5 DEF WebInv, Aviso, StatusMp
  <2>6. RegistroCerto'
    BY <1>2, <2>5 DEF WebInv, RegistroCerto, vars, FoiAprovado, EhPix, Feito
  <2> QED BY <1>1, <1>2, <2>1, <2>3, <2>4, <2>6, WebUm DEF vars
<1>6. CASE Encerra(h) /\ UNCHANGED registro
  <2>1. /\ EntregaCerta(h)'
        /\ entrega' \in [Hook -> [fase : Fase, aviso : Aviso \cup {Nenhum}]]
        /\ \A k \in Hook : k # h => entrega'[k] = entrega[k]
    BY <1>2, <1>4, <1>6, EntregaLivre DEF vars
  <2>2. RegistroCerto'
    BY <1>6, RegistroFica
  <2> QED BY <1>1, <1>2, <1>6, <2>1, <2>2, WebUm DEF vars, WebInv
<1> QED BY <1>3, <1>5, <1>6 DEF Criar, Responde200

\* processar: an approved Pix has its row, so processarAviso takes it up.
LEMMA ProcessarWeb ==
  ASSUME WebInv, LojaCresce, [Next]_vars, NEW h \in Hook, Processar(h)
  PROVE  WebInv'
<1>1. IInv' /\ PixInv' /\ LojaEntrega'
  BY NextIInv, NextPix, NextLoja DEF WebInv
<1>2. PICK a \in Aviso : a = entrega[h].aviso /\ Verdadeiro(a) /\ a[1] \in Pg
  BY DEF Processar, NaFase, WebInv, EntregaCerta, Aviso
<1>3. req[h].pc = "livre" /\ h \in Req /\ UNCHANGED <<avisos, registro, mp>>
  BY HookAssumption DEF Processar, NaFase, WebInv, EntregaCerta, ReceberAviso, vars
<1>4. RegistroCerto'
  BY <1>3, RegistroFica
<1>5. Verdadeiro(a)'
  BY <1>2, <1>3 DEF Verdadeiro, FoiAprovado
<1>6. CASE ReceberAviso(h, a[1]) /\ Passa(h, "vendas")
  <2>1. /\ entrega' \in [Hook -> [fase : Fase, aviso : Aviso \cup {Nenhum}]]
        /\ \A k \in Hook : k # h => entrega'[k] = entrega[k]
        /\ entrega'[h].fase = "vendas" /\ entrega'[h].aviso = a
    BY <1>2, <1>6 DEF Passa, WebInv, Fase
  <2> DEFINE q == [Livre EXCEPT !.pc = "aviso_mp", !.pedido = mp[a[1]].pedido, !.pg = a[1]]
  <2>2. q.pc = "aviso_mp" /\ q.pg = a[1] /\ q.volta = "livre"
    BY DEF Livre
  <2>3. req' = [req EXCEPT ![h] = q]
    BY <1>6 DEF ReceberAviso, Segue
  <2> HIDE DEF q
  <2>4. /\ req'[h].pc = "aviso_mp" /\ req'[h].pg = a[1] /\ req'[h].volta = "livre"
        /\ \A s \in Req : s # h => req'[s] = req[s]
    BY <1>3, <2>2, <2>3, SegueUm DEF WebInv
  <2>5. EntregaCerta(h)'
    BY <1>5, <2>1, <2>4 DEF EntregaCerta, Atende, Verdadeiro, FoiAprovado
  <2> QED BY <1>1, <1>3, <1>4, <2>1, <2>4, <2>5, WebUm DEF WebInv
<1>7. CASE pag[a[1]] = "INEXISTENTE" /\ Passa(h, "marca") /\ UNCHANGED vars
  <2>1. /\ entrega' \in [Hook -> [fase : Fase, aviso : Aviso \cup {Nenhum}]]
        /\ \A k \in Hook : k # h => entrega'[k] = entrega[k]
        /\ entrega'[h].fase = "marca" /\ entrega'[h].aviso = a
    BY <1>2, <1>7 DEF Passa, WebInv, Fase
  <2>2. a[2] = "approved" => ~EhPix(a[1])
    BY <1>2, <1>7 DEF Verdadeiro, WebInv, LojaEntrega
  <2>3. EntregaCerta(h)'
    BY <1>3, <1>5, <1>7, <2>1, <2>2 DEF EntregaCerta, vars, Verdadeiro, FoiAprovado, EhPix
  <2> QED BY <1>1, <1>3, <1>4, <1>7, <2>1, <2>3, WebUm DEF WebInv, vars
<1> QED BY <1>2, <1>6, <1>7 DEF Processar

\* processadoEm: the delivery of an approved Pix comes here only when the sale has done it.
LEMMA MarcarWeb ==
  ASSUME WebInv, LojaCresce, NEW h \in Hook, Marcar(h)
  PROVE  WebInv'
<1>1. IInv' /\ PixInv' /\ LojaEntrega'
  BY NextIInv, NextPix, NextLoja DEF WebInv, Marcar
<1>2. UNCHANGED vars /\ avisos' \subseteq avisos /\ h \in Req /\ Encerra(h)
  BY HookAssumption DEF Marcar, Responde200
<1>3. PICK a \in Aviso : a = entrega[h].aviso /\ Verdadeiro(a)
  BY DEF Marcar, NaFase, WebInv, EntregaCerta
<1>4. req[h].pc = "livre"
  BY DEF Marcar, NaFase, Em, WebInv, EntregaCerta
<1>5. registro' = [registro EXCEPT ![a] = "processado"]
  BY <1>3 DEF Marcar
<1>6. ASSUME NEW g \in Pg, a = <<g, "approved">> PROVE FoiAprovado(g) /\ (EhPix(g) => Feito(g))
  <2>1. FoiAprovado(g)
    BY <1>3, <1>6 DEF Verdadeiro
  <2>2. CASE NaFase(h, "marca")
    BY <1>3, <1>6, <2>1, <2>2 DEF NaFase, WebInv, EntregaCerta
  <2>3. CASE NaFase(h, "vendas")
    <3>1. Atende(req[h], g)
      BY <1>3, <1>6, <2>3 DEF NaFase, WebInv, EntregaCerta
    <3> QED BY <1>4, <2>1, <3>1 DEF Atende
  <2> QED BY <2>2, <2>3 DEF Marcar
<1>7. ASSUME NEW g \in Pg, registro'[<<g, "approved">>] = "processado"
      PROVE  FoiAprovado(g) /\ (EhPix(g) => Feito(g))
  <2>1. CASE a = <<g, "approved">>
    BY <1>6, <2>1
  <2>2. CASE a # <<g, "approved">>
    <3>1. <<g, "approved">> \in Aviso
      BY DEF Aviso, StatusMp
    <3>2. registro[<<g, "approved">>] = "processado"
      BY <1>5, <1>7, <2>2, <3>1 DEF WebInv
    <3> QED BY <3>2 DEF WebInv, RegistroCerto
  <2> QED BY <2>1, <2>2
<1>8. RegistroCerto'
  BY <1>2, <1>7 DEF RegistroCerto, vars, FoiAprovado, EhPix, Feito
<1>9. /\ EntregaCerta(h)'
      /\ entrega' \in [Hook -> [fase : Fase, aviso : Aviso \cup {Nenhum}]]
      /\ \A k \in Hook : k # h => entrega'[k] = entrega[k]
  BY <1>2, <1>4, EntregaLivre DEF vars
<1>10. registro' \in [Aviso -> {"ausente", "recebido", "processado"}]
  BY <1>5 DEF WebInv
<1> QED BY <1>1, <1>2, <1>8, <1>9, <1>10, WebUm DEF vars

\* A delivery that fails: its handler is gone and the notification stays unanswered.
LEMMA FalharEntregaWeb ==
  ASSUME WebInv, LojaCresce, [Next]_vars, NEW h \in Hook, FalharEntrega(h)
  PROVE  WebInv'
<1>1. IInv' /\ PixInv' /\ LojaEntrega'
  BY NextIInv, NextPix, NextLoja DEF WebInv
<1>2. UNCHANGED <<avisos, registro>> /\ h \in Req /\ Encerra(h)
  BY HookAssumption DEF FalharEntrega
<1>3. req'[h].pc = "livre" /\ \A s \in Req : s # h => req'[s] = req[s]
  <2>1. CASE Em(h, "livre") /\ UNCHANGED vars
    BY <2>1 DEF Em, vars
  <2>2. CASE Falhar(h)
    <3>1. req' = [req EXCEPT ![h] = Livre]
      BY <2>2 DEF Falhar, Termina
    <3>2. req'[h] = Livre /\ \A s \in Req : s # h => req'[s] = req[s]
      BY <1>2, <3>1, SegueUm DEF WebInv
    <3>3. Livre.pc = "livre"
      BY DEF Livre
    <3> QED BY <3>2, <3>3
  <2> QED BY <2>1, <2>2 DEF FalharEntrega
<1>4. /\ EntregaCerta(h)'
      /\ entrega' \in [Hook -> [fase : Fase, aviso : Aviso \cup {Nenhum}]]
      /\ \A k \in Hook : k # h => entrega'[k] = entrega[k]
  BY <1>2, <1>3, EntregaLivre
<1>5. RegistroCerto'
  BY <1>2, RegistroFica
<1> QED BY <1>1, <1>2, <1>3, <1>4, <1>5, WebUm DEF WebInv

\* The steps of the sale that are not deliveries' own.
LEMMA VendasWeb ==
  ASSUME WebInv, LojaCresce, [Next]_vars, UNCHANGED <<registro, entrega>>,
         MpAvisa \/ UNCHANGED avisos, NEW r \in Req,
         \A s \in Req : s # r => req'[s] = req[s], r \in Hook => EntregaCerta(r)'
  PROVE  WebInv'
<1>1. IInv' /\ PixInv' /\ LojaEntrega'
  BY NextIInv, NextPix, NextLoja DEF WebInv
<1>2. RegistroCerto'
  BY RegistroFica
<1> QED BY <1>1, <1>2, WebUm DEF WebInv

\* A delivery stays right when its handler makes a step of the sale.
LEMMA PassoEntrega ==
  ASSUME WebInv, LojaCresce, NEW h \in Hook, Passo(h), UNCHANGED entrega
  PROVE  EntregaCerta(h)'
<1>0. h \in Req /\ EntregaCerta(h)
  BY HookAssumption DEF WebInv
<1>1. req[h].pc # "livre"
  BY DEF Passo, PixCriaNoMp, CartaoCriaNoMp, PixGrava, CartaoGrava, CartaoAguarda,
         PerguntaAoMp, Aplicar, Liberar, MarcarEstornado, DevolverNoMp, Reconsultar,
         Consultar, Recarregar, Expirar, Em
<1>2. entrega[h].fase = "vendas"
  BY <1>0, <1>1 DEF EntregaCerta
<1>3. PICK a \in Aviso : a = entrega[h].aviso /\ Verdadeiro(a) /\ a[1] \in Pg
  BY <1>0, <1>2 DEF EntregaCerta, Aviso
<1>4. FoiAprovado(a[1]) => FoiAprovado(a[1])'
  BY <1>3 DEF LojaCresce, MpCresce
<1>5. Verdadeiro(a)'
  BY <1>3, <1>4 DEF Verdadeiro
<1>6. ASSUME NEW g \in Pg, a = <<g, "approved">> PROVE Atende(req[h], g)'
  <2>1. FoiAprovado(g) /\ Atende(req[h], g)
    BY <1>0, <1>2, <1>3, <1>6 DEF EntregaCerta, Verdadeiro
  <2> QED BY <1>0, <2>1, AtendePasso DEF WebInv
<1> QED BY <1>2, <1>3, <1>5, <1>6 DEF EntregaCerta, Verdadeiro, FoiAprovado

\* MP refuses a new payment or a refund: no delivery of an approval asks for one.
LEMMA RecusaEntrega ==
  ASSUME WebInv, LojaCresce, NEW h \in Hook, MpRecusa(h)
  PROVE  EntregaCerta(h)'
<1>0. h \in Req /\ EntregaCerta(h) /\ UNCHANGED entrega /\ UNCHANGED mp
  BY HookAssumption DEF WebInv, MpRecusa, varsWebhook, Falhar, banco
<1>1. entrega[h].fase = "vendas"
  BY <1>0 DEF EntregaCerta, MpRecusa
<1>2. PICK a \in Aviso : a = entrega[h].aviso /\ Verdadeiro(a)
  BY <1>0, <1>1 DEF EntregaCerta
<1>3. Verdadeiro(a)'
  BY <1>0, <1>2 DEF Verdadeiro, FoiAprovado
<1>4. ASSUME NEW g \in Pg, a = <<g, "approved">> PROVE FALSE
  BY <1>0, <1>1, <1>2, <1>4 DEF EntregaCerta, Atende, MpRecusa
<1> QED BY <1>0, <1>1, <1>2, <1>3, <1>4 DEF EntregaCerta, Verdadeiro, FoiAprovado

\* Steps that move no handler and no delivery.
LEMMA ParadoWeb ==
  ASSUME WebInv, LojaCresce, [Next]_vars, UNCHANGED <<registro, entrega, req>>,
         MpAvisa \/ UNCHANGED avisos
  PROVE  WebInv'
<1>1. IInv' /\ PixInv' /\ LojaEntrega'
  BY NextIInv, NextPix, NextLoja DEF WebInv
<1>2. RegistroCerto'
  BY RegistroFica
<1>3. \A h \in Hook : EntregaCerta(h)'
  BY EntregaFica
<1>4. avisos' \subseteq Aviso /\ \A a \in avisos' : Verdadeiro(a)'
  BY <1>1, AvisosFicam
<1> QED BY <1>1, <1>2, <1>3, <1>4 DEF WebInv

LEMMA WebSegue ==
  ASSUME WebInv, [NextWebhooks]_todas
  PROVE  WebInv'
<1>0. [Next]_vars /\ LojaCresce
  BY WebPasso, NextLoja DEF WebInv
<1>1. ASSUME NEW h \in Hook, NEW a \in Aviso, Entregar(h, a) PROVE WebInv'
  BY <1>0, <1>1, EntregarWeb
<1>2. ASSUME NEW h \in Hook, Servir(h) PROVE WebInv'
  BY <1>0, <1>2, CriarWeb, ProcessarWeb, MarcarWeb DEF Servir
<1>3. ASSUME NEW h \in Hook, FalharEntrega(h) PROVE WebInv'
  BY <1>0, <1>3, FalharEntregaWeb
<1>4. ASSUME NEW r \in Req, IniciarVendas(r) PROVE WebInv'
  <2>1. r \notin Hook /\ UNCHANGED <<avisos, registro, entrega>> /\ Iniciar(r)
    BY <1>4 DEF IniciarVendas, varsWebhook, Iniciar
  <2>2. \A s \in Req : s # r => req'[s] = req[s]
    BY <2>1, SoUm DEF WebInv
  <2> QED BY <1>0, <2>1, <2>2, VendasWeb
<1>5. ASSUME NEW r \in Req, PassoVendas(r) PROVE WebInv'
  <2>1. Passo(r) /\ MpAvisa /\ UNCHANGED <<registro, entrega>>
    BY <1>5 DEF PassoVendas
  <2>2. \A s \in Req : s # r => req'[s] = req[s]
    BY <2>1, SoUm DEF WebInv
  <2>3. r \in Hook => EntregaCerta(r)'
    BY <1>0, <2>1, PassoEntrega
  <2> QED BY <1>0, <2>1, <2>2, <2>3, VendasWeb
<1>6. ASSUME NEW r \in Req, MpRecusa(r) PROVE WebInv'
  <2>1. Falhar(r) /\ UNCHANGED <<avisos, registro, entrega>>
    BY <1>6 DEF MpRecusa, varsWebhook
  <2>2. \A s \in Req : s # r => req'[s] = req[s]
    BY <2>1, SoUm DEF WebInv
  <2>3. r \in Hook => EntregaCerta(r)'
    BY <1>0, <1>6, RecusaEntrega
  <2> QED BY <1>0, <2>1, <2>2, <2>3, VendasWeb
<1>7. ASSUME NEW r \in Req, FalharVendas(r) PROVE WebInv'
  <2>1. /\ r \notin Hook /\ UNCHANGED <<avisos, registro, entrega>>
        /\ Falhar(r) \/ ErroNaReconsulta(r)
    BY <1>7 DEF FalharVendas
  <2>2. \A s \in Req : s # r => req'[s] = req[s]
    BY <2>1, SoUm DEF WebInv
  <2> QED BY <1>0, <2>1, <2>2, VendasWeb
<1>8. CASE AmbienteVendas
  <2>1. UNCHANGED req
    BY <1>8 DEF AmbienteVendas, Ambiente, MpDecide, VencerPix, VencerPedido
  <2> QED BY <1>0, <1>8, <2>1, ParadoWeb DEF AmbienteVendas
<1>9. CASE UNCHANGED todas
  BY <1>0, <1>9, ParadoWeb DEF todas, vars, varsWebhook
<1> QED BY <1>1, <1>2, <1>3, <1>4, <1>5, <1>6, <1>7, <1>8, <1>9 DEF NextWebhooks

LEMMA InitWeb == InitWebhooks => WebInv
<1> SUFFICES ASSUME InitWebhooks PROVE WebInv
  OBVIOUS
<1>1. IInv /\ PixInv
  BY InitIInv, InitPix DEF InitWebhooks
<1>2. LojaEntrega
  <2>1. \A g \in Pg : mp[g].status = SemPagamento.status
    BY DEF InitWebhooks, Init
  <2>2. \A g \in Pg : ~FoiAprovado(g)
    BY <2>1, NenhumAssumption DEF SemPagamento, FoiAprovado, StatusMp
  <2> QED BY <2>2 DEF LojaEntrega, InitWebhooks, Init
<1>3. \A h \in Hook : entrega[h].fase = "livre" /\ req[h].pc = "livre"
  BY HookAssumption DEF InitWebhooks, Init, SemEntrega, Livre
<1>4. \A h \in Hook : EntregaCerta(h)
  BY <1>3 DEF EntregaCerta
<1>5. entrega \in [Hook -> [fase : Fase, aviso : Aviso \cup {Nenhum}]]
  BY DEF InitWebhooks, SemEntrega, Fase
<1>6. RegistroCerto
  BY DEF InitWebhooks, RegistroCerto, Aviso, StatusMp
<1> QED BY <1>1, <1>2, <1>4, <1>5, <1>6 DEF WebInv, InitWebhooks

\* The registry never says of an approved Pix more than the sale has done: however many
\* deliveries of the approval overlap, die or are answered late, `processadoEm' is written
\* only once the order has its downloads or the money is on its way back.
THEOREM ProcessadoSempreLibera == SpecWebhooks => []ProcessadoLibera
<1>1. WebInv => ProcessadoLibera
  BY DEF WebInv, RegistroCerto, Feito, ProcessadoLibera
<1> QED BY <1>1, InitWeb, WebSegue, PTL DEF SpecWebhooks

-----------------------------------------------------------------------------
(* The desktop's pull.  While orders commit in the order of their instants, *)
(* a new order is after whatever was committed when a page was read, so     *)
(* after the cursor too, and the page's orders are all those up to its own  *)
(* cursor, not only the first PorPagina of them.                            *)

Escrito == {<<>>} \cup ({"PAGO", "ESTORNADO"} \X (1 .. MaxHora))

TiposPux ==
  /\ TypeOKPuxar /\ escrevendo \in [PedidoPux -> Escrito] /\ fora \in BOOLEAN
  /\ pagina # <<>> => /\ pagina[2] \in Marca /\ DOMAIN pagina[1] \subseteq PedidoPux
                      /\ \A p \in DOMAIN pagina[1] : pagina[1][p] \in Situacao

\* A mark that some committed order has reached.
JaComitada(m) == m = <<0, 0>> \/ \E q \in Fechados : ~Antes(MarcaDe(q), m)

\* What the desktop will have of an order once it receives the page.
NaPagina(p) == IF p \in DOMAIN pagina[1] THEN pagina[1][p] ELSE copia[p]

EmOrdem ==
  /\ JaComitada(cursor)
  /\ \A p \in Fechados : Antes(cursor, MarcaDe(p)) \/ copia[p] = situacao[p]
  /\ pagina # <<>> => /\ JaComitada(pagina[2])
                      /\ \A p \in Fechados : Antes(pagina[2], MarcaDe(p)) \/ NaPagina(p) = situacao[p]

PuxInv == TiposPux /\ (~fora => EmOrdem)

\* A cursor is an instant and an id.
LEMMA MarcaTipo ==
  ASSUME TypeOKPuxar, NEW p \in PedidoPux
  PROVE  MarcaDe(p) \in Marca /\ MarcaDe(p)[1] \in Nat /\ MarcaDe(p)[2] = p /\ p \in Nat
  BY PuxarAssumption DEF TypeOKPuxar, Marca, MarcaDe, PedidoPux

LEMMA MarcaNat == ASSUME NEW m \in Marca PROVE m[1] \in Nat /\ m[2] \in Nat
  BY PuxarAssumption DEF Marca

\* What comes after whatever was committed comes after a mark that was reached.
LEMMA DepoisDeTodos ==
  ASSUME TypeOKPuxar, NEW m \in Marca, JaComitada(m), NEW n \in Marca, n[1] > 0,
         \A q \in Fechados : Antes(MarcaDe(q), n)
  PROVE  Antes(m, n)
<1>1. /\ m[1] \in Nat /\ m[2] \in Nat /\ n[1] \in Nat /\ n[2] \in Nat
  BY MarcaNat
<1>2. CASE m = <<0, 0>>
  BY <1>1, <1>2 DEF Antes
<1>3. ASSUME NEW q \in Fechados, ~Antes(MarcaDe(q), m) PROVE Antes(m, n)
  <2>1. /\ MarcaDe(q)[1] \in Nat /\ MarcaDe(q)[2] \in Nat
    BY MarcaTipo DEF Fechados
  <2>2. Antes(MarcaDe(q), n)
    OBVIOUS
  <2> QED BY <1>1, <1>3, <2>1, <2>2 DEF Antes
<1> QED BY <1>2, <1>3 DEF JaComitada

\* The orders up to the last of a page are in it: fewer come before them than before it.
LEMMA PaginaCheia ==
  ASSUME TypeOKPuxar, NEW u \in Pagina, NEW p \in Fechados, Depois(p),
         ~Antes(MarcaDe(u), MarcaDe(p))
  PROVE  p \in Pagina
<1> DEFINE A(x) == {q \in Fechados : Depois(q) /\ Antes(MarcaDe(q), MarcaDe(x))}
<1>1. IsFiniteSet(A(u)) /\ A(p) \subseteq A(u)
  <2>1. IsFiniteSet(PedidoPux)
    BY FS_Interval, PuxarAssumption DEF PedidoPux
  <2>2. A(u) \subseteq PedidoPux
    BY DEF Fechados
  <2>3. ASSUME NEW q \in A(p) PROVE q \in A(u)
    <3>1. /\ MarcaDe(q)[1] \in Nat /\ MarcaDe(q)[2] \in Nat /\ MarcaDe(p)[1] \in Nat
          /\ MarcaDe(p)[2] \in Nat /\ MarcaDe(u)[1] \in Nat /\ MarcaDe(u)[2] \in Nat
      BY MarcaTipo DEF Fechados, Pagina
    <3> QED BY <3>1 DEF Antes
  <2> QED BY <2>1, <2>2, <2>3, FS_Subset
<1>2. Cardinality(A(u)) < PorPagina
  BY DEF Pagina
<1>3. Cardinality(A(p)) <= Cardinality(A(u)) /\ Cardinality(A(p)) \in Nat /\ Cardinality(A(u)) \in Nat
  BY <1>1, FS_Subset, FS_CardinalityType
<1>4. Cardinality(A(p)) < PorPagina
  BY <1>2, <1>3, PuxarAssumption
<1> QED BY <1>4 DEF Pagina

\* A page that was read has, with what the desktop has, every order up to its cursor.
LEMMA PuxarPux ==
  ASSUME PuxInv, Puxar, UNCHANGED fora
  PROVE  PuxInv'
<1>1. PICK u \in Pagina :
        /\ \A p \in Pagina : p = u \/ Antes(MarcaDe(p), MarcaDe(u))
        /\ pagina' = <<[p \in Pagina |-> situacao[p]], MarcaDe(u)>>
  BY DEF Puxar
<1>2. UNCHANGED <<hora, situacao, atualizado, escrevendo, cursor, copia, fora>>
  BY DEF Puxar, servidorPux, desktopPux
<1>3. /\ Pagina \subseteq Fechados /\ Fechados \subseteq PedidoPux
      /\ \A p \in Pagina : Depois(p)
  BY DEF Pagina, Fechados
<1>4. /\ pagina'[2] = MarcaDe(u) /\ DOMAIN pagina'[1] = Pagina
      /\ \A p \in Pagina : pagina'[1][p] = situacao[p]
  BY <1>1
<1>5. TiposPux'
  <2>1. TypeOKPuxar'
    BY <1>2 DEF PuxInv, TiposPux, TypeOKPuxar
  <2>2. MarcaDe(u) \in Marca
    BY <1>3, MarcaTipo DEF PuxInv, TiposPux
  <2>3. \A p \in Pagina : situacao[p] \in Situacao
    BY <1>3 DEF PuxInv, TiposPux, TypeOKPuxar
  <2> QED BY <1>2, <1>3, <1>4, <2>1, <2>2, <2>3 DEF PuxInv, TiposPux
<1>6. ASSUME ~fora PROVE EmOrdem'
  <2>1. EmOrdem
    BY <1>6 DEF PuxInv
  <2>2. Fechados' = Fechados /\ \A p : MarcaDe(p)' = MarcaDe(p)
    BY <1>2 DEF Fechados, MarcaDe
  <2>3. /\ JaComitada(cursor)'
        /\ \A p \in Fechados' : Antes(cursor, MarcaDe(p))' \/ copia'[p] = situacao'[p]
    BY <1>2, <2>1, <2>2 DEF EmOrdem, JaComitada, Antes
  <2>4. \E q \in Fechados : ~Antes(MarcaDe(q), MarcaDe(u))
    <3>1. MarcaDe(u)[1] \in Nat /\ MarcaDe(u)[2] \in Nat
      BY <1>3, MarcaTipo DEF PuxInv, TiposPux
    <3>2. ~Antes(MarcaDe(u), MarcaDe(u))
      BY <3>1 DEF Antes
    <3> QED BY <1>3, <3>2
  <2>5. ASSUME NEW p \in Fechados, ~Antes(MarcaDe(u), MarcaDe(p)) PROVE NaPagina(p)' = situacao'[p]
    <3>1. CASE Depois(p)
      BY <1>2, <1>4, <2>5, <3>1, PaginaCheia DEF NaPagina, PuxInv, TiposPux
    <3>2. CASE ~Depois(p)
      BY <1>2, <1>3, <1>4, <2>1, <3>2 DEF NaPagina, EmOrdem, Depois
    <3> QED BY <3>1, <3>2
  <2>6. JaComitada(pagina[2])'
    BY <1>4, <2>2, <2>4 DEF JaComitada, Antes
  <2>7. \A p \in Fechados' : Antes(pagina[2], MarcaDe(p))' \/ NaPagina(p)' = situacao'[p]
    BY <1>4, <2>2, <2>5 DEF Antes
  <2> QED BY <2>3, <2>6, <2>7 DEF EmOrdem
<1> QED BY <1>2, <1>5, <1>6 DEF PuxInv

\* A commit in order is after whatever was committed, so after both cursors; one that is not is
\* the end of the promise.
LEMMA ComitarPux ==
  ASSUME PuxInv, NEW p \in PedidoPux, Comitar(p), fora' = (fora \/ ComitaFora(p))
  PROVE  PuxInv'
<1> DEFINE n == <<escrevendo[p][2], p>>
<1>1. /\ escrevendo[p] \in {"PAGO", "ESTORNADO"} \X (1 .. MaxHora)
      /\ situacao' = [situacao EXCEPT ![p] = escrevendo[p][1]]
      /\ atualizado' = [atualizado EXCEPT ![p] = escrevendo[p][2]]
      /\ escrevendo' = [escrevendo EXCEPT ![p] = <<>>]
      /\ UNCHANGED <<hora, pagina, cursor, copia>>
  BY DEF Comitar, desktopPux, PuxInv, TiposPux, Escrito
<1>2. escrevendo[p][1] \in {"PAGO", "ESTORNADO"} /\ escrevendo[p][2] \in 1 .. MaxHora
  BY <1>1
<1>3. /\ situacao'[p] = escrevendo[p][1] /\ atualizado'[p] = escrevendo[p][2]
      /\ \A q \in PedidoPux \ {p} : situacao'[q] = situacao[q] /\ atualizado'[q] = atualizado[q]
      /\ p \in PedidoPux
  BY <1>1 DEF PuxInv, TiposPux, TypeOKPuxar
<1>4. TiposPux'
  <2>1. situacao' \in [PedidoPux -> Situacao] /\ atualizado' \in [PedidoPux -> 0 .. MaxHora]
    BY <1>1, <1>2, PuxarAssumption DEF PuxInv, TiposPux, TypeOKPuxar, Situacao
  <2>2. escrevendo' \in [PedidoPux -> Escrito]
    BY <1>1 DEF PuxInv, TiposPux, Escrito
  <2>3. \A q \in PedidoPux : escrevendo'[q] = <<>> \/ escrevendo'[q] \in Situacao \X (1 .. MaxHora)
    BY <1>1 DEF PuxInv, TiposPux, TypeOKPuxar
  <2>4. TypeOKPuxar'
    BY <1>1, <2>1, <2>3 DEF PuxInv, TiposPux, TypeOKPuxar
  <2>5. fora' \in BOOLEAN
    BY DEF PuxInv, TiposPux
  <2> QED BY <1>1, <2>2, <2>4, <2>5 DEF PuxInv, TiposPux
<1>5. ASSUME ~fora' PROVE EmOrdem'
  <2>1. EmOrdem /\ \A q \in Fechados : Antes(MarcaDe(q), n)
    BY <1>5 DEF PuxInv, ComitaFora
  <2>2. n \in Marca /\ n[1] > 0 /\ MarcaDe(p)' = n
    BY <1>2, <1>3, PuxarAssumption DEF Marca, MarcaDe, PedidoPux
  <2>3. ASSUME NEW m \in Marca, JaComitada(m) PROVE Antes(m, n)
    BY <2>1, <2>2, <2>3, DepoisDeTodos DEF PuxInv, TiposPux
  <2>4. /\ p \in Fechados' /\ \A q \in PedidoPux \ {p} : q \in Fechados' <=> q \in Fechados
        /\ \A q \in PedidoPux \ {p} : MarcaDe(q)' = MarcaDe(q)
        /\ Fechados' \subseteq PedidoPux
    BY <1>2, <1>3 DEF Fechados, MarcaDe
  <2> HIDE DEF n
  <2>5. ASSUME NEW m \in Marca, JaComitada(m) PROVE ~Antes(n, m)
    <3>1. Antes(m, n) /\ m[1] \in Nat /\ m[2] \in Nat /\ n[1] \in Nat /\ n[2] \in Nat
      BY <2>2, <2>3, <2>5, MarcaNat
    <3> QED BY <3>1 DEF Antes
  <2>6. ASSUME NEW m \in Marca, JaComitada(m) PROVE \E q \in Fechados' : ~Antes(MarcaDe(q)', m)
    BY <2>2, <2>4, <2>5, <2>6
  <2>7. cursor \in Marca /\ (pagina # <<>> => pagina[2] \in Marca)
    BY DEF PuxInv, TiposPux, TypeOKPuxar
  <2>8. /\ \A q \in Fechados' : Antes(cursor, MarcaDe(q)') \/ copia[q] = situacao'[q]
        /\ JaComitada(cursor)'
    <3>1. \A q \in Fechados' \ {p} : Antes(cursor, MarcaDe(q)') \/ copia[q] = situacao'[q]
      BY <1>3, <2>1, <2>4 DEF EmOrdem
    <3>2. JaComitada(cursor)
      BY <2>1 DEF EmOrdem
    <3> QED BY <1>1, <2>2, <2>3, <2>6, <2>7, <3>1, <3>2 DEF JaComitada, Antes
  <2>9. ASSUME pagina # <<>>
        PROVE  /\ \A q \in Fechados' : Antes(pagina[2], MarcaDe(q)') \/ NaPagina(q) = situacao'[q]
               /\ \E q \in Fechados' : ~Antes(MarcaDe(q)', pagina[2])
    <3>1. \A q \in Fechados' \ {p} : Antes(pagina[2], MarcaDe(q)') \/ NaPagina(q) = situacao'[q]
      BY <1>3, <2>1, <2>4, <2>9 DEF EmOrdem
    <3>2. JaComitada(pagina[2])
      BY <2>1, <2>9 DEF EmOrdem
    <3> QED BY <2>2, <2>3, <2>6, <2>7, <2>9, <3>1, <3>2
  <2> QED BY <1>1, <2>8, <2>9 DEF EmOrdem, JaComitada, NaPagina, Antes
<1> QED BY <1>4, <1>5 DEF PuxInv

\* What the desktop receives is what the page promised.
LEMMA ReceberPux ==
  ASSUME PuxInv, ReceberPagina, UNCHANGED fora
  PROVE  PuxInv'
<1>1. /\ pagina # <<>> /\ pagina' = <<>> /\ cursor' = pagina[2]
      /\ UNCHANGED <<hora, situacao, atualizado, escrevendo, fora>>
      /\ \A p \in PedidoPux : copia'[p] = NaPagina(p)
      /\ copia' = [p \in PedidoPux |-> NaPagina(p)]
  BY DEF ReceberPagina, servidorPux, NaPagina
<1>2. \A p \in PedidoPux : NaPagina(p) \in Situacao
  BY <1>1 DEF NaPagina, PuxInv, TiposPux, TypeOKPuxar
<1>3. TypeOKPuxar'
  BY <1>1, <1>2 DEF PuxInv, TiposPux, TypeOKPuxar
<1>4. TiposPux'
  BY <1>1, <1>3 DEF PuxInv, TiposPux
<1>5. ASSUME ~fora PROVE EmOrdem'
  <2>1. Fechados' = Fechados /\ Fechados \subseteq PedidoPux /\ \A p : MarcaDe(p)' = MarcaDe(p)
    BY <1>1 DEF Fechados, MarcaDe
  <2>2. /\ JaComitada(pagina[2])
        /\ \A p \in Fechados : Antes(pagina[2], MarcaDe(p)) \/ NaPagina(p) = situacao[p]
    BY <1>1, <1>5 DEF PuxInv, EmOrdem
  <2>3. JaComitada(cursor)'
    BY <1>1, <2>1, <2>2 DEF JaComitada, Antes
  <2>4. \A p \in Fechados' : Antes(cursor, MarcaDe(p))' \/ copia'[p] = situacao'[p]
    BY <1>1, <2>1, <2>2 DEF Antes
  <2> QED BY <1>1, <2>3, <2>4 DEF EmOrdem
<1> QED BY <1>1, <1>4, <1>5 DEF PuxInv

\* The clock, a writer that begins, and a page that is lost change nothing of this.
LEMMA ParadoPux ==
  ASSUME PuxInv, UNCHANGED <<situacao, atualizado, cursor, copia, fora>>,
         hora' \in 1 .. MaxHora, escrevendo' \in [PedidoPux -> Escrito], pagina' \in {pagina, <<>>}
  PROVE  PuxInv'
<1>1. \A p \in PedidoPux : escrevendo'[p] = <<>> \/ escrevendo'[p] \in Situacao \X (1 .. MaxHora)
  <2> SUFFICES ASSUME NEW p \in PedidoPux PROVE escrevendo'[p] = <<>> \/ escrevendo'[p] \in Situacao \X (1 .. MaxHora)
    OBVIOUS
  <2>1. escrevendo'[p] \in Escrito
    OBVIOUS
  <2> QED BY <2>1 DEF Escrito, Situacao
<1>2. TiposPux'
  BY <1>1 DEF PuxInv, TiposPux, TypeOKPuxar
<1>3. /\ Fechados' = Fechados /\ \A p : MarcaDe(p)' = MarcaDe(p)
      /\ pagina' # <<>> => pagina' = pagina
  BY DEF Fechados, MarcaDe
<1>4. EmOrdem => EmOrdem'
  <2> SUFFICES ASSUME EmOrdem PROVE EmOrdem'
    OBVIOUS
  <2>1. JaComitada(cursor)' /\ \A p \in Fechados' : Antes(cursor, MarcaDe(p))' \/ copia'[p] = situacao'[p]
    BY <1>3 DEF EmOrdem, JaComitada, Antes
  <2>2. ASSUME pagina' # <<>>
        PROVE  /\ JaComitada(pagina[2])'
               /\ \A p \in Fechados' : Antes(pagina[2], MarcaDe(p))' \/ NaPagina(p)' = situacao'[p]
    BY <1>3, <2>2 DEF EmOrdem, JaComitada, Antes, NaPagina
  <2> QED BY <2>1, <2>2 DEF EmOrdem
<1> QED BY <1>2, <1>4 DEF PuxInv

LEMMA NextPuxInv ==
  ASSUME PuxInv, NextPux \/ UNCHANGED <<varsPuxar, fora>>
  PROVE  PuxInv'
<1>0. escrevendo \in [PedidoPux -> Escrito] /\ hora \in 1 .. MaxHora
  BY DEF PuxInv, TiposPux, TypeOKPuxar
<1>1. CASE Relogio /\ UNCHANGED fora
  BY <1>0, <1>1, ParadoPux, PuxarAssumption DEF Relogio, servidorPux, desktopPux
<1>2. CASE Puxar /\ UNCHANGED fora
  BY <1>2, PuxarPux
<1>3. CASE (PuxarVazio /\ UNCHANGED fora) \/ UNCHANGED <<varsPuxar, fora>>
  BY <1>0, <1>3, ParadoPux DEF PuxarVazio, varsPuxar, servidorPux, desktopPux
<1>4. CASE ReceberPagina /\ UNCHANGED fora
  BY <1>4, ReceberPux
<1>5. CASE PerderPagina /\ UNCHANGED fora
  BY <1>0, <1>5, ParadoPux DEF PerderPagina, servidorPux, desktopPux
<1>6. ASSUME NEW p \in PedidoPux, NEW s \in Situacao, Escrever(p, s), UNCHANGED fora PROVE PuxInv'
  <2>1. escrevendo' = [escrevendo EXCEPT ![p] = <<s, hora>>] /\ <<s, hora>> \in Escrito
    BY <1>0, <1>6 DEF Escrever, Escrito
  <2>2. escrevendo' \in [PedidoPux -> Escrito]
    BY <1>0, <2>1
  <2> QED BY <1>0, <1>6, <2>2, ParadoPux DEF Escrever, servidorPux, desktopPux
<1>7. ASSUME NEW p \in PedidoPux, Comitar(p), fora' = (fora \/ ComitaFora(p)) PROVE PuxInv'
  BY <1>7, ComitarPux
<1> QED BY <1>1, <1>2, <1>3, <1>4, <1>5, <1>6, <1>7 DEF NextPux

LEMMA InitPuxInv == ASSUME InitPuxar, fora = FALSE PROVE PuxInv
<1>1. TypeOKPuxar /\ escrevendo \in [PedidoPux -> Escrito]
  BY PuxarAssumption DEF InitPuxar, TypeOKPuxar, Escrito, Situacao, Marca
<1>2. Fechados = {} /\ cursor = <<0, 0>> /\ pagina = <<>>
  BY DEF InitPuxar, Fechados
<1> QED BY <1>1, <1>2 DEF PuxInv, TiposPux, EmOrdem, JaComitada

-----------------------------------------------------------------------------
(* What comes through, as a whole. *)

FalhasInv == WebInv /\ falhas \in 0 .. MaxFalhas /\ PuxInv

LEMMA InitFalhasInv == InitFalhas => FalhasInv
<1> SUFFICES ASSUME InitFalhas PROVE FalhasInv
  OBVIOUS
<1>1. WebInv /\ PuxInv
  BY InitWeb, InitPuxInv DEF InitFalhas
<1>2. falhas \in 0 .. MaxFalhas
  BY FalhasAssumption DEF InitFalhas, InitWebhooks
<1> QED BY <1>1, <1>2 DEF FalhasInv

\* Failures only use up what is left of them.
LEMMA FalhasContam ==
  ASSUME falhas \in 0 .. MaxFalhas, [NextWebhooks]_todas
  PROVE  falhas' \in 0 .. MaxFalhas
<1>1. \/ falhas' = falhas
      \/ falhas > 0 /\ falhas' = falhas - 1
  <2>1. ASSUME NEW h \in Hook, NEW a \in Aviso, Entregar(h, a) PROVE falhas' = falhas
    BY <2>1 DEF Entregar
  <2>2. ASSUME NEW h \in Hook, Criar(h) \/ Processar(h) PROVE falhas' = falhas
    BY <2>2 DEF Criar, Processar
  <2>3. ASSUME NEW h \in Hook, Marcar(h) \/ FalharEntrega(h)
        PROVE  falhas' = falhas \/ (falhas > 0 /\ falhas' = falhas - 1)
    BY <2>3 DEF Marcar, FalharEntrega
  <2>4. ASSUME NEW r \in Req, IniciarVendas(r) \/ PassoVendas(r) \/ MpRecusa(r)
        PROVE  falhas' = falhas
    BY <2>4 DEF IniciarVendas, PassoVendas, MpRecusa, varsWebhook
  <2>5. ASSUME NEW r \in Req, FalharVendas(r)
        PROVE  falhas > 0 /\ falhas' = falhas - 1
    BY <2>5 DEF FalharVendas
  <2>6. CASE AmbienteVendas \/ UNCHANGED todas
    BY <2>6 DEF AmbienteVendas, todas, varsWebhook
  <2> QED BY <2>1, <2>2, <2>3, <2>4, <2>5, <2>6 DEF NextWebhooks, Servir
<1> QED BY <1>1, FalhasAssumption

LEMMA NextFalhasInv ==
  FalhasInv /\ [NextWeb \/ NextPux]_<<todas, varsPuxar, historia>> => FalhasInv'
<1> SUFFICES ASSUME FalhasInv, [NextWeb \/ NextPux]_<<todas, varsPuxar, historia>>
             PROVE  FalhasInv'
  OBVIOUS
<1>1. [NextWebhooks]_todas
  BY DEF NextWeb, NextPux
<1>2. NextPux \/ UNCHANGED <<varsPuxar, fora>>
  BY DEF NextWeb, historia
<1> QED BY <1>1, <1>2, WebSegue, FalhasContam, NextPuxInv DEF FalhasInv

\* Types of the sale, the notifications and the pull, however they are lost, repeated and late.
THEOREM TiposFalhas == SpecFalhas => []TypeOKFalhas
<1>1. FalhasInv => TypeOKFalhas
  BY DEF FalhasInv, WebInv, IInv, PuxInv, TiposPux, TypeOKFalhas, TypeOKWebhooks
<1> QED BY <1>1, InitFalhasInv, NextFalhasInv, PTL DEF SpecFalhas

\* However many writers, pages and lost answers there are: while orders commit in the order of
\* their instants, the desktop has every order its cursor is not before, as it is.
THEOREM CursorNuncaPula == SpecFalhas => []CursorNaoPula
<1>1. FalhasInv => CursorNaoPula
  BY DEF FalhasInv, PuxInv, TiposPux, EmOrdem, CursorNaoPula
<1> QED BY <1>1, InitFalhasInv, NextFalhasInv, PTL DEF SpecFalhas
=============================================================================
