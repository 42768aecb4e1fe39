------------------------------- MODULE Vendas -------------------------------
(***************************************************************************)
(* The sale of photos: VendasService (modulos/pagamentos/vendas), with the *)
(* rows it keeps in Postgres and the payments Mercado Pago (MP) keeps for  *)
(* it.  Every HTTP request, webhook call or panel click is a slot of Req   *)
(* that runs one handler; a handler is cut at each await that reads or     *)
(* writes something another handler can see, so handlers interleave, run   *)
(* on what they read before the await, and die at any point (an exception  *)
(* or a restart of the process).                                           *)
(*                                                                         *)
(* Left out: what no property tells apart (names, CPF, fees, e-mails,      *)
(* audit rows: EmailService.enviar, AuditoriaService.registrar and         *)
(* avisarAdmins never throw and change nothing modelled here).  Reads of   *)
(* columns that never change after criarPedido (totalCentavos, items) are  *)
(* merged with the next step.  Clocks are the sets `vencido' and           *)
(* `pixVencido' of what has expired; the 10 s pause between two questions  *)
(* to MP is a free choice.                                                 *)
(***************************************************************************)
EXTENDS Integers, FiniteSets

CONSTANTS
  Pedido,     \* ids of orders
  Pg,         \* ids of MP payments
  Req,        \* request slots: how many handlers may be in flight at once
  Token,      \* card tokens the browser can produce (numbers)
  Subtotal,   \* what each order costs; 0 is a package selection
  Desfechos,  \* the MP statuses the provider may give a payment
  BancoFalha, \* whether a database call inside consultar's try may fail
  Nenhum      \* no value

StatusMp == {"pending", "approved", "rejected", "cancelled", "refunded", "charged_back"}

ASSUME PgAssumption == IsFiniteSet(Pg)
ASSUME SubtotalAssumption == Subtotal \in [Pedido -> Nat]
ASSUME TokenAssumption    == Token \subseteq Nat
ASSUME DesfechosAssumption == Desfechos \subseteq StatusMp
ASSUME BancoFalhaAssumption == BancoFalha \in BOOLEAN
ASSUME NenhumAssumption == Nenhum \notin Pedido \cup Pg \cup StatusMp

VARIABLES
  pedido,      \* Pedido.status, "INEXISTENTE" before criarPedido
  vencido,     \* orders whose expiraEm has passed
  pag,         \* Pagamento.status of the local row of an MP payment
  ordem,       \* place of the local row among its order's (criadoEm)
  pixVencido,  \* Pix payments whose expiration has passed
  vendas,      \* what each order has put into Galeria.totalVendasCentavos
  downloads,   \* orders whose download rows exist
  mp,          \* MP's payments
  reembolso,   \* orders whose refund key estorno-<id> MP has seen
  req          \* the handlers in flight

banco == <<pedido, vencido, pag, ordem, pixVencido, vendas, downloads>>
vars == <<pedido, vencido, pag, ordem, pixVencido, vendas, downloads, mp, reembolso, req>>

StatusPedido == {"ABERTO", "AGUARDANDO_PAGAMENTO", "PAGO", "EXPIRADO", "ESTORNADO"}
StatusPagamento == {"PENDENTE", "APROVADO", "RECUSADO", "EXPIRADO", "ESTORNADO"}
Metodo == {"PIX", "CARTAO"}

Chave == [metodo : Metodo, id : Nat]
SemPagamento == [pedido |-> Nenhum, chave |-> Nenhum, status |-> Nenhum]

Pc == {"livre", "libera", "pix_mp", "pix_grava", "cartao_mp", "cartao_grava",
       "cartao_aguarda", "aviso_mp", "aplica", "estorna", "devolve_mp", "consulta",
       "consulta_mp", "recarrega", "expira"}

\* a handler: where it is, the order and payment in its hands, what it read (the order's
\* status, MP's status, whether the order should expire) and where aplicar returns to
Handler == [pc : Pc, pedido : Pedido \cup {Nenhum}, pg : Pg \cup {Nenhum},
            chave : Chave \cup {Nenhum}, lido : StatusPedido \cup {Nenhum},
            st : StatusMp \cup {Nenhum},
            volta : {"livre", "consulta", "recarrega"}, expira : BOOLEAN]

Livre == [pc |-> "livre", pedido |-> Nenhum, pg |-> Nenhum, chave |-> Nenhum,
          lido |-> Nenhum, st |-> Nenhum, volta |-> "livre", expira |-> FALSE]

Init ==
  /\ pedido = [p \in Pedido |-> "INEXISTENTE"]
  /\ vencido = {}
  /\ pag = [g \in Pg |-> "INEXISTENTE"]
  /\ ordem = [g \in Pg |-> 0]
  /\ pixVencido = {}
  /\ vendas = [p \in Pedido |-> 0]
  /\ downloads = {}
  /\ mp = [g \in Pg |-> SemPagamento]
  /\ reembolso = {}
  /\ req = [r \in Req |-> Livre]

-----------------------------------------------------------------------------
(* Reading the rows *)

\* fault: a status the enum does not have
StatusLocalForaDoEnum(st) ==
  CASE st = "pending" -> "PENDENTE" [] st = "approved" -> "APROVADO" [] OTHER -> "CANCELADO"

\* STATUS_DO_MP
StatusLocal(st) ==
  CASE st = "pending"   -> "PENDENTE"
    [] st = "approved"  -> "APROVADO"
    [] st = "rejected"  -> "RECUSADO"
    [] st = "cancelled" -> "EXPIRADO"
    [] st \in {"refunded", "charged_back"} -> "ESTORNADO"
    [] OTHER            -> "PENDENTE"

Pagamentos(p) == {g \in Pg : pag[g] # "INEXISTENTE" /\ mp[g].pedido = p}
ComStatus(p, st) == {g \in Pagamentos(p) : pag[g] = st}
MaisNovo(g, S) == g \in S /\ \A h \in S : ordem[h] <= ordem[g]
EhPix(g) == mp[g].chave.metodo = "PIX"

\* the one Pix shown again instead of creating another
PixAberto(p) == {g \in ComStatus(p, "PENDENTE") : EhPix(g) /\ g \notin pixVencido}

\* fault: only the orders that are over are refused
PodePagarDeNovo(p) == pedido[p] \in {"ABERTO", "AGUARDANDO_PAGAMENTO", "PAGO"}

\* pedidoParaPagar
PodePagar(p) ==
  \/ pedido[p] = "ABERTO" /\ p \notin vencido
  \/ pedido[p] = "AGUARDANDO_PAGAMENTO"

\* fault: any Pix counts as over when the order's time is
DeveExpirarPeloPrazo(p) == pedido[p] = "AGUARDANDO_PAGAMENTO" /\ p \in vencido

\* the condition on which consultar gives the order up; a card has no pixExpiraEm
DeveExpirar(p) ==
  /\ pedido[p] = "AGUARDANDO_PAGAMENTO"
  /\ p \in vencido
  /\ \A g \in ComStatus(p, "PENDENTE") : EhPix(g) /\ g \in pixVencido

(* Control of a handler *)

Em(r, pc) == req[r].pc = pc
Termina(r) == req' = [req EXCEPT ![r] = Livre]
Segue(r, q) == req' = [req EXCEPT ![r] = q]
Consultando(p) == [Livre EXCEPT !.pc = "consulta", !.pedido = p]
Expirando(p) == [Livre EXCEPT !.pc = "expira", !.pedido = p]

\* after aplicar: the webhook answers, the card goes on to consultar, consultar reloads
Continua(q) ==
  CASE q.volta = "consulta"  -> Consultando(q.pedido)
    [] q.volta = "recarrega" -> [q EXCEPT !.pc = "recarrega", !.pg = Nenhum, !.st = Nenhum]
    [] OTHER                 -> Livre

-----------------------------------------------------------------------------
(* criarPedido: a package selection that costs nothing is released at once *)

CriarPedido(r, p) ==
  /\ Em(r, "livre")
  /\ pedido[p] = "INEXISTENTE"
  /\ pedido' = [pedido EXCEPT ![p] = "ABERTO"]
  /\ req' = IF Subtotal[p] = 0
            THEN [req EXCEPT ![r] = [Livre EXCEPT !.pc = "libera", !.pedido = p]]
            ELSE req
  /\ UNCHANGED <<vencido, pag, ordem, pixVencido, vendas, downloads, mp, reembolso>>

-----------------------------------------------------------------------------
(* MP's side of criarPagamento: one payment per idempotency key; MP refuses *)
(* a payment of zero                                                       *)

CriaNoMp(p, chave, g, iniciais) ==
  \/ /\ mp[g].pedido = p
     /\ mp[g].chave = chave
     /\ UNCHANGED mp
  \/ /\ Subtotal[p] > 0
     /\ mp[g] = SemPagamento
     /\ \A h \in Pg : mp[h].pedido = p => mp[h].chave # chave
     /\ \E st \in iniciais \cap Desfechos :
          mp' = [mp EXCEPT ![g] = [pedido |-> p, chave |-> chave, status |-> st]]

(* pagarPix *)

\* fault: every click creates a Pix
PagarPixSempreNovo(r, p) ==
  /\ Em(r, "livre")
  /\ PodePagar(p)
  /\ Segue(r, [Livre EXCEPT !.pc = "pix_mp", !.pedido = p,
                 !.chave = [metodo |-> "PIX", id |-> Cardinality(Pagamentos(p))]])
  /\ UNCHANGED <<banco, mp, reembolso>>

PagarPix(r, p) ==
  /\ Em(r, "livre")
  /\ PodePagar(p)
  /\ Segue(r, IF PixAberto(p) # {}
              THEN Consultando(p)
              ELSE [Livre EXCEPT !.pc = "pix_mp", !.pedido = p,
                      !.chave = [metodo |-> "PIX", id |-> Cardinality(Pagamentos(p))]])
  /\ UNCHANGED <<banco, mp, reembolso>>

PixCriaNoMp(r, g) ==
  /\ Em(r, "pix_mp")
  /\ CriaNoMp(req[r].pedido, req[r].chave, g, {"pending"})
  /\ Segue(r, [req[r] EXCEPT !.pc = "pix_grava", !.pg = g, !.st = mp'[g].status])
  /\ UNCHANGED <<banco, reembolso>>

\* the transaction: provedorPagamentoId is unique, so a second row fails the request
PixGrava(r) ==
  LET p == req[r].pedido
      g == req[r].pg
  IN /\ Em(r, "pix_grava")
     /\ \/ /\ pag[g] # "INEXISTENTE"
           /\ Termina(r)
           /\ UNCHANGED banco
        \/ /\ pag[g] = "INEXISTENTE"
           /\ pag' = [pag EXCEPT ![g] = StatusLocal(req[r].st)]
           /\ ordem' = [ordem EXCEPT ![g] = Cardinality(Pagamentos(p)) + 1]
           /\ pedido' = [pedido EXCEPT ![p] = "AGUARDANDO_PAGAMENTO"]
           /\ vencido' = vencido \ {p}
           /\ Segue(r, Consultando(p))
           /\ UNCHANGED <<pixVencido, vendas, downloads>>
     /\ UNCHANGED <<mp, reembolso>>

(* pagarCartao *)

PagarCartao(r, p, t) ==
  /\ Em(r, "livre")
  /\ PodePagar(p)
  /\ Segue(r, [Livre EXCEPT !.pc = "cartao_mp", !.pedido = p, !.lido = pedido[p],
                 !.chave = [metodo |-> "CARTAO", id |-> t], !.volta = "consulta"])
  /\ UNCHANGED <<banco, mp, reembolso>>

CartaoCriaNoMp(r, g) ==
  /\ Em(r, "cartao_mp")
  /\ CriaNoMp(req[r].pedido, req[r].chave, g, {"pending", "approved", "rejected"})
  /\ Segue(r, [req[r] EXCEPT !.pc = "cartao_grava", !.pg = g, !.st = mp'[g].status])
  /\ UNCHANGED <<banco, reembolso>>

\* upsert with an empty update
CartaoGrava(r) ==
  LET p == req[r].pedido
      g == req[r].pg
  IN /\ Em(r, "cartao_grava")
     /\ IF pag[g] = "INEXISTENTE"
        THEN /\ pag' = [pag EXCEPT ![g] = StatusLocal(req[r].st)]
             /\ ordem' = [ordem EXCEPT ![g] = Cardinality(Pagamentos(p)) + 1]
        ELSE UNCHANGED <<pag, ordem>>
     /\ Segue(r, [req[r] EXCEPT !.pc = IF req[r].lido = "ABERTO" THEN "cartao_aguarda" ELSE "aplica"])
     /\ UNCHANGED <<pedido, vencido, pixVencido, vendas, downloads, mp, reembolso>>

\* on the status read before MP was called
CartaoAguarda(r) ==
  /\ Em(r, "cartao_aguarda")
  /\ pedido' = [pedido EXCEPT ![req[r].pedido] = "AGUARDANDO_PAGAMENTO"]
  /\ Segue(r, [req[r] EXCEPT !.pc = "aplica"])
  /\ UNCHANGED <<vencido, pag, ordem, pixVencido, vendas, downloads, mp, reembolso>>

-----------------------------------------------------------------------------
(* processarAviso: a webhook about a payment that has a local row (the      *)
(* others are answered without a change)                                   *)

ReceberAviso(r, g) ==
  /\ Em(r, "livre")
  /\ pag[g] # "INEXISTENTE"
  /\ Segue(r, [Livre EXCEPT !.pc = "aviso_mp", !.pedido = mp[g].pedido, !.pg = g])
  /\ UNCHANGED <<banco, mp, reembolso>>

\* obterPagamento, for the webhook and for consultar
PerguntaAoMp(r) ==
  /\ req[r].pc \in {"aviso_mp", "consulta_mp"}
  /\ Segue(r, [req[r] EXCEPT !.pc = "aplica", !.st = mp[req[r].pg].status])
  /\ UNCHANGED <<banco, mp, reembolso>>

(* aplicar, confirmarPago + liberar, marcarEstornado *)

Aplicar(r) ==
  LET q == req[r]
  IN /\ Em(r, "aplica")
     /\ pag' = IF pag[q.pg] = "INEXISTENTE" THEN pag
               ELSE [pag EXCEPT ![q.pg] = StatusLocal(q.st)]
     /\ Segue(r, CASE StatusLocal(q.st) = "APROVADO"  -> [q EXCEPT !.pc = "libera"]
                   [] StatusLocal(q.st) = "ESTORNADO" -> [q EXCEPT !.pc = "estorna"]
                   [] OTHER -> Continua(q))
     /\ UNCHANGED <<pedido, vencido, ordem, pixVencido, vendas, downloads, mp, reembolso>>

\* external_reference and the amount: both are fixed when the payment is created
Confere(q) == q.pg \in Pg => mp[q.pg].pedido = q.pedido

\* fault: the update is not conditional on the status
LiberarSempre(r) ==
  LET p == req[r].pedido
  IN /\ Em(r, "libera")
     /\ pedido' = [pedido EXCEPT ![p] = "PAGO"]
     /\ downloads' = downloads \cup {p}
     /\ vendas' = [vendas EXCEPT ![p] = @ + Subtotal[p]]
     /\ Segue(r, Continua(req[r]))
     /\ UNCHANGED <<vencido, pag, ordem, pixVencido, mp, reembolso>>

Liberar(r) ==
  LET p == req[r].pedido
  IN /\ Em(r, "libera")
     /\ IF pedido[p] # "PAGO" /\ Confere(req[r])
        THEN /\ pedido' = [pedido EXCEPT ![p] = "PAGO"]
             /\ downloads' = downloads \cup {p}
             /\ vendas' = [vendas EXCEPT ![p] = @ + Subtotal[p]]
        ELSE UNCHANGED <<pedido, downloads, vendas>>
     /\ Segue(r, Continua(req[r]))
     /\ UNCHANGED <<vencido, pag, ordem, pixVencido, mp, reembolso>>

\* fault: the update is not conditional on PAGO
MarcarEstornadoSempre(r) ==
  LET p == req[r].pedido
  IN /\ Em(r, "estorna")
     /\ pedido' = [pedido EXCEPT ![p] = "ESTORNADO"]
     /\ vendas' = [vendas EXCEPT ![p] = @ - Subtotal[p]]
     /\ Segue(r, Continua(req[r]))
     /\ UNCHANGED <<vencido, pag, ordem, pixVencido, downloads, mp, reembolso>>

MarcarEstornado(r) ==
  LET p == req[r].pedido
  IN /\ Em(r, "estorna")
     /\ IF pedido[p] = "PAGO"
        THEN /\ pedido' = [pedido EXCEPT ![p] = "ESTORNADO"]
             /\ pag' = [g \in Pg |-> IF g \in ComStatus(p, "APROVADO") THEN "ESTORNADO" ELSE pag[g]]
             /\ vendas' = [vendas EXCEPT ![p] = @ - Subtotal[p]]
        ELSE UNCHANGED <<pedido, pag, vendas>>
     /\ Segue(r, Continua(req[r]))
     /\ UNCHANGED <<vencido, ordem, pixVencido, downloads, mp, reembolso>>

-----------------------------------------------------------------------------
(* devolver: the newest approved payment is refunded; a selection without  *)
(* cost is only cancelled                                                  *)

Devolver(r, p) ==
  /\ Em(r, "livre")
  /\ pedido[p] = "PAGO"
  /\ \/ /\ Subtotal[p] = 0
        /\ Segue(r, [Livre EXCEPT !.pc = "estorna", !.pedido = p])
     \/ /\ Subtotal[p] > 0
        /\ \E g \in Pg :
             /\ MaisNovo(g, ComStatus(p, "APROVADO"))
             /\ Segue(r, [Livre EXCEPT !.pc = "devolve_mp", !.pedido = p, !.pg = g])
  /\ UNCHANGED <<banco, mp, reembolso>>

\* reembolsar: MP answers a key it has seen with the answer it gave before
DevolverNoMp(r) ==
  LET p == req[r].pedido
      g == req[r].pg
  IN /\ Em(r, "devolve_mp")
     /\ \/ /\ p \in reembolso
           /\ UNCHANGED <<mp, reembolso>>
        \/ /\ p \notin reembolso
           /\ mp[g].status = "approved"
           /\ mp' = [mp EXCEPT ![g].status = "refunded"]
           /\ reembolso' = reembolso \cup {p}
     /\ Segue(r, [req[r] EXCEPT !.pc = "estorna"])
     /\ UNCHANGED banco

-----------------------------------------------------------------------------
(* consultar: the order's page, on its own or at the end of a payment      *)

AbrirPedido(r, p) ==
  /\ Em(r, "livre")
  /\ pedido[p] # "INEXISTENTE"
  /\ Segue(r, Consultando(p))
  /\ UNCHANGED <<banco, mp, reembolso>>

\* the newest pending payment, older than 10 s, is asked about again
Reconsultar(r) ==
  LET p == req[r].pedido
  IN /\ Em(r, "consulta")
     /\ pedido[p] = "AGUARDANDO_PAGAMENTO"
     /\ \E g \in Pg :
          /\ MaisNovo(g, ComStatus(p, "PENDENTE"))
          /\ Segue(r, [Livre EXCEPT !.pc = "consulta_mp", !.pedido = p, !.pg = g,
                         !.volta = "recarrega", !.expira = DeveExpirar(p)])
     /\ UNCHANGED <<banco, mp, reembolso>>

\* nothing to ask, or asked less than 10 s ago
Consultar(r) ==
  /\ Em(r, "consulta")
  /\ Segue(r, IF DeveExpirar(req[r].pedido) THEN Expirando(req[r].pedido) ELSE Livre)
  /\ UNCHANGED <<banco, mp, reembolso>>

\* an error while asking MP or applying its answer is swallowed: the first read decides
ErroNaReconsulta(r) ==
  /\ req[r].volta = "recarrega"
  /\ Em(r, "consulta_mp") \/ BancoFalha
  /\ Segue(r, IF req[r].expira THEN Expirando(req[r].pedido) ELSE Livre)
  /\ UNCHANGED <<banco, mp, reembolso>>

Recarregar(r) ==
  /\ Em(r, "recarrega")
  /\ Segue(r, IF DeveExpirar(req[r].pedido) THEN Expirando(req[r].pedido) ELSE Livre)
  /\ UNCHANGED <<banco, mp, reembolso>>

Expirar(r) ==
  /\ Em(r, "expira")
  /\ pedido' = [pedido EXCEPT ![req[r].pedido] = "EXPIRADO"]
  /\ Termina(r)
  /\ UNCHANGED <<vencido, pag, ordem, pixVencido, vendas, downloads, mp, reembolso>>

\* an exception or a restart: what the handler had not written is lost
Falhar(r) ==
  /\ ~Em(r, "livre")
  /\ Termina(r)
  /\ UNCHANGED <<banco, mp, reembolso>>

-----------------------------------------------------------------------------
(* The provider and the clock.  A Pix is paid with the code that only the   *)
(* local row shows; MP cancels it when it expires.                         *)

MpDecide(g) ==
  /\ \E st \in Desfechos :
       /\ \/ /\ mp[g].status = "pending"
             /\ \/ st = "approved" /\ (EhPix(g) => pag[g] # "INEXISTENTE")
                \/ st = "rejected" /\ ~EhPix(g)
                \/ st = "cancelled" /\ EhPix(g) /\ g \in pixVencido
          \/ mp[g].status = "approved" /\ st \in {"refunded", "charged_back"}
       /\ mp' = [mp EXCEPT ![g].status = st]
  /\ UNCHANGED <<banco, reembolso, req>>

VencerPedido(p) ==
  /\ pedido[p] \in {"ABERTO", "AGUARDANDO_PAGAMENTO"}
  /\ p \notin vencido
  /\ vencido' = vencido \cup {p}
  /\ UNCHANGED <<pedido, pag, ordem, pixVencido, vendas, downloads, mp, reembolso, req>>

VencerPix(g) ==
  /\ mp[g] # SemPagamento
  /\ EhPix(g)
  /\ g \notin pixVencido
  /\ pixVencido' = pixVencido \cup {g}
  /\ UNCHANGED <<pedido, vencido, pag, ordem, vendas, downloads, mp, reembolso, req>>

-----------------------------------------------------------------------------
Iniciar(r) ==
  \/ \E p \in Pedido :
       \/ CriarPedido(r, p)
       \/ PagarPix(r, p)
       \/ \E t \in Token : PagarCartao(r, p, t)
       \/ Devolver(r, p)
       \/ AbrirPedido(r, p)
  \/ \E g \in Pg : ReceberAviso(r, g)

Passo(r) ==
  \/ \E g \in Pg : PixCriaNoMp(r, g) \/ CartaoCriaNoMp(r, g)
  \/ PixGrava(r)
  \/ CartaoGrava(r)
  \/ CartaoAguarda(r)
  \/ PerguntaAoMp(r)
  \/ Aplicar(r)
  \/ Liberar(r)
  \/ MarcarEstornado(r)
  \/ DevolverNoMp(r)
  \/ Reconsultar(r)
  \/ Consultar(r)
  \/ Recarregar(r)
  \/ Expirar(r)

Ambiente ==
  \/ \E g \in Pg : MpDecide(g) \/ VencerPix(g)
  \/ \E p \in Pedido : VencerPedido(p)

Next ==
  \/ \E r \in Req : Iniciar(r) \/ Passo(r) \/ ErroNaReconsulta(r) \/ Falhar(r)
  \/ Ambiente

Spec == Init /\ [][Next]_vars
-----------------------------------------------------------------------------
(* Properties *)

\* Type invariant: the rows, MP's payments and the handlers hold values of their kind.
TypeOK ==
  /\ pedido \in [Pedido -> StatusPedido \cup {"INEXISTENTE"}]
  /\ vencido \subseteq Pedido
  /\ pag \in [Pg -> StatusPagamento \cup {"INEXISTENTE"}]
  /\ ordem \in [Pg -> Nat]
  /\ pixVencido \subseteq Pg
  /\ vendas \in [Pedido -> Int]
  /\ downloads \subseteq Pedido
  /\ mp \in [Pg -> [pedido : Pedido, chave : Chave, status : StatusMp] \cup {SemPagamento}]
  /\ reembolso \subseteq Pedido
  /\ req \in [Req -> Handler]

FoiAprovado(g) == mp[g].status \in {"approved", "refunded", "charged_back"}
Devolvido(g) == mp[g].status \in {"refunded", "charged_back"}
TemAprovado(p) == \E g \in Pg : mp[g].pedido = p /\ FoiAprovado(g)
TemDevolvido(p) == \E g \in Pg : mp[g].pedido = p /\ Devolvido(g)

\* The payment in a handler's hands is its order's; a status it read is one MP has reached;
\* before liberar the money has come, before marcarEstornado it has gone back.
Coerente(q) ==
  /\ IF q.pc = "livre" THEN q.volta = "livre" ELSE q.pedido \in Pedido
  /\ q.pc \in {"pix_mp", "cartao_mp"} => q.chave \in Chave
  /\ q.pc \in {"pix_grava", "cartao_grava", "cartao_aguarda", "aviso_mp", "consulta_mp",
              "aplica", "devolve_mp"} => q.pg \in Pg /\ mp[q.pg].pedido = q.pedido
  /\ q.pc \in {"pix_grava", "cartao_grava", "cartao_aguarda", "aplica"} =>
       /\ q.st \in StatusMp
       /\ q.st = "approved" => FoiAprovado(q.pg)
       /\ q.st \in {"refunded", "charged_back"} => Devolvido(q.pg)
  /\ q.pc = "libera" => Subtotal[q.pedido] = 0 \/ TemAprovado(q.pedido)
  /\ q.pc = "estorna" => Subtotal[q.pedido] = 0 \/ TemDevolvido(q.pedido)

\* What a handler in flight carries stays true while MP and the other handlers go on.
HandlersCoerentes == \A r \in Req : Coerente(req[r])

\* Every local row is the row of a payment MP made, and a refund key MP has seen is the
\* key of a refund it made.
RegistrosTemPagamento ==
  /\ \A g \in Pg : pag[g] # "INEXISTENTE" => mp[g].pedido \in Pedido
  /\ \A p \in reembolso : TemDevolvido(p)

\* Whatever the interleaving of cards, webhooks, reloads and crashes, an order is
\* PAGO only if MP approved a payment of this very order (or it costs nothing).
PagoTemAprovacao ==
  \A p \in Pedido : pedido[p] = "PAGO" /\ Subtotal[p] > 0 =>
     TemAprovado(p)

\* An order is ESTORNADO only if MP has given the money of one of its payments back:
\* devolver marks it after the refund, aplicar after a status that says so.
EstornadoTemDevolucao ==
  \A p \in Pedido : pedido[p] = "ESTORNADO" /\ Subtotal[p] > 0 =>
     TemDevolvido(p)

\* The cached total of the gallery never falls below what its paid orders add up to
\* (nor below zero), however liberar and marcarEstornado race.
TotalCobrePagos ==
  \A p \in Pedido : vendas[p] >= IF pedido[p] = "PAGO" THEN Subtotal[p] ELSE 0

\* No interleaving, crash or swallowed error makes the shop say what the money does not: photos
\* without an approval, a return without a refund, a total below the orders that are paid.
DinheiroConfere == PagoTemAprovacao /\ EstornadoTemDevolucao /\ TotalCobrePagos

\* consultar expires an order only when no payment of it can still be made: an EXPIRADO
\* order shows no Pix that can be paid and waits for no card (one handler at a time).
ExpiradoSemPendente ==
  \A p \in Pedido : pedido[p] = "EXPIRADO" =>
     \A g \in ComStatus(p, "PENDENTE") : EhPix(g) /\ g \in pixVencido

\* A Pix that can still be paid; an order on which no card was tried.
Pagavel(g) == pag[g] = "PENDENTE" /\ mp[g].status = "pending" /\ EhPix(g) /\ g \notin pixVencido
SoPix(p) == \A g \in Pg : mp[g].pedido = p => EhPix(g)

\* The idempotency key of criarPagamento against double clicks, reloads and retries: while no
\* card is tried on an order, no interleaving leaves two Pix codes of it that can both be paid.
\* (The key counts the rows of cards too: one stored between two clicks gives each its own.)
UmPixAberto ==
  \A p \in Pedido : SoPix(p) =>
     \A g, h \in Pagamentos(p) : Pagavel(g) /\ Pagavel(h) => g = h

\* liberar's total: an order counts at most once in the gallery's sales.
ContadoUmaVez == \A p \in Pedido : vendas[p] <= Subtotal[p]
-----------------------------------------------------------------------------
(* The order book that the handlers implement *)

Situacoes == [p \in Pedido |-> CASE pedido[p] = "PAGO"      -> "paga"
                                [] pedido[p] = "ESTORNADO" -> "devolvida"
                                [] OTHER                   -> "nao_paga"]
ComAprovado == {p \in Pedido : TemAprovado(p)}
ComDevolvido == {p \in Pedido : TemDevolvido(p)}

Livro == INSTANCE LivroDeVendas WITH
  Custo <- Subtotal, situacao <- Situacoes, recebido <- ComAprovado, devolvido <- ComDevolvido,
  contado <- vendas, entregue <- downloads

\* One handler at a time, whatever MP does and wherever handlers die, the sale is the
\* order book's: money, then photos and total; refund, then return.  The total is exactly what
\* the paid orders add up to, and neither a second attempt to pay nor the expiry of an old Pix
\* takes the photos of a paid order back.
CumpreLivro == Livro!Spec

\* With handlers interleaved it is still the order book's, but for stale writes of the
\* status: photos never come before the money, nor a return before the refund.
CumpreLivroConcorrente == Livro!SpecConcorrente
=============================================================================
