------------------------------ MODULE Webhooks ------------------------------
(***************************************************************************)
(* How MP's notifications reach Vendas: MercadoPagoWebhookService.receber  *)
(* (modulos/pagamentos/webhooks) keeps one row per notification and runs   *)
(* processarAviso at once; MP sends a notification again until it is       *)
(* answered 200.  Vendas lets a notification come at any moment; here it   *)
(* comes because a payment changed, through a delivery that may be         *)
(* repeated, overlap another one, or fail.                                 *)
(*                                                                         *)
(* Only notifications of type `payment' are here; the others go to the     *)
(* subscriptions or are only registered.  A payment MP knows nothing about *)
(* (404, given up after 2 h) does not occur: the id comes from MP.         *)
(***************************************************************************)
EXTENDS Vendas

CONSTANTS
  Hook,       \* the slots of Req that serve webhook deliveries
  Falham,     \* the slots of Req whose handler may die or fail
  MaxFalhas,  \* bound: how many times that happens, lost answers included
  Paralelo    \* whether MP may repeat a notification whose delivery is running

ASSUME HookAssumption == Hook \subseteq Req /\ Falham \subseteq Req
ASSUME FalhasAssumption == MaxFalhas \in Nat /\ Paralelo \in BOOLEAN

VARIABLES
  avisos,    \* the notifications MP has not seen answered with 200
  registro,  \* webhooks_recebidos: "ausente", "recebido", "processado" (processadoEm)
  entrega,   \* the delivery each Hook slot is serving
  falhas     \* failures left

varsWebhook == <<avisos, registro, entrega, falhas>>
todas == <<vars, varsWebhook>>

Aviso == Pg \X StatusMp
SemEntrega == [fase |-> "livre", aviso |-> Nenhum]
Fase == {"livre", "cria", "processa", "vendas", "marca"}

InitWebhooks ==
  /\ Init
  /\ avisos = {}
  /\ registro = [a \in Aviso |-> "ausente"]
  /\ entrega = [h \in Hook |-> SemEntrega]
  /\ falhas = MaxFalhas

-----------------------------------------------------------------------------
NaFase(h, fase) == entrega[h].fase = fase
Passa(h, fase) == entrega' = [entrega EXCEPT ![h].fase = fase]
Encerra(h) == entrega' = [entrega EXCEPT ![h] = SemEntrega]

\* MP notifies the creation and every change of a payment
MpAvisa == avisos' = avisos \cup {<<g, mp'[g].status>> : g \in {h \in Pg : mp'[h] # mp[h]}}

\* a 200: MP stops sending
Responde200(h) == avisos' = avisos \ {entrega[h].aviso} /\ Encerra(h)

Entregar(h, a) ==
  /\ NaFase(h, "livre")
  /\ a \in avisos
  /\ Paralelo \/ \A k \in Hook : entrega[k].aviso # a
  /\ IF registro[a] = "processado"
     THEN avisos' = avisos \ {a} /\ UNCHANGED entrega
     ELSE /\ entrega' = [entrega EXCEPT ![h] =
                [fase |-> IF registro[a] = "ausente" THEN "cria" ELSE "processa", aviso |-> a]]
          /\ UNCHANGED avisos
  /\ UNCHANGED <<vars, registro, falhas>>

\* fault: the row is created as already processed
CriarProcessado(h) ==
  /\ NaFase(h, "cria")
  /\ registro' = [registro EXCEPT ![entrega[h].aviso] = "processado"]
  /\ Passa(h, "processa")
  /\ UNCHANGED <<vars, avisos, falhas>>

\* the unique (provedor, eventoRef): the second of two deliveries answers `repetido'
Criar(h) ==
  LET a == entrega[h].aviso
  IN /\ NaFase(h, "cria")
     /\ IF registro[a] = "ausente"
        THEN /\ registro' = [registro EXCEPT ![a] = "recebido"]
             /\ Passa(h, "processa")
             /\ UNCHANGED avisos
        ELSE /\ Responde200(h)
             /\ UNCHANGED registro
     /\ UNCHANGED <<vars, falhas>>

\* fault: a failure in processar is answered 200 like a success
FalharComo200(h) ==
  /\ h \in Falham
  /\ falhas > 0
  /\ falhas' = falhas - 1
  /\ ~NaFase(h, "livre")
  /\ IF Em(h, "livre") THEN UNCHANGED vars ELSE Falhar(h)
  /\ Responde200(h)
  /\ UNCHANGED registro

\* processarAviso: a payment without a local row is only registered
Processar(h) ==
  LET g == entrega[h].aviso[1]
  IN /\ NaFase(h, "processa")
     /\ IF pag[g] # "INEXISTENTE"
        THEN ReceberAviso(h, g) /\ Passa(h, "vendas")
        ELSE Passa(h, "marca") /\ UNCHANGED vars
     /\ UNCHANGED <<avisos, registro, falhas>>

\* fault: a notification that changed nothing is answered without processadoEm
MarcarSoVenda(h) ==
  /\ NaFase(h, "marca") \/ (NaFase(h, "vendas") /\ Em(h, "livre"))
  /\ registro' = IF NaFase(h, "marca") THEN registro
                 ELSE [registro EXCEPT ![entrega[h].aviso] = "processado"]
  /\ Responde200(h)
  /\ UNCHANGED <<vars, falhas>>

\* processadoEm; the answer itself may be lost
Marcar(h) ==
  /\ NaFase(h, "marca") \/ (NaFase(h, "vendas") /\ Em(h, "livre"))
  /\ registro' = [registro EXCEPT ![entrega[h].aviso] = "processado"]
  /\ \/ Responde200(h) /\ UNCHANGED falhas
     \/ Encerra(h) /\ falhas > 0 /\ falhas' = falhas - 1 /\ UNCHANGED avisos
  /\ UNCHANGED vars

\* an error (stored, answered 500) or a restart: MP will send the notification again
FalharEntrega(h) ==
  /\ h \in Falham
  /\ falhas > 0
  /\ falhas' = falhas - 1
  /\ ~NaFase(h, "livre")
  /\ IF Em(h, "livre") THEN UNCHANGED vars ELSE Falhar(h)
  /\ Encerra(h)
  /\ UNCHANGED <<avisos, registro>>

-----------------------------------------------------------------------------
(* The handlers of Vendas that are not deliveries, MP and the clock *)

PassoVendas(r) == Passo(r) /\ MpAvisa /\ UNCHANGED <<registro, entrega, falhas>>

IniciarVendas(r) ==
  /\ r \notin Hook
  /\ \E p \in Pedido :
       \/ CriarPedido(r, p)
       \/ PagarPix(r, p)
       \/ \E t \in Token : PagarCartao(r, p, t)
       \/ Devolver(r, p)
       \/ AbrirPedido(r, p)
  /\ UNCHANGED varsWebhook

FalharVendas(r) ==
  /\ r \in Falham \ Hook
  /\ falhas > 0
  /\ falhas' = falhas - 1
  /\ Falhar(r) \/ ErroNaReconsulta(r)
  /\ UNCHANGED <<avisos, registro, entrega>>

\* criarPagamento or reembolsar throws: MP refuses, or does not answer
MpRecusa(r) ==
  /\ req[r].pc \in {"pix_mp", "cartao_mp", "devolve_mp"}
  /\ Falhar(r)
  /\ UNCHANGED varsWebhook

AmbienteVendas == Ambiente /\ MpAvisa /\ UNCHANGED <<registro, entrega, falhas>>

Servir(h) == Criar(h) \/ Processar(h) \/ Marcar(h)

NextWebhooks ==
  \/ \E h \in Hook : (\E a \in Aviso : Entregar(h, a)) \/ Servir(h) \/ FalharEntrega(h)
  \/ \E r \in Req : IniciarVendas(r) \/ PassoVendas(r) \/ MpRecusa(r) \/ FalharVendas(r)
  \/ AmbienteVendas

\* A handler that started goes on (the event loop); MP keeps sending what was not answered;
\* the order's page, open in the browser, asks every few seconds, and one time in three
\* the last question to MP is more than 10 s old.
JusticaWebhooks ==
  /\ \A r \in Req : WF_todas(PassoVendas(r) \/ MpRecusa(r))
  /\ \A h \in Hook : WF_todas(Servir(h))
  /\ \A a \in Aviso : WF_todas(\E h \in Hook : Entregar(h, a))
  /\ \A r \in Req \ Hook :
       /\ SF_todas(\E p \in Pedido : AbrirPedido(r, p) /\ UNCHANGED varsWebhook)
       /\ SF_todas(Reconsultar(r) /\ UNCHANGED varsWebhook)

SpecWebhooks == InitWebhooks /\ [][NextWebhooks]_todas /\ JusticaWebhooks
-----------------------------------------------------------------------------
(* Properties *)

\* Type invariant of the webhook side.
TypeOKWebhooks ==
  /\ TypeOK
  /\ avisos \subseteq Aviso
  /\ registro \in [Aviso -> {"ausente", "recebido", "processado"}]
  /\ entrega \in [Hook -> [fase : Fase, aviso : Aviso \cup {Nenhum}]]
  /\ falhas \in 0..MaxFalhas

\* An approved payment is never forgotten: whatever is lost, repeated or late between MP,
\* the webhook, the card's own answer and the page, liberar runs for its order (its downloads
\* exist), or the money goes back.
AprovadoLibera ==
  \A g \in Pg : mp[g].status = "approved" ~>
    mp[g].status # "approved" \/ \E p \in downloads : mp[g].pedido = p

\* A notification is marked processed only after its effect: once the approval of a Pix is,
\* however many deliveries of it raced or died, the order's downloads exist (or MP has given
\* the money back since).
ProcessadoLibera ==
  \A g \in Pg : registro[<<g, "approved">>] = "processado" /\ EhPix(g) =>
    mp[g].status # "approved" \/ mp[g].pedido \in downloads

\* Every notification MP sends is processed in the end, whatever fails on the way.
AvisoProcessado == \A a \in Aviso : a \in avisos ~> registro[a] = "processado"
=============================================================================
