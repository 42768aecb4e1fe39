-------------------------------- MODULE Cartoes --------------------------------
(***************************************************************************)
(* The card of a subscription: the preapproval that Mercado Pago (MP)      *)
(* keeps for a request of a plan, and the id of it that the request keeps. *)
(* The two are written apart, and MP's notifications find the request by   *)
(* the id or, for a preapproval, by its external_reference.                *)
(*                                                                         *)
(* One account.  Dates, invoices and the licence are Cobranca's: here a    *)
(* request is paid once a charge is registered on it, and MP approves one  *)
(* charge per preapproval.  Left out: the administrator, reativar, e-mails *)
(* and audit rows (they never throw).                                      *)
(***************************************************************************)
EXTENDS Integers, FiniteSets

CONSTANTS
  ReqCart,     \* request slots
  MaxPedidos,  \* bound: requests of a plan
  MaxPre       \* bound: preapprovals

ASSUME CartoesAssumption == MaxPedidos \in Nat /\ MaxPre \in Nat

Pedidos == 1 .. MaxPedidos
Pre == 1 .. MaxPre

VARIABLES
  plano,        \* Assinatura.status of each request, "INEXISTENTE" before it
  idMp,         \* Assinatura.provedorAssinaturaId, 0 for none
  agendadas,    \* requests with cancelaNoFimDoPeriodo
  pre,          \* MP's preapprovals: external_reference and status
  cobradas,     \* preapprovals MP has charged, with an approved payment
  registrada,   \* the request whose invoice a charge paid, 0 for none
  avisosPre,    \* preapprovals whose last change MP has no 200 for
  avisosCob,    \* charges MP has no 200 for
  perdidas,     \* charges answered as not ours while their request was living
  reqCart       \* the handlers in flight

linhasCart == <<plano, idMp, agendadas, registrada, perdidas>>
mpCart == <<pre, cobradas, avisosPre, avisosCob>>
varsCartoes == <<linhasCart, mpCart, reqCart>>

StatusPre == {"nenhum", "authorized", "paused", "cancelled"}

\* a handler: where it is, its request, the preapproval in its hands (or to be let go), whether
\* the request is new, and what it read: MP's status, paid, cancellation asked for, id missing
HandlerCart == [pc : {"livre", "pede", "solta", "cartao", "grava", "desiste", "cancela", "pausa",
                      "agenda", "leEspelho", "espelha", "gravaId", "leCobranca", "registra"},
                a : 0 .. MaxPedidos, g : 0 .. MaxPre, novo : BOOLEAN, st : StatusPre,
                pago : BOOLEAN, agendada : BOOLEAN, semId : BOOLEAN]

LivreCart == [pc |-> "livre", a |-> 0, g |-> 0, novo |-> FALSE, st |-> "nenhum",
              pago |-> FALSE, agendada |-> FALSE, semId |-> FALSE]

InitCartoes ==
  /\ plano = [a \in Pedidos |-> "INEXISTENTE"]
  /\ idMp = [a \in Pedidos |-> 0]
  /\ agendadas = {}
  /\ pre = [g \in Pre |-> [ref |-> 0, status |-> "nenhum"]]
  /\ cobradas = {}
  /\ registrada = [g \in Pre |-> 0]
  /\ avisosPre = {} /\ avisosCob = {}
  /\ perdidas = {}
  /\ reqCart = [r \in ReqCart |-> LivreCart]

-----------------------------------------------------------------------------
EmCart(r, pc) == reqCart[r].pc = pc
SegueCart(r, q) == reqCart' = [reqCart EXCEPT ![r] = q]
SoLeCart(r, q) == SegueCart(r, q) /\ UNCHANGED <<linhasCart, mpCart>>

Vivos == {a \in Pedidos : plano[a] = "ATIVA"}
Pago(a) == \E g \in Pre : registrada[g] = a

\* assinaturaAtivaDaConta
PedidoAtual(a) == a \in Vivos /\ \A b \in Vivos : b <= a

\* the request an id belongs to, 0 for none
DoId(g) == IF \E a \in Pedidos : idMp[a] = g THEN CHOOSE a \in Pedidos : idMp[a] = g ELSE 0

\* MP changes a preapproval and notifies it; a cancelled one changes no more
MudaPre(g, st) ==
  /\ pre[g].status \notin {"cancelled", st}
  /\ pre' = [pre EXCEPT ![g].status = st]
  /\ avisosPre' = avisosPre \cup {g}
  /\ UNCHANGED <<cobradas, avisosCob>>

-----------------------------------------------------------------------------
(* assinar *)

\* the first request, another plan, or the same plan with another card; refused once paid
AbrirAssinar(r) ==
  /\ EmCart(r, "livre")
  /\ \/ Vivos = {} /\ SoLeCart(r, [LivreCart EXCEPT !.pc = "pede"])
     \/ \E a \in Vivos :
          /\ PedidoAtual(a) /\ ~Pago(a)
          /\ \/ SoLeCart(r, [LivreCart EXCEPT !.pc = "pede", !.g = idMp[a]])
             \/ SoLeCart(r, [LivreCart EXCEPT !.pc = IF idMp[a] = 0 THEN "cartao" ELSE "solta",
                               !.a = a, !.g = idMp[a]])

\* fault: the request that is replaced keeps its card
PedirSemSoltar(r) ==
  /\ EmCart(r, "pede")
  /\ \E a \in Pedidos :
       /\ plano[a] = "INEXISTENTE" /\ \A b \in 1 .. (a - 1) : plano[b] # "INEXISTENTE"
       /\ plano' = [b \in Pedidos |-> IF b = a THEN "ATIVA"
                                      ELSE IF b \in Vivos /\ ~Pago(b) THEN "CANCELADA" ELSE plano[b]]
       /\ SegueCart(r, [LivreCart EXCEPT !.pc = "cartao", !.a = a, !.novo = TRUE])
  /\ UNCHANGED <<idMp, agendadas, registrada, perdidas, mpCart>>

\* criarAssinaturaAguardandoPagamento
Pedir(r) ==
  /\ EmCart(r, "pede")
  /\ \E a \in Pedidos :
       /\ plano[a] = "INEXISTENTE" /\ \A b \in 1 .. (a - 1) : plano[b] # "INEXISTENTE"
       /\ plano' = [b \in Pedidos |-> IF b = a THEN "ATIVA"
                                      ELSE IF b \in Vivos /\ ~Pago(b) THEN "CANCELADA" ELSE plano[b]]
       /\ SegueCart(r, [reqCart[r] EXCEPT !.pc = IF reqCart[r].g = 0 THEN "cartao" ELSE "solta",
                          !.a = a, !.novo = TRUE])
  /\ UNCHANGED <<idMp, agendadas, registrada, perdidas, mpCart>>

\* cancelarNoProvedor: cancelled already is an error, swallowed as any other
Soltar(r) ==
  /\ EmCart(r, "solta")
  /\ MudaPre(reqCart[r].g, "cancelled") \/ (pre[reqCart[r].g].status = "cancelled" /\ UNCHANGED mpCart)
  /\ SegueCart(r, [reqCart[r] EXCEPT !.pc = "cartao", !.g = 0])
  /\ UNCHANGED linhasCart

SoltarEmVao(r) ==
  /\ EmCart(r, "solta")
  /\ SoLeCart(r, [reqCart[r] EXCEPT !.pc = "cartao", !.g = 0])

CriaPre(a, g) ==
  /\ pre[g].status = "nenhum" /\ \A h \in 1 .. (g - 1) : pre[h].status # "nenhum"
  /\ pre' = [pre EXCEPT ![g] = [ref |-> a, status |-> "authorized"]]
  /\ avisosPre' = avisosPre \cup {g}
  /\ UNCHANGED <<cobradas, avisosCob>>

\* a card refused at registration leaves no new request behind
DepoisDaRecusa(r) ==
  SegueCart(r, IF reqCart[r].novo THEN [reqCart[r] EXCEPT !.pc = "desiste"] ELSE LivreCart)

\* assinarComCartao: criarAssinatura
CriarNoMp(r) ==
  /\ EmCart(r, "cartao")
  /\ \/ \E g \in Pre : /\ CriaPre(reqCart[r].a, g)
                       /\ SegueCart(r, [reqCart[r] EXCEPT !.pc = "grava", !.g = g])
     \/ DepoisDaRecusa(r) /\ UNCHANGED mpCart
  /\ UNCHANGED linhasCart

\* MP made it and the answer was lost: a refusal, for the handler
CriarSemResposta(r) ==
  /\ EmCart(r, "cartao")
  /\ \E g \in Pre : CriaPre(reqCart[r].a, g)
  /\ DepoisDaRecusa(r)
  /\ UNCHANGED linhasCart

\* assinarComCartao: the transaction that saves the id
Gravar(r) ==
  /\ EmCart(r, "grava")
  /\ idMp' = [idMp EXCEPT ![reqCart[r].a] = reqCart[r].g]
  /\ SegueCart(r, LivreCart)
  /\ UNCHANGED <<plano, agendadas, registrada, perdidas, mpCart>>

\* cancelarPedidoNaoPago
DesistirDoPedido(r) ==
  /\ EmCart(r, "desiste")
  /\ plano' = [plano EXCEPT ![reqCart[r].a] = "CANCELADA"]
  /\ SegueCart(r, LivreCart)
  /\ UNCHANGED <<idMp, agendadas, registrada, perdidas, mpCart>>

-----------------------------------------------------------------------------
(* cancelar, of the panel: MP first, then the rows *)

AbrirDesistencia(r) ==
  /\ EmCart(r, "livre")
  /\ \E a \in Vivos :
       /\ PedidoAtual(a) /\ a \notin agendadas
       /\ SoLeCart(r, [LivreCart EXCEPT !.a = a, !.g = idMp[a],
            !.pc = IF idMp[a] = 0 THEN "agenda" ELSE IF Pago(a) THEN "pausa" ELSE "cancela"])

\* MP refuses to change a cancelled one, and the handler fails
PararNoMp(r) ==
  LET q == reqCart[r]
  IN /\ q.pc \in {"cancela", "pausa"}
     /\ \/ /\ MudaPre(q.g, IF q.pc = "cancela" THEN "cancelled" ELSE "paused")
           /\ SegueCart(r, [q EXCEPT !.pc = IF q.pc = "cancela" THEN "desiste" ELSE "agenda"])
        \/ /\ q.pc = "pausa" /\ pre[q.g].status = "paused"
           /\ SegueCart(r, [q EXCEPT !.pc = "agenda"]) /\ UNCHANGED mpCart
        \/ pre[q.g].status = "cancelled" /\ SegueCart(r, LivreCart) /\ UNCHANGED mpCart
     /\ UNCHANGED linhasCart

\* cancelarNoFimDoPeriodo
AgendarFim(r) ==
  /\ EmCart(r, "agenda")
  /\ agendadas' = agendadas \cup {reqCart[r].a}
  /\ SegueCart(r, LivreCart)
  /\ UNCHANGED <<plano, idMp, registrada, perdidas, mpCart>>

-----------------------------------------------------------------------------
(* processarAssinatura *)

\* obterAssinatura
AbrirEspelho(r, g) ==
  /\ EmCart(r, "livre")
  /\ g \in avisosPre
  /\ SoLeCart(r, [LivreCart EXCEPT !.pc = "leEspelho", !.g = g, !.st = pre[g].status])

\* 200: the notification is over, unless the preapproval changed after it was read
RespondePre(q) ==
  avisosPre' = IF pre[q.g].status = q.st THEN avisosPre \ {q.g} ELSE avisosPre

\* by the id, or by the external_reference when the id is not saved yet
LerEspelhoDe(r, a) ==
  LET q == reqCart[r]
  IN /\ EmCart(r, "leEspelho")
     /\ IF a # 0 /\ plano[a] = "ATIVA"
        THEN /\ SegueCart(r, [q EXCEPT !.pc = "espelha", !.a = a, !.pago = Pago(a),
                                !.agendada = a \in agendadas, !.semId = idMp[a] = 0])
             /\ UNCHANGED avisosPre
        ELSE SegueCart(r, LivreCart) /\ RespondePre(q)
     /\ UNCHANGED <<linhasCart, pre, cobradas, avisosCob>>

\* fault: only by the id
LerEspelhoSoPorId(r) == LerEspelhoDe(r, DoId(reqCart[r].g))

LerEspelho(r) ==
  LET g == reqCart[r].g
  IN LerEspelhoDe(r, IF DoId(g) = 0 /\ g # 0 THEN pre[g].ref ELSE DoId(g))

\* never paid: it dies; paid: it will not renew, or renews again
Espelhar(r) ==
  LET q == reqCart[r]
      morre == q.st = "cancelled" /\ ~q.pago
  IN /\ EmCart(r, "espelha")
     /\ plano' = IF morre THEN [plano EXCEPT ![q.a] = "CANCELADA"] ELSE plano
     /\ agendadas' = CASE q.st \in {"cancelled", "paused"} /\ ~morre -> agendadas \cup {q.a}
                       [] q.st = "authorized" /\ q.agendada -> agendadas \ {q.a}
                       [] OTHER -> agendadas
     /\ IF q.semId THEN SegueCart(r, [q EXCEPT !.pc = "gravaId"]) /\ UNCHANGED avisosPre
        ELSE SegueCart(r, LivreCart) /\ RespondePre(q)
     /\ UNCHANGED <<idMp, registrada, perdidas, pre, cobradas, avisosCob>>

GravarId(r) ==
  /\ EmCart(r, "gravaId")
  /\ idMp' = [idMp EXCEPT ![reqCart[r].a] = reqCart[r].g]
  /\ RespondePre(reqCart[r])
  /\ SegueCart(r, LivreCart)
  /\ UNCHANGED <<plano, agendadas, registrada, perdidas, pre, cobradas, avisosCob>>

-----------------------------------------------------------------------------
(* processarCobranca: only by the id *)

AbrirCobranca(r, g) ==
  /\ EmCart(r, "livre")
  /\ g \in avisosCob
  /\ SoLeCart(r, [LivreCart EXCEPT !.pc = "leCobranca", !.g = g])

\* not ours, registered before, or over: answered
LerCobranca(r) ==
  LET g == reqCart[r].g
      a == DoId(g)
  IN /\ EmCart(r, "leCobranca")
     /\ IF a # 0 /\ registrada[g] = 0 /\ plano[a] = "ATIVA"
        THEN /\ SegueCart(r, [reqCart[r] EXCEPT !.pc = "registra", !.a = a])
             /\ UNCHANGED <<avisosCob, perdidas>>
        ELSE /\ SegueCart(r, LivreCart)
             /\ avisosCob' = avisosCob \ {g}
             /\ perdidas' = IF a = 0 /\ pre[g].ref \in Vivos THEN perdidas \cup {g} ELSE perdidas
     /\ UNCHANGED <<plano, idMp, agendadas, registrada, pre, cobradas, avisosPre>>

\* registrarPagamento: over by now is an exception, and MP sends the notification again
RegistrarCobranca(r) ==
  LET q == reqCart[r]
  IN /\ EmCart(r, "registra")
     /\ IF plano[q.a] = "ATIVA"
        THEN /\ registrada' = [registrada EXCEPT ![q.g] = q.a]
             /\ avisosCob' = avisosCob \ {q.g}
        ELSE UNCHANGED <<registrada, avisosCob>>
     /\ SegueCart(r, LivreCart)
     /\ UNCHANGED <<plano, idMp, agendadas, perdidas, pre, cobradas, avisosPre>>

-----------------------------------------------------------------------------
(* MP charges the card; the photographer cancels or pauses in MP's own site *)

MpCobra(g) ==
  /\ pre[g].status = "authorized" /\ g \notin cobradas
  /\ cobradas' = cobradas \cup {g}
  /\ avisosCob' = avisosCob \cup {g}
  /\ UNCHANGED <<linhasCart, pre, avisosPre, reqCart>>

MpMuda(g) ==
  /\ pre[g].status # "nenhum"
  /\ \E st \in StatusPre \ {"nenhum"} : MudaPre(g, st)
  /\ UNCHANGED <<linhasCart, reqCart>>

FalhaCartoes(r) ==
  \/ SoltarEmVao(r)
  \/ CriarSemResposta(r)
  \/ ~EmCart(r, "livre") /\ SoLeCart(r, LivreCart)

PassoCartoes(r) ==
  \/ AbrirAssinar(r) \/ Pedir(r) \/ Soltar(r) \/ CriarNoMp(r) \/ Gravar(r) \/ DesistirDoPedido(r)
  \/ AbrirDesistencia(r) \/ PararNoMp(r) \/ AgendarFim(r)
  \/ \E g \in Pre : AbrirEspelho(r, g) \/ AbrirCobranca(r, g)
  \/ LerEspelho(r) \/ Espelhar(r) \/ GravarId(r)
  \/ LerCobranca(r) \/ RegistrarCobranca(r)

MpCartoes == \E g \in Pre : MpCobra(g) \/ MpMuda(g)

-----------------------------------------------------------------------------
\* Type invariant.
TypeOKCartoes ==
  /\ plano \in [Pedidos -> {"INEXISTENTE", "ATIVA", "CANCELADA"}]
  /\ idMp \in [Pedidos -> 0 .. MaxPre]
  /\ agendadas \subseteq Pedidos
  /\ pre \in [Pre -> [ref : 0 .. MaxPedidos, status : StatusPre]]
  /\ cobradas \subseteq Pre /\ avisosPre \subseteq Pre /\ avisosCob \subseteq Pre
  /\ registrada \in [Pre -> 0 .. MaxPedidos]
  /\ perdidas \subseteq Pre
  /\ reqCart \in [ReqCart -> HandlerCart]

ParadosCart == \A r \in ReqCart : EmCart(r, "livre")
Autorizadas == {g \in Pre : pre[g].status = "authorized"}

\* a second card was registered on one request
Trocado(a) == \E g, h \in Pre : g # h /\ pre[g].ref = a /\ pre[h].ref = a
=============================================================================
