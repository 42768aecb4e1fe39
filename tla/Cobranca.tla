------------------------------ MODULE Cobranca ------------------------------
(***************************************************************************)
(* The photographers' subscriptions and their charges: the administrator   *)
(* creates, marks paid and cancels; the photographer cancels at the end of *)
(* the period and comes back; Mercado Pago (MP) charges the card every     *)
(* period and notifies; a daily routine marks what is overdue.  Handlers   *)
(* run in slots of Req and are cut at each await.                          *)
(*                                                                         *)
(* One account.  A card is registered once per subscription, in one step,  *)
(* and the steps inside the licence are those of Licencas: here licAte is  *)
(* until when the subscription is licensed.  Payments are dated on the day *)
(* they are registered.                                                    *)
(***************************************************************************)
EXTENDS Integers, FiniteSets

CONSTANTS
  MaxAssinaturas, MaxFaturas,  \* bounds: rows
  CobrancaMp,   \* charges MP may make
  Req,        \* request slots
  Operacoes,  \* which handlers may start
  Periodo,    \* days of a period
  UltimoDia,  \* bound: the last day
  Falha,      \* whether handlers may fail and the process restart
  Nenhuma     \* no value

ASSUME BoundsAssumption == MaxAssinaturas \in Nat /\ MaxFaturas \in Nat /\ UltimoDia \in Nat
ASSUME PeriodoAssumption == Periodo \in Nat
ASSUME FalhaAssumption == Falha \in BOOLEAN
ASSUME NenhumaAssumption == Nenhuma \notin Int /\ Nenhuma \notin CobrancaMp

Assinatura == 1 .. MaxAssinaturas
Fatura == 1 .. MaxFaturas

VARIABLES
  assin,     \* Assinatura: status, periodoAtualFim, cancelaNoFimDoPeriodo; mp is the status
             \* of its subscription at MP, "manual" without one
  fatura,    \* Fatura: status, assinaturaId, vencimento, provedorCobrancaId
  licAte,    \* Licenca.validaAte of the subscription, 0 when it has none active
  cobr,      \* MP's charges: subscription, whether approved, day
  pendente,  \* charges whose notification MP has no 200 for
  hoje,      \* today
  req        \* the handlers in flight

vars == <<assin, fatura, licAte, cobr, pendente, hoje, req>>
banco == <<assin, fatura, licAte>>
mercado == <<cobr, pendente>>

StatusAssinatura == {"INEXISTENTE", "ATIVA", "INADIMPLENTE", "CANCELADA"}
StatusFatura == {"INEXISTENTE", "PENDENTE", "PAGA", "VENCIDA", "CANCELADA"}
StatusPreapproval == {"manual", "authorized", "paused", "cancelled"}

Pc == {"livre", "criaAssin", "pede", "solta", "cartao", "confere", "cria", "abre", "registra", "renova", "vence", "para",
       "faturas", "encerra", "licenca", "agenda", "desiste", "retoma", "reativa", "espelhaLe",
       "espelha"}

\* a handler: where it is and goes after MP, its rows (velha: the subscription it replaces),
\* its charge, and what it read: the open invoices, the end of the period, whether the charge
\* was approved, a flag each handler explains, the status at MP
Handler == [pc : Pc, volta : Pc, a : Assinatura \cup {Nenhuma},
            velha : Assinatura \cup {Nenhuma}, f : Fatura \cup {Nenhuma},
            c : CobrancaMp \cup {Nenhuma}, abertas : SUBSET Fatura, fim : Nat,
            agendada : BOOLEAN, aprovada : BOOLEAN, sim : BOOLEAN, mp : StatusPreapproval]

Livre == [pc |-> "livre", volta |-> "livre", a |-> Nenhuma, velha |-> Nenhuma, f |-> Nenhuma,
          c |-> Nenhuma, abertas |-> {}, fim |-> 0, agendada |-> FALSE, aprovada |-> FALSE,
          sim |-> FALSE, mp |-> "manual"]

SemAssinatura == [status |-> "INEXISTENTE", fim |-> 0, agendada |-> FALSE, mp |-> "manual"]
SemFatura == [status |-> "INEXISTENTE", assin |-> Nenhuma, venc |-> 0, cobranca |-> Nenhuma]
SemCobranca == [assin |-> Nenhuma, aprovada |-> FALSE, dia |-> 0]

Init ==
  /\ assin = [a \in Assinatura |-> SemAssinatura]
  /\ fatura = [f \in Fatura |-> SemFatura]
  /\ licAte = [a \in Assinatura |-> 0]
  /\ cobr = [c \in CobrancaMp |-> SemCobranca]
  /\ pendente = {}
  /\ hoje = 0
  /\ req = [r \in Req |-> Livre]

-----------------------------------------------------------------------------
Em(r, pc) == req[r].pc = pc
Segue(r, q) == req' = [req EXCEPT ![r] = q]
Comeca(r, op) == Em(r, "livre") /\ op \in Operacoes

Viva(a) == assin[a].status \in {"ATIVA", "INADIMPLENTE"}
Vivas == {a \in Assinatura : Viva(a)}
Aberta(f) == fatura[f].status \in {"PENDENTE", "VENCIDA"}
AbertasDa(a) == {f \in Fatura : fatura[f].assin = a /\ Aberta(f)}
Paga(a) == \E f \in Fatura : fatura[f].assin = a /\ fatura[f].status = "PAGA"

\* the newest living subscription: assinaturaAtivaDaConta
MaisNova(a) == a \in Vivas /\ \A b \in Vivas : b <= a

\* the oldest open invoice of a, or Nenhuma
MaisAntiga(f, a) ==
  \/ f = Nenhuma /\ AbertasDa(a) = {}
  \/ f \in AbertasDa(a) /\ \A g \in AbertasDa(a) : fatura[f].venc <= fatura[g].venc

\* the rows that are created next
NovaFatura(f) ==
  fatura[f].status = "INEXISTENTE" /\ \A g \in 1 .. (f - 1) : fatura[g].status # "INEXISTENTE"
NovaAssinatura(a) ==
  assin[a].status = "INEXISTENTE" /\ \A b \in 1 .. (a - 1) : assin[b].status # "INEXISTENTE"

Pendente(a, venc) == [SemFatura EXCEPT !.status = "PENDENTE", !.assin = a, !.venc = venc]

\* the invoices of F become s, whatever they are
MudaFaturas(F, s) == [f \in Fatura |-> IF f \in F THEN [fatura[f] EXCEPT !.status = s] ELSE fatura[f]]

\* the period an invoice pays: from its date, or from today when that period is over
FimDoPeriodo(venc) == IF venc + Periodo <= hoje THEN hoje + Periodo ELSE venc + Periodo

-----------------------------------------------------------------------------
(* A subscription is born with its first invoice, and without a licence   *)

Nova == [SemAssinatura EXCEPT !.status = "ATIVA", !.fim = hoje + Periodo]

\* criar, of the administrator; sim: it is already paid
AbrirCriar(r) ==
  /\ Comeca(r, "criar")
  /\ Vivas = {}
  /\ \E jaPaga \in BOOLEAN : Segue(r, [Livre EXCEPT !.pc = "criaAssin", !.sim = jaPaga])
  /\ UNCHANGED <<banco, mercado, hoje>>

CriarAssinatura(r) ==
  /\ Em(r, "criaAssin")
  /\ \E a \in Assinatura, f \in Fatura :
       /\ NovaAssinatura(a) /\ NovaFatura(f)
       /\ assin' = [assin EXCEPT ![a] = Nova]
       /\ fatura' = [fatura EXCEPT ![f] = Pendente(a, hoje)]
       /\ Segue(r, IF req[r].sim THEN [Livre EXCEPT !.pc = "abre", !.a = a, !.f = f] ELSE Livre)
  /\ UNCHANGED <<licAte, mercado, hoje>>

\* assinar, of the photographer: refused once a subscription is paid; the same plan again
\* registers the card, another plan replaces the request
AbrirAssinar(r) ==
  /\ Comeca(r, "assinar")
  /\ \/ Vivas = {} /\ Segue(r, [Livre EXCEPT !.pc = "pede"])
     \/ \E a \in Vivas :
          /\ MaisNova(a) /\ ~Paga(a)
          /\ \/ Segue(r, [Livre EXCEPT !.pc = "pede",
                              !.velha = IF assin[a].mp = "manual" THEN Nenhuma ELSE a])
             \/ assin[a].mp = "manual" /\ Segue(r, [Livre EXCEPT !.pc = "cartao", !.a = a])
  /\ UNCHANGED <<banco, mercado, hoje>>

\* criarAssinaturaAguardandoPagamento
Pedir(r) ==
  LET S == {a \in Vivas : ~Paga(a)}
  IN /\ Em(r, "pede")
     /\ \E a \in Assinatura, f \in Fatura :
          /\ NovaAssinatura(a) /\ NovaFatura(f)
          /\ assin' = [b \in Assinatura |->
                         IF b = a THEN Nova
                         ELSE IF b \in S THEN [assin[b] EXCEPT !.status = "CANCELADA"] ELSE assin[b]]
          /\ fatura' = [MudaFaturas(UNION {AbertasDa(b) : b \in S}, "CANCELADA")
                          EXCEPT ![f] = Pendente(a, hoje)]
          /\ Segue(r, [req[r] EXCEPT !.pc = IF req[r].velha = Nenhuma THEN "cartao" ELSE "solta",
                         !.volta = "desiste", !.a = a])
     /\ UNCHANGED <<licAte, mercado, hoje>>

\* the replaced one is cancelled at MP; when that fails it stays there
SoltarNoMp(r) ==
  /\ Em(r, "solta")
  /\ \E s \in {"cancelled", assin[req[r].velha].mp} :
       assin' = [assin EXCEPT ![req[r].velha].mp = s]
  /\ Segue(r, [req[r] EXCEPT !.pc = "cartao", !.velha = Nenhuma])
  /\ UNCHANGED <<fatura, licAte, mercado, hoje>>

\* assinarComCartao: the card is registered, or refused and a new request given up
CadastrarCartao(r) ==
  LET q == req[r]
  IN /\ Em(r, "cartao")
     /\ \/ assin' = [assin EXCEPT ![q.a].mp = "authorized"] /\ Segue(r, Livre)
        \/ /\ UNCHANGED assin
           /\ Segue(r, IF q.volta = "desiste" THEN [q EXCEPT !.pc = "desiste"] ELSE Livre)
     /\ UNCHANGED <<fatura, licAte, mercado, hoje>>

-----------------------------------------------------------------------------
(* processarCobranca, registrarPagamento, marcarFaturaPaga *)

\* 200: the notification is over, unless the charge was approved after it was read
Responde(r) ==
  pendente' = IF \E c \in pendente : c = req[r].c /\ (cobr[c].aprovada => req[r].aprovada)
              THEN pendente \ {req[r].c} ELSE pendente

\* sim: the subscription is not over

LerCobranca(r, c) ==
  LET a == cobr[c].assin
  IN /\ Comeca(r, "cobranca")
     /\ a # Nenhuma
     /\ \E f \in Fatura \cup {Nenhuma} :
          /\ MaisAntiga(f, a)
          /\ Segue(r, [Livre EXCEPT !.pc = "confere", !.a = a, !.f = f, !.c = c,
                         !.fim = assin[a].fim, !.sim = Viva(a), !.aprovada = cobr[c].aprovada])
     /\ UNCHANGED <<banco, mercado, hoje>>

\* registered, over, or not approved: answered and nothing changes
Conferir(r) ==
  /\ Em(r, "confere")
  /\ IF req[r].sim /\ req[r].aprovada /\ \A f \in Fatura : fatura[f].cobranca # req[r].c
     THEN /\ Segue(r, [req[r] EXCEPT !.pc = IF req[r].f = Nenhuma THEN "cria" ELSE "abre"])
          /\ UNCHANGED pendente
     ELSE Segue(r, Livre) /\ Responde(r)
  /\ UNCHANGED <<banco, cobr, hoje>>

\* MP charged although nothing was open
CriarFatura(r) ==
  /\ Em(r, "cria")
  /\ \E f \in Fatura :
       /\ NovaFatura(f)
       /\ fatura' = [fatura EXCEPT ![f] = Pendente(req[r].a, req[r].fim)]
       /\ Segue(r, [req[r] EXCEPT !.pc = "abre", !.f = f])
  /\ UNCHANGED <<assin, licAte, mercado, hoje>>

\* registrarPagamento: the invoice, the subscription and the period it pays
LePagamento(f, q) ==
  LET a == fatura[f].assin
  IN [q EXCEPT !.pc = "registra", !.a = a, !.f = f, !.abertas = {}, !.fim = FimDoPeriodo(fatura[f].venc),
               !.agendada = assin[a].agendada]

\* not open, or over: an exception, and MP sends the notification again
AbrirFatura(r) ==
  /\ Em(r, "abre")
  /\ Segue(r, IF Aberta(req[r].f) /\ Viva(req[r].a) THEN LePagamento(req[r].f, req[r]) ELSE Livre)
  /\ UNCHANGED <<banco, mercado, hoje>>

MarcarFaturaPaga(r, f) ==
  /\ Comeca(r, "marcar")
  /\ Aberta(f) /\ Viva(fatura[f].assin)
  /\ Segue(r, LePagamento(f, Livre))
  /\ UNCHANGED <<banco, mercado, hoje>>

\* fault: a charge may be on two invoices
SemUnicidade(c, f) == TRUE

\* the unique index of provedorCobrancaId
Unica(c, f) == c = Nenhuma \/ \A g \in Fatura \ {f} : fatura[g].cobranca # c

\* the transaction: unconditional, on what was read; the next invoice is created unless the
\* cancellation was asked for
Registrar(r) ==
  LET q == req[r]
      paga == [fatura EXCEPT ![q.f].status = "PAGA",
                 ![q.f].cobranca = IF q.c = Nenhuma THEN @ ELSE q.c]
  IN /\ Em(r, "registra")
     /\ Unica(q.c, q.f)
     /\ IF q.agendada THEN fatura' = paga
        ELSE \E g \in Fatura : NovaFatura(g) /\ fatura' = [paga EXCEPT ![g] = Pendente(q.a, q.fim)]
     /\ assin' = [assin EXCEPT ![q.a].status = "ATIVA", ![q.a].fim = q.fim]
     /\ Segue(r, [q EXCEPT !.pc = "renova"])
     /\ UNCHANGED <<licAte, mercado, hoje>>

\* renovarPorAssinatura, then the answer: extends, or substitutes the account's licence
Renovar(r) ==
  LET q == req[r]
  IN /\ Em(r, "renova")
     /\ licAte' = [a \in Assinatura |->
                     IF a = q.a THEN q.fim ELSE IF licAte[q.a] = 0 THEN 0 ELSE licAte[a]]
     /\ Responde(r)
     /\ Segue(r, Livre)
     /\ UNCHANGED <<assin, fatura, cobr, hoje>>

-----------------------------------------------------------------------------
(* The daily routine: marcarFaturasVencidas *)

LerVencidas(r) ==
  LET F == {f \in Fatura : fatura[f].status = "PENDENTE" /\ fatura[f].venc < hoje}
  IN /\ Comeca(r, "rotina")
     /\ Segue(r, IF F = {} THEN Livre ELSE [Livre EXCEPT !.pc = "vence", !.abertas = F])
     /\ UNCHANGED <<banco, mercado, hoje>>

\* by id: whatever the invoices are by now
Vencer(r) ==
  LET F == req[r].abertas
      S == {fatura[f].assin : f \in F}
  IN /\ Em(r, "vence")
     /\ fatura' = MudaFaturas(F, "VENCIDA")
     /\ assin' = [a \in Assinatura |->
                    IF a \in S /\ assin[a].status = "ATIVA"
                    THEN [assin[a] EXCEPT !.status = "INADIMPLENTE"] ELSE assin[a]]
     /\ Segue(r, Livre)
     /\ UNCHANGED <<licAte, mercado, hoje>>

-----------------------------------------------------------------------------
(* Cancelling: administrator (now, or at the end of the period) and photographer *)

AbrirCancelar(r, a, agora) ==
  /\ Comeca(r, "cancelar")
  /\ Viva(a)
  /\ Segue(r, [Livre EXCEPT !.pc = IF assin[a].mp = "manual" THEN "faturas" ELSE "para",
                 !.volta = "faturas", !.a = a, !.sim = agora,
                 !.mp = IF agora THEN "cancelled" ELSE "paused"])
  /\ UNCHANGED <<banco, mercado, hoje>>

\* paid: it lasts until the end of the period; never paid: it ends
AbrirCancelarPainel(r, a) ==
  LET v == IF assin[a].mp = "manual" \/ Paga(a) THEN "agenda" ELSE "desiste"
  IN /\ Comeca(r, "painel")
     /\ MaisNova(a) /\ ~assin[a].agendada
     /\ Segue(r, [Livre EXCEPT !.pc = IF assin[a].mp = "manual" THEN v ELSE "para",
                    !.volta = v, !.a = a, !.mp = IF v = "agenda" THEN "paused" ELSE "cancelled"])
     /\ UNCHANGED <<banco, mercado, hoje>>

\* MP stops charging, or charges again; it changes nothing once cancelled (the handler fails)
MudarNoMp(r) ==
  LET q == req[r]
  IN /\ q.pc \in {"para", "retoma"}
     /\ IF assin[q.a].mp = "cancelled"
        THEN Segue(r, Livre) /\ UNCHANGED assin
        ELSE /\ assin' = [assin EXCEPT ![q.a].mp = q.mp]
             /\ Segue(r, [q EXCEPT !.pc = q.volta])
     /\ UNCHANGED <<fatura, licAte, mercado, hoje>>

\* fault: the paid invoices too
CancelarTodas(r) ==
  /\ Em(r, "faturas")
  /\ fatura' = MudaFaturas({f \in Fatura : fatura[f].assin = req[r].a}, "CANCELADA")
  /\ Segue(r, [req[r] EXCEPT !.pc = "encerra"])
  /\ UNCHANGED <<assin, licAte, mercado, hoje>>

CancelarFaturas(r) ==
  /\ Em(r, "faturas")
  /\ fatura' = MudaFaturas(AbertasDa(req[r].a), "CANCELADA")
  /\ Segue(r, [req[r] EXCEPT !.pc = "encerra"])
  /\ UNCHANGED <<assin, licAte, mercado, hoje>>

\* fault: the licence stays
EncerrarSemLicenca(r) ==
  LET q == req[r]
  IN /\ Em(r, "encerra")
     /\ assin' = IF q.sim THEN [assin EXCEPT ![q.a].status = "CANCELADA"]
                 ELSE [assin EXCEPT ![q.a].agendada = TRUE]
     /\ Segue(r, Livre)
     /\ UNCHANGED <<fatura, licAte, mercado, hoje>>

\* sim: now
Encerrar(r) ==
  LET q == req[r]
  IN /\ Em(r, "encerra")
     /\ assin' = IF q.sim THEN [assin EXCEPT ![q.a].status = "CANCELADA"]
                 ELSE [assin EXCEPT ![q.a].agendada = TRUE]
     /\ Segue(r, IF q.sim THEN [q EXCEPT !.pc = "licenca"] ELSE Livre)
     /\ UNCHANGED <<fatura, licAte, mercado, hoje>>

EncerrarLicenca(r) ==
  /\ Em(r, "licenca")
  /\ licAte' = [licAte EXCEPT ![req[r].a] = 0]
  /\ Segue(r, Livre)
  /\ UNCHANGED <<assin, fatura, mercado, hoje>>

\* fault: the open invoices stay
AgendarSemFaturas(r) ==
  /\ Em(r, "agenda")
  /\ assin' = [assin EXCEPT ![req[r].a].agendada = TRUE]
  /\ Segue(r, Livre)
  /\ UNCHANGED <<fatura, licAte, mercado, hoje>>

\* cancelarNoFimDoPeriodo
Agendar(r) ==
  /\ Em(r, "agenda")
  /\ fatura' = MudaFaturas(AbertasDa(req[r].a), "CANCELADA")
  /\ assin' = [assin EXCEPT ![req[r].a].agendada = TRUE]
  /\ Segue(r, Livre)
  /\ UNCHANGED <<licAte, mercado, hoje>>

\* fault: an invoice has no such status
DesistirExpirada(r) ==
  /\ Em(r, "desiste")
  /\ fatura' = MudaFaturas(AbertasDa(req[r].a), "EXPIRADA")
  /\ assin' = [assin EXCEPT ![req[r].a].status = "CANCELADA"]
  /\ Segue(r, Livre)
  /\ UNCHANGED <<licAte, mercado, hoje>>

\* cancelarPedidoNaoPago
Desistir(r) ==
  /\ Em(r, "desiste")
  /\ fatura' = MudaFaturas(AbertasDa(req[r].a), "CANCELADA")
  /\ assin' = [assin EXCEPT ![req[r].a].status = "CANCELADA"]
  /\ Segue(r, Livre)
  /\ UNCHANGED <<licAte, mercado, hoje>>

-----------------------------------------------------------------------------
(* reativar *)

AbrirReativar(r, a) ==
  /\ Comeca(r, "painel")
  /\ MaisNova(a) /\ assin[a].agendada
  /\ Segue(r, [Livre EXCEPT !.pc = IF assin[a].mp = "manual" THEN "reativa" ELSE "retoma",
                 !.volta = "reativa", !.a = a, !.fim = assin[a].fim, !.mp = "authorized"])
  /\ UNCHANGED <<banco, mercado, hoje>>

\* reativarAssinatura: an invoice is created unless one is PENDENTE
Reativar(r) ==
  LET q == req[r]
  IN /\ Em(r, "reativa")
     /\ IF \E f \in AbertasDa(q.a) : fatura[f].status = "PENDENTE" THEN UNCHANGED fatura
        ELSE \E g \in Fatura : NovaFatura(g) /\ fatura' = [fatura EXCEPT ![g] = Pendente(q.a, q.fim)]
     /\ assin' = [assin EXCEPT ![q.a].agendada = FALSE]
     /\ Segue(r, Livre)
     /\ UNCHANGED <<licAte, mercado, hoje>>

-----------------------------------------------------------------------------
(* processarAssinatura: what MP says of the subscription is mirrored *)

LerPreapproval(r, a) ==
  /\ Comeca(r, "espelho")
  /\ assin[a].mp # "manual"
  /\ Segue(r, [Livre EXCEPT !.pc = "espelhaLe", !.a = a, !.mp = assin[a].mp])
  /\ UNCHANGED <<banco, mercado, hoje>>

\* sim: an invoice was paid
LerAssinatura(r) ==
  LET a == req[r].a
  IN /\ Em(r, "espelhaLe")
     /\ Segue(r, IF Viva(a)
                 THEN [req[r] EXCEPT !.pc = "espelha", !.abertas = AbertasDa(a), !.sim = Paga(a),
                         !.agendada = assin[a].agendada, !.fim = assin[a].fim]
                 ELSE Livre)
     /\ UNCHANGED <<banco, mercado, hoje>>

\* never paid and cancelled: it ends
EspelharFim(r) ==
  LET q == req[r]
  IN /\ Em(r, "espelha")
     /\ q.mp = "cancelled" /\ ~q.sim
     /\ fatura' = MudaFaturas(q.abertas, "CANCELADA")
     /\ assin' = [assin EXCEPT ![q.a].status = "CANCELADA"]
     /\ Segue(r, Livre)
     /\ UNCHANGED <<licAte, mercado, hoje>>

\* stopped: it lasts until the end of the period, and does not renew
EspelharPausa(r) ==
  LET q == req[r]
  IN /\ Em(r, "espelha")
     /\ q.mp = "paused" \/ (q.mp = "cancelled" /\ q.sim)
     /\ ~q.agendada
     /\ fatura' = MudaFaturas(q.abertas, "CANCELADA")
     /\ assin' = [assin EXCEPT ![q.a].agendada = TRUE]
     /\ Segue(r, Livre)
     /\ UNCHANGED <<licAte, mercado, hoje>>

\* charging again: it renews, with an invoice if none was open
EspelharRetomada(r) ==
  LET q == req[r]
  IN /\ Em(r, "espelha")
     /\ q.mp = "authorized" /\ q.agendada
     /\ IF q.abertas # {} THEN UNCHANGED fatura
        ELSE \E g \in Fatura : NovaFatura(g) /\ fatura' = [fatura EXCEPT ![g] = Pendente(q.a, q.fim)]
     /\ assin' = [assin EXCEPT ![q.a].agendada = FALSE]
     /\ Segue(r, Livre)
     /\ UNCHANGED <<licAte, mercado, hoje>>

EspelharNada(r) ==
  LET q == req[r]
  IN /\ Em(r, "espelha")
     /\ \/ q.mp = "authorized" /\ ~q.agendada
        \/ q.mp = "paused" /\ q.agendada
        \/ q.mp = "cancelled" /\ q.sim /\ q.agendada
     /\ Segue(r, Livre)
     /\ UNCHANGED <<banco, mercado, hoje>>

-----------------------------------------------------------------------------
(* Mercado Pago and the calendar *)

\* a charge of the period; one that is refused may be tried again
MpCobra(c, a, ok) ==
  /\ assin[a].mp = "authorized"
  /\ \/ cobr[c] = SemCobranca
        /\ \A d \in CobrancaMp : cobr[d].assin = a => cobr[d].dia + Periodo <= hoje
     \/ cobr[c].assin = a /\ ~cobr[c].aprovada
  /\ cobr' = [cobr EXCEPT ![c] = [assin |-> a, aprovada |-> ok, dia |-> hoje]]
  /\ pendente' = pendente \cup {c}
  /\ UNCHANGED <<banco, hoje, req>>

\* the photographer at MP's site
MpMuda(a, s) ==
  /\ "mp" \in Operacoes
  /\ assin[a].mp \in {"authorized", "paused"}
  /\ s \in {"authorized", "paused", "cancelled"}
  /\ assin' = [assin EXCEPT ![a].mp = s]
  /\ UNCHANGED <<fatura, licAte, mercado, hoje, req>>

PassarDia ==
  /\ hoje < UltimoDia
  /\ hoje' = hoje + 1
  /\ UNCHANGED <<banco, mercado, req>>

\* fault: the error is answered 200
FalharRespondida(r) ==
  /\ Falha
  /\ ~Em(r, "livre")
  /\ Responde(r)
  /\ Segue(r, Livre)
  /\ UNCHANGED <<banco, cobr, hoje>>

\* an exception or a restart; the notification is sent again
Falhar(r) ==
  /\ Falha
  /\ ~Em(r, "livre")
  /\ Segue(r, Livre)
  /\ UNCHANGED <<banco, mercado, hoje>>

\* the transaction is refused by the index
FalharUnica(r) ==
  /\ Em(r, "registra")
  /\ ~Unica(req[r].c, req[r].f)
  /\ Segue(r, Livre)
  /\ UNCHANGED <<banco, mercado, hoje>>

\* bound: the rows are used up, and what would create one throws
FalharSemLinhas(r) ==
  /\ \/ /\ req[r].pc \in {"criaAssin", "pede", "cria", "registra", "reativa", "espelha"}
        /\ \A f \in Fatura : ~NovaFatura(f)
     \/ req[r].pc \in {"criaAssin", "pede"} /\ \A a \in Assinatura : ~NovaAssinatura(a)
  /\ Segue(r, Livre)
  /\ UNCHANGED <<banco, mercado, hoje>>

Ambiente ==
  \/ \E c \in CobrancaMp, a \in Assinatura, ok \in BOOLEAN : MpCobra(c, a, ok)
  \/ \E a \in Assinatura, s \in StatusPreapproval : MpMuda(a, s)
  \/ PassarDia

Comecar(r) ==
  \/ AbrirCriar(r) \/ AbrirAssinar(r)
  \/ \E a \in Assinatura :
       \/ AbrirCancelarPainel(r, a)
       \/ AbrirReativar(r, a)
       \/ LerPreapproval(r, a)
       \/ \E agora \in BOOLEAN : AbrirCancelar(r, a, agora)
  \/ \E c \in CobrancaMp : LerCobranca(r, c)
  \/ \E f \in Fatura : MarcarFaturaPaga(r, f)
  \/ LerVencidas(r)

Passo(r) ==
  \/ CriarAssinatura(r) \/ Pedir(r) \/ SoltarNoMp(r) \/ CadastrarCartao(r)
  \/ Conferir(r) \/ CriarFatura(r) \/ AbrirFatura(r) \/ Registrar(r) \/ Renovar(r)
  \/ FalharUnica(r) \/ FalharSemLinhas(r)
  \/ Vencer(r)
  \/ MudarNoMp(r) \/ CancelarFaturas(r) \/ Encerrar(r) \/ EncerrarLicenca(r)
  \/ Agendar(r) \/ Desistir(r) \/ Reativar(r)
  \/ LerAssinatura(r) \/ EspelharFim(r) \/ EspelharPausa(r) \/ EspelharRetomada(r)
  \/ EspelharNada(r)

Next == Ambiente \/ \E r \in Req : Comecar(r) \/ Passo(r) \/ Falhar(r)

Spec == Init /\ [][Next]_vars

-----------------------------------------------------------------------------
(* Properties *)

\* Type invariant.
TypeOK ==
  /\ assin \in [Assinatura -> [status : StatusAssinatura, fim : Nat, agendada : BOOLEAN,
                               mp : StatusPreapproval]]
  /\ fatura \in [Fatura -> [status : StatusFatura, assin : Assinatura \cup {Nenhuma},
                            venc : Nat, cobranca : CobrancaMp \cup {Nenhuma}]]
  /\ licAte \in [Assinatura -> Nat]
  /\ cobr \in [CobrancaMp -> [assin : Assinatura \cup {Nenhuma}, aprovada : BOOLEAN, dia : Nat]]
  /\ pendente \subseteq CobrancaMp
  /\ hoje \in 0 .. UltimoDia
  /\ req \in [Req -> Handler]

\* However notifications are repeated, race and fail, a charge is on one invoice at most: MP's
\* money never pays two periods.
CobrancaUnica ==
  \A f, g \in Fatura :
    fatura[f].cobranca # Nenhuma /\ fatura[f].cobranca = fatura[g].cobranca => f = g

\* The charge on an invoice was approved and belongs to the invoice's subscription.
CobrancaAprovada ==
  \A f \in Fatura : fatura[f].cobranca # Nenhuma =>
    cobr[fatura[f].cobranca].aprovada /\ cobr[fatura[f].cobranca].assin = fatura[f].assin

\* MP's money pays one period, of the subscription it was charged for, once it was approved.
CobrancaCerta == CobrancaUnica /\ CobrancaAprovada

\* One handler at a time: a subscription has one open invoice at most, so a charge knows which
\* one it pays and nobody is billed twice for a period.
UmaFaturaAberta ==
  \A a \in Assinatura : Cardinality(AbertasDa(a)) <= 1

\* When nobody is in flight and Mercado Pago has its 200, the subscription an approved charge
\* paid is licensed until the end of its period.
CobrancaLicencia ==
  (\A r \in Req : Em(r, "livre")) =>
    \A f \in Fatura :
      fatura[f].cobranca \in CobrancaMp \ pendente /\ Viva(fatura[f].assin) =>
        licAte[fatura[f].assin] = assin[fatura[f].assin].fim
=============================================================================
