----------------------------- MODULE MCCobranca -----------------------------
(* Small instances of Cobranca.  Each behaviour has either one handler at a time, over two     *)
(* subscriptions, or two at once over the first one, without the panel of the photographer and *)
(* MP's site.                                                                                  *)
EXTENDS Cobranca, TLC

VARIABLES
  juntos,  \* handlers may overlap in this behaviour
  falhou,  \* a handler has failed
  sobrou   \* one of them was paying for a subscription that does not renew

historia == <<juntos, falhou, sobrou>>

InitCobranca == Init /\ juntos \in BOOLEAN /\ falhou = FALSE /\ sobrou = FALSE

\* the charge is cut short, and its invoice stays open
Cortada(r) == req[r].pc \in {"abre", "registra"} /\ assin[req[r].a].agendada

Sozinho(r) == \A s \in Req \ {r} : Em(s, "livre")

NextUm ==
  /\ ~juntos
  /\ \/ Ambiente /\ UNCHANGED <<falhou, sobrou>>
     \/ \E r \in Req :
          /\ Sozinho(r)
          /\ \/ (Comecar(r) \/ Passo(r)) /\ UNCHANGED <<falhou, sobrou>>
             \/ Falhar(r) /\ falhou' = TRUE /\ sobrou' = (sobrou \/ Cortada(r))

ComecarJunto(r) ==
  \/ AbrirCriar(r) \/ AbrirAssinar(r)
  \/ \E a \in Assinatura, agora \in BOOLEAN : AbrirCancelar(r, a, agora)
  \/ \E c \in CobrancaMp : LerCobranca(r, c)
  \/ \E f \in Fatura : MarcarFaturaPaga(r, f)
  \/ LerVencidas(r)

NextJuntos ==
  /\ juntos
  /\ \/ \E c \in CobrancaMp, a \in Assinatura, ok \in BOOLEAN : MpCobra(c, a, ok)
     \/ PassarDia
     \/ \E r \in Req : ComecarJunto(r) \/ Passo(r) \/ (req[r].pc \in {"criaAssin", "pede"} /\ Falhar(r))
  /\ \A a \in Assinatura \ {1} : assin'[a] = SemAssinatura
  /\ UNCHANGED <<falhou, sobrou>>

NextCobranca == (NextUm \/ NextJuntos) /\ UNCHANGED juntos

SpecCobranca == InitCobranca /\ [][NextCobranca]_<<vars, historia>>
-----------------------------------------------------------------------------
(* Properties.  What holds while no two handlers overlap, whatever fails. *)

\* An approved charge that was answered paid an invoice, unless the subscription was over.
RespondidaPaga ==
  ~juntos => \A c \in CobrancaMp : cobr[c].aprovada /\ c \notin pendente =>
    \/ \E f \in Fatura : fatura[f].cobranca = c /\ fatura[f].status = "PAGA"
    \/ ~Viva(cobr[c].assin)

\* A subscription has one open invoice at most, so a charge knows which one it pays and nobody
\* is billed twice for a period, unless a failure cut short the payment of one that does not renew.
FaturaAbertaUnica == ~juntos /\ ~sobrou => UmaFaturaAberta

\* Until a handler fails, when nobody is in flight, a living subscription that was paid is
\* licensed until the end of its period, and one that ended is not licensed.
LicencaPaga ==
  ~falhou /\ (\A r \in Req : Em(r, "livre")) =>
    \A a \in Assinatura :
      /\ Viva(a) /\ Paga(a) => licAte[a] = assin[a].fim
      /\ ~Viva(a) => licAte[a] = 0

\* An account has one living subscription at most, and until something fails its licence says
\* what that subscription paid.
ContaCoerente == ~juntos => Cardinality(Vivas) <= 1 /\ LicencaPaga

\* A paid invoice stays paid, and a subscription that was cancelled is never active again.
NadaVolta ==
  [][~juntos =>
       /\ \A f \in Fatura : fatura[f].status = "PAGA" => fatura'[f].status = "PAGA"
       /\ \A a \in Assinatura : assin[a].status = "CANCELADA" => assin'[a].status = "CANCELADA"]_vars

\* Bound: handlers that overlap have one day and two invoices; what comes due again, and what
\* follows a failure, is for an account with one subscription.
Limite ==
  /\ juntos => fatura[MaxFaturas] = SemFatura /\ hoje < UltimoDia
  /\ falhou => fatura[MaxFaturas] = SemFatura \/ assin[MaxAssinaturas] = SemAssinatura
  /\ hoje = UltimoDia => assin[MaxAssinaturas] = SemAssinatura

\* Charges and slots are told apart by nothing but their name.
Simetria == Permutations(CobrancaMp) \cup Permutations(Req)
=============================================================================
