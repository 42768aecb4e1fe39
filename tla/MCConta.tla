------------------------------- MODULE MCConta -------------------------------
(* What belongs to an account: its e-mail, licences, sessions, machines, administrators, the   *)
(* cards of its subscriptions, the routine's e-mails and the calendar.  The components share   *)
(* no row and no step, so each behaviour runs one of them, and the checks add up instead of    *)
(* multiplying.                                                                                *)
EXTENDS Licencas, Sessoes, Cadastro, Dispositivos, Administradores, Cartoes, Avisos,
        Periodo, TLC

VARIABLES
  vez,      \* the component this behaviour runs
  sozinho,  \* no handler took a step while another one was in flight
  inteiro   \* no handler failed and no answer was lost

naoLicencas == <<varsSessoes, varsCadastro, varsDispositivos, varsAdministradores,
                 varsCartoes, varsAvisos, varsPeriodo>>
historia == <<vez, sozinho, inteiro>>
varsConta == <<vars, naoLicencas, historia>>

InitConta ==
  /\ Init /\ InitSessoes /\ InitCadastro /\ InitDispositivos /\ InitAdministradores
  /\ InitCartoes /\ InitAvisos
  /\ vez \in {"licencas", "sessoes", "cadastro", "dispositivos", "administradores",
             "cartoes", "avisos", "periodo"}
  /\ InitPeriodo /\ (vez = "periodo" \/ (anual /\ ancora = 0))
  /\ sozinho = TRUE /\ inteiro = TRUE

\* a handler takes a step: the others are free, or it is not alone
So(livres) == sozinho' = (sozinho /\ livres)

NextLicencas ==
  /\ vez = "licencas"
  /\ \/ \E r \in Req : Handlers(r) /\ So(\A s \in Req \ {r} : Em(s, "livre"))
     \/ PassarDia /\ UNCHANGED sozinho
  /\ UNCHANGED <<naoLicencas, vez, inteiro>>

NextSes ==
  /\ vez = "sessoes"
  /\ \E r \in ReqSes :
       /\ \/ PassoSessoes(r) /\ UNCHANGED inteiro
          \/ FalhaSessoes(r) /\ inteiro' = FALSE
       /\ So(\A s \in ReqSes \ {r} : EmSes(s, "livre"))
  /\ UNCHANGED <<vars, varsCadastro, varsDispositivos, varsAdministradores, varsCartoes,
                 varsAvisos, varsPeriodo, vez>>

NextCad ==
  /\ vez = "cadastro"
  /\ \E r \in ReqCad :
       /\ \/ PassoCadastro(r) /\ UNCHANGED inteiro
          \/ PerderCad(r) /\ inteiro' = FALSE
       /\ So(\A s \in ReqCad \ {r} : EmCad(s, "livre"))
  /\ UNCHANGED <<vars, varsSessoes, varsDispositivos, varsAdministradores, varsCartoes,
                 varsAvisos, varsPeriodo, vez>>

NextDisp ==
  /\ vez = "dispositivos"
  /\ \/ \E r \in ReqDisp :
          PassoDispositivos(r) /\ So(\A s \in ReqDisp \ {r} : EmDisp(s, "livre"))
     \/ \E t \in TokenApi : VencerToken(t) /\ UNCHANGED sozinho
  /\ UNCHANGED <<vars, varsSessoes, varsCadastro, varsAdministradores, varsCartoes,
                 varsAvisos, varsPeriodo, vez, inteiro>>

NextAdm ==
  /\ vez = "administradores"
  /\ \E r \in ReqAdm :
       PassoAdministradores(r) /\ So(\A s \in ReqAdm \ {r} : EmAdm(s, "livre"))
  /\ UNCHANGED <<vars, varsSessoes, varsCadastro, varsDispositivos, varsCartoes,
                 varsAvisos, varsPeriodo, vez, inteiro>>

NextCart ==
  /\ vez = "cartoes"
  /\ \/ \E r \in ReqCart :
          /\ \/ PassoCartoes(r) /\ UNCHANGED inteiro
             \/ FalhaCartoes(r) /\ inteiro' = FALSE
          /\ So(\A s \in ReqCart \ {r} : EmCart(s, "livre"))
     \/ MpCartoes /\ UNCHANGED <<sozinho, inteiro>>
  /\ UNCHANGED <<vars, varsSessoes, varsCadastro, varsDispositivos, varsAdministradores,
                 varsAvisos, varsPeriodo, vez>>

naoAvisos == <<vars, varsSessoes, varsCadastro, varsDispositivos, varsAdministradores,
               varsCartoes>>

NextAv ==
  /\ vez = "avisos"
  /\ \/ \E r \in ReqAv :
          /\ \/ PassoAvisos(r) /\ UNCHANGED inteiro
             \/ FalhaAvisos(r) /\ inteiro' = FALSE
          /\ So(\A s \in ReqAv \ {r} : EmAv(s, "livre"))
     \/ ClienteAvisos /\ So(\A s \in ReqAv : EmAv(s, "livre")) /\ UNCHANGED inteiro
     \/ PassarDiaAv /\ UNCHANGED <<sozinho, inteiro>>
  /\ UNCHANGED <<naoAvisos, varsPeriodo, vez>>

NextPer ==
  /\ vez = "periodo"
  /\ PagamentoPeriodo
  /\ UNCHANGED <<naoAvisos, varsAvisos, historia>>

NextConta ==
  \/ NextLicencas \/ NextSes \/ NextCad \/ NextDisp \/ NextAdm \/ NextCart \/ NextAv
  \/ NextPer

SpecConta == InitConta /\ [][NextConta]_varsConta

\* the e-mails alone, and the cards alone
SpecEmail == InitConta /\ vez = "cadastro" /\ [][NextCad]_varsConta
SpecCartao == InitConta /\ vez = "cartoes" /\ [][NextCart]_varsConta

\* bounds: three sessions, or two and a new password, or one and two (of an account that was
\* excluded, or once an answer was lost, one fewer); once two requests have overlapped, two
\* licences, valid until the day before the last, two sessions or one and a new password (one, of
\* an account that is excluded), no link, two letters of one account, one day after the first
\* period of a subscription without card, and nothing of the administrators and the cards, whose
\* properties are about requests that do not overlap; once a handler of the cards or the letters
\* has failed, one request of a plan, or two letters
Limite ==
  /\ abertas + senha <= IF excluida \/ ~inteiro THEN MaxSessoes - 1 ELSE MaxSessoes
  /\ inteiro \/ (plano[2] = "INEXISTENTE" /\ Cardinality(cartas) <= 2)
  /\ \/ sozinho
     \/ /\ Cardinality(Licenca \ Novas) <= 2 /\ \A l \in Licenca : validade[l] < UltimoDia
        /\ abertas + senha <= IF excluida THEN 1 ELSE 2
        /\ \A k \in Link : links[k] = "novo"
        /\ Cardinality(cartas) <= 2 /\ Cardinality(contas) <= 1
        /\ diaAv <= Ciclo + 1 /\ cartaoAv = {} /\ agendadaAv = {}
        /\ vez \notin {"administradores", "cartoes"}

TypeOKConta ==
  /\ TypeOK /\ TypeOKSessoes /\ TypeOKCadastro /\ TypeOKDispositivos /\ TypeOKAdministradores
  /\ TypeOKCartoes /\ TypeOKAvisos /\ TypeOKPeriodo
-----------------------------------------------------------------------------
(* Licences *)

\* A revoked licence is never anything else again, whoever suspends, reactivates, extends,
\* renews or expires it.
RevogadaDefinitiva ==
  \A l \in Licenca : status[l] = "REVOGADA" => status'[l] = "REVOGADA"

\* A licence expires only once its last day is over.
ExpiraNoPrazo ==
  \A l \in Licenca : status'[l] = "EXPIRADA" /\ status[l] # "EXPIRADA" => Vencida(l)

\* What a renewal announces (the payment's e-mail says the date) is the validity of an active
\* licence of that subscription.
AnunciadoVale ==
  \A s \in Assinatura : anunciado'[s] # anunciado[s] =>
    \E l \in Licenca :
      status'[l] = "ATIVA" /\ assinatura'[l] = s /\ validade'[l] = anunciado'[s]

\* The trial of the first login (`uma vez por conta') is given to an account that never had
\* one, given by hand or not, and has no active licence it would take the place of.
TrialUmaVez ==
  \A l \in Novas : l \notin Novas' /\ (\E r \in Req : Em(r, "emite")) =>
    Ativas = {} /\ \A k \in Licenca \ Novas : tipo[k] # "TRIAL"

\* Handlers that do not overlap, though any of them may fail: a licence ends when it should and
\* once, is what was announced, and is given for trial once.
LicencaEmOrdem ==
  [][sozinho' => RevogadaDefinitiva /\ ExpiraNoPrazo /\ AnunciadoVale /\ TrialUmaVez]_vars

-----------------------------------------------------------------------------
(* Sessions, letters, machines, administrators *)

\* Answers that arrive: between requests the browser never holds a spent token, so that nobody
\* is taken for a thief of the own cookie.
CookieVale == cookie \notin usadas /\ alarme = {}

\* Once the password was changed, no session of the old one lives; once the account is blocked
\* or excluded, none does.
TrocaDerruba == \A t \in 1 .. abertas : Viva(t) => deSenha[t] = senha /\ ContaAtende

\* Requests that do not overlap, none cut short and none answered in vain: what the browser
\* holds opens its own session, and what it held before opens none.
SessaoCerta == sozinho /\ inteiro /\ ParadosSes => CookieVale /\ TrocaDerruba

\* A family has one session that can be refreshed, whatever is lost between the rotation's two
\* writes.
UmaVivaPorFamilia ==
  \A t, u \in 1 .. abertas : Viva(t) /\ Viva(u) /\ familia[t] = familia[u] => t = u

\* A link changes the password once, and the account has one link that still can.
LinkUmaVez ==
  /\ \A k \in Link : trocas[k] <= 1
  /\ \A j, k \in Link : links[j] = "vivo" /\ links[k] = "vivo" => j = k

\* `Um token vivo por (conta, tipo)': of the letters of one kind, an account has one that still
\* works.
CartaUnica ==
  \A j, l \in cartas \ gastas : j.conta = l.conta /\ j.tipo = l.tipo => j = l

\* A machine has one token that is not revoked.
UmTokenPorMaquina == \A m \in Maquina : Cardinality(NaoRevogados(m)) <= 1

\* A recovery code opens one session.
RecuperacaoUmaVez == \A c \in CodigoRec : entradasAdm[c] <= 1

\* Requests that do not overlap, cut short anywhere: what opens a door opens it once, and what
\* replaces it leaves nothing behind that still does.
CredencialUnica ==
  sozinho => /\ UmaVivaPorFamilia /\ LinkUmaVez /\ CartaUnica
             /\ UmTokenPorMaquina /\ RecuperacaoUmaVez

\* excluir `libera o e-mail (pra poder cadastrar de novo)': with no requests that overlap and
\* none that fails, an excluded account keeps no address from whoever signs up.
EmailLiberto == sozinho /\ inteiro => \A c \in excluidas : email[c] = Nada

\* `Ninguém mexe na própria conta por aqui': a block never shuts the last administrator out, only
\* the exclusion of the own account may.
BloqueioDeixaUm == Entram # {} /\ excluidosAdm' = excluidosAdm => Entram' # {}

\* The second factor that is on asks for the secret whose code its administrator typed, and
\* there is one to ask for.
SegredoConfirmado == \A a \in ativado : segredo[a] # 0 /\ segredo[a] = confirmado[a]

\* Requests that do not overlap, cut short anywhere: no block and no change of a second factor
\* locks the administrators out.
AdminComAcesso ==
  [][sozinho' => BloqueioDeixaUm /\ SegredoConfirmado']_varsAdministradores

-----------------------------------------------------------------------------
(* Cards *)

\* a card MP will charge, of a living request that never changed its card
DaConta(g) == pre[g].ref \in Vivos /\ ~Trocado(pre[g].ref)

\* Once MP's last notification of a card is answered, the living request it is of has its id,
\* however requests overlap and wherever they die; and when none overlaps and nothing fails no
\* approved charge of it is answered as not ours, whichever notification comes first.
CartaoReconhecido ==
  /\ \A g \in Autorizadas \ avisosPre : DaConta(g) => idMp[pre[g].ref] = g
  /\ sozinho /\ inteiro => \A g \in perdidas : Trocado(pre[g].ref)

\* A card MP will charge is the card of a living request, or another was registered on it.
CartaoTemPedido ==
  \A g \in Autorizadas :
    (idMp[pre[g].ref] = g /\ pre[g].ref \in Vivos) \/ Trocado(pre[g].ref)

\* Requests that do not overlap and nothing that fails: however often plans are replaced and
\* given up, no card is charged for a request that is over, and MP has one card of the account
\* to charge, unless a request changed its card.
UmCartaoCobra ==
  sozinho /\ inteiro /\ ParadosCart =>
    /\ CartaoTemPedido
    /\ (\A a \in Pedidos : ~Trocado(a)) => Cardinality(Autorizadas) <= 1

CartaoCerto == CartaoReconhecido /\ UmCartaoCobra

\* assinar `(re)cadastra o cartão' of a request not yet paid: the request stays while its new
\* card is authorized, with nothing that fails and no requests that overlap.
TrocaMantemPedido ==
  sozinho /\ inteiro /\ ParadosCart => \A a \in Pedidos : idMp[a] \in Autorizadas => a \in Vivos

-----------------------------------------------------------------------------
(* The routine's e-mails *)

\* `no máximo 1x por ciclo', though the routine starts again at each restart and its days pass
\* it by.
AvisoUmaVez == \A x \in DOMAIN enviadosAv : enviadosAv[x] <= 1

\* Executions never more than four days apart: who let a period end without paying is told
\* before the window of four days closes.
AvisaQuemVenceu ==
  \A a \in AssinaturaAv \ agendadaAv :
    diaAv > fimAv[a] + 4 => enviadosAv[<<"vencido", a, fimAv[a]>>] > 0

\* A warning is bounded however executions overlap and die; while they do not, and lose no row,
\* it goes out once, and to everybody who should have it.
AvisoNaMedida ==
  AvisoLimitado /\ (sozinho => (inteiro => AvisoUmaVez) /\ (pontualAv => AvisaQuemVenceu))

\* Executions and payments that do not overlap: who is told that the plan ended has a period
\* that ended, unpaid.
AvisoVerdadeiro ==
  [][sozinho' => \A a \in AssinaturaAv, f \in Dias :
       enviadosAv'[<<"vencido", a, f>>] > enviadosAv[<<"vencido", a, f>>] =>
         f = fimAv[a] /\ f < diaAv /\ sitAv[a] = "INADIMPLENTE"]_varsAvisos

\* Licences and slots are told apart by nothing but their name.
Simetria == Permutations(Licenca) \cup Permutations(Req)
=============================================================================
