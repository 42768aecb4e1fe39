------------------------------ MODULE Licencas ------------------------------
(***************************************************************************)
(* LicencasService and its repository: the licences of one account, what   *)
(* the desktop program and the panel read to know what the photographer    *)
(* may do.  Handlers run in slots of Req and are cut at each await; most   *)
(* of them check first and write later, by id.  The database has a partial *)
(* unique index: a second ATIVA licence of an account is refused.          *)
(*                                                                         *)
(* Left out: the limits of the plan copied to a licence (recursos), the    *)
(* plan's existence, keys and reasons.                                     *)
(***************************************************************************)
EXTENDS Integers, FiniteSets

CONSTANTS
  Licenca,       \* ids of licences, each used once
  Assinatura,    \* subscriptions of the account
  Req,           \* request slots
  TiposManuais,  \* the kinds an administrator emits
  TrialDias,     \* trial_dias
  Horizonte,     \* bound: the last day a licence may be valid until
  UltimoDia,     \* bound: the last day
  Nenhuma        \* no licence, no subscription

ASSUME TiposAssumption == TiposManuais \subseteq {"CORTESIA", "VITALICIA", "TRIAL"}
ASSUME DiasAssumption == TrialDias \in Nat /\ Horizonte \in Nat /\ UltimoDia \in Nat
ASSUME NenhumaAssumption == Nenhuma \notin Licenca /\ Nenhuma \notin Assinatura

VARIABLES
  status,      \* Licenca.status
  tipo,        \* Licenca.tipo
  assinatura,  \* Licenca.assinaturaId
  validade,    \* Licenca.validaAte (no meaning for VITALICIA)
  anunciado,   \* until when each subscription was last told to be licensed
  hoje,        \* today
  req          \* the handlers in flight

vars == <<status, tipo, assinatura, validade, anunciado, hoje, req>>
licencas == <<status, tipo, assinatura, validade>>

StatusLicenca == {"INEXISTENTE", "ATIVA", "SUSPENSA", "REVOGADA", "EXPIRADA"}
TipoLicenca == {"TRIAL", "CORTESIA", "VITALICIA", "ASSINATURA"}
Dia == 0 .. Horizonte

\* a handler: where it is, the licence it found, the subscription it serves, the status it
\* will write and the validity it will write
Handler == [pc : {"livre", "confere", "emite", "renova", "reativa", "altera", "reabre",
                  "estende", "expira"},
            lic : Licenca \cup {Nenhuma}, assin : Assinatura \cup {Nenhuma},
            alvo : StatusLicenca, ate : Dia]

Livre == [pc |-> "livre", lic |-> Nenhuma, assin |-> Nenhuma, alvo |-> "ATIVA", ate |-> 0]

Init ==
  /\ status = [l \in Licenca |-> "INEXISTENTE"]
  /\ tipo = [l \in Licenca |-> "TRIAL"]
  /\ assinatura = [l \in Licenca |-> Nenhuma]
  /\ validade = [l \in Licenca |-> 0]
  /\ anunciado = [s \in Assinatura |-> 0]
  /\ hoje = 0
  /\ req = [r \in Req |-> Livre]

-----------------------------------------------------------------------------
Em(r, pc) == req[r].pc = pc
Segue(r, q) == req' = [req EXCEPT ![r] = q]

Ativas == {l \in Licenca : status[l] = "ATIVA"}
AtivasDa(s) == {l \in Ativas : assinatura[l] = s}
Novas == {l \in Licenca : status[l] = "INEXISTENTE"}
Vencida(l) == tipo[l] # "VITALICIA" /\ validade[l] < hoje

\* fault: the database without the partial index
SemIndice(l) == TRUE

\* the partial index: l may be ATIVA
IndiceAceita(l) == Ativas \subseteq {l}

\* the row of a licence emitted now, the ones in R being revoked with it
Emite(l, t, s, ate, R) ==
  /\ status' = [k \in Licenca |-> IF k = l THEN "ATIVA"
                                  ELSE IF k \in R THEN "REVOGADA" ELSE status[k]]
  /\ tipo' = [tipo EXCEPT ![l] = t]
  /\ assinatura' = [assinatura EXCEPT ![l] = s]
  /\ validade' = [validade EXCEPT ![l] = ate]

\* emitirSubstituindo: the active ones are revoked in the same transaction
EmiteSubstituindo(l, t, s, ate) == Emite(l, t, s, ate, Ativas)

-----------------------------------------------------------------------------
(* emitirTrial *)

\* jaTeveTrial
AbrirTrial(r) ==
  /\ Em(r, "livre")
  /\ \A l \in Licenca \ Novas : tipo[l] # "TRIAL"
  /\ Segue(r, [Livre EXCEPT !.pc = "confere"])
  /\ UNCHANGED <<licencas, anunciado, hoje>>

\* ativaMaisRecente
ConferirTrial(r) ==
  /\ Em(r, "confere")
  /\ Segue(r, IF Ativas = {} THEN [Livre EXCEPT !.pc = "emite"] ELSE Livre)
  /\ UNCHANGED <<licencas, anunciado, hoje>>

EmitirTrial(r) ==
  /\ Em(r, "emite")
  /\ hoje + TrialDias <= Horizonte
  /\ \E l \in Novas : IndiceAceita(l) /\ Emite(l, "TRIAL", Nenhuma, hoje + TrialDias, {})
  /\ Segue(r, Livre)
  /\ UNCHANGED <<anunciado, hoje>>

-----------------------------------------------------------------------------
(* emitirManual *)

EmitirManual(r, t, ate) ==
  /\ Em(r, "livre")
  /\ ate > hoje
  /\ \E l \in Novas : EmiteSubstituindo(l, t, Nenhuma, ate)
  /\ UNCHANGED <<anunciado, hoje, req>>

-----------------------------------------------------------------------------
(* renovarPorAssinatura: ativaDaAssinatura, then one of two writes *)

AbrirRenovacao(r, s, ate) ==
  /\ Em(r, "livre")
  /\ ate > hoje
  /\ \E l \in AtivasDa(s) \cup {Nenhuma} :
       /\ l = Nenhuma => AtivasDa(s) = {}
       /\ Segue(r, [Livre EXCEPT !.pc = "renova", !.lic = l, !.assin = s, !.ate = ate])
  /\ UNCHANGED <<licencas, anunciado, hoje>>

\* fault: the licence found keeps its validity
RenovarSoEmite(r) ==
  LET q == req[r]
  IN /\ Em(r, "renova")
     /\ IF q.lic = Nenhuma
        THEN \E l \in Novas : EmiteSubstituindo(l, "ASSINATURA", q.assin, q.ate)
        ELSE UNCHANGED licencas
     /\ anunciado' = [anunciado EXCEPT ![q.assin] = q.ate]
     /\ Segue(r, Livre)
     /\ UNCHANGED hoje

\* estenderValidade writes by id, whatever the status is by now
Renovar(r) ==
  LET q == req[r]
  IN /\ Em(r, "renova")
     /\ IF q.lic = Nenhuma
        THEN \E l \in Novas : EmiteSubstituindo(l, "ASSINATURA", q.assin, q.ate)
        ELSE /\ validade' = [validade EXCEPT ![q.lic] = q.ate]
             /\ UNCHANGED <<status, tipo, assinatura>>
     /\ anunciado' = [anunciado EXCEPT ![q.assin] = q.ate]
     /\ Segue(r, Livre)
     /\ UNCHANGED hoje

-----------------------------------------------------------------------------
(* encerrarDaAssinatura and alterarStatus: read, then write by id *)

\* repo.alterarStatus is what comes next, without a check
AbrirEncerramento(r, s) ==
  /\ Em(r, "livre")
  /\ \E l \in AtivasDa(s) :
       Segue(r, [Livre EXCEPT !.pc = "altera", !.lic = l, !.alvo = "REVOGADA"])
  /\ UNCHANGED <<licencas, anunciado, hoje>>

\* alterarStatus: porId
AbrirStatus(r, l, s) ==
  /\ Em(r, "livre")
  /\ status[l] \in {"ATIVA", "SUSPENSA"}
  /\ Segue(r, [Livre EXCEPT !.pc = IF s = "ATIVA" THEN "reativa" ELSE "altera", !.lic = l,
                 !.alvo = s])
  /\ UNCHANGED <<licencas, anunciado, hoje>>

\* ativaMaisRecente: another active one refuses it
ConferirReativacao(r) ==
  /\ Em(r, "reativa")
  /\ Segue(r, IF Ativas \subseteq {req[r].lic} THEN [req[r] EXCEPT !.pc = "altera"] ELSE Livre)
  /\ UNCHANGED <<licencas, anunciado, hoje>>

Alterar(r) ==
  LET q == req[r]
  IN /\ Em(r, "altera")
     /\ q.alvo = "ATIVA" => IndiceAceita(q.lic)
     /\ status' = [status EXCEPT ![q.lic] = q.alvo]
     /\ Segue(r, Livre)
     /\ UNCHANGED <<tipo, assinatura, validade, anunciado, hoje>>

-----------------------------------------------------------------------------
(* estenderValidade: days from the validity read, or from today *)

Maior(a, b) == IF a > b THEN a ELSE b

AbrirExtensao(r, l, dias) ==
  /\ Em(r, "livre")
  /\ tipo[l] \in {"TRIAL", "CORTESIA"}
  /\ status[l] \in {"ATIVA", "SUSPENSA", "EXPIRADA"}
  /\ Maior(hoje, validade[l]) + dias <= Horizonte
  /\ Segue(r, [Livre EXCEPT !.pc = IF status[l] = "EXPIRADA" THEN "reabre" ELSE "estende",
                 !.lic = l, !.ate = Maior(hoje, validade[l]) + dias, !.alvo = status[l]])
  /\ UNCHANGED <<licencas, anunciado, hoje>>

\* an expired one is valid again only if the account has no other
ConferirExtensao(r) ==
  /\ Em(r, "reabre")
  /\ Segue(r, IF Ativas = {} THEN [req[r] EXCEPT !.pc = "estende"] ELSE Livre)
  /\ UNCHANGED <<licencas, anunciado, hoje>>

Estender(r) ==
  LET q == req[r]
  IN /\ Em(r, "estende")
     /\ validade' = [validade EXCEPT ![q.lic] = q.ate]
     /\ IF q.alvo = "EXPIRADA"
        THEN IndiceAceita(q.lic) /\ status' = [status EXCEPT ![q.lic] = "ATIVA"]
        ELSE UNCHANGED status
     /\ Segue(r, Livre)
     /\ UNCHANGED <<tipo, assinatura, anunciado, hoje>>

-----------------------------------------------------------------------------
(* atual: the active licence, marked EXPIRADA when it is read to be over *)

LerAtual(r) ==
  /\ Em(r, "livre")
  /\ \E l \in Ativas : Vencida(l) /\ Segue(r, [Livre EXCEPT !.pc = "expira", !.lic = l])
  /\ UNCHANGED <<licencas, anunciado, hoje>>

\* fault: the status of an invoice
MarcarVencida(r) ==
  /\ Em(r, "expira")
  /\ status' = [status EXCEPT ![req[r].lic] = "VENCIDA"]
  /\ Segue(r, Livre)
  /\ UNCHANGED <<tipo, assinatura, validade, anunciado, hoje>>

MarcarExpirada(r) ==
  /\ Em(r, "expira")
  /\ status' = [status EXCEPT ![req[r].lic] = "EXPIRADA"]
  /\ Segue(r, Livre)
  /\ UNCHANGED <<tipo, assinatura, validade, anunciado, hoje>>

-----------------------------------------------------------------------------
\* an exception (the index among others) or a restart
Falhar(r) ==
  /\ ~Em(r, "livre")
  /\ Segue(r, Livre)
  /\ UNCHANGED <<licencas, anunciado, hoje>>

PassarDia ==
  /\ hoje < UltimoDia
  /\ hoje' = hoje + 1
  /\ UNCHANGED <<licencas, anunciado, req>>

Handlers(r) ==
  \/ AbrirTrial(r) \/ ConferirTrial(r) \/ EmitirTrial(r)
  \/ \E t \in TiposManuais, ate \in Dia : EmitirManual(r, t, ate)
  \/ \E s \in Assinatura, ate \in Dia : AbrirRenovacao(r, s, ate)
  \/ Renovar(r)
  \/ \E s \in Assinatura : AbrirEncerramento(r, s)
  \/ \E l \in Licenca, s \in {"ATIVA", "SUSPENSA", "REVOGADA"} : AbrirStatus(r, l, s)
  \/ ConferirReativacao(r) \/ Alterar(r)
  \/ \E l \in Licenca, dias \in 1 .. Horizonte : AbrirExtensao(r, l, dias)
  \/ ConferirExtensao(r) \/ Estender(r)
  \/ LerAtual(r) \/ MarcarExpirada(r)
  \/ Falhar(r)

Next == (\E r \in Req : Handlers(r)) \/ PassarDia

Spec == Init /\ [][Next]_vars
-----------------------------------------------------------------------------
(* Properties *)

\* Type invariant.
TypeOK ==
  /\ status \in [Licenca -> StatusLicenca]
  /\ tipo \in [Licenca -> TipoLicenca]
  /\ assinatura \in [Licenca -> Assinatura \cup {Nenhuma}]
  /\ validade \in [Licenca -> Dia]
  /\ anunciado \in [Assinatura -> Dia]
  /\ hoje \in 0 .. UltimoDia
  /\ req \in [Req -> Handler]

\* However the handlers interleave, the account has one active licence at most: what their
\* checks let through the index or the substitution stops, and no write by id escapes both.
UmaAtiva == \A k, l \in Ativas : k = l
=============================================================================
