-------------------------- MODULE Licencas_proofs --------------------------
(***************************************************************************)
(* Proofs about Licencas: type correctness, and one active licence at most *)
(* for every number of licences, subscriptions and handlers.  The types of *)
(* the handlers are what makes the invariant inductive: a handler that     *)
(* writes by id holds a licence, not Nenhuma, so Segura is part of it.     *)
(***************************************************************************)
EXTENDS Licencas, TLAPS

\* What a handler holds: a licence when it writes by id, a subscription when it renews, a
\* status that exists.
Segura(q) ==
  /\ q.pc \in {"reativa", "altera", "reabre", "estende", "expira"} => q.lic \in Licenca
  /\ q.pc = "renova" => q.assin \in Assinatura
  /\ q.alvo # "INEXISTENTE"

IInv ==
  /\ TypeOK
  /\ \A r \in Req : Segura(req[r])
  /\ UmaAtiva

\* An idle handler.
LEMMA LivreTipo == Livre \in Handler /\ Segura(Livre)
  BY DiasAssumption DEF Livre, Handler, Segura, StatusLicenca, Dia

\* The invariant holds at the start.
LEMMA InitIInv == Init => IInv
<1> SUFFICES ASSUME Init PROVE IInv
  OBVIOUS
<1>1. TypeOK
  BY LivreTipo, DiasAssumption DEF Init, TypeOK, StatusLicenca, TipoLicenca, Dia
<1>2. UmaAtiva
  BY DEF Init, UmaAtiva, Ativas
<1> QED BY <1>1, <1>2, LivreTipo DEF Init, IInv

\* A step that only moves one handler.
LEMMA SoHandler ==
  ASSUME IInv, NEW r \in Req, NEW q \in Handler, Segura(q), Segue(r, q),
         UNCHANGED <<licencas, anunciado, hoje>>
  PROVE  IInv'
  BY DEF IInv, TypeOK, Segura, UmaAtiva, Ativas, Segue, licencas

\* A step that writes the rows and frees the handler, if it had one.
LEMMA SoLicencas ==
  ASSUME IInv, NEW r \in Req, Segue(r, Livre) \/ UNCHANGED req, UNCHANGED hoje,
         anunciado' \in [Assinatura -> Dia],
         status' \in [Licenca -> StatusLicenca], tipo' \in [Licenca -> TipoLicenca],
         assinatura' \in [Licenca -> Assinatura \cup {Nenhuma}],
         validade' \in [Licenca -> Dia], UmaAtiva'
  PROVE  IInv'
  BY LivreTipo DEF IInv, TypeOK, Segura, Segue

\* The rows after an emission: the others that were active are revoked, or there are none.
LEMMA EmiteTipo ==
  ASSUME IInv, NEW l \in Novas, NEW t \in TipoLicenca, NEW s \in Assinatura \cup {Nenhuma},
         NEW ate \in Dia, NEW R, Emite(l, t, s, ate, R), Ativas \subseteq R \cup {l}
  PROVE  /\ status' \in [Licenca -> StatusLicenca] /\ tipo' \in [Licenca -> TipoLicenca]
         /\ assinatura' \in [Licenca -> Assinatura \cup {Nenhuma}]
         /\ validade' \in [Licenca -> Dia] /\ UmaAtiva'
<1>1. l \in Licenca
  BY DEF Novas
<1>2. status' \in [Licenca -> StatusLicenca]
  BY <1>1 DEF IInv, TypeOK, Emite, StatusLicenca
<1>3. \A k \in Licenca : status'[k] = "ATIVA" => k = l
  BY <1>1 DEF IInv, TypeOK, Emite, Ativas
<1>4. UmaAtiva'
  BY <1>3 DEF UmaAtiva, Ativas
<1> QED BY <1>1, <1>2, <1>4 DEF IInv, TypeOK, Emite

\* A step that writes one status, which the index accepts if it is ATIVA.
LEMMA UmStatus ==
  ASSUME IInv, NEW l \in Licenca, NEW s \in StatusLicenca, s = "ATIVA" => IndiceAceita(l),
         status' = [status EXCEPT ![l] = s]
  PROVE  status' \in [Licenca -> StatusLicenca] /\ UmaAtiva'
  BY DEF IInv, TypeOK, UmaAtiva, Ativas, IndiceAceita

\* emitirTrial: the index refuses the second one.
LEMMA EmitirTrialIInv ==
  ASSUME IInv, NEW r \in Req, EmitirTrial(r)
  PROVE  IInv'
<1>1. PICK l \in Novas : IndiceAceita(l) /\ Emite(l, "TRIAL", Nenhuma, hoje + TrialDias, {})
  BY DEF EmitirTrial
<1>2. hoje + TrialDias \in Dia
  BY DiasAssumption DEF EmitirTrial, IInv, TypeOK, Dia
<1>3. Segue(r, Livre) /\ UNCHANGED <<anunciado, hoje>>
  BY DEF EmitirTrial
<1>4. "TRIAL" \in TipoLicenca /\ Nenhuma \in Assinatura \cup {Nenhuma} /\ Ativas \subseteq {} \cup {l}
  BY <1>1 DEF TipoLicenca, IndiceAceita
<1>5. anunciado' \in [Assinatura -> Dia]
  BY <1>3 DEF IInv, TypeOK
<1> QED BY <1>1, <1>2, <1>3, <1>4, <1>5, EmiteTipo, SoLicencas

\* emitirManual.
LEMMA EmitirManualIInv ==
  ASSUME IInv, NEW r \in Req, NEW t \in TiposManuais, NEW ate \in Dia, EmitirManual(r, t, ate)
  PROVE  IInv'
<1>1. PICK l \in Novas : Emite(l, t, Nenhuma, ate, Ativas)
  BY DEF EmitirManual, EmiteSubstituindo
<1>2. t \in TipoLicenca /\ Nenhuma \in Assinatura \cup {Nenhuma} /\ Ativas \subseteq Ativas \cup {l}
  BY TiposAssumption DEF TipoLicenca
<1>3. UNCHANGED <<anunciado, hoje, req>>
  BY DEF EmitirManual
<1>4. anunciado' \in [Assinatura -> Dia]
  BY <1>3 DEF IInv, TypeOK
<1> QED BY <1>1, <1>2, <1>3, <1>4, EmiteTipo, SoLicencas

\* renovarPorAssinatura, once it knows the active licence of the subscription.
LEMMA AbrirRenovacaoIInv ==
  ASSUME IInv, NEW r \in Req, NEW s \in Assinatura, NEW ate \in Dia, AbrirRenovacao(r, s, ate)
  PROVE  IInv'
<1>1. PICK l \in AtivasDa(s) \cup {Nenhuma} :
        Segue(r, [Livre EXCEPT !.pc = "renova", !.lic = l, !.assin = s, !.ate = ate])
  BY DEF AbrirRenovacao
<1> DEFINE q == [Livre EXCEPT !.pc = "renova", !.lic = l, !.assin = s, !.ate = ate]
<1>2. l \in Licenca \cup {Nenhuma}
  BY DEF AtivasDa, Ativas
<1>3. q \in Handler /\ Segura(q)
  BY <1>2, LivreTipo DEF Livre, Handler, Segura
<1>4. Segue(r, q) /\ UNCHANGED <<licencas, anunciado, hoje>>
  BY <1>1 DEF AbrirRenovacao
<1> HIDE DEF q
<1> QED BY <1>3, <1>4, SoHandler

\* renovarPorAssinatura, once it has extended or emitted.
LEMMA RenovarIInv ==
  ASSUME IInv, NEW r \in Req, Renovar(r)
  PROVE  IInv'
<1>1. PICK q \in Handler : q = req[r]
  BY DEF IInv, TypeOK
<1>2. q.assin \in Assinatura /\ q.ate \in Dia /\ q.lic \in Licenca \cup {Nenhuma}
  BY <1>1 DEF IInv, Segura, Renovar, Em, Handler
<1>3. Segue(r, Livre) /\ UNCHANGED hoje /\ anunciado' \in [Assinatura -> Dia]
  BY <1>1, <1>2 DEF Renovar, IInv, TypeOK
<1>4. CASE q.lic = Nenhuma
  <2>1. PICK l \in Novas : Emite(l, "ASSINATURA", q.assin, q.ate, Ativas)
    BY <1>1, <1>4 DEF Renovar, EmiteSubstituindo
  <2>2. "ASSINATURA" \in TipoLicenca /\ q.assin \in Assinatura \cup {Nenhuma}
        /\ Ativas \subseteq Ativas \cup {l}
    BY <1>2 DEF TipoLicenca
  <2> QED BY <1>2, <1>3, <2>1, <2>2, EmiteTipo, SoLicencas
<1>5. CASE q.lic # Nenhuma
  <2>1. q.lic \in Licenca /\ validade' = [validade EXCEPT ![q.lic] = q.ate]
        /\ UNCHANGED <<status, tipo, assinatura>>
    BY <1>1, <1>2, <1>5 DEF Renovar
  <2>2. UmaAtiva'
    BY <2>1 DEF IInv, UmaAtiva, Ativas
  <2>3. validade' \in [Licenca -> Dia] /\ status' \in [Licenca -> StatusLicenca]
        /\ tipo' \in [Licenca -> TipoLicenca]
        /\ assinatura' \in [Licenca -> Assinatura \cup {Nenhuma}]
    BY <1>2, <2>1 DEF IInv, TypeOK
  <2> QED BY <1>3, <2>2, <2>3, SoLicencas
<1> QED BY <1>4, <1>5

\* The reads that come before a write by id: the handler leaves with the licence it read.
\* encerrarDaAssinatura.
LEMMA AbrirEncerramentoIInv ==
  ASSUME IInv, NEW r \in Req, NEW s \in Assinatura, AbrirEncerramento(r, s)
  PROVE  IInv'
<1>1. PICK l \in AtivasDa(s) :
        Segue(r, [Livre EXCEPT !.pc = "altera", !.lic = l, !.alvo = "REVOGADA"])
  BY DEF AbrirEncerramento
<1> DEFINE q == [Livre EXCEPT !.pc = "altera", !.lic = l, !.alvo = "REVOGADA"]
<1>2. l \in Licenca
  BY DEF AtivasDa, Ativas
<1>3. q \in Handler /\ Segura(q)
  BY <1>2, LivreTipo DEF Livre, Handler, Segura, StatusLicenca
<1>4. Segue(r, q) /\ UNCHANGED <<licencas, anunciado, hoje>>
  BY <1>1 DEF AbrirEncerramento
<1> HIDE DEF q
<1> QED BY <1>3, <1>4, SoHandler

\* alterarStatus.
LEMMA AbrirStatusIInv ==
  ASSUME IInv, NEW r \in Req, NEW l \in Licenca, NEW s \in {"ATIVA", "SUSPENSA", "REVOGADA"},
         AbrirStatus(r, l, s)
  PROVE  IInv'
<1> DEFINE q == [Livre EXCEPT !.pc = IF s = "ATIVA" THEN "reativa" ELSE "altera", !.lic = l,
                   !.alvo = s]
<1>1. q \in Handler /\ Segura(q)
  BY LivreTipo DEF Livre, Handler, Segura, StatusLicenca
<1>2. Segue(r, q) /\ UNCHANGED <<licencas, anunciado, hoje>>
  BY DEF AbrirStatus
<1> HIDE DEF q
<1> QED BY <1>1, <1>2, SoHandler

\* estenderValidade.
LEMMA AbrirExtensaoIInv ==
  ASSUME IInv, NEW r \in Req, NEW l \in Licenca, NEW dias \in 1 .. Horizonte,
         AbrirExtensao(r, l, dias)
  PROVE  IInv'
<1> DEFINE ate == Maior(hoje, validade[l]) + dias
           q == [Livre EXCEPT !.pc = IF status[l] = "EXPIRADA" THEN "reabre" ELSE "estende",
                   !.lic = l, !.ate = ate, !.alvo = status[l]]
<1>1. ate \in Dia
  <2>1. hoje \in Nat /\ validade[l] \in Nat /\ dias \in Nat /\ ate <= Horizonte
    BY DiasAssumption DEF AbrirExtensao, IInv, TypeOK, Dia
  <2> QED BY <2>1, DiasAssumption DEF Maior, Dia
<1>2. Segue(r, q) /\ UNCHANGED <<licencas, anunciado, hoje>>
  BY DEF AbrirExtensao
<1>3. status[l] \in StatusLicenca /\ status[l] # "INEXISTENTE"
  BY DEF AbrirExtensao, IInv, TypeOK
<1> HIDE DEF ate
<1>4. q \in Handler /\ Segura(q)
  BY <1>1, <1>3, LivreTipo DEF Livre, Handler, Segura
<1> HIDE DEF q
<1> QED BY <1>2, <1>4, SoHandler

\* atual.
LEMMA LerAtualIInv ==
  ASSUME IInv, NEW r \in Req, LerAtual(r)
  PROVE  IInv'
<1>1. PICK l \in Ativas : Segue(r, [Livre EXCEPT !.pc = "expira", !.lic = l])
  BY DEF LerAtual
<1> DEFINE q == [Livre EXCEPT !.pc = "expira", !.lic = l]
<1>2. q \in Handler /\ Segura(q)
  BY LivreTipo DEF Livre, Handler, Segura, Ativas
<1>3. Segue(r, q) /\ UNCHANGED <<licencas, anunciado, hoje>>
  BY <1>1 DEF LerAtual
<1> HIDE DEF q
<1> QED BY <1>2, <1>3, SoHandler

\* The checks that only move the handler, or free it.
LEMMA ConferirIInv ==
  ASSUME IInv, NEW r \in Req,
         AbrirTrial(r) \/ ConferirTrial(r) \/ ConferirReativacao(r) \/ ConferirExtensao(r)
         \/ Falhar(r)
  PROVE  IInv'
<1>1. PICK h \in Handler : h = req[r] /\ Segura(h)
  BY DEF IInv, TypeOK
<1>2. \A pc \in {"confere", "emite"} :
        [Livre EXCEPT !.pc = pc] \in Handler /\ Segura([Livre EXCEPT !.pc = pc])
  BY LivreTipo DEF Livre, Handler, Segura
<1>3. h.pc = "reativa" => [h EXCEPT !.pc = "altera"] \in Handler /\ Segura([h EXCEPT !.pc = "altera"])
  BY <1>1 DEF Handler, Segura
<1>4. h.pc = "reabre" => [h EXCEPT !.pc = "estende"] \in Handler /\ Segura([h EXCEPT !.pc = "estende"])
  BY <1>1 DEF Handler, Segura
<1>5. PICK q \in Handler : Segura(q) /\ Segue(r, q)
  <2>1. CASE AbrirTrial(r) \/ ConferirTrial(r)
    BY <2>1, <1>2, LivreTipo DEF AbrirTrial, ConferirTrial
  <2>2. CASE ConferirReativacao(r)
    BY <2>2, <1>1, <1>3, LivreTipo DEF ConferirReativacao, Em
  <2>3. CASE ConferirExtensao(r)
    BY <2>3, <1>1, <1>4, LivreTipo DEF ConferirExtensao, Em
  <2>4. CASE Falhar(r)
    BY <2>4, LivreTipo DEF Falhar
  <2> QED BY <2>1, <2>2, <2>3, <2>4
<1>6. UNCHANGED <<licencas, anunciado, hoje>>
  BY DEF AbrirTrial, ConferirTrial, ConferirReativacao, ConferirExtensao, Falhar
<1> QED BY <1>5, <1>6, SoHandler

\* The writes by id: what becomes ATIVA passed the index.
LEMMA EscritaIInv ==
  ASSUME IInv, NEW r \in Req, Alterar(r) \/ Estender(r) \/ MarcarExpirada(r)
  PROVE  IInv'
<1>1. PICK q \in Handler : q = req[r] /\ Segura(q)
  BY DEF IInv, TypeOK
<1>2. q.lic \in Licenca /\ q.alvo \in StatusLicenca /\ q.ate \in Dia
  BY <1>1 DEF Alterar, Estender, MarcarExpirada, Em, Segura, Handler
<1>3. status' \in [Licenca -> StatusLicenca] /\ UmaAtiva'
  <2>1. CASE Alterar(r)
    BY <2>1, <1>1, <1>2, UmStatus DEF Alterar
  <2>2. CASE MarcarExpirada(r)
    <3>1. "EXPIRADA" \in StatusLicenca
      BY DEF StatusLicenca
    <3> QED BY <2>2, <3>1, <1>1, <1>2, UmStatus DEF MarcarExpirada
  <2>3. CASE Estender(r)
    <3>1. CASE q.alvo = "EXPIRADA"
      <4>1. "ATIVA" \in StatusLicenca
        BY DEF StatusLicenca
      <4> QED BY <2>3, <3>1, <4>1, <1>1, <1>2, UmStatus DEF Estender
    <3>2. CASE q.alvo # "EXPIRADA"
      BY <2>3, <3>2, <1>1 DEF Estender, IInv, TypeOK, UmaAtiva, Ativas
    <3> QED BY <3>1, <3>2
  <2> QED BY <2>1, <2>2, <2>3
<1>4. /\ tipo' \in [Licenca -> TipoLicenca]
      /\ assinatura' \in [Licenca -> Assinatura \cup {Nenhuma}]
      /\ validade' \in [Licenca -> Dia] /\ anunciado' \in [Assinatura -> Dia]
  BY <1>1, <1>2 DEF Alterar, Estender, MarcarExpirada, IInv, TypeOK
<1>5. Segue(r, Livre) /\ UNCHANGED hoje
  BY DEF Alterar, Estender, MarcarExpirada
<1> QED BY <1>3, <1>4, <1>5, SoLicencas

\* Every step keeps the invariant.
LEMMA NextIInv == IInv /\ [Next]_vars => IInv'
<1> SUFFICES ASSUME IInv, [Next]_vars PROVE IInv'
  OBVIOUS
<1>1. ASSUME NEW r \in Req, Handlers(r) PROVE IInv'
  <2>1. CASE EmitirTrial(r)
    BY <2>1, EmitirTrialIInv
  <2>2. CASE \E t \in TiposManuais, ate \in Dia : EmitirManual(r, t, ate)
    BY <2>2, EmitirManualIInv
  <2>3. CASE \E s \in Assinatura, ate \in Dia : AbrirRenovacao(r, s, ate)
    BY <2>3, AbrirRenovacaoIInv
  <2>4. CASE Renovar(r)
    BY <2>4, RenovarIInv
  <2>5. CASE \E s \in Assinatura : AbrirEncerramento(r, s)
    BY <2>5, AbrirEncerramentoIInv
  <2>8. CASE \E l \in Licenca, s \in {"ATIVA", "SUSPENSA", "REVOGADA"} : AbrirStatus(r, l, s)
    BY <2>8, AbrirStatusIInv
  <2>9. CASE \E l \in Licenca, dias \in 1 .. Horizonte : AbrirExtensao(r, l, dias)
    BY <2>9, AbrirExtensaoIInv
  <2>10. CASE LerAtual(r)
    BY <2>10, LerAtualIInv
  <2>6. CASE \/ AbrirTrial(r) \/ ConferirTrial(r) \/ ConferirReativacao(r)
             \/ ConferirExtensao(r) \/ Falhar(r)
    BY <2>6, ConferirIInv
  <2>7. CASE Alterar(r) \/ Estender(r) \/ MarcarExpirada(r)
    BY <2>7, EscritaIInv
  <2> QED BY <1>1, <2>1, <2>2, <2>3, <2>4, <2>5, <2>6, <2>7, <2>8, <2>9, <2>10 DEF Handlers
<1>2. CASE PassarDia
  BY <1>2, DiasAssumption DEF PassarDia, IInv, TypeOK, Segura, UmaAtiva, Ativas, licencas
<1>3. CASE UNCHANGED vars
  BY <1>3 DEF vars, IInv, TypeOK, Segura, UmaAtiva, Ativas
<1> QED BY <1>1, <1>2, <1>3 DEF Next

\* The inductive invariant of the licences.
THEOREM InvarianteLicencas == Spec => []IInv
  BY InitIInv, NextIInv, PTL DEF Spec

\* Rows and handlers keep their types.
THEOREM TiposLicencas == Spec => []TypeOK
<1>1. IInv => TypeOK
  BY DEF IInv
<1> QED BY <1>1, InvarianteLicencas, PTL

\* An account never has two active licences, however the handlers interleave.
THEOREM UmaLicencaAtiva == Spec => []UmaAtiva
<1>1. IInv => UmaAtiva
  BY DEF IInv
<1> QED BY <1>1, InvarianteLicencas, PTL
=============================================================================
