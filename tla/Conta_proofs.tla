------------------------------ MODULE Conta_proofs ------------------------------
(***************************************************************************)
(* Proofs about what belongs to an account, for every size of the          *)
(* constants: the machines, the administrators, the sessions, the letters, *)
(* the licences, the routine's e-mails, the cards and the calendar.        *)
(*                                                                         *)
(* What is bounded, however handlers overlap, is shown by counting: those  *)
(* written and those about to be.  What holds of handlers that do not      *)
(* overlap is one invariant per component: its types, which hold always,   *)
(* and, while sozinho, what the rows are at rest and what the handler at   *)
(* work knows of them, which nobody else changes before it writes.  At the *)
(* end the invariants are put together for the account as a whole.         *)
(***************************************************************************)
EXTENDS MCConta, Licencas_proofs, Sessoes_proofs, WellFoundedInduction

-----------------------------------------------------------------------------
(* Machines: types, and the bound on the machines connected.  The bound counts, with them, *)
(* those whose handler has a place already: only the count may add one to both, and it has *)
(* just seen fewer than the limit; whoever writes a token moves its machine from the ones  *)
(* with a place to the ones connected.                                                     *)

\* A handler in flight serves a machine; one that uses a token serves that token's machine.
CoerenteDisp(q) ==
  /\ q.pc # "livre" => q.maq \in Maquina
  /\ q.pc = "usa" => q.tok \in 1 .. tokens /\ maquina[q.tok] = q.maq

InvDisp ==
  /\ TypeOKDispositivos
  /\ \A t \in 1 .. tokens : maquina[t] \in Maquina
  /\ \A r \in ReqDisp : CoerenteDisp(reqDisp[r])

Ocupadas == Conectadas \cup ComVaga

\* An idle handler.
LEMMA LivreDispTipo == LivreDisp \in HandlerDisp /\ CoerenteDisp(LivreDisp)
  BY DispAssumption DEF LivreDisp, HandlerDisp, CoerenteDisp

\* The invariant holds at the start.
LEMMA InitInvDisp == InitDispositivos => InvDisp
  BY LivreDispTipo, DispAssumption DEF InitDispositivos, InvDisp, TypeOKDispositivos, TokenApi

\* A step that only moves one handler.
LEMMA SoHandlerDisp ==
  ASSUME InvDisp, NEW r \in ReqDisp, NEW q \in HandlerDisp, CoerenteDisp(q), SegueDisp(r, q),
         UNCHANGED <<tokens, maquina, token>>
  PROVE  InvDisp'
  BY DEF InvDisp, TypeOKDispositivos, CoerenteDisp, SegueDisp

\* A step that changes what some tokens are.
LEMMA SoTokens ==
  ASSUME InvDisp, NEW r \in ReqDisp, SegueDisp(r, LivreDisp) \/ UNCHANGED reqDisp,
         UNCHANGED <<tokens, maquina>>,
         token' \in [TokenApi -> {"vivo", "vencido", "revogado"}]
  PROVE  InvDisp'
  BY LivreDispTipo DEF InvDisp, TypeOKDispositivos, CoerenteDisp, SegueDisp

\* Every step of a handler keeps it.
LEMMA PassoInvDisp ==
  ASSUME InvDisp, NEW r \in ReqDisp, PassoDispositivos(r)
  PROVE  InvDisp'
<1> USE DispAssumption
<1>0. reqDisp[r] \in HandlerDisp /\ CoerenteDisp(reqDisp[r]) /\ tokens \in Nat
      /\ LivreDisp \in HandlerDisp
  BY LivreDispTipo DEF InvDisp, TypeOKDispositivos
<1>1. ASSUME NEW m \in Maquina, Vincular(r, m) PROVE InvDisp'
  <2> DEFINE pc == IF m \in Conectadas THEN "linha" ELSE "conta"
             q == [LivreDisp EXCEPT !.pc = pc, !.maq = m]
  <2>1. pc \in {"linha", "conta"}
    OBVIOUS
  <2>2. SegueDisp(r, q) /\ UNCHANGED <<tokens, maquina, token>>
    BY <1>1 DEF Vincular
  <2> HIDE DEF pc
  <2>3. q \in HandlerDisp /\ CoerenteDisp(q)
    BY <1>0, <2>1 DEF LivreDisp, HandlerDisp, CoerenteDisp
  <2> HIDE DEF q
  <2> QED BY <2>2, <2>3, SoHandlerDisp
<1>2. ASSUME NEW m \in Maquina, AbrirRevogacao(r, m) PROVE InvDisp'
  <2> DEFINE q == [LivreDisp EXCEPT !.pc = "revoga", !.maq = m]
  <2>1. SegueDisp(r, q) /\ UNCHANGED <<tokens, maquina, token>>
    BY <1>2 DEF AbrirRevogacao
  <2>2. q \in HandlerDisp /\ CoerenteDisp(q)
    BY <1>0 DEF LivreDisp, HandlerDisp, CoerenteDisp
  <2> HIDE DEF q
  <2> QED BY <2>1, <2>2, SoHandlerDisp
<1>3. CASE ContarConectados(r)
  <2> DEFINE q == [reqDisp[r] EXCEPT !.pc = "linha"]
  <2>1. q \in HandlerDisp /\ CoerenteDisp(q)
    BY <1>0, <1>3 DEF ContarConectados, EmDisp, HandlerDisp, CoerenteDisp
  <2>2. (SegueDisp(r, q) \/ SegueDisp(r, LivreDisp)) /\ UNCHANGED <<tokens, maquina, token>>
    BY <1>3 DEF ContarConectados
  <2> HIDE DEF q
  <2> QED BY <2>1, <2>2, SoHandlerDisp, LivreDispTipo
<1>4. CASE SalvarMaquina(r)
  <2> DEFINE q == [reqDisp[r] EXCEPT !.pc = "troca"]
  <2>1. q \in HandlerDisp /\ CoerenteDisp(q)
    BY <1>0, <1>4 DEF SalvarMaquina, EmDisp, HandlerDisp, CoerenteDisp
  <2>2. SegueDisp(r, q) /\ UNCHANGED <<tokens, maquina, token>>
    BY <1>4 DEF SalvarMaquina
  <2> HIDE DEF q
  <2> QED BY <2>1, <2>2, SoHandlerDisp
<1>5. CASE TrocarToken(r)
  <2> DEFINE V == NaoRevogados(reqDisp[r].maq)
             q == [reqDisp[r] EXCEPT !.pc = "grava", !.vistos = V]
  <2>1. V \in SUBSET TokenApi
    BY <1>0 DEF NaoRevogados, TokenApi, InvDisp, TypeOKDispositivos
  <2>2. SegueDisp(r, q) /\ UNCHANGED <<tokens, maquina, token>>
    BY <1>5 DEF TrocarToken
  <2> HIDE DEF V
  <2>3. q \in HandlerDisp /\ CoerenteDisp(q)
    BY <1>0, <1>5, <2>1 DEF TrocarToken, EmDisp, HandlerDisp, CoerenteDisp
  <2> HIDE DEF q
  <2> QED BY <2>2, <2>3, SoHandlerDisp
<1>6. CASE GravarToken(r)
  <2> DEFINE q == reqDisp[r]
             t == tokens + 1
  <2>1. /\ t \in TokenApi /\ tokens' = t /\ q.maq \in Maquina
        /\ maquina' = [maquina EXCEPT ![t] = q.maq]
        /\ Revoga(q.vistos) /\ SegueDisp(r, LivreDisp)
    BY <1>0, <1>6 DEF GravarToken, EmDisp, CoerenteDisp
  <2>2. token' \in [TokenApi -> {"vivo", "vencido", "revogado"}]
    BY <2>1 DEF Revoga, InvDisp, TypeOKDispositivos
  <2>3. maquina' \in [TokenApi -> Maquina \cup {SemMaquina}] /\ tokens' \in 0 .. MaxTokens
    BY <1>0, <2>1 DEF InvDisp, TypeOKDispositivos, TokenApi
  <2>4. reqDisp' = [reqDisp EXCEPT ![r] = LivreDisp]
        /\ reqDisp' \in [ReqDisp -> HandlerDisp]
    BY <1>0, <2>1 DEF SegueDisp, InvDisp, TypeOKDispositivos
  <2>5. \A u \in 1 .. tokens' : maquina'[u] \in Maquina
    BY <1>0, <2>1 DEF InvDisp, TypeOKDispositivos, TokenApi
  <2>6. \A u \in 1 .. tokens : u \in 1 .. tokens' /\ maquina'[u] = maquina[u]
    BY <1>0, <2>1 DEF InvDisp, TypeOKDispositivos, TokenApi
  <2>7. ASSUME NEW s \in ReqDisp PROVE CoerenteDisp(reqDisp[s])'
    <3>1. CASE s = r
      BY <2>4, <3>1 DEF InvDisp, TypeOKDispositivos, CoerenteDisp, LivreDisp
    <3>2. CASE s # r
      <4>1. reqDisp'[s] = reqDisp[s] /\ CoerenteDisp(reqDisp[s])
        BY <2>4, <3>2 DEF InvDisp, TypeOKDispositivos
      <4> QED BY <2>6, <4>1 DEF CoerenteDisp
    <3> QED BY <3>1, <3>2
  <2> QED BY <2>2, <2>3, <2>4, <2>5, <2>7 DEF InvDisp, TypeOKDispositivos
<1>7. CASE RevogarMaquina(r)
  BY <1>7, SoTokens DEF RevogarMaquina, Revoga, InvDisp, TypeOKDispositivos
<1>8. CASE RevogarTodas(r)
  BY <1>8, SoTokens DEF RevogarTodas, Revoga, InvDisp, TypeOKDispositivos
<1>9. ASSUME NEW t \in TokenApi, UsarToken(r, t) PROVE InvDisp'
  <2> DEFINE m == maquina[t]
             q == [LivreDisp EXCEPT !.pc = "usa", !.tok = t, !.maq = m]
  <2>1. SegueDisp(r, q) /\ UNCHANGED <<tokens, maquina, token>>
    BY <1>9 DEF UsarToken
  <2>2. t \in 1 .. tokens /\ m \in Maquina /\ t \in 0 .. MaxTokens
    BY <1>0, <1>9 DEF UsarToken, TokenApi, InvDisp
  <2>3. q.pc = "usa" /\ q.tok = t /\ q.maq = m
    BY DEF LivreDisp
  <2>4. CoerenteDisp(q)
    BY <2>2, <2>3 DEF CoerenteDisp
  <2> HIDE DEF m
  <2>5. q \in HandlerDisp
    BY <1>0, <2>2 DEF LivreDisp, HandlerDisp
  <2> HIDE DEF q
  <2> QED BY <2>1, <2>4, <2>5, SoHandlerDisp
<1>10. CASE RegistrarUso(r)
  BY <1>10, SoTokens DEF RegistrarUso, InvDisp, TypeOKDispositivos
<1>11. CASE FalharDisp(r)
  BY <1>11, SoHandlerDisp, LivreDispTipo DEF FalharDisp
<1> QED BY <1>1, <1>2, <1>3, <1>4, <1>5, <1>6, <1>7, <1>8, <1>9, <1>10, <1>11
        DEF PassoDispositivos

\* Every step keeps it.
LEMMA NextInvDisp == InvDisp /\ [NextDispositivos]_varsDispositivos => InvDisp'
<1> SUFFICES ASSUME InvDisp, [NextDispositivos]_varsDispositivos PROVE InvDisp'
  OBVIOUS
<1>1. ASSUME NEW t \in TokenApi, VencerToken(t) PROVE InvDisp'
  BY <1>1 DEF VencerToken, InvDisp, TypeOKDispositivos, CoerenteDisp
<1>2. CASE UNCHANGED varsDispositivos
  BY <1>2 DEF varsDispositivos, InvDisp, TypeOKDispositivos, CoerenteDisp
<1> QED BY <1>1, <1>2, PassoInvDisp DEF NextDispositivos

\* Type correctness of the tokens and of the handlers, whatever is linked, used or revoked.
THEOREM TiposDispositivos == SpecDispositivos => []TypeOKDispositivos
<1>1. InvDisp => TypeOKDispositivos
  BY DEF InvDisp
<1> QED BY <1>1, InitInvDisp, NextInvDisp, PTL DEF SpecDispositivos

-----------------------------------------------------------------------------
\* A set of machines and the machines of some slots, together: finitely many, and no more than
\* the machines and the slots.
LEMMA Uniao ==
  ASSUME NEW C \in SUBSET Maquina, NEW E \in SUBSET ReqDisp, NEW f, NEW V, V = {f[r] : r \in E}
  PROVE  /\ IsFiniteSet(C \cup V) /\ Cardinality(C \cup V) \in Nat
         /\ Cardinality(C) \in Nat /\ Cardinality(ReqDisp) \in Nat
         /\ Cardinality(C \cup V) <= Cardinality(C) + Cardinality(ReqDisp)
<1>1. IsFiniteSet(C) /\ Cardinality(C) \in Nat
  BY DispFinitosAssumption, FS_Subset, FS_CardinalityType
<1>2. /\ IsFiniteSet(E) /\ Cardinality(E) \in Nat /\ Cardinality(ReqDisp) \in Nat
      /\ Cardinality(E) <= Cardinality(ReqDisp)
  BY DispFinitosAssumption, FS_Subset, FS_CardinalityType
<1>3. IsFiniteSet(V) /\ Cardinality(V) <= Cardinality(E)
  <2> DEFINE g == [r \in E |-> f[r]]
  <2>1. g \in [E -> V] /\ \A m \in V : \E r \in E : g[r] = m
    OBVIOUS
  <2> HIDE DEF g
  <2>2. g \in Surjection(E, V)
    BY <2>1 DEF Surjection
  <2> QED BY <1>2, <2>2, FS_Surjection
<1>4. Cardinality(V) \in Nat
  BY <1>3, FS_CardinalityType
<1>5. IsFiniteSet(C \cup V) /\ Cardinality(C \cup V) \in Nat
      /\ Cardinality(C \cup V) <= Cardinality(C) + Cardinality(V)
  <2>1. IsFiniteSet(C \cup V)
    BY <1>1, <1>3, FS_Union
  <2>2. Cardinality(C \cap V) \in Nat
    BY <1>1, FS_Intersection, FS_CardinalityType
  <2>3. Cardinality(C \cup V) = Cardinality(C) + Cardinality(V) - Cardinality(C \cap V)
    BY <1>1, <1>3, FS_Union
  <2> QED BY <1>1, <1>4, <2>1, <2>2, <2>3, FS_CardinalityType
<1> QED BY <1>1, <1>2, <1>3, <1>4, <1>5

\* The same of the machines with a place, before a step and after it.
LEMMA Contagem ==
  /\ IsFiniteSet(Ocupadas) /\ Cardinality(Ocupadas) \in Nat
  /\ Cardinality(Conectadas) \in Nat /\ Cardinality(ReqDisp) \in Nat
  /\ Cardinality(Ocupadas) <= Cardinality(Conectadas) + Cardinality(ReqDisp)
<1> DEFINE f == [r \in ReqDisp |-> reqDisp[r].maq]
<1>1. Conectadas \in SUBSET Maquina /\ EmVoo \in SUBSET ReqDisp /\ ComVaga = {f[r] : r \in EmVoo}
  BY DEF Conectadas, ComVaga, EmVoo
<1> HIDE DEF f
<1> QED BY <1>1, Uniao DEF Ocupadas

LEMMA ContagemDepois ==
  /\ Cardinality(Ocupadas') \in Nat
  /\ Cardinality(Ocupadas') <= Cardinality(Conectadas') + Cardinality(ReqDisp)
<1> DEFINE f == [r \in ReqDisp |-> reqDisp'[r].maq]
<1>1. Conectadas' \in SUBSET Maquina /\ EmVoo' \in SUBSET ReqDisp
      /\ ComVaga' = {f[r] : r \in EmVoo'}
  BY DEF Conectadas, ComVaga, EmVoo
<1> HIDE DEF f
<1> QED BY <1>1, Uniao DEF Ocupadas

\* No machine with a place that had none: the bound stays.
LEMMA NenhumaNova ==
  ASSUME EstouroLimitado, Ocupadas' \subseteq Ocupadas
  PROVE  EstouroLimitado'
<1>1. Cardinality(Ocupadas') \in Nat /\ Cardinality(Ocupadas') <= Cardinality(Ocupadas)
  BY Contagem, FS_Subset, FS_CardinalityType
<1>2. Cardinality(Ocupadas) <= LimiteDisp - 1 + Cardinality(ReqDisp)
  BY DEF EstouroLimitado, Ocupadas
<1>3. Cardinality(Ocupadas') <= LimiteDisp - 1 + Cardinality(ReqDisp)
  BY <1>1, <1>2, Contagem, DispAssumption
<1> QED BY <1>3 DEF EstouroLimitado, Ocupadas

\* Tokens that are revoked or run out connect no machine.
LEMMA MenosVivos ==
  ASSUME UNCHANGED <<tokens, maquina>>, \A t \in 1 .. tokens : token'[t] = "vivo" => token[t] = "vivo"
  PROVE  Conectadas' \subseteq Conectadas
  BY DEF Conectadas, VivosDa

\* What one handler's step does to the machines with a place.
LEMMA SoVaga ==
  ASSUME InvDisp, NEW r \in ReqDisp, NEW q, SegueDisp(r, q)
  PROVE  ComVaga' \subseteq ComVaga \cup {q.maq}
         /\ (q.pc \notin {"linha", "troca", "grava", "usa"} => ComVaga' \subseteq ComVaga)
  BY DEF InvDisp, TypeOKDispositivos, SegueDisp, ComVaga, EmVoo

\* Every step of a handler keeps the bound.
LEMMA PassoEstouro ==
  ASSUME InvDisp, EstouroLimitado, NEW r \in ReqDisp, PassoDispositivos(r)
  PROVE  EstouroLimitado'
<1> USE DEF Ocupadas
<1>0. LivreDisp.pc = "livre"
  BY DEF LivreDisp
<1>1. ASSUME NEW m \in Maquina, Vincular(r, m) PROVE EstouroLimitado'
  <2> DEFINE pc == IF m \in Conectadas THEN "linha" ELSE "conta"
             q == [LivreDisp EXCEPT !.pc = pc, !.maq = m]
  <2>1. SegueDisp(r, q) /\ UNCHANGED <<tokens, maquina, token>>
    BY <1>1 DEF Vincular
  <2>2. q.maq = m /\ q.pc = pc
    BY DEF LivreDisp
  <2>3. Conectadas' = Conectadas
    BY <2>1 DEF Conectadas, VivosDa
  <2>4. ComVaga' \subseteq ComVaga \cup {m} /\ (m \notin Conectadas => ComVaga' \subseteq ComVaga)
    <3> HIDE DEF q
    <3> QED BY <2>1, <2>2, SoVaga
  <2> QED BY <2>3, <2>4, NenhumaNova
<1>2. ASSUME NEW m \in Maquina, AbrirRevogacao(r, m) PROVE EstouroLimitado'
  <2> DEFINE q == [LivreDisp EXCEPT !.pc = "revoga", !.maq = m]
  <2>1. SegueDisp(r, q) /\ UNCHANGED <<tokens, maquina, token>> /\ q.pc = "revoga"
    BY <1>2 DEF AbrirRevogacao, LivreDisp
  <2>2. Conectadas' = Conectadas
    BY <2>1 DEF Conectadas, VivosDa
  <2> HIDE DEF q
  <2> QED BY <2>1, <2>2, SoVaga, NenhumaNova
\* the only step that gives a place: it has counted fewer than the limit
<1>3. CASE ContarConectados(r)
  <2>1. Conectadas' = Conectadas
    BY <1>3 DEF ContarConectados, Conectadas, VivosDa
  <2>2. CASE Cardinality(Conectadas) < LimiteDisp
    <3>1. Cardinality(Ocupadas') <= LimiteDisp - 1 + Cardinality(ReqDisp)
      <4> HIDE DEF Ocupadas
      <4> QED BY <2>1, <2>2, Contagem, ContagemDepois, DispAssumption
    <3> QED BY <3>1 DEF EstouroLimitado
  <2>3. CASE ~(Cardinality(Conectadas) < LimiteDisp)
    BY <1>0, <1>3, <2>1, <2>3, SoVaga, NenhumaNova DEF ContarConectados
  <2> QED BY <2>2, <2>3
<1>4. CASE SalvarMaquina(r) \/ TrocarToken(r)
  <2>1. Conectadas' = Conectadas
    BY <1>4 DEF SalvarMaquina, TrocarToken, Conectadas, VivosDa
  <2>2. reqDisp[r].maq \in ComVaga /\ reqDisp[r] \in HandlerDisp
    BY <1>4 DEF SalvarMaquina, TrocarToken, EmDisp, ComVaga, EmVoo, InvDisp, TypeOKDispositivos
  <2>3. CASE SalvarMaquina(r)
    <3> DEFINE q == [reqDisp[r] EXCEPT !.pc = "troca"]
    <3>1. SegueDisp(r, q) /\ q.maq = reqDisp[r].maq
      BY <2>2, <2>3 DEF SalvarMaquina, HandlerDisp
    <3> HIDE DEF q
    <3> QED BY <2>1, <2>2, <3>1, SoVaga, NenhumaNova
  <2>4. CASE TrocarToken(r)
    <3> DEFINE V == NaoRevogados(reqDisp[r].maq)
               q == [reqDisp[r] EXCEPT !.pc = "grava", !.vistos = V]
    <3>1. SegueDisp(r, q)
      BY <2>4 DEF TrocarToken
    <3> HIDE DEF V
    <3>2. q.maq = reqDisp[r].maq
      BY <2>2 DEF HandlerDisp
    <3> HIDE DEF q
    <3> QED BY <2>1, <2>2, <3>1, <3>2, SoVaga, NenhumaNova
  <2> QED BY <1>4, <2>3, <2>4
\* the machine that gets the token had a place
<1>5. CASE GravarToken(r)
  <2>1. reqDisp[r].maq \in ComVaga
    BY <1>5 DEF GravarToken, EmDisp, ComVaga, EmVoo
  <2>2. Conectadas' \subseteq Conectadas \cup {reqDisp[r].maq}
    <3>1. /\ tokens \in Nat /\ tokens' = tokens + 1 /\ tokens + 1 \in TokenApi
          /\ maquina' = [maquina EXCEPT ![tokens + 1] = reqDisp[r].maq]
          /\ maquina \in [TokenApi -> Maquina \cup {SemMaquina}]
      BY <1>5, DispAssumption DEF GravarToken, InvDisp, TypeOKDispositivos
    <3>2. \A t \in TokenApi : token'[t] = "vivo" => token[t] = "vivo"
      BY <1>5 DEF GravarToken, Revoga
    <3>3. ASSUME NEW m \in Conectadas', m # reqDisp[r].maq PROVE m \in Conectadas
      <4>1. PICK t \in 1 .. tokens' : maquina'[t] = m /\ token'[t] = "vivo"
        BY <3>3 DEF Conectadas, VivosDa
      <4>2. t \in TokenApi /\ t # tokens + 1 /\ t \in 1 .. tokens
        BY <3>1, <3>3, <4>1, DispAssumption DEF TokenApi
      <4>3. maquina[t] = m /\ token[t] = "vivo"
        BY <3>1, <3>2, <4>1, <4>2
      <4> QED BY <3>3, <4>2, <4>3 DEF Conectadas, VivosDa
    <3> QED BY <3>3
  <2>3. ComVaga' \subseteq ComVaga
    BY <1>0, <1>5, SoVaga DEF GravarToken
  <2> QED BY <2>1, <2>2, <2>3, NenhumaNova
<1>6. CASE RevogarMaquina(r)
  <2>1. Conectadas' \subseteq Conectadas
    BY <1>6, MenosVivos, DispAssumption
       DEF RevogarMaquina, Revoga, InvDisp, TypeOKDispositivos, TokenApi
  <2>2. ComVaga' \subseteq ComVaga
    BY <1>0, <1>6, SoVaga DEF RevogarMaquina
  <2> QED BY <2>1, <2>2, NenhumaNova
<1>7. CASE RevogarTodas(r)
  <2>1. Conectadas' \subseteq Conectadas
    BY <1>7, MenosVivos, DispAssumption
       DEF RevogarTodas, Revoga, InvDisp, TypeOKDispositivos, TokenApi
  <2>2. ComVaga' = ComVaga
    BY <1>7 DEF RevogarTodas, ComVaga, EmVoo
  <2> QED BY <2>1, <2>2, NenhumaNova
\* the machine of a token in use is connected
<1>8. ASSUME NEW t \in TokenApi, UsarToken(r, t) PROVE EstouroLimitado'
  <2>1. Conectadas' = Conectadas
    BY <1>8 DEF UsarToken, Conectadas, VivosDa
  <2>2. maquina[t] \in Conectadas
    BY <1>8, DispAssumption DEF UsarToken, Conectadas, VivosDa, InvDisp, TypeOKDispositivos, TokenApi
  <2> DEFINE m == maquina[t]
             q == [LivreDisp EXCEPT !.pc = "usa", !.tok = t, !.maq = m]
  <2>3. SegueDisp(r, q)
    BY <1>8 DEF UsarToken
  <2>4. m \in Conectadas
    BY <2>2
  <2> HIDE DEF m
  <2>5. q.maq = m
    BY DEF LivreDisp
  <2> HIDE DEF q
  <2> QED BY <2>1, <2>3, <2>4, <2>5, SoVaga, NenhumaNova
\* the machine of a token that is valid again had a place
<1>9. CASE RegistrarUso(r)
  <2> DEFINE q == reqDisp[r]
  <2>1. q.tok \in 1 .. tokens /\ maquina[q.tok] = q.maq /\ q.maq \in ComVaga
    BY <1>9 DEF RegistrarUso, EmDisp, InvDisp, CoerenteDisp, ComVaga, EmVoo
  <2>2. UNCHANGED <<tokens, maquina>>
        /\ \A t \in 1 .. tokens : t # q.tok /\ token'[t] = "vivo" => token[t] = "vivo"
    BY <1>9, DispAssumption DEF RegistrarUso, InvDisp, TypeOKDispositivos, TokenApi
  <2>3. Conectadas' \subseteq Conectadas \cup {q.maq}
    BY <2>1, <2>2 DEF Conectadas, VivosDa
  <2>4. ComVaga' \subseteq ComVaga
    BY <1>0, <1>9, SoVaga DEF RegistrarUso
  <2> QED BY <2>1, <2>3, <2>4, NenhumaNova
<1>10. CASE FalharDisp(r)
  <2>1. Conectadas' = Conectadas
    BY <1>10 DEF FalharDisp, Conectadas, VivosDa
  <2> QED BY <1>0, <1>10, <2>1, SoVaga, NenhumaNova DEF FalharDisp
<1> QED BY <1>1, <1>2, <1>3, <1>4, <1>5, <1>6, <1>7, <1>8, <1>9, <1>10 DEF PassoDispositivos

\* Every step keeps the bound.
LEMMA NextEstouro ==
  InvDisp /\ EstouroLimitado /\ [NextDispositivos]_varsDispositivos => EstouroLimitado'
<1> SUFFICES ASSUME InvDisp, EstouroLimitado, [NextDispositivos]_varsDispositivos
             PROVE  EstouroLimitado'
  OBVIOUS
<1>1. ASSUME NEW t \in TokenApi, VencerToken(t) PROVE EstouroLimitado'
  <2>1. Conectadas' \subseteq Conectadas
    BY <1>1, MenosVivos, DispAssumption DEF VencerToken, InvDisp, TypeOKDispositivos, TokenApi
  <2>2. ComVaga' = ComVaga
    BY <1>1 DEF VencerToken, ComVaga, EmVoo
  <2> QED BY <2>1, <2>2, NenhumaNova DEF Ocupadas
<1>2. CASE UNCHANGED varsDispositivos
  <2>1. Conectadas' = Conectadas /\ ComVaga' = ComVaga
    BY <1>2 DEF varsDispositivos, Conectadas, VivosDa, ComVaga, EmVoo
  <2> QED BY <2>1, NenhumaNova DEF Ocupadas
<1> QED BY <1>1, <1>2, PassoEstouro DEF NextDispositivos

\* Nobody is connected at the start.
LEMMA EstouroInicio == InitDispositivos => EstouroLimitado
<1> SUFFICES ASSUME InitDispositivos PROVE EstouroLimitado
  OBVIOUS
<1>1. Conectadas = {} /\ InvDisp
  BY InitInvDisp DEF InitDispositivos, Conectadas, VivosDa
<1>2. Cardinality(Conectadas) = 0
  BY <1>1, FS_EmptySet
<1>3. Cardinality(Ocupadas) \in Nat /\ Cardinality(Ocupadas) <= Cardinality(ReqDisp)
  BY <1>1, <1>2, Contagem
<1> QED BY <1>3, Contagem, <1>1, DispAssumption DEF EstouroLimitado, Ocupadas

\* However many machines are linked, used and revoked at once, an account never has more of
\* them connected than its limit and one per other handler in flight.
THEOREM EstouroSempreLimitado == SpecDispositivos => []EstouroLimitado
  BY EstouroInicio, InitInvDisp, NextInvDisp, NextEstouro, PTL DEF SpecDispositivos
-----------------------------------------------------------------------------
(* Requests that do not overlap. *)

\* A step that adds to what has overlapped takes nothing away.
LEMMA SoMenos == ASSUME NEW ACTION L, So(L), sozinho' PROVE sozinho /\ L
  BY Zenon DEF So

\* What has overlapped, or failed, stays so.
LEMMA SozinhoAntes == ASSUME [NextConta]_varsConta, sozinho' PROVE sozinho
<1>1. CASE NextLicencas
  BY <1>1, SoMenos DEF NextLicencas
<1>2. CASE NextSes
  BY <1>2, SoMenos DEF NextSes
<1>3. CASE NextCad
  BY <1>3, SoMenos DEF NextCad
<1>4. CASE NextDisp
  BY <1>4, SoMenos DEF NextDisp
<1>5. CASE NextAdm
  BY <1>5, SoMenos DEF NextAdm
<1>6. CASE NextCart
  BY <1>6, SoMenos DEF NextCart
<1>7. CASE NextAv
  BY <1>7, SoMenos DEF NextAv
<1>8. CASE NextPer
  BY <1>8 DEF NextPer, historia
<1>9. CASE UNCHANGED varsConta
  BY <1>9 DEF varsConta, historia
<1> QED BY <1>1, <1>2, <1>3, <1>4, <1>5, <1>6, <1>7, <1>8, <1>9 DEF NextConta

\* So do failures.
LEMMA InteiroAntes == ASSUME [NextConta]_varsConta, inteiro' PROVE inteiro
<1>1. CASE NextLicencas \/ NextDisp \/ NextAdm
  BY <1>1 DEF NextLicencas, NextDisp, NextAdm
<1>2. CASE NextSes
  BY <1>2 DEF NextSes
<1>3. CASE NextCad
  BY <1>3 DEF NextCad
<1>4. CASE NextCart
  BY <1>4 DEF NextCart
<1>5. CASE NextAv
  BY <1>5 DEF NextAv
<1>6. CASE NextPer
  BY <1>6 DEF NextPer, historia
<1>7. CASE UNCHANGED varsConta
  BY <1>7 DEF varsConta, historia
<1> QED BY <1>1, <1>2, <1>3, <1>4, <1>5, <1>6, <1>7 DEF NextConta

\* A step of the account is a step of a component, or leaves it alone.
LEMMA ContaLicencas == ASSUME [NextConta]_varsConta PROVE NextLicencas \/ UNCHANGED vars
  BY DEF NextConta, NextSes, NextCad, NextDisp, NextAdm, NextCart, NextAv, NextPer, varsConta,
     naoAvisos
LEMMA ContaSessoes == ASSUME [NextConta]_varsConta PROVE NextSes \/ UNCHANGED varsSessoes
  BY DEF NextConta, NextLicencas, NextCad, NextDisp, NextAdm, NextCart, NextAv, NextPer, varsConta,
     naoAvisos, naoLicencas
LEMMA ContaCadastro == ASSUME [NextConta]_varsConta PROVE NextCad \/ UNCHANGED varsCadastro
  BY DEF NextConta, NextLicencas, NextSes, NextDisp, NextAdm, NextCart, NextAv, NextPer, varsConta,
     naoAvisos, naoLicencas
LEMMA ContaDispositivos == ASSUME [NextConta]_varsConta PROVE NextDisp \/ UNCHANGED varsDispositivos
  BY DEF NextConta, NextLicencas, NextSes, NextCad, NextAdm, NextCart, NextAv, NextPer, varsConta,
     naoAvisos, naoLicencas
LEMMA ContaAdm == ASSUME [NextConta]_varsConta PROVE NextAdm \/ UNCHANGED varsAdministradores
  BY DEF NextConta, NextLicencas, NextSes, NextCad, NextDisp, NextCart, NextAv, NextPer, varsConta,
     naoAvisos, naoLicencas
LEMMA ContaCartoes == ASSUME [NextConta]_varsConta PROVE NextCart \/ UNCHANGED varsCartoes
  BY DEF NextConta, NextLicencas, NextSes, NextCad, NextDisp, NextAdm, NextAv, NextPer, varsConta,
     naoAvisos, naoLicencas
LEMMA ContaAvisos == ASSUME [NextConta]_varsConta PROVE NextAv \/ UNCHANGED varsAvisos
  BY DEF NextConta, NextLicencas, NextSes, NextCad, NextDisp, NextAdm, NextCart, NextPer, varsConta,
     naoAvisos, naoLicencas
LEMMA ContaPeriodo == ASSUME [NextConta]_varsConta PROVE NextPer \/ UNCHANGED varsPeriodo
  BY DEF NextConta, NextLicencas, NextSes, NextCad, NextDisp, NextAdm, NextCart, NextAv, varsConta,
     naoAvisos, naoLicencas
-----------------------------------------------------------------------------
(* Administrators: types, and requests that do not overlap. *)

\* A handler at work has an administrator to write.
AlvoAdm == \A r \in ReqAdm : ~EmAdm(r, "livre") => reqAdm[r].alvo \in Admin

TiposAdm == TypeOKAdministradores /\ AlvoAdm

\* A step that only moves one handler.
LEMMA SoHandlerAdm ==
  ASSUME TiposAdm, NEW r \in ReqAdm, NEW q \in HandlerAdm, SegueAdm(r, q),
         q.pc # "livre" => q.alvo \in Admin
  PROVE  reqAdm' \in [ReqAdm -> HandlerAdm] /\ AlvoAdm'
  BY DEF TiposAdm, TypeOKAdministradores, AlvoAdm, SegueAdm, EmAdm

\* Every step keeps the types.
LEMMA AdmTipos ==
  ASSUME TiposAdm, NEW r \in ReqAdm, PassoAdministradores(r)
  PROVE  TiposAdm'
<1> USE DEF TypeOKAdministradores, TiposAdm, contasAdm, geradosAdm
<1>h. reqAdm[r] \in HandlerAdm
  OBVIOUS
<1>l. LivreAdm \in HandlerAdm /\ LivreAdm.pc = "livre"
  <2>1. 0 \in 0 .. MaxSegredos
    BY AdminAssumption
  <2> QED BY <2>1 DEF LivreAdm, HandlerAdm
<1>n. CodigoRec = (1 .. MaxLotes) \X (1 .. PorLote)
  BY DEF CodigoRec
<1>1. ASSUME NEW a \in Admin, NEW b \in Admin, NEW s \in BOOLEAN, AbrirStatusAdmin(r, a, b, s)
      PROVE  TiposAdm'
  <2> DEFINE q == [LivreAdm EXCEPT !.pc = "status", !.alvo = b, !.bloqueia = s]
  <2>1. q \in HandlerAdm /\ q.alvo \in Admin
    BY <1>l DEF HandlerAdm
  <2>2. SegueAdm(r, q) /\ UNCHANGED <<contasAdm, geradosAdm, entradasAdm>>
    BY <1>1 DEF AbrirStatusAdmin, Le
  <2> HIDE DEF q
  <2> QED BY <2>1, <2>2, SoHandlerAdm
<1>2. ASSUME NEW a \in Admin, NEW b \in Admin, AbrirZerar2fa(r, a, b) PROVE TiposAdm'
  <2> DEFINE q == [LivreAdm EXCEPT !.pc = "zera", !.alvo = b]
  <2>1. q \in HandlerAdm /\ q.alvo \in Admin
    BY <1>l DEF HandlerAdm
  <2>2. SegueAdm(r, q) /\ UNCHANGED <<contasAdm, geradosAdm, entradasAdm>>
    BY <1>2 DEF AbrirZerar2fa, Le
  <2> HIDE DEF q
  <2> QED BY <2>1, <2>2, SoHandlerAdm
<1>3. ASSUME NEW a \in Admin, NEW pc \in {"segredo", "regera", "desativa", "exclui"},
             Le(r, [LivreAdm EXCEPT !.pc = pc, !.alvo = a])
      PROVE  TiposAdm'
  <2> DEFINE q == [LivreAdm EXCEPT !.pc = pc, !.alvo = a]
  <2>1. q \in HandlerAdm /\ q.alvo \in Admin
    BY <1>l DEF HandlerAdm
  <2>2. SegueAdm(r, q) /\ UNCHANGED <<contasAdm, geradosAdm, entradasAdm>>
    BY <1>3 DEF Le
  <2> HIDE DEF q
  <2> QED BY <2>1, <2>2, SoHandlerAdm
<1>4. ASSUME NEW a \in Admin, AbrirConfirmar(r, a) PROVE TiposAdm'
  <2> DEFINE q == [LivreAdm EXCEPT !.pc = "ativa", !.alvo = a, !.segredo = segredo[a]]
  <2>1. q \in HandlerAdm /\ q.alvo \in Admin
    BY <1>l DEF HandlerAdm
  <2>2. SegueAdm(r, q) /\ UNCHANGED <<contasAdm, geradosAdm, entradasAdm>>
    BY <1>4 DEF AbrirConfirmar, Le
  <2> HIDE DEF q
  <2> QED BY <2>1, <2>2, SoHandlerAdm
<1>5. ASSUME NEW a \in Admin, NEW c \in CodigoRec, AbrirRecuperacao(r, a, c) PROVE TiposAdm'
  <2> DEFINE q == [LivreAdm EXCEPT !.pc = "consome", !.alvo = a, !.lista = recuperacao[a],
                                   !.cod = {c}]
  <2>1. q \in HandlerAdm /\ q.alvo \in Admin
    BY <1>l DEF HandlerAdm
  <2>2. SegueAdm(r, q) /\ UNCHANGED <<contasAdm, geradosAdm, entradasAdm>>
    BY <1>5 DEF AbrirRecuperacao, Le
  <2> HIDE DEF q
  <2> QED BY <2>1, <2>2, SoHandlerAdm
<1>6. CASE GravarStatusAdmin(r)
  <2>1. reqAdm[r].alvo \in Admin
    BY <1>6 DEF GravarStatusAdmin, AlvoAdm, EmAdm
  <2>2. SegueAdm(r, LivreAdm)
    BY <1>6 DEF GravarStatusAdmin
  <2> QED BY <1>6, <1>l, <2>1, <2>2, SoHandlerAdm DEF GravarStatusAdmin
<1>7. CASE Apagar2fa(r)
  <2>2. SegueAdm(r, LivreAdm)
    BY <1>7 DEF Apagar2fa
  <2>3. 0 \in 0 .. MaxSegredos
    BY AdminAssumption
  <2> QED BY <1>7, <1>l, <2>2, <2>3, SoHandlerAdm DEF Apagar2fa
<1>8. CASE GravarSegredo(r)
  <2>2. SegueAdm(r, LivreAdm)
    BY <1>8 DEF GravarSegredo
  <2>3. segredos + 1 \in 0 .. MaxSegredos
    BY <1>8, AdminAssumption DEF GravarSegredo
  <2> QED BY <1>8, <1>l, <2>2, <2>3, SoHandlerAdm DEF GravarSegredo
<1>m. ASSUME lotes < MaxLotes PROVE NovoLote \in SUBSET CodigoRec /\ lotes + 1 \in 0 .. MaxLotes
  BY <1>m, AdminAssumption DEF NovoLote, CodigoRec
<1>9. CASE Ativar2fa(r)
  <2>1. reqAdm[r].alvo \in Admin /\ reqAdm[r].segredo \in 0 .. MaxSegredos
    BY <1>9, <1>h DEF Ativar2fa, AlvoAdm, EmAdm, HandlerAdm
  <2>2. SegueAdm(r, LivreAdm)
    BY <1>9 DEF Ativar2fa
  <2>3. NovoLote \in SUBSET CodigoRec /\ lotes + 1 \in 0 .. MaxLotes
    BY <1>9, <1>m DEF Ativar2fa
  <2> QED BY <1>9, <1>l, <2>1, <2>2, <2>3, SoHandlerAdm DEF Ativar2fa
<1>10. CASE GravarNovosCodigos(r)
  <2>2. SegueAdm(r, LivreAdm)
    BY <1>10 DEF GravarNovosCodigos
  <2>3. NovoLote \in SUBSET CodigoRec /\ lotes + 1 \in 0 .. MaxLotes
    BY <1>10, <1>m DEF GravarNovosCodigos
  <2> QED BY <1>10, <1>l, <2>2, <2>3, SoHandlerAdm DEF GravarNovosCodigos
<1>11. CASE Consumir(r)
  <2> DEFINE q == [reqAdm[r] EXCEPT !.pc = "entra"]
  <2>1. q \in HandlerAdm /\ q.alvo \in Admin
    BY <1>11, <1>h DEF HandlerAdm, Consumir, AlvoAdm, EmAdm
  <2>2. SegueAdm(r, q)
    BY <1>11 DEF Consumir
  <2>3. reqAdm[r].lista \ reqAdm[r].cod \in SUBSET CodigoRec
    BY <1>h DEF HandlerAdm
  <2> HIDE DEF q
  <2> QED BY <1>11, <2>1, <2>2, <2>3, SoHandlerAdm DEF Consumir
<1>12. CASE EntrarAdmin(r)
  <2>2. SegueAdm(r, LivreAdm)
    BY <1>12 DEF EntrarAdmin
  <2>3. entradasAdm' \in [CodigoRec -> Nat]
    BY <1>12 DEF EntrarAdmin
  <2> QED BY <1>12, <1>l, <2>2, <2>3, SoHandlerAdm DEF EntrarAdmin
<1>13. CASE FalharAdm(r)
  BY <1>13, <1>l, SoHandlerAdm DEF FalharAdm, Le
<1>14. ASSUME NEW a \in Admin,
              \/ AbrirIniciar(r, a) \/ AbrirNovosCodigos(r, a) \/ AbrirDesativar(r, a)
              \/ AbrirExclusao(r, a)
       PROVE  TiposAdm'
  BY <1>3, <1>14 DEF AbrirIniciar, AbrirNovosCodigos, AbrirDesativar, AbrirExclusao
<1>15. CASE GravarExclusao(r)
  <2>1. reqAdm[r].alvo \in Admin
    BY <1>15 DEF GravarExclusao, AlvoAdm, EmAdm
  <2>2. SegueAdm(r, LivreAdm)
    BY <1>15 DEF GravarExclusao
  <2> QED BY <1>15, <1>l, <2>1, <2>2, SoHandlerAdm DEF GravarExclusao
<1> QED BY <1>1, <1>2, <1>4, <1>5, <1>6, <1>7, <1>8, <1>9, <1>10, <1>11, <1>12, <1>13, <1>14, <1>15
     DEF PassoAdministradores

\* The start has the types.
LEMMA AdmInit == ASSUME InitAdministradores PROVE TiposAdm
<1>1. LivreAdm \in HandlerAdm /\ LivreAdm.pc = "livre" /\ 0 \in 0 .. MaxSegredos /\ 0 \in 0 .. MaxLotes
  <2>1. 0 \in 0 .. MaxSegredos /\ 0 \in 0 .. MaxLotes
    BY AdminAssumption
  <2> QED BY <2>1 DEF LivreAdm, HandlerAdm
<1> QED BY <1>1 DEF InitAdministradores, TiposAdm, TypeOKAdministradores, AlvoAdm, EmAdm

\* Type correctness of the administrators' columns and of the handlers.
THEOREM TiposAdministradores == SpecAdministradores => []TypeOKAdministradores
<1>1. TiposAdm /\ [NextAdministradores]_varsAdministradores => TiposAdm'
  <2>1. TiposAdm /\ UNCHANGED varsAdministradores => TiposAdm'
    BY DEF varsAdministradores, TiposAdm, TypeOKAdministradores, AlvoAdm, EmAdm, contasAdm,
       geradosAdm
  <2> QED BY <2>1, AdmTipos DEF NextAdministradores
<1>2. TiposAdm => TypeOKAdministradores
  BY DEF TiposAdm
<1> QED BY <1>1, <1>2, AdmInit, PTL DEF SpecAdministradores
-----------------------------------------------------------------------------
\* One handler at a time: what it read is still so when it writes.  Who blocks another gets in; a secret that is replaced or confirmed is not on yet; a recovery code that was used
\* is in nobody's list, and is in one account's until then.
SoAdm ==
  /\ \A r, s \in ReqAdm : ~EmAdm(r, "livre") /\ ~EmAdm(s, "livre") => r = s
  /\ SegredoConfirmado /\ RecuperacaoUmaVez
  /\ \A a \in Admin : \A c \in recuperacao[a] :
       /\ c[1] <= lotes /\ entradasAdm[c] = 0
       /\ \A b \in Admin : c \in recuperacao[b] => a = b
  /\ \A c \in CodigoRec : entradasAdm[c] > 0 => c[1] <= lotes
  /\ \A r \in ReqAdm :
       LET q == reqAdm[r]
       IN /\ EmAdm(r, "status") => \E a \in Entram : a # q.alvo
          /\ EmAdm(r, "segredo") => q.alvo \notin ativado
          /\ EmAdm(r, "ativa") =>
               q.alvo \notin ativado /\ q.segredo # 0 /\ segredo[q.alvo] = q.segredo
          /\ EmAdm(r, "consome") => q.lista = recuperacao[q.alvo] /\ q.cod \subseteq q.lista
          /\ EmAdm(r, "entra") =>
               \A c \in q.cod : /\ c \in CodigoRec /\ c[1] <= lotes /\ entradasAdm[c] = 0
                                /\ \A a \in Admin : c \notin recuperacao[a]

Ocioso(r) == \A s \in ReqAdm \ {r} : EmAdm(s, "livre")

\* A reading keeps it.
LEMMA LeSoAdm ==
  ASSUME TiposAdm, SoAdm, NEW r \in ReqAdm, Ocioso(r), NEW q, Le(r, q),
         q.pc = "status" => \E a \in Entram : a # q.alvo,
         q.pc = "segredo" => q.alvo \notin ativado,
         q.pc = "ativa" => q.alvo \notin ativado /\ q.segredo # 0 /\ segredo[q.alvo] = q.segredo,
         q.pc = "consome" => q.lista = recuperacao[q.alvo] /\ q.cod \subseteq q.lista,
         q.pc # "entra"
  PROVE  SoAdm' /\ BloqueioDeixaUm
<1>1. /\ reqAdm'[r] = q
      /\ \A s \in ReqAdm \ {r} : reqAdm'[s] = reqAdm[s] /\ reqAdm[s].pc = "livre"
  BY DEF Le, SegueAdm, TiposAdm, TypeOKAdministradores, Ocioso, EmAdm
<1>2. UNCHANGED <<contasAdm, geradosAdm, entradasAdm>>
  BY DEF Le
<1>3. SegredoConfirmado' /\ RecuperacaoUmaVez'
  BY <1>2 DEF SoAdm, SegredoConfirmado, RecuperacaoUmaVez, contasAdm, geradosAdm
<1>4. \A s, t \in ReqAdm : ~EmAdm(s, "livre")' /\ ~EmAdm(t, "livre")' => s = t
  BY <1>1 DEF EmAdm
<1>5. /\ \A a \in Admin : \A c \in recuperacao'[a] :
           /\ c[1] <= lotes' /\ entradasAdm'[c] = 0
           /\ \A b \in Admin : c \in recuperacao'[b] => a = b
      /\ \A c \in CodigoRec : entradasAdm'[c] > 0 => c[1] <= lotes'
  BY <1>2 DEF SoAdm, contasAdm, geradosAdm
<1>6. Entram' = Entram
  BY <1>2 DEF Entram, contasAdm
<1>7. SoAdm'
  BY <1>1, <1>2, <1>3, <1>4, <1>5, <1>6 DEF SoAdm, EmAdm, contasAdm, geradosAdm
<1> QED BY <1>6, <1>7 DEF BloqueioDeixaUm

\* What a write leaves to be shown: the rows, and the handler that goes on.
LEMMA GravaSoAdm ==
  ASSUME TiposAdm, SoAdm, NEW r \in ReqAdm, Ocioso(r), SegueAdm(r, LivreAdm),
         SegredoConfirmado', RecuperacaoUmaVez', BloqueioDeixaUm,
         \A a \in Admin : \A c \in recuperacao'[a] :
           /\ c[1] <= lotes' /\ entradasAdm'[c] = 0
           /\ \A b \in Admin : c \in recuperacao'[b] => a = b,
         \A c \in CodigoRec : entradasAdm'[c] > 0 => c[1] <= lotes'
  PROVE  SoAdm' /\ BloqueioDeixaUm
<1>1. \A s \in ReqAdm : reqAdm'[s].pc = "livre"
  BY DEF SegueAdm, TiposAdm, TypeOKAdministradores, Ocioso, EmAdm, LivreAdm
<1> QED BY <1>1 DEF SoAdm, EmAdm

\* A new batch: its codes are nobody's and were never used.
LEMMA NovoLoteLimpo ==
  ASSUME TiposAdm, SoAdm, NEW b \in Admin, lotes < MaxLotes, lotes' = lotes + 1,
         recuperacao' = [recuperacao EXCEPT ![b] = NovoLote], UNCHANGED entradasAdm
  PROVE  /\ \A a \in Admin : \A c \in recuperacao'[a] :
              /\ c[1] <= lotes' /\ entradasAdm'[c] = 0
              /\ \A d \in Admin : c \in recuperacao'[d] => a = d
         /\ \A c \in CodigoRec : entradasAdm'[c] > 0 => c[1] <= lotes'
<1>l. lotes \in Nat
  BY AdminAssumption DEF TiposAdm, TypeOKAdministradores
<1>1. \A c \in NovoLote : c \in CodigoRec /\ c[1] = lotes + 1
  BY <1>l, AdminAssumption DEF NovoLote, CodigoRec
<1>2. \A c \in CodigoRec : c[1] \in Nat /\ entradasAdm[c] \in Nat
  BY DEF CodigoRec, TiposAdm, TypeOKAdministradores
<1>3. \A a \in Admin : \A c \in recuperacao[a] : c \in CodigoRec /\ c[1] <= lotes /\ entradasAdm[c] = 0
  BY DEF SoAdm, TiposAdm, TypeOKAdministradores
<1>4. \A c \in CodigoRec : entradasAdm[c] > 0 => c[1] <= lotes
  BY DEF SoAdm
<1>5. \A c \in NovoLote : entradasAdm[c] = 0
  BY <1>1, <1>2, <1>4, <1>l
<1>6. /\ recuperacao'[b] = NovoLote
      /\ \A a \in Admin \ {b} : recuperacao'[a] = recuperacao[a]
  BY DEF TiposAdm, TypeOKAdministradores
<1>7. \A a, d \in Admin : \A c \in recuperacao[a] : c \in recuperacao[d] => a = d
  BY DEF SoAdm
<1>8. \A a \in Admin : \A c \in recuperacao[a] : c \notin NovoLote
  BY <1>1, <1>2, <1>3, <1>l
<1>9. ASSUME NEW a \in Admin, NEW c \in recuperacao'[a]
      PROVE  /\ c[1] <= lotes' /\ entradasAdm'[c] = 0
             /\ \A d \in Admin : c \in recuperacao'[d] => a = d
  <2>1. CASE a = b
    BY <1>1, <1>2, <1>5, <1>6, <1>8, <1>9, <1>l, <2>1
  <2>2. CASE a # b
    BY <1>2, <1>3, <1>6, <1>7, <1>8, <1>9, <1>l, <2>2
  <2> QED BY <2>1, <2>2
<1>10. \A c \in CodigoRec : entradasAdm'[c] > 0 => c[1] <= lotes'
  BY <1>2, <1>4, <1>l
<1> QED BY <1>9, <1>10

\* A step of a handler that is alone.
LEMMA PassoSoAdm ==
  ASSUME TiposAdm, SoAdm, NEW r \in ReqAdm, PassoAdministradores(r), Ocioso(r)
  PROVE  SoAdm' /\ BloqueioDeixaUm
<1> DEFINE Limpo == /\ \A a \in Admin : \A c \in recuperacao'[a] :
                         /\ c[1] <= lotes' /\ entradasAdm'[c] = 0
                         /\ \A b \in Admin : c \in recuperacao'[b] => a = b
                    /\ \A c \in CodigoRec : entradasAdm'[c] > 0 => c[1] <= lotes'
<1>h. reqAdm[r] \in HandlerAdm /\ (~EmAdm(r, "livre") => reqAdm[r].alvo \in Admin)
  BY DEF TiposAdm, TypeOKAdministradores, AlvoAdm
<1>t. /\ segredo \in [Admin -> 0 .. MaxSegredos] /\ confirmado \in [Admin -> 0 .. MaxSegredos]
      /\ recuperacao \in [Admin -> SUBSET CodigoRec] /\ entradasAdm \in [CodigoRec -> Nat]
      /\ bloqueados \subseteq Admin /\ ativado \subseteq Admin
      /\ \A a \in Admin : segredo[a] \in Nat
  <2>1. /\ segredo \in [Admin -> 0 .. MaxSegredos] /\ confirmado \in [Admin -> 0 .. MaxSegredos]
        /\ recuperacao \in [Admin -> SUBSET CodigoRec] /\ entradasAdm \in [CodigoRec -> Nat]
        /\ bloqueados \subseteq Admin /\ ativado \subseteq Admin
    BY DEF TiposAdm, TypeOKAdministradores
  <2> QED BY <2>1, AdminAssumption
<1>s. SegredoConfirmado /\ RecuperacaoUmaVez
  BY DEF SoAdm
<1>m. UNCHANGED <<bloqueados, excluidosAdm>> => BloqueioDeixaUm
  BY DEF BloqueioDeixaUm, Entram
<1>1. ASSUME NEW a \in Admin, NEW b \in Admin, NEW s \in BOOLEAN, AbrirStatusAdmin(r, a, b, s)
      PROVE  SoAdm' /\ BloqueioDeixaUm
  <2> DEFINE q == [LivreAdm EXCEPT !.pc = "status", !.alvo = b, !.bloqueia = s]
  <2>1. q.pc = "status" /\ q.alvo = b
    BY DEF LivreAdm
  <2>2. Le(r, q) /\ a # b /\ a \in Entram
    BY <1>1 DEF AbrirStatusAdmin, Atende
  <2> HIDE DEF q
  <2> QED BY <2>1, <2>2, LeSoAdm
<1>2. ASSUME NEW b \in Admin, NEW pc \in {"zera", "segredo", "regera", "desativa", "exclui"},
             Le(r, [LivreAdm EXCEPT !.pc = pc, !.alvo = b]), pc = "segredo" => b \notin ativado
      PROVE  SoAdm' /\ BloqueioDeixaUm
  <2> DEFINE q == [LivreAdm EXCEPT !.pc = pc, !.alvo = b]
  <2>1. q.pc = pc /\ q.alvo = b /\ Le(r, q)
    BY <1>2 DEF LivreAdm
  <2> HIDE DEF q
  <2> QED BY <1>2, <2>1, LeSoAdm
<1>3. ASSUME NEW a \in Admin, AbrirConfirmar(r, a) PROVE SoAdm' /\ BloqueioDeixaUm
  <2> DEFINE q == [LivreAdm EXCEPT !.pc = "ativa", !.alvo = a, !.segredo = segredo[a]]
  <2>1. q.pc = "ativa" /\ q.alvo = a /\ q.segredo = segredo[a]
    BY DEF LivreAdm
  <2>2. Le(r, q) /\ a \notin ativado /\ segredo[a] # 0
    BY <1>3 DEF AbrirConfirmar
  <2> HIDE DEF q
  <2> QED BY <2>1, <2>2, LeSoAdm
<1>4. ASSUME NEW a \in Admin, NEW c \in CodigoRec, AbrirRecuperacao(r, a, c) PROVE SoAdm' /\ BloqueioDeixaUm
  <2> DEFINE q == [LivreAdm EXCEPT !.pc = "consome", !.alvo = a, !.lista = recuperacao[a],
                                   !.cod = {c}]
  <2>1. q.pc = "consome" /\ q.alvo = a /\ q.lista = recuperacao[a] /\ q.cod = {c}
    BY DEF LivreAdm
  <2>2. Le(r, q) /\ c \in recuperacao[a]
    BY <1>4 DEF AbrirRecuperacao
  <2> HIDE DEF q
  <2> QED BY <2>1, <2>2, LeSoAdm
<1>5. CASE GravarStatusAdmin(r)
  <2>1. BloqueioDeixaUm
    <3>1. PICK a \in Entram : a # reqAdm[r].alvo
      BY <1>5 DEF GravarStatusAdmin, SoAdm
    <3>2. a \in Entram'
      BY <1>5, <3>1 DEF GravarStatusAdmin, Entram
    <3> QED BY <3>2 DEF BloqueioDeixaUm
  <2>2. SegredoConfirmado' /\ RecuperacaoUmaVez' /\ Limpo
    BY <1>5, <1>s DEF GravarStatusAdmin, SoAdm, SegredoConfirmado, RecuperacaoUmaVez, geradosAdm
  <2> QED BY <1>5, <2>1, <2>2, GravaSoAdm DEF GravarStatusAdmin
<1>6. CASE Apagar2fa(r)
  <2>1. SegredoConfirmado'
    BY <1>6, <1>s, <1>t DEF Apagar2fa, SegredoConfirmado
  <2>2. BloqueioDeixaUm /\ RecuperacaoUmaVez'
    BY <1>6, <1>m, <1>s DEF Apagar2fa, RecuperacaoUmaVez
  <2>3. Limpo
    <3>1. \A a \in Admin : recuperacao'[a] \subseteq recuperacao[a]
      BY <1>6, <1>t DEF Apagar2fa
    <3> QED BY <1>6, <3>1 DEF Apagar2fa, SoAdm, geradosAdm
  <2> QED BY <1>6, <2>1, <2>2, <2>3, GravaSoAdm DEF Apagar2fa
<1>7. CASE GravarSegredo(r)
  <2>1. reqAdm[r].alvo \notin ativado
    BY <1>7 DEF GravarSegredo, SoAdm
  <2>2. SegredoConfirmado'
    BY <1>7, <1>s, <1>t, <2>1 DEF GravarSegredo, SegredoConfirmado
  <2>3. BloqueioDeixaUm /\ RecuperacaoUmaVez' /\ Limpo
    BY <1>7, <1>m, <1>s DEF GravarSegredo, RecuperacaoUmaVez, SoAdm
  <2> QED BY <1>7, <2>2, <2>3, GravaSoAdm DEF GravarSegredo
<1>8. CASE Ativar2fa(r)
  <2>1. reqAdm[r].segredo # 0 /\ segredo[reqAdm[r].alvo] = reqAdm[r].segredo
    BY <1>8 DEF Ativar2fa, SoAdm
  <2>a. reqAdm[r].alvo \in Admin
    BY <1>8, <1>h DEF Ativar2fa, EmAdm
  <2>2. SegredoConfirmado'
    BY <1>8, <1>s, <1>t, <2>1, <2>a DEF Ativar2fa, SegredoConfirmado
  <2>3. BloqueioDeixaUm /\ RecuperacaoUmaVez'
    BY <1>8, <1>m, <1>s DEF Ativar2fa, RecuperacaoUmaVez
  <2>4. Limpo
    BY <1>8, <2>a, NovoLoteLimpo DEF Ativar2fa
  <2> QED BY <1>8, <2>2, <2>3, <2>4, GravaSoAdm DEF Ativar2fa
<1>9. CASE GravarNovosCodigos(r)
  <2>a. reqAdm[r].alvo \in Admin
    BY <1>9, <1>h DEF GravarNovosCodigos, EmAdm
  <2>3. BloqueioDeixaUm /\ SegredoConfirmado' /\ RecuperacaoUmaVez'
    BY <1>9, <1>m, <1>s DEF GravarNovosCodigos, RecuperacaoUmaVez, SegredoConfirmado
  <2>4. Limpo
    BY <1>9, <2>a, NovoLoteLimpo DEF GravarNovosCodigos
  <2> QED BY <1>9, <2>3, <2>4, GravaSoAdm DEF GravarNovosCodigos
<1>10. CASE Consumir(r)
  <2> DEFINE q == [reqAdm[r] EXCEPT !.pc = "entra"]
  <2>a. reqAdm[r].alvo \in Admin
    BY <1>10, <1>h DEF Consumir, EmAdm
  <2>1. reqAdm[r].lista = recuperacao[reqAdm[r].alvo] /\ reqAdm[r].cod \subseteq reqAdm[r].lista
    BY <1>10 DEF Consumir, SoAdm
  <2>2. q.pc = "entra" /\ q.cod = reqAdm[r].cod
    BY <1>h DEF HandlerAdm
  <2>3. /\ recuperacao'[reqAdm[r].alvo] = recuperacao[reqAdm[r].alvo] \ q.cod
        /\ \A a \in Admin \ {reqAdm[r].alvo} : recuperacao'[a] = recuperacao[a]
    BY <1>10, <1>t, <2>a, <2>1, <2>2 DEF Consumir
  <2>4. BloqueioDeixaUm /\ SegredoConfirmado' /\ RecuperacaoUmaVez'
    BY <1>10, <1>m, <1>s DEF Consumir, RecuperacaoUmaVez, SegredoConfirmado
  <2>5. Limpo
    <3>1. \A a \in Admin : recuperacao'[a] \subseteq recuperacao[a]
      BY <2>3
    <3> QED BY <1>10, <3>1 DEF Consumir, SoAdm, geradosAdm
  <2>6. /\ reqAdm'[r] = q
        /\ \A s \in ReqAdm \ {r} : reqAdm'[s].pc = "livre"
    BY <1>10 DEF Consumir, SegueAdm, TiposAdm, TypeOKAdministradores, Ocioso, EmAdm
  <2>7. \A c \in q.cod : /\ c \in CodigoRec /\ c[1] <= lotes' /\ entradasAdm'[c] = 0
                         /\ \A a \in Admin : c \notin recuperacao'[a]
    <3>1. \A c \in q.cod : c \in recuperacao[reqAdm[r].alvo]
      BY <2>1, <2>2
    <3>2. UNCHANGED <<lotes, entradasAdm>>
      BY <1>10 DEF Consumir, geradosAdm
    <3> QED BY <1>t, <2>a, <2>3, <3>1, <3>2 DEF SoAdm
  <2> HIDE DEF q
  <2> QED BY <2>2, <2>4, <2>5, <2>6, <2>7 DEF SoAdm, EmAdm
<1>11. CASE EntrarAdmin(r)
  <2>1. \A c \in reqAdm[r].cod : /\ c \in CodigoRec /\ c[1] <= lotes /\ entradasAdm[c] = 0
                                 /\ \A a \in Admin : c \notin recuperacao[a]
    BY <1>11 DEF EntrarAdmin, SoAdm
  <2>2. /\ entradasAdm' = [c \in CodigoRec |->
                             IF c \in reqAdm[r].cod THEN entradasAdm[c] + 1 ELSE entradasAdm[c]]
        /\ UNCHANGED <<bloqueados, excluidosAdm, segredo, ativado, confirmado, recuperacao, lotes>>
    BY <1>11 DEF EntrarAdmin, contasAdm, geradosAdm
  <2>3. RecuperacaoUmaVez'
    BY <1>s, <2>1, <2>2 DEF RecuperacaoUmaVez
  <2>4. BloqueioDeixaUm /\ SegredoConfirmado'
    BY <1>m, <1>s, <2>2 DEF SegredoConfirmado
  <2>5. \A a \in Admin : \A c \in recuperacao[a] : c \in CodigoRec /\ c \notin reqAdm[r].cod
    BY <1>t, <2>1
  <2>6. Limpo
    BY <2>1, <2>2, <2>5 DEF SoAdm
  <2> QED BY <1>11, <2>3, <2>4, <2>6, GravaSoAdm DEF EntrarAdmin
<1>12. CASE FalharAdm(r)
  <2>1. LivreAdm.pc = "livre"
    BY DEF LivreAdm
  <2> QED BY <1>12, <2>1, LeSoAdm DEF FalharAdm
<1>13. ASSUME NEW a \in Admin, NEW b \in Admin, AbrirZerar2fa(r, a, b) PROVE SoAdm' /\ BloqueioDeixaUm
  BY <1>2, <1>13 DEF AbrirZerar2fa
<1>14. ASSUME NEW a \in Admin,
              \/ AbrirIniciar(r, a) \/ AbrirNovosCodigos(r, a) \/ AbrirDesativar(r, a)
              \/ AbrirExclusao(r, a)
       PROVE  SoAdm' /\ BloqueioDeixaUm
  BY <1>2, <1>14 DEF AbrirIniciar, AbrirNovosCodigos, AbrirDesativar, AbrirExclusao
<1>15. CASE GravarExclusao(r)
  <2>1. BloqueioDeixaUm
    <3>1. CASE reqAdm[r].alvo \in excluidosAdm
      <4>1. excluidosAdm' = excluidosAdm /\ bloqueados' = bloqueados \cup {reqAdm[r].alvo}
        BY <1>15, <3>1 DEF GravarExclusao
      <4> QED BY <3>1, <4>1 DEF BloqueioDeixaUm, Entram
    <3>2. CASE reqAdm[r].alvo \notin excluidosAdm
      BY <1>15, <3>2 DEF GravarExclusao, BloqueioDeixaUm
    <3> QED BY <3>1, <3>2
  <2>2. SegredoConfirmado' /\ RecuperacaoUmaVez' /\ Limpo
    BY <1>15, <1>s DEF GravarExclusao, SoAdm, SegredoConfirmado, RecuperacaoUmaVez, geradosAdm
  <2> QED BY <1>15, <2>1, <2>2, GravaSoAdm DEF GravarExclusao
<1> QED BY <1>1, <1>3, <1>4, <1>5, <1>6, <1>7, <1>8, <1>9, <1>10, <1>11, <1>12, <1>13, <1>14, <1>15
     DEF PassoAdministradores

InvAdm == TiposAdm /\ (sozinho => SoAdm)

\* The invariant holds at the start, and every step of the account keeps it.
LEMMA InvAdmInicio == ASSUME InitConta PROVE InvAdm
<1>1. TiposAdm
  BY AdmInit DEF InitConta
<1>2. /\ \A r \in ReqAdm : reqAdm[r].pc = "livre"
      /\ bloqueados = {} /\ ativado = {} /\ \A a \in Admin : recuperacao[a] = {}
      /\ \A c \in CodigoRec : entradasAdm[c] = 0
  BY DEF InitConta, InitAdministradores, LivreAdm
<1>3. SoAdm
  BY <1>2 DEF SoAdm, EmAdm, SegredoConfirmado, RecuperacaoUmaVez
<1> QED BY <1>1, <1>3 DEF InvAdm

LEMMA InvAdmPasso ==
  ASSUME InvAdm, [NextConta]_varsConta
  PROVE  /\ InvAdm'
         /\ sozinho' => (BloqueioDeixaUm /\ SegredoConfirmado') \/ UNCHANGED varsAdministradores
<1>1. CASE UNCHANGED varsAdministradores
  <2>1. TiposAdm'
    BY <1>1 DEF InvAdm, varsAdministradores, TiposAdm, TypeOKAdministradores, AlvoAdm, EmAdm,
       contasAdm, geradosAdm
  <2>2. SoAdm => SoAdm'
    BY <1>1 DEF varsAdministradores, SoAdm, EmAdm, contasAdm, geradosAdm, Entram,
       SegredoConfirmado, RecuperacaoUmaVez
  <2> QED BY <1>1, <2>1, <2>2, SozinhoAntes DEF InvAdm
<1>2. CASE NextAdm
  <2>1. PICK r \in ReqAdm : PassoAdministradores(r) /\ So(\A s \in ReqAdm \ {r} : EmAdm(s, "livre"))
    BY <1>2 DEF NextAdm
  <2>2. TiposAdm'
    BY <2>1, AdmTipos DEF InvAdm
  <2>3. ASSUME sozinho' PROVE SoAdm' /\ BloqueioDeixaUm /\ SegredoConfirmado'
    <3>1. sozinho /\ \A s \in ReqAdm \ {r} : EmAdm(s, "livre")
      BY <2>1, <2>3, SoMenos
    <3>2. SoAdm' /\ BloqueioDeixaUm
      BY <2>1, <3>1, PassoSoAdm DEF InvAdm, Ocioso
    <3> QED BY <3>2 DEF SoAdm
  <2> QED BY <2>2, <2>3 DEF InvAdm
<1> QED BY <1>1, <1>2, ContaAdm

\* Requests that do not overlap, cut short anywhere: however the administrators block each other
\* and exclude themselves, a block leaves somebody to let the others in, and a second factor that
\* is on asks for the secret that was confirmed.
THEOREM AdminSempreComAcesso == SpecConta => AdminComAcesso
<1>1. InvAdm /\ [NextConta]_varsConta
      => [sozinho' => BloqueioDeixaUm /\ SegredoConfirmado']_varsAdministradores
  BY InvAdmPasso
<1>2. InvAdm /\ [NextConta]_varsConta => InvAdm'
  BY InvAdmPasso
<1> QED BY <1>1, <1>2, InvAdmInicio, PTL DEF SpecConta, AdminComAcesso
-----------------------------------------------------------------------------
(* Sessions, of requests that do not overlap. *)

\* Whatever overlaps: only sessions that were opened are spent, and a session has the password
\* of its family's first.
SenhaDaFamilia ==
  /\ usadas \subseteq 1 .. abertas
  /\ \A t \in 1 .. abertas : deSenha[t] = deSenha[familia[t]]

TiposSes == InvSes /\ SenhaDaFamilia

\* What the handler that is alone knows.  One that rotates a session found it alive, and once
\* it was spent none of its family is.
FamiliaBoa(q) ==
  /\ UmaVivaPorFamilia
  /\ q.pc \in {"conta", "usa"} => Viva(q.tok)
  /\ q.pc = "gira" => \A t \in 1 .. abertas : Viva(t) => familia[t] # q.fam

\* The link it follows was alive, and is spent before it changes the password.
LinkBom(q) ==
  /\ LinkUmaVez
  /\ \A k \in Link : trocas[k] > 0 => links[k] = "usado"
  /\ q.pc = "cria" => \A k \in Link : links[k] # "vivo"
  /\ q.pc = "marca" => q.link \in Link /\ links[q.link] = "vivo"
  /\ q.pc = "grava" /\ q.link \in Link => links[q.link] = "usado" /\ trocas[q.link] = 0

\* And when no answer was lost: it serves the browser's cookie, which is spent only while its
\* successor is on the way, and opens sessions of the password that is valid.
CookieBom(q) ==
  /\ alarme = {} /\ q.pc # "acusa"
  /\ q.pc \notin {"gira", "responde"} => cookie \notin usadas
  /\ q.pc # "derruba" => TrocaDerruba
  /\ q.pc \in {"le", "conta", "usa"} => q.tok = cookie
  /\ q.pc = "gira" => deSenha[q.fam] = senha /\ ContaAtende
  /\ q.pc = "abre" => q.versao = senha /\ ContaAtende
  /\ q.pc = "responde" => q.novo \notin usadas
  /\ q.pc = "exclui" => \A t \in 1 .. abertas : ~Viva(t)

OciosoSes(r) == \A s \in ReqSes \ {r} : EmSes(s, "livre")

SoSes ==
  \A r \in ReqSes : OciosoSes(r) =>
    FamiliaBoa(reqSes[r]) /\ LinkBom(reqSes[r]) /\ (inteiro => CookieBom(reqSes[r]))

\* Of idle handlers it says the same.
LEMMA PousaSes ==
  ASSUME InvSes, NEW r \in ReqSes, OciosoSes(r), NEW q, SegueSes(r, q), FamiliaBoa(reqSes[r])',
         LinkBom(reqSes[r])', (inteiro => CookieBom(reqSes[r]))'
  PROVE  SoSes'
<1> SUFFICES ASSUME NEW s \in ReqSes, OciosoSes(s)'
             PROVE  /\ FamiliaBoa(reqSes[s])' /\ LinkBom(reqSes[s])'
                    /\ (inteiro => CookieBom(reqSes[s]))'
  BY DEF SoSes
<1>1. CASE s # r
  <2>1. reqSes'[s].pc = "livre"
    BY <1>1 DEF SegueSes, InvSes, TypeOKSessoes, OciosoSes, EmSes
  <2>2. reqSes'[r].pc = "livre"
    BY <1>1 DEF OciosoSes, EmSes
  <2> QED BY <2>1, <2>2 DEF FamiliaBoa, LinkBom, CookieBom
<1> QED BY <1>1

\* Whatever overlaps, every step keeps what is said of the rows.
LEMMA SenhaFica ==
  ASSUME TiposSes, NEW r \in ReqSes, PassoSessoes(r) \/ FalhaSessoes(r)
  PROVE  SenhaDaFamilia'
<1>t. /\ abertas \in Nat /\ familia \in [Sessao -> 0 .. MaxSessoes] /\ reqSes[r] \in HandlerSes
      /\ deSenha \in [Sessao -> 0 .. MaxSenha] /\ abertas <= MaxSessoes
      /\ \A t \in 1 .. abertas : t \in Sessao /\ familia[t] \in 1 .. abertas
      /\ CoerenteSes(reqSes[r], abertas, usadas)
  <2>1. /\ abertas \in Nat /\ abertas <= MaxSessoes /\ reqSes[r] \in HandlerSes
        /\ CoerenteSes(reqSes[r], abertas, usadas)
    BY SessoesAssumption DEF TiposSes, InvSes, TypeOKSessoes
  <2>2. \A t \in 1 .. abertas : t \in Sessao /\ familia[t] \in 1 .. abertas
    BY <2>1, SessoesAssumption DEF TiposSes, InvSes, Sessao
  <2> QED BY <2>1, <2>2 DEF TiposSes, InvSes, TypeOKSessoes
<1>1. CASE UNCHANGED <<abertas, familia, usadas, deSenha>>
  BY <1>1 DEF TiposSes, SenhaDaFamilia
<1>2. CASE MarcarUsada(r)
  <2>1. reqSes[r].tok \in 1 .. abertas
    BY <1>2, <1>t DEF MarcarUsada, EmSes, CoerenteSes
  <2> QED BY <1>2, <2>1 DEF MarcarUsada, TiposSes, SenhaDaFamilia
<1>3. ASSUME NEW f, f = 0 \/ f \in 1 .. abertas, NEW v, Abre(r, f, v) PROVE SenhaDaFamilia'
  <2> DEFINE n == abertas + 1
             fam == IF f = 0 THEN n ELSE f
             w == IF f = 0 THEN v ELSE deSenha[f]
  <2>1. /\ n \in Sessao /\ abertas' = n /\ usadas' = usadas
        /\ familia' = [familia EXCEPT ![n] = fam] /\ deSenha' = [deSenha EXCEPT ![n] = w]
    BY <1>3 DEF Abre
  <2>3. usadas' \subseteq 1 .. abertas'
    BY <2>1, <1>t DEF TiposSes, SenhaDaFamilia
  <2>4. ASSUME NEW t \in 1 .. abertas' PROVE deSenha'[t] = deSenha'[familia'[t]]
    <3>1. CASE t = n
      <4>1. familia'[t] = fam /\ deSenha'[t] = w
        BY <2>1, <3>1, <1>t
      <4>2. CASE f = 0
        BY <4>1, <4>2, <3>1, <1>t
      <4>3. CASE f \in 1 .. abertas
        <5>1. fam = f /\ f # n /\ f \in Sessao /\ w = deSenha[f]
          BY <4>3, <1>t
        <5> QED BY <4>1, <5>1, <2>1, <1>t
      <4> QED BY <1>3, <4>2, <4>3
    <3>2. CASE t # n
      <4>1. t \in 1 .. abertas
        BY <3>2, <2>1, <1>t
      <4> HIDE DEF n, fam, w
      <4>2. familia'[t] = familia[t] /\ deSenha'[t] = deSenha[t] /\ familia[t] \in 1 .. abertas
        BY <4>1, <3>2, <2>1, <1>t
      <4>3. familia[t] # n /\ familia[t] \in Sessao
        BY <4>2, <1>t DEF n
      <4>4. deSenha'[familia[t]] = deSenha[familia[t]]
        BY <4>3, <2>1, <1>t
      <4> QED BY <4>1, <4>2, <4>4 DEF TiposSes, SenhaDaFamilia
    <3> QED BY <3>1, <3>2
  <2> QED BY <2>3, <2>4 DEF SenhaDaFamilia
<1>4. CASE AbrirSessao(r)
  BY <1>3, <1>4 DEF AbrirSessao
<1>5. CASE Girar(r)
  <2>1. reqSes[r].fam \in 1 .. abertas
    BY <1>5, <1>t DEF Girar, EmSes, CoerenteSes
  <2> QED BY <1>3, <1>5, <2>1 DEF Girar
<1> QED BY <1>1, <1>2, <1>4, <1>5 DEF PassoSessoes, FalhaSessoes, Autenticar, Responder, PedirRenovacao,
     LerSessao, Acusar, LerContaSes, Negar, PedirSaida, LerSaida, EncerrarFamilia, RecuperarSenha,
     GastarLinks, CriarLink, SeguirLink, MarcarLink, AlterarSenha, GravarSenha, DerrubarTudo,
     Reentrar, AlterarConta, GravarConta, PedirExclusao, DespedirSessoes, ExcluirLinha, PerderSes, FalharRenovacao, linhasSes

\* What is said of the rows alone, when they do not change.
LEMMA ParadaSes ==
  ASSUME Parada
  PROVE  /\ UmaVivaPorFamilia => UmaVivaPorFamilia'
         /\ LinkUmaVez => LinkUmaVez'
         /\ TrocaDerruba => TrocaDerruba'
         /\ \A t : Viva(t) => Viva(t)'
         /\ \A t : Viva(t)' => Viva(t)
         /\ ContaAtende' = ContaAtende
  BY DEF Parada, linhasSes, contaSes, linksSes, UmaVivaPorFamilia, LinkUmaVez, TrocaDerruba, Viva,
     ContaAtende

\* A handler that reads, alone: what it holds next is right for the rows as they are.
LEMMA LeSes ==
  ASSUME InvSes, SoSes, NEW r \in ReqSes, OciosoSes(r), NEW q, SegueSes(r, q), Parada,
         inteiro' => inteiro, FamiliaBoa(q), LinkBom(q), inteiro' => CookieBom(q)
  PROVE  SoSes'
<1>1. reqSes'[r] = q
  BY DEF SegueSes, InvSes, TypeOKSessoes
<1>2. FamiliaBoa(reqSes[r])'
  BY <1>1, ParadaSes DEF FamiliaBoa, Parada, linhasSes
<1>3. LinkBom(reqSes[r])'
  BY <1>1, ParadaSes DEF LinkBom, Parada, linksSes
<1>4. (inteiro => CookieBom(reqSes[r]))'
  BY <1>1, ParadaSes DEF CookieBom, Parada, linhasSes, contaSes
<1> QED BY <1>2, <1>3, <1>4, PousaSes

\* The steps that read.
LEMMA LeituraSes ==
  ASSUME TiposSes, SoSes, NEW r \in ReqSes, OciosoSes(r), inteiro' => inteiro,
         \/ Autenticar(r) \/ PedirRenovacao(r) \/ LerSessao(r) \/ LerContaSes(r)
         \/ PedirSaida(r) \/ LerSaida(r) \/ RecuperarSenha(r) \/ \E k \in Link : SeguirLink(r, k)
         \/ AlterarSenha(r) \/ Reentrar(r) \/ PedirExclusao(r) \/ \E b \in BOOLEAN : AlterarConta(r, b)
         \/ (PerderSes(r) /\ ~inteiro') \/ (FalharRenovacao(r) /\ ~inteiro')
  PROVE  SoSes'
<1> DEFINE p == reqSes[r]
<1>h. p \in HandlerSes /\ InvSes
  BY DEF TiposSes, InvSes, TypeOKSessoes
<1>b. FamiliaBoa(p) /\ LinkBom(p) /\ (inteiro => CookieBom(p))
  BY DEF SoSes
<1>l. LivreSes.pc = "livre" /\ LivreSes.link = 0 /\ 0 \notin Link
  BY DEF LivreSes, Link
<1>u. UmaVivaPorFamilia /\ LinkUmaVez /\ \A k \in Link : trocas[k] > 0 => links[k] = "usado"
  BY <1>b DEF FamiliaBoa, LinkBom
<1>1. CASE Autenticar(r)
  <2> DEFINE q == [LivreSes EXCEPT !.pc = "abre", !.versao = senha]
  <2>1. SegueSes(r, q) /\ Parada /\ p.pc = "livre" /\ ContaAtende
    BY <1>1 DEF Autenticar, EmSes, Parada
  <2>2. q.pc = "abre" /\ q.versao = senha
    BY DEF LivreSes
  <2> HIDE DEF q
  <2>3. FamiliaBoa(q) /\ LinkBom(q) /\ (inteiro => CookieBom(q))
    BY <1>b, <1>u, <2>1, <2>2 DEF FamiliaBoa, LinkBom, CookieBom
  <2> HIDE DEF p
  <2> QED BY <1>h, <2>1, <2>3, LeSes
<1>2. CASE PedirRenovacao(r)
  <2> DEFINE q == [LivreSes EXCEPT !.pc = "le", !.tok = cookie]
  <2>1. SegueSes(r, q) /\ Parada /\ p.pc = "livre"
    BY <1>2 DEF PedirRenovacao, EmSes, Parada
  <2>2. q.pc = "le" /\ q.tok = cookie
    BY DEF LivreSes
  <2> HIDE DEF q
  <2>3. FamiliaBoa(q) /\ LinkBom(q) /\ (inteiro => CookieBom(q))
    BY <1>b, <1>u, <2>1, <2>2 DEF FamiliaBoa, LinkBom, CookieBom
  <2> HIDE DEF p
  <2> QED BY <1>h, <2>1, <2>3, LeSes
<1>v. ASSUME NEW pc, reqSes' = [reqSes EXCEPT ![r] = [p EXCEPT !.pc = pc]], Parada,
             FamiliaBoa([p EXCEPT !.pc = pc]), LinkBom([p EXCEPT !.pc = pc]),
             inteiro' => CookieBom([p EXCEPT !.pc = pc])
      PROVE  SoSes'
  <2> DEFINE q == [p EXCEPT !.pc = pc]
  <2>1. SegueSes(r, q) /\ FamiliaBoa(q) /\ LinkBom(q) /\ (inteiro' => CookieBom(q)) /\ Parada
    BY <1>v DEF SegueSes
  <2> HIDE DEF q, p
  <2> QED BY <1>h, <2>1, LeSes
<1>3. CASE LerSessao(r)
  <2>1. PICK pc \in {"nega", "acusa", "conta"} :
          /\ reqSes' = [reqSes EXCEPT ![r] = [p EXCEPT !.pc = pc]]
          /\ pc = "acusa" => p.tok \in usadas
          /\ pc = "conta" => p.tok \notin revogadas /\ p.tok \notin usadas
    BY <1>3 DEF LerSessao, VaiSes, SegueSes
  <2>2. Parada /\ p.pc = "le"
    BY <1>3 DEF LerSessao, EmSes, Parada
  <2>3. p.tok \in 1 .. abertas
    BY <2>2 DEF TiposSes, InvSes, CoerenteSes
  <2> DEFINE q == [p EXCEPT !.pc = pc]
  <2>4. q.pc = pc /\ q.tok = p.tok
    BY <1>h DEF HandlerSes
  <2> HIDE DEF q
  <2>5. FamiliaBoa(q) /\ LinkBom(q) /\ (inteiro => CookieBom(q))
    BY <1>b, <1>u, <2>1, <2>2, <2>3, <2>4 DEF FamiliaBoa, LinkBom, CookieBom, Viva
  <2> QED BY <1>v, <2>1, <2>2, <2>5 DEF q
<1>4. CASE LerContaSes(r)
  <2>1. PICK pc \in {"nega", "usa"} : reqSes' = [reqSes EXCEPT ![r] = [p EXCEPT !.pc = pc]]
    BY <1>4 DEF LerContaSes, VaiSes, SegueSes
  <2>2. Parada /\ p.pc = "conta"
    BY <1>4 DEF LerContaSes, EmSes, Parada
  <2> DEFINE q == [p EXCEPT !.pc = pc]
  <2>4. q.pc = pc /\ q.tok = p.tok
    BY <1>h DEF HandlerSes
  <2> HIDE DEF q
  <2>5. FamiliaBoa(q) /\ LinkBom(q) /\ (inteiro => CookieBom(q))
    BY <1>b, <1>u, <2>1, <2>2, <2>4 DEF FamiliaBoa, LinkBom, CookieBom
  <2> QED BY <1>v, <2>1, <2>2, <2>5 DEF q
<1>5. CASE PedirSaida(r)
  <2> DEFINE q == [LivreSes EXCEPT !.pc = "sai", !.tok = cookie]
  <2>1. SegueSes(r, q) /\ Parada /\ p.pc = "livre"
    BY <1>5 DEF PedirSaida, EmSes, Parada
  <2>2. q.pc = "sai"
    BY DEF LivreSes
  <2> HIDE DEF q
  <2>3. FamiliaBoa(q) /\ LinkBom(q) /\ (inteiro => CookieBom(q))
    BY <1>b, <1>u, <2>1, <2>2 DEF FamiliaBoa, LinkBom, CookieBom
  <2> HIDE DEF p
  <2> QED BY <1>h, <2>1, <2>3, LeSes
<1>6. CASE LerSaida(r)
  <2>1. PICK pc \in {"nega", "encerra"} : reqSes' = [reqSes EXCEPT ![r] = [p EXCEPT !.pc = pc]]
    BY <1>6 DEF LerSaida, VaiSes, SegueSes
  <2>2. Parada /\ p.pc = "sai"
    BY <1>6 DEF LerSaida, EmSes, Parada
  <2> DEFINE q == [p EXCEPT !.pc = pc]
  <2>4. q.pc = pc
    BY <1>h DEF HandlerSes
  <2> HIDE DEF q
  <2>5. FamiliaBoa(q) /\ LinkBom(q) /\ (inteiro => CookieBom(q))
    BY <1>b, <1>u, <2>1, <2>2, <2>4 DEF FamiliaBoa, LinkBom, CookieBom
  <2> QED BY <1>v, <2>1, <2>2, <2>5 DEF q
<1>7. CASE RecuperarSenha(r)
  <2> DEFINE q == [LivreSes EXCEPT !.pc = "emite"]
  <2>1. SegueSes(r, q) /\ Parada /\ p.pc = "livre"
    BY <1>7 DEF RecuperarSenha, EmSes, Parada
  <2>2. q.pc = "emite"
    BY DEF LivreSes
  <2> HIDE DEF q
  <2>3. FamiliaBoa(q) /\ LinkBom(q) /\ (inteiro => CookieBom(q))
    BY <1>b, <1>u, <2>1, <2>2 DEF FamiliaBoa, LinkBom, CookieBom
  <2> HIDE DEF p
  <2> QED BY <1>h, <2>1, <2>3, LeSes
<1>8. ASSUME NEW k \in Link, SeguirLink(r, k) PROVE SoSes'
  <2> DEFINE q == [LivreSes EXCEPT !.pc = "marca", !.link = k]
  <2>1. SegueSes(r, q) /\ Parada /\ p.pc = "livre" /\ links[k] = "vivo"
    BY <1>8 DEF SeguirLink, EmSes, Parada
  <2>2. q.pc = "marca" /\ q.link = k
    BY DEF LivreSes
  <2> HIDE DEF q
  <2>3. FamiliaBoa(q) /\ LinkBom(q) /\ (inteiro => CookieBom(q))
    BY <1>b, <1>u, <2>1, <2>2 DEF FamiliaBoa, LinkBom, CookieBom
  <2> HIDE DEF p
  <2> QED BY <1>h, <2>1, <2>3, LeSes
<1>9. CASE AlterarSenha(r)
  <2> DEFINE q == [LivreSes EXCEPT !.pc = "grava", !.volta = TRUE]
  <2>1. SegueSes(r, q) /\ Parada /\ p.pc = "livre"
    BY <1>9 DEF AlterarSenha, EmSes, Parada
  <2>2. q.pc = "grava" /\ q.link = 0
    BY DEF LivreSes
  <2> HIDE DEF q
  <2>3. FamiliaBoa(q) /\ LinkBom(q) /\ (inteiro => CookieBom(q))
    BY <1>b, <1>u, <1>l, <2>1, <2>2 DEF FamiliaBoa, LinkBom, CookieBom
  <2> HIDE DEF p
  <2> QED BY <1>h, <2>1, <2>3, LeSes
<1>L. ASSUME SegueSes(r, LivreSes), Parada, ~inteiro' \/ p.pc = "entra" PROVE SoSes'
  <2>1. FamiliaBoa(LivreSes) /\ LinkBom(LivreSes) /\ (inteiro' => CookieBom(LivreSes))
    BY <1>b, <1>u, <1>l, <1>L DEF FamiliaBoa, LinkBom, CookieBom
  <2> QED BY <1>h, <1>L, <2>1, LeSes
<1>10. CASE Reentrar(r)
  <2>1. Parada /\ p.pc = "entra"
    BY <1>10 DEF Reentrar, EmSes, Parada
  <2>2. CASE SegueSes(r, LivreSes)
    BY <2>1, <2>2, <1>L
  <2>3. CASE SegueSes(r, [p EXCEPT !.pc = "abre"]) /\ p.versao = senha /\ ContaAtende
    <3> DEFINE q == [p EXCEPT !.pc = "abre"]
    <3>1. q.pc = "abre" /\ q.versao = p.versao
      BY <1>h DEF HandlerSes
    <3> HIDE DEF q
    <3>2. FamiliaBoa(q) /\ LinkBom(q) /\ (inteiro => CookieBom(q))
      BY <1>b, <1>u, <2>1, <2>3, <3>1 DEF FamiliaBoa, LinkBom, CookieBom
    <3> QED BY <1>v, <2>1, <2>3, <3>2 DEF q, SegueSes
  <2> QED BY <1>10, <2>2, <2>3 DEF Reentrar
<1>e. ASSUME NEW pc \in {"bloqueia", "libera", "despede"}, p.pc = "livre", Parada,
             SegueSes(r, [p EXCEPT !.pc = pc])
      PROVE  SoSes'
  <2> DEFINE q == [p EXCEPT !.pc = pc]
  <2>1. q.pc = pc
    BY <1>h DEF HandlerSes
  <2> HIDE DEF q
  <2>2. FamiliaBoa(q) /\ LinkBom(q) /\ (inteiro => CookieBom(q))
    BY <1>b, <1>u, <1>e, <2>1 DEF FamiliaBoa, LinkBom, CookieBom
  <2> QED BY <1>v, <1>e, <2>2 DEF q, SegueSes
<1>11. CASE PedirExclusao(r) \/ \E b \in BOOLEAN : AlterarConta(r, b)
  BY <1>11, <1>e DEF PedirExclusao, AlterarConta, VaiSes, EmSes, Parada
<1>12. CASE PerderSes(r) /\ ~inteiro'
  BY <1>12, <1>L DEF PerderSes, Parada
<1>13. CASE FalharRenovacao(r) /\ ~inteiro'
  <2>1. reqSes' = [reqSes EXCEPT ![r] = [p EXCEPT !.pc = "nega"]]
    BY <1>13 DEF FalharRenovacao, VaiSes, SegueSes
  <2>2. Parada
    BY <1>13 DEF FalharRenovacao, Parada
  <2> DEFINE q == [p EXCEPT !.pc = "nega"]
  <2>4. q.pc = "nega"
    BY <1>h DEF HandlerSes
  <2> HIDE DEF q
  <2>5. FamiliaBoa(q) /\ LinkBom(q)
    BY <1>b, <1>u, <2>4 DEF FamiliaBoa, LinkBom
  <2> QED BY <1>v, <1>13, <2>1, <2>2, <2>5 DEF q
<1> QED BY <1>1, <1>2, <1>3, <1>4, <1>5, <1>6, <1>7, <1>8, <1>9, <1>10, <1>11, <1>12, <1>13

\* A handler that writes, alone: what the rows have to be.
LEMMA EscreveSes ==
  ASSUME InvSes, NEW r \in ReqSes, OciosoSes(r), NEW q, SegueSes(r, q),
         q.pc \in {"responde", "gira", "nega", "cria", "livre", "grava", "derruba", "entra", "exclui"},
         UmaVivaPorFamilia', LinkUmaVez', \A k \in Link : trocas'[k] > 0 => links'[k] = "usado",
         q.pc = "gira" => \A t \in 1 .. abertas' : Viva(t)' => familia'[t] # q.fam,
         q.pc = "cria" => \A k \in Link : links'[k] # "vivo",
         q.pc = "grava" /\ q.link \in Link => links'[q.link] = "usado" /\ trocas'[q.link] = 0,
         inteiro' => /\ alarme' = {}
                     /\ q.pc \notin {"gira", "responde"} => cookie' \notin usadas'
                     /\ q.pc # "derruba" => TrocaDerruba'
                     /\ q.pc = "gira" => deSenha'[q.fam] = senha' /\ ContaAtende'
                     /\ q.pc = "responde" => q.novo \notin usadas'
                     /\ q.pc = "exclui" => \A t \in 1 .. abertas' : ~Viva(t)'
  PROVE  SoSes'
<1>1. reqSes'[r] = q
  BY DEF SegueSes, InvSes, TypeOKSessoes
<1>2. FamiliaBoa(reqSes[r])'
  BY <1>1 DEF FamiliaBoa
<1>3. LinkBom(reqSes[r])'
  BY <1>1 DEF LinkBom
<1>4. (inteiro => CookieBom(reqSes[r]))'
  BY <1>1 DEF CookieBom
<1> QED BY <1>2, <1>3, <1>4, PousaSes

\* A session is opened.
LEMMA AbreSes ==
  ASSUME TiposSes, SoSes, NEW r \in ReqSes, OciosoSes(r), inteiro' => inteiro,
         NEW f, NEW v, Abre(r, f, v), UNCHANGED <<contaSes, linksSes, cookie, alarme>>,
         \/ f = 0 /\ (inteiro => v = senha /\ ContaAtende)
         \/ /\ f \in 1 .. abertas /\ \A t \in 1 .. abertas : Viva(t) => familia[t] # f
            /\ inteiro => deSenha[f] = senha /\ ContaAtende,
         reqSes[r].pc \in {"abre", "gira"}
  PROVE  SoSes'
<1> DEFINE p == reqSes[r]
           n == abertas + 1
           fam == IF f = 0 THEN n ELSE f
           w == IF f = 0 THEN v ELSE deSenha[f]
           q == [p EXCEPT !.pc = "responde", !.novo = n]
<1>h. p \in HandlerSes /\ InvSes
  BY DEF TiposSes, InvSes, TypeOKSessoes
<1>b. FamiliaBoa(p) /\ LinkBom(p) /\ (inteiro => CookieBom(p))
  BY DEF SoSes
<1>1. /\ n \in Sessao /\ abertas' = n /\ usadas' = usadas /\ revogadas' = revogadas
      /\ familia' = [familia EXCEPT ![n] = fam] /\ deSenha' = [deSenha EXCEPT ![n] = w]
      /\ SegueSes(r, q)
  BY DEF Abre
<1>2. /\ abertas \in Nat /\ usadas \subseteq 1 .. abertas
      /\ familia \in [Sessao -> 0 .. MaxSessoes] /\ deSenha \in [Sessao -> 0 .. MaxSenha]
      /\ abertas <= MaxSessoes
  BY SessoesAssumption DEF TiposSes, InvSes, TypeOKSessoes, SenhaDaFamilia
<1>f. \A t \in 1 .. abertas : t \in Sessao /\ familia[t] \in 1 .. abertas
  BY <1>2, SessoesAssumption DEF TiposSes, InvSes, Sessao
<1>3. q.pc = "responde" /\ q.novo = n
  BY <1>h DEF HandlerSes
<1>n. n \notin 1 .. abertas /\ n \notin usadas
  BY <1>2
<1>4. \A t : Viva(t)' => t = n \/ (Viva(t) /\ t # n)
  BY <1>1, <1>2, <1>n DEF Viva
<1>5. familia'[n] = fam /\ deSenha'[n] = w
  BY <1>1, <1>2
<1>6. \A t : Viva(t) /\ t # n => familia'[t] = familia[t] /\ deSenha'[t] = deSenha[t]
  BY <1>1, <1>2, <1>f DEF Viva
<1>7. \A t : Viva(t) => familia[t] # fam
  BY <1>f, <1>n DEF Viva
<1>8. UmaVivaPorFamilia'
  <2> HIDE DEF n, fam, w, q, p
  <2> SUFFICES ASSUME NEW t \in 1 .. abertas', NEW u \in 1 .. abertas', Viva(t)', Viva(u)',
                      familia'[t] = familia'[u]
               PROVE  t = u
    BY DEF UmaVivaPorFamilia
  <2>1. CASE t = n \/ u = n
    BY <1>4, <1>5, <1>6, <1>7, <2>1
  <2>2. CASE t # n /\ u # n
    <3>1. Viva(t) /\ Viva(u) /\ familia[t] = familia[u]
      BY <1>4, <1>6, <2>2
    <3> QED BY <3>1, <1>b DEF FamiliaBoa, UmaVivaPorFamilia, Viva
  <2> QED BY <2>1, <2>2
<1>9. LinkUmaVez' /\ \A k \in Link : trocas'[k] > 0 => links'[k] = "usado"
  BY <1>b DEF LinkBom, LinkUmaVez, linksSes
<1>10. ASSUME inteiro' PROVE alarme' = {} /\ TrocaDerruba' /\ q.novo \notin usadas'
  <2>1. CookieBom(p) /\ w = senha /\ ContaAtende
    BY <1>10, <1>b, <1>2
  <2>2. senha' = senha /\ ContaAtende' = ContaAtende /\ alarme' = alarme
    BY DEF contaSes, ContaAtende
  <2>3. TrocaDerruba
    BY <2>1 DEF CookieBom
  <2> HIDE DEF n, fam, w, q, p
  <2>4. TrocaDerruba'
    <3> SUFFICES ASSUME NEW t \in 1 .. abertas', Viva(t)' PROVE deSenha'[t] = senha' /\ ContaAtende'
      BY DEF TrocaDerruba
    <3>1. CASE t = n
      BY <3>1, <1>5, <2>1, <2>2
    <3>2. CASE t # n
      BY <3>2, <1>4, <1>6, <2>1, <2>2, <2>3 DEF TrocaDerruba, Viva
    <3> QED BY <3>1, <3>2
  <2> QED BY <2>1, <2>2, <2>4, <1>3, <1>n, <1>1 DEF CookieBom
<1> HIDE DEF n, fam, w, q, p
<1> QED BY <1>h, <1>1, <1>3, <1>8, <1>9, <1>10, EscreveSes

\* Sessions fall: those that live did, and the links are as they were.
LEMMA CaemSes ==
  ASSUME TiposSes, SoSes, NEW r \in ReqSes, OciosoSes(r), inteiro' => inteiro,
         NEW q, SegueSes(r, q), q.pc \in {"nega", "livre", "entra", "exclui"},
         UNCHANGED <<abertas, familia, usadas, deSenha, contaSes, linksSes>>,
         revogadas \subseteq revogadas',
         inteiro' => /\ alarme' = {} /\ cookie' \notin usadas
                     /\ TrocaDerruba \/ 1 .. abertas \subseteq revogadas'
                     /\ q.pc = "exclui" => 1 .. abertas \subseteq revogadas'
  PROVE  SoSes'
<1>b. FamiliaBoa(reqSes[r]) /\ LinkBom(reqSes[r]) /\ InvSes
  BY DEF SoSes, TiposSes
<1>1. \A t : Viva(t)' => Viva(t) /\ t \notin revogadas'
  BY DEF Viva
<1>2. UmaVivaPorFamilia'
  BY <1>1, <1>b DEF FamiliaBoa, UmaVivaPorFamilia
<1>3. LinkUmaVez' /\ \A k \in Link : trocas'[k] > 0 => links'[k] = "usado"
  BY <1>b DEF LinkBom, LinkUmaVez, linksSes
<1>4. inteiro' => TrocaDerruba'
  BY <1>1 DEF TrocaDerruba, Viva, ContaAtende, contaSes
<1>5. inteiro' /\ q.pc = "exclui" => \A t \in 1 .. abertas' : ~Viva(t)'
  BY <1>1
<1> QED BY <1>b, <1>2, <1>3, <1>4, <1>5, EscreveSes

\* The steps that write.
LEMMA EscritaSes ==
  ASSUME TiposSes, SoSes, NEW r \in ReqSes, OciosoSes(r), inteiro' => inteiro,
         \/ AbrirSessao(r) \/ Girar(r) \/ Responder(r) \/ Acusar(r) \/ MarcarUsada(r) \/ Negar(r)
         \/ EncerrarFamilia(r) \/ GastarLinks(r) \/ CriarLink(r) \/ MarcarLink(r)
         \/ GravarSenha(r) \/ DerrubarTudo(r) \/ GravarConta(r) \/ DespedirSessoes(r) \/ ExcluirLinha(r)
  PROVE  SoSes'
<1> DEFINE p == reqSes[r]
<1>h. p \in HandlerSes /\ InvSes /\ abertas \in Nat /\ usadas \subseteq 1 .. abertas
      /\ CoerenteSes(p, abertas, usadas) /\ trocas \in [Link -> Nat]
      /\ links \in [Link -> {"novo", "vivo", "usado"}]
  BY SessoesAssumption DEF TiposSes, InvSes, TypeOKSessoes, SenhaDaFamilia
<1>b. FamiliaBoa(p) /\ LinkBom(p) /\ (inteiro => CookieBom(p))
  BY DEF SoSes
<1>l. LivreSes.pc = "livre" /\ LivreSes.link = 0 /\ 0 \notin Link
  BY DEF LivreSes, Link
<1>u. UmaVivaPorFamilia /\ LinkUmaVez /\ \A k \in Link : trocas[k] > 0 => links[k] = "usado"
  BY <1>b DEF FamiliaBoa, LinkBom
<1>1. CASE AbrirSessao(r)
  BY <1>1, <1>b, AbreSes DEF AbrirSessao, EmSes, CookieBom
<1>2. CASE Girar(r)
  <2>1. /\ p.fam \in 1 .. abertas /\ (\A t \in 1 .. abertas : Viva(t) => familia[t] # p.fam)
        /\ inteiro => deSenha[p.fam] = senha /\ ContaAtende
    BY <1>2, <1>b, <1>h DEF Girar, EmSes, CookieBom, FamiliaBoa, CoerenteSes
  <2> QED BY <1>2, <2>1, AbreSes DEF Girar, EmSes
<1>3. CASE Responder(r)
  <2>1. /\ UNCHANGED <<abertas, familia, usadas, deSenha, revogadas, contaSes, linksSes, alarme>>
        /\ SegueSes(r, LivreSes) /\ p.pc = "responde" /\ cookie' = p.novo
    BY <1>3 DEF Responder, linhasSes, EmSes
  <2>2. inteiro' => alarme = {} /\ p.novo \notin usadas /\ TrocaDerruba
    BY <2>1, <1>b DEF CookieBom
  <2> HIDE DEF p
  <2> QED BY <1>l, <2>1, <2>2, CaemSes
<1>4. CASE Acusar(r)
  <2> DEFINE q == [p EXCEPT !.pc = "nega"]
  <2>1. /\ UNCHANGED <<abertas, familia, usadas, deSenha, contaSes, linksSes>>
        /\ SegueSes(r, q) /\ p.pc = "acusa" /\ revogadas \subseteq revogadas'
    BY <1>4 DEF Acusar, EmSes, VaiSes
  <2>2. q.pc = "nega"
    BY <1>h DEF HandlerSes
  <2>3. ~inteiro'
    BY <2>1, <1>b DEF CookieBom
  <2> HIDE DEF p, q
  <2> QED BY <2>1, <2>2, <2>3, CaemSes
<1>5. CASE MarcarUsada(r)
  <2> DEFINE q == [p EXCEPT !.pc = "gira", !.fam = familia[p.tok]]
  <2>1. /\ UNCHANGED <<abertas, familia, revogadas, deSenha, contaSes, linksSes, cookie, alarme>>
        /\ SegueSes(r, q) /\ p.pc = "usa" /\ usadas' = usadas \cup {p.tok}
    BY <1>5 DEF MarcarUsada, EmSes
  <2>2. q.pc = "gira" /\ q.fam = familia[p.tok]
    BY <1>h DEF HandlerSes
  <2>3. Viva(p.tok) /\ p.tok \in 1 .. abertas
    BY <2>1, <1>b DEF FamiliaBoa, Viva
  <2>4. \A t : Viva(t)' => Viva(t) /\ t # p.tok
    BY <2>1 DEF Viva
  <2>5. UmaVivaPorFamilia'
    BY <2>1, <2>4, <1>u DEF UmaVivaPorFamilia
  <2>6. \A t \in 1 .. abertas' : Viva(t)' => familia'[t] # q.fam
    BY <2>1, <2>2, <2>3, <2>4, <1>u DEF UmaVivaPorFamilia
  <2>7. ASSUME inteiro' PROVE alarme' = {} /\ TrocaDerruba' /\ deSenha'[q.fam] = senha' /\ ContaAtende'
    <3>1. CookieBom(p) /\ senha' = senha /\ ContaAtende' = ContaAtende
      BY <2>1, <2>7, <1>b DEF contaSes, ContaAtende
    <3>2. TrocaDerruba /\ alarme' = {}
      BY <3>1, <2>1 DEF CookieBom
    <3>3. deSenha[p.tok] = senha /\ ContaAtende /\ deSenha[p.tok] = deSenha[familia[p.tok]]
      BY <3>2, <2>3 DEF TrocaDerruba, TiposSes, SenhaDaFamilia
    <3>4. TrocaDerruba'
      BY <3>1, <3>2, <2>1, <2>4 DEF TrocaDerruba
    <3> QED BY <3>1, <3>2, <3>3, <3>4, <2>1, <2>2
  <2>8. LinkUmaVez' /\ \A k \in Link : trocas'[k] > 0 => links'[k] = "usado"
    BY <2>1, <1>u DEF LinkUmaVez, linksSes
  <2> HIDE DEF p, q
  <2> QED BY <1>h, <2>1, <2>2, <2>5, <2>6, <2>7, <2>8, EscreveSes
<1>6. CASE Negar(r)
  <2>1. /\ UNCHANGED <<abertas, familia, usadas, deSenha, revogadas, contaSes, linksSes, alarme>>
        /\ SegueSes(r, LivreSes) /\ p.pc = "nega" /\ cookie' = 0
    BY <1>6 DEF Negar, linhasSes, EmSes
  <2>2. inteiro' => alarme = {} /\ TrocaDerruba
    BY <2>1, <1>b DEF CookieBom
  <2>3. 0 \notin usadas
    BY <1>h
  <2> HIDE DEF p
  <2> QED BY <1>l, <2>1, <2>2, <2>3, CaemSes
<1>7. CASE EncerrarFamilia(r)
  <2> DEFINE q == [p EXCEPT !.pc = "nega"]
  <2>1. /\ UNCHANGED <<abertas, familia, usadas, deSenha, contaSes, linksSes, cookie, alarme>>
        /\ SegueSes(r, q) /\ p.pc = "encerra" /\ revogadas \subseteq revogadas'
    BY <1>7 DEF EncerrarFamilia, EmSes, VaiSes
  <2>2. q.pc = "nega"
    BY <1>h DEF HandlerSes
  <2>3. inteiro' => alarme = {} /\ TrocaDerruba /\ cookie \notin usadas
    BY <2>1, <1>b DEF CookieBom
  <2> HIDE DEF p, q
  <2> QED BY <2>1, <2>2, <2>3, CaemSes
<1>w. ASSUME UNCHANGED <<linhasSes, cookie, alarme>>
      PROVE  /\ UmaVivaPorFamilia'
             /\ TrocaDerruba /\ UNCHANGED contaSes => TrocaDerruba'
  BY <1>u, <1>w DEF linhasSes, contaSes, ContaAtende, UmaVivaPorFamilia, TrocaDerruba, Viva
<1>8. CASE GastarLinks(r)
  <2> DEFINE q == [p EXCEPT !.pc = "cria"]
  <2>1. /\ UNCHANGED <<linhasSes, contaSes, trocas, cookie, alarme>>
        /\ SegueSes(r, q) /\ p.pc = "emite"
        /\ links' = [k \in Link |-> IF links[k] = "vivo" THEN "usado" ELSE links[k]]
    BY <1>8 DEF GastarLinks, EmSes, VaiSes
  <2>2. q.pc = "cria"
    BY <1>h DEF HandlerSes
  <2>3. inteiro' => alarme' = {} /\ TrocaDerruba' /\ cookie' \notin usadas'
    BY <2>1, <1>b, <1>w DEF CookieBom, linhasSes
  <2>4. /\ LinkUmaVez' /\ (\A k \in Link : trocas'[k] > 0 => links'[k] = "usado")
        /\ \A k \in Link : links'[k] # "vivo"
    BY <2>1, <1>u DEF LinkUmaVez
  <2> HIDE DEF p, q
  <2> QED BY <1>h, <1>w, <2>1, <2>2, <2>3, <2>4, EscreveSes
<1>9. CASE CriarLink(r)
  <2>1. /\ UNCHANGED <<linhasSes, contaSes, trocas, cookie, alarme>>
        /\ SegueSes(r, LivreSes) /\ p.pc = "cria"
    BY <1>9 DEF CriarLink, EmSes
  <2>2. PICK k \in Link : links[k] = "novo" /\ links' = [links EXCEPT ![k] = "vivo"]
    BY <1>9 DEF CriarLink
  <2>3. inteiro' => alarme' = {} /\ TrocaDerruba' /\ cookie' \notin usadas'
    BY <2>1, <1>b, <1>w DEF CookieBom, linhasSes
  <2>5. \A j \in Link : links[j] # "vivo"
    BY <1>b, <2>1 DEF LinkBom
  <2>4. LinkUmaVez' /\ \A j \in Link : trocas'[j] > 0 => links'[j] = "usado"
    BY <2>1, <2>2, <2>5, <1>u, <1>h DEF LinkUmaVez
  <2> HIDE DEF p
  <2> QED BY <1>h, <1>l, <1>w, <2>1, <2>3, <2>4, EscreveSes
<1>10. CASE MarcarLink(r)
  <2> DEFINE q == [p EXCEPT !.pc = "grava"]
  <2>1. /\ UNCHANGED <<linhasSes, contaSes, trocas, cookie, alarme>>
        /\ SegueSes(r, q) /\ p.pc = "marca"
        /\ links' = [links EXCEPT ![p.link] = "usado"]
    BY <1>10 DEF MarcarLink, EmSes, VaiSes
  <2>2. q.pc = "grava" /\ q.link = p.link
    BY <1>h DEF HandlerSes
  <2>3. inteiro' => alarme' = {} /\ TrocaDerruba' /\ cookie' \notin usadas'
    BY <2>1, <1>b, <1>w DEF CookieBom, linhasSes
  <2>5. p.link \in Link /\ links[p.link] = "vivo"
    BY <1>b, <2>1 DEF LinkBom
  <2>4. LinkUmaVez' /\ \A j \in Link : trocas'[j] > 0 => links'[j] = "usado"
    BY <2>1, <2>5, <1>u, <1>h DEF LinkUmaVez
  <2>6. links'[p.link] = "usado" /\ trocas'[p.link] = 0
    BY <2>1, <2>5, <1>u, <1>h
  <2> HIDE DEF p, q
  <2> QED BY <1>h, <1>w, <2>1, <2>2, <2>3, <2>4, <2>6, EscreveSes
<1>11. CASE GravarSenha(r)
  <2> DEFINE q == [p EXCEPT !.pc = "derruba", !.versao = senha + 1]
  <2>1. /\ UNCHANGED <<linhasSes, bloqueada, excluida, links, cookie, alarme>>
        /\ SegueSes(r, q) /\ p.pc = "grava"
        /\ trocas' = [k \in Link |-> IF k = p.link THEN trocas[k] + 1 ELSE trocas[k]]
    BY <1>11 DEF GravarSenha, EmSes
  <2>2. q.pc = "derruba"
    BY <1>h DEF HandlerSes
  <2>3. inteiro' => alarme' = {} /\ cookie' \notin usadas'
    BY <2>1, <1>b DEF CookieBom, linhasSes
  <2>5. p.link \in Link => links[p.link] = "usado" /\ trocas[p.link] = 0
    BY <1>b, <2>1 DEF LinkBom
  <2>4. LinkUmaVez' /\ \A j \in Link : trocas'[j] > 0 => links'[j] = "usado"
    BY <2>1, <2>5, <1>u, <1>h DEF LinkUmaVez
  <2> HIDE DEF p, q
  <2> QED BY <1>h, <1>w, <2>1, <2>2, <2>3, <2>4, EscreveSes
<1>12. CASE DerrubarTudo(r)
  <2> DEFINE q == IF p.volta THEN [p EXCEPT !.pc = "entra"] ELSE LivreSes
  <2>1. /\ UNCHANGED <<abertas, familia, usadas, deSenha, contaSes, linksSes, cookie, alarme>>
        /\ SegueSes(r, q) /\ p.pc = "derruba" /\ revogadas' = revogadas \cup 1 .. abertas
    BY <1>12 DEF DerrubarTudo, EmSes
  <2>2. q.pc \in {"livre", "entra"}
    BY <1>h, <1>l DEF HandlerSes
  <2>3. inteiro' => alarme = {} /\ cookie \notin usadas
    BY <2>1, <1>b DEF CookieBom
  <2> HIDE DEF p, q
  <2> QED BY <2>1, <2>2, <2>3, CaemSes
<1>13. CASE GravarConta(r)
  <2> DEFINE q == IF EmSes(r, "bloqueia") THEN [LivreSes EXCEPT !.pc = "derruba"] ELSE LivreSes
  <2>1. /\ UNCHANGED <<linhasSes, linksSes, cookie, alarme>> /\ senha' = senha
        /\ excluida' = excluida /\ bloqueada' = EmSes(r, "bloqueia")
        /\ SegueSes(r, q) /\ p.pc \in {"bloqueia", "libera"}
    BY <1>13 DEF GravarConta, EmSes
  <2>2. q.pc \in {"livre", "derruba"} /\ (q.pc = "livre" => ~EmSes(r, "bloqueia"))
    BY DEF LivreSes
  <2>3. inteiro' => alarme' = {} /\ cookie' \notin usadas'
    BY <2>1, <1>b DEF CookieBom, linhasSes
  <2>4. LinkUmaVez' /\ \A j \in Link : trocas'[j] > 0 => links'[j] = "usado"
    BY <2>1, <1>u DEF LinkUmaVez, linksSes
  <2>5. ASSUME inteiro', q.pc # "derruba" PROVE TrocaDerruba'
    <3>1. TrocaDerruba /\ bloqueada' = FALSE
      BY <2>1, <2>2, <2>5, <1>b DEF CookieBom
    <3>2. ContaAtende => ContaAtende'
      BY <2>1, <3>1 DEF ContaAtende
    <3> QED BY <2>1, <3>1, <3>2 DEF TrocaDerruba, linhasSes, Viva
  <2> HIDE DEF p, q
  <2> QED BY <1>h, <1>w, <2>1, <2>2, <2>3, <2>4, <2>5, EscreveSes
<1>14. CASE DespedirSessoes(r)
  <2> DEFINE q == [p EXCEPT !.pc = "exclui"]
  <2>1. /\ UNCHANGED <<abertas, familia, usadas, deSenha, contaSes, linksSes, cookie, alarme>>
        /\ SegueSes(r, q) /\ p.pc = "despede" /\ revogadas' = revogadas \cup 1 .. abertas
    BY <1>14 DEF DespedirSessoes, EmSes, VaiSes
  <2>2. q.pc = "exclui"
    BY <1>h DEF HandlerSes
  <2>3. inteiro' => alarme = {} /\ cookie \notin usadas
    BY <2>1, <1>b DEF CookieBom
  <2> HIDE DEF p, q
  <2> QED BY <2>1, <2>2, <2>3, CaemSes
<1>15. CASE ExcluirLinha(r)
  <2> DEFINE q == [p EXCEPT !.pc = "nega"]
  <2>1. /\ UNCHANGED <<linhasSes, linksSes, cookie, alarme>>
        /\ SegueSes(r, q) /\ p.pc = "exclui"
    BY <1>15 DEF ExcluirLinha, EmSes, VaiSes
  <2>2. q.pc = "nega"
    BY <1>h DEF HandlerSes
  <2>3. inteiro' => alarme' = {} /\ cookie' \notin usadas'
    BY <2>1, <1>b DEF CookieBom, linhasSes
  <2>4. LinkUmaVez' /\ \A j \in Link : trocas'[j] > 0 => links'[j] = "usado"
    BY <2>1, <1>u DEF LinkUmaVez, linksSes
  <2>5. inteiro' => TrocaDerruba'
    <3>1. inteiro' => \A t \in 1 .. abertas : ~Viva(t)
      BY <2>1, <1>b DEF CookieBom
    <3> QED BY <2>1, <3>1 DEF TrocaDerruba, linhasSes, Viva
  <2> HIDE DEF p, q
  <2> QED BY <1>h, <1>w, <2>1, <2>2, <2>3, <2>4, <2>5, EscreveSes
<1> QED BY <1>1, <1>2, <1>3, <1>4, <1>5, <1>6, <1>7, <1>8, <1>9, <1>10, <1>11, <1>12, <1>13, <1>14,
           <1>15

\* Without handlers nothing happens.
InvSessoesConta ==
  /\ TiposSes
  /\ sozinho => SoSes /\ \E r \in ReqSes \cup {0} : OciosoSes(r)
  /\ ReqSes = {} => cookie = 0 /\ alarme = {} /\ abertas = 0 /\ \A k \in Link : links[k] = "novo" /\ trocas[k] = 0

\* The invariant holds at the start, and every step of the account keeps it.
LEMMA InvSessoesInicio == ASSUME InitConta PROVE InvSessoesConta
<1>1. /\ abertas = 0 /\ usadas = {} /\ alarme = {} /\ cookie = 0
      /\ \A k \in Link : links[k] = "novo" /\ trocas[k] = 0
      /\ \A r \in ReqSes : reqSes[r].pc = "livre"
  BY DEF InitConta, InitSessoes, LivreSes
<1>2. TiposSes
  BY <1>1, InitInvSes DEF InitConta, TiposSes, SenhaDaFamilia
<1>3. UmaVivaPorFamilia /\ LinkUmaVez /\ TrocaDerruba
  BY <1>1 DEF UmaVivaPorFamilia, LinkUmaVez, TrocaDerruba
<1>4. SoSes
  BY <1>1, <1>3 DEF SoSes, FamiliaBoa, LinkBom, CookieBom
<1>5. OciosoSes(0)
  BY <1>1 DEF OciosoSes, EmSes
<1> QED BY <1>1, <1>2, <1>4, <1>5 DEF InvSessoesConta

\* A step of a handler moves it alone.
LEMMA SoUmSes ==
  ASSUME InvSes, NEW r \in ReqSes, PassoSessoes(r) \/ FalhaSessoes(r)
  PROVE  \A s \in ReqSes : s # r => reqSes'[s] = reqSes[s]
<1>1. ASSUME NEW q, SegueSes(r, q) PROVE \A s \in ReqSes : s # r => reqSes'[s] = reqSes[s]
  BY <1>1 DEF SegueSes, InvSes, TypeOKSessoes
<1> QED BY <1>1 DEF PassoSessoes, FalhaSessoes, Autenticar, AbrirSessao, Abre, Responder,
     PedirRenovacao, LerSessao, Acusar, LerContaSes, MarcarUsada, Girar, Negar, PedirSaida,
     LerSaida, EncerrarFamilia, RecuperarSenha, GastarLinks, CriarLink, SeguirLink, MarcarLink,
     AlterarSenha, GravarSenha, DerrubarTudo, Reentrar, AlterarConta, GravarConta, PedirExclusao, DespedirSessoes, ExcluirLinha, PerderSes,
     FalharRenovacao, VaiSes

LEMMA InvSessoesPasso == ASSUME InvSessoesConta, [NextConta]_varsConta PROVE InvSessoesConta'
<1>1. CASE UNCHANGED varsSessoes
  <2>1. InvSes'
    BY <1>1, NextInvSes DEF InvSessoesConta, TiposSes
  <2>2. TiposSes'
    BY <1>1, <2>1 DEF InvSessoesConta, TiposSes, SenhaDaFamilia, varsSessoes, linhasSes
  <2>3. /\ Parada /\ reqSes' = reqSes
    BY <1>1 DEF varsSessoes, Parada
  <2>4. ASSUME SoSes, inteiro' => inteiro PROVE SoSes'
    <3> SUFFICES ASSUME NEW r \in ReqSes, OciosoSes(r)'
                 PROVE  /\ FamiliaBoa(reqSes[r])' /\ LinkBom(reqSes[r])'
                        /\ (inteiro => CookieBom(reqSes[r]))'
      BY DEF SoSes
    <3>1. /\ FamiliaBoa(reqSes[r]) /\ LinkBom(reqSes[r])
          /\ (inteiro => CookieBom(reqSes[r]))
      BY <2>3, <2>4 DEF SoSes, OciosoSes, EmSes
    <3>2. FamiliaBoa(reqSes[r])'
      BY <2>3, <3>1, ParadaSes DEF FamiliaBoa, Parada, linhasSes
    <3>3. LinkBom(reqSes[r])'
      BY <2>3, <3>1, ParadaSes DEF LinkBom, Parada, linksSes
    <3>4. (inteiro => CookieBom(reqSes[r]))'
      BY <2>3, <2>4, <3>1, ParadaSes DEF CookieBom, Parada, linhasSes, contaSes
    <3> QED BY <3>2, <3>3, <3>4
  <2>5. ReqSes = {} => /\ cookie' = 0 /\ alarme' = {} /\ abertas' = 0
                       /\ \A k \in Link : links'[k] = "novo" /\ trocas'[k] = 0
    BY <2>3 DEF InvSessoesConta, Parada, linhasSes, linksSes
  <2>6. \A r : OciosoSes(r) => OciosoSes(r)'
    BY <2>3 DEF OciosoSes, EmSes
  <2> QED BY <2>2, <2>4, <2>5, <2>6, SozinhoAntes, InteiroAntes DEF InvSessoesConta
<1>2. CASE NextSes
  <2>1. PICK r \in ReqSes :
          /\ \/ PassoSessoes(r) /\ UNCHANGED inteiro
             \/ FalhaSessoes(r) /\ inteiro' = FALSE
          /\ So(\A s \in ReqSes \ {r} : EmSes(s, "livre"))
    BY <1>2 DEF NextSes
  <2>2. InvSes'
    BY <2>1, PassoInvSes DEF InvSessoesConta, TiposSes
  <2>3. TiposSes'
    BY <2>1, <2>2, SenhaFica DEF InvSessoesConta, TiposSes
  <2>4. ASSUME sozinho' PROVE SoSes'
    <3>1. sozinho /\ OciosoSes(r) /\ TiposSes /\ SoSes
      BY <2>1, <2>4, SoMenos DEF OciosoSes, InvSessoesConta
    <3>2. inteiro' => inteiro
      BY <2>1
    <3>3. CASE PassoSessoes(r)
      BY <3>1, <3>2, <3>3, LeituraSes, EscritaSes DEF PassoSessoes
    <3>4. CASE FalhaSessoes(r) /\ ~inteiro'
      BY <3>1, <3>2, <3>4, LeituraSes DEF FalhaSessoes
    <3> QED BY <2>1, <3>3, <3>4
  <2>5. OciosoSes(r)' \/ ~sozinho'
    <3>1. \A s \in ReqSes : s # r => reqSes'[s] = reqSes[s]
      BY <2>1, SoUmSes DEF InvSessoesConta, TiposSes
    <3> QED BY <2>1, <3>1, SoMenos DEF OciosoSes, EmSes
  <2> QED BY <2>3, <2>4, <2>5 DEF InvSessoesConta
<1> QED BY <1>1, <1>2, ContaSessoes

\* What the requests that do not overlap leave behind, of sessions and links.
LEMMA SessoesSozinhas ==
  ASSUME InvSessoesConta
  PROVE  SessaoCerta /\ (sozinho => UmaVivaPorFamilia /\ LinkUmaVez)
<1>1. CASE ReqSes = {}
  BY <1>1, SessoesAssumption DEF InvSessoesConta, TiposSes, SenhaDaFamilia, SessaoCerta,
     CookieVale, TrocaDerruba, UmaVivaPorFamilia, LinkUmaVez
<1>2. ASSUME NEW r \in ReqSes, ParadosSes, sozinho, inteiro PROVE CookieVale /\ TrocaDerruba
  <2>1. CookieBom(reqSes[r]) /\ reqSes[r].pc = "livre"
    BY <1>2 DEF InvSessoesConta, SoSes, OciosoSes, ParadosSes, EmSes
  <2> QED BY <2>1 DEF CookieBom, CookieVale
<1>3. ASSUME ReqSes # {}, sozinho PROVE UmaVivaPorFamilia /\ LinkUmaVez
  <2>1. PICK r \in ReqSes : OciosoSes(r)
    <3>1. PICK s \in ReqSes \cup {0} : OciosoSes(s)
      BY <1>3 DEF InvSessoesConta
    <3> QED BY <1>3, <3>1 DEF OciosoSes
  <2> QED BY <1>3, <2>1 DEF InvSessoesConta, SoSes, FamiliaBoa, LinkBom
<1> QED BY <1>1, <1>2, <1>3 DEF SessaoCerta
-----------------------------------------------------------------------------
(* The letters of an account, of requests that do not overlap. *)

\* Who is about to write a letter left none of its kind alive.
SoCad ==
  /\ CartaUnica
  /\ \A r \in ReqCad : EmCad(r, "emite") => CartasDe(reqCad[r].conta, reqCad[r].tipo) \subseteq gastas

OciosoCad(r) == \A s \in ReqCad \ {r} : EmCad(s, "livre")

\* What a handler alone leaves behind.
LEMMA PousaCad ==
  ASSUME TypeOKCadastro, NEW r \in ReqCad, OciosoCad(r), NEW q, SegueCad(r, q), CartaUnica',
         q.pc # "emite" \/ {l \in cartas' : l.conta = q.conta /\ l.tipo = q.tipo} \subseteq gastas'
  PROVE  SoCad'
<1>1. reqCad'[r] = q /\ \A s \in ReqCad \ {r} : reqCad'[s].pc = "livre"
  BY DEF SegueCad, TypeOKCadastro, OciosoCad, EmCad
<1> QED BY <1>1 DEF SoCad, EmCad, CartasDe

\* Only three steps write letters.
LEMMA PassoSoCad ==
  ASSUME TypeOKCadastro, SoCad, NEW r \in ReqCad, OciosoCad(r), PassoCadastro(r) \/ PerderCad(r)
  PROVE  SoCad'
<1> DEFINE p == reqCad[r]
<1>h. p \in HandlerCad /\ LivreCad.pc = "livre"
  BY DEF TypeOKCadastro, LivreCad
<1>0. ASSUME NEW q, SegueCad(r, q), q.pc # "emite", UNCHANGED linksCad PROVE SoCad'
  <2>1. CartaUnica'
    BY <1>0 DEF linksCad, SoCad, CartaUnica
  <2> QED BY <1>0, <2>1, PousaCad
<1>v. ASSUME NEW pc, VaiCad(r, pc), pc # "emite", UNCHANGED linksCad PROVE SoCad'
  <2> DEFINE q == [p EXCEPT !.pc = pc]
  <2>1. SegueCad(r, q)
    BY <1>v DEF VaiCad
  <2>2. q.pc = pc
    BY <1>h DEF HandlerCad
  <2> HIDE DEF q
  <2> QED BY <1>0, <1>v, <2>1, <2>2
<1>e. ASSUME NEW pc, NEW c, NEW t, NEW e, Escreve(r, pc, c, t, e), pc # "emite", UNCHANGED linksCad
      PROVE  SoCad'
  <2> DEFINE q == [pc |-> pc, n |-> 0, conta |-> c, tipo |-> t, para |-> e]
  <2>1. SegueCad(r, q) /\ q.pc = pc
    BY <1>e DEF Escreve
  <2> HIDE DEF q
  <2> QED BY <1>0, <1>e, <2>1
<1>1. ASSUME NEW c \in ContaCad, Reenviar(r, c) \/ Excluir(r, c) PROVE SoCad'
  BY <1>1, <1>e DEF Reenviar, Excluir
<1>2. ASSUME NEW c \in ContaCad, NEW e \in Endereco, Cadastrar(r, c, e) \/ PedirTroca(r, c, e)
      PROVE  SoCad'
  BY <1>2, <1>e DEF Cadastrar, PedirTroca
<1>3. ASSUME NEW l \in cartas, SeguirCarta(r, l) PROVE SoCad'
  <2> DEFINE q == [pc |-> "marca", n |-> l.n, conta |-> l.conta, tipo |-> l.tipo, para |-> l.para]
  <2>1. SegueCad(r, q) /\ q.pc = "marca" /\ UNCHANGED linksCad
    BY <1>3 DEF SeguirCarta
  <2> HIDE DEF q
  <2> QED BY <1>0, <2>1
<1>4. CASE CriarConta(r)
  BY <1>4, <1>h, <1>0, <1>v DEF CriarConta
<1>5. CASE GastarCartas(r)
  <2> DEFINE q == [p EXCEPT !.pc = "emite"]
  <2>1. SegueCad(r, q) /\ cartas' = cartas /\ gastas' = gastas \cup CartasDe(p.conta, p.tipo)
    BY <1>5 DEF GastarCartas, VaiCad
  <2>2. q.conta = p.conta /\ q.tipo = p.tipo
    BY <1>h DEF HandlerCad
  <2>3. CartaUnica'
    BY <2>1 DEF SoCad, CartaUnica
  <2>4. {l \in cartas' : l.conta = q.conta /\ l.tipo = q.tipo} \subseteq gastas'
    BY <2>1, <2>2 DEF CartasDe
  <2> HIDE DEF q, p
  <2> QED BY <2>1, <2>3, <2>4, PousaCad
<1>6. CASE EmitirCarta(r)
  <2>1. PICK n : cartas' = cartas \cup {[n |-> n, conta |-> p.conta, tipo |-> p.tipo, para |-> p.para]}
    BY <1>6 DEF EmitirCarta
  <2>2. SegueCad(r, LivreCad) /\ gastas' = gastas /\ p.pc = "emite"
    BY <1>6 DEF EmitirCarta, EmCad
  <2>3. \A l \in cartas : l.conta = p.conta /\ l.tipo = p.tipo => l \in gastas
    BY <2>2 DEF SoCad, EmCad, CartasDe
  <2>4. CartaUnica'
    BY <2>1, <2>2, <2>3 DEF SoCad, CartaUnica
  <2> HIDE DEF p
  <2> QED BY <1>h, <2>2, <2>4, PousaCad
<1>7. CASE MarcarCarta(r)
  <2> DEFINE pc == IF p.tipo = "TROCAR_EMAIL" THEN "confere" ELSE "verifica"
             q == [p EXCEPT !.pc = pc]
  <2>1. SegueCad(r, q) /\ cartas' = cartas /\ gastas \subseteq gastas'
    BY <1>7 DEF MarcarCarta, VaiCad
  <2>2. q.pc = pc /\ pc # "emite"
    BY <1>h DEF HandlerCad
  <2>3. CartaUnica'
    BY <2>1 DEF SoCad, CartaUnica
  <2> HIDE DEF q, p
  <2> QED BY <2>1, <2>2, <2>3, PousaCad
<1>8. CASE VerificarEmail(r) \/ AtualizarEmail(r) \/ ExcluirConta(r) \/ PerderCad(r)
  BY <1>8, <1>h, <1>0 DEF VerificarEmail, AtualizarEmail, ExcluirConta, PerderCad
<1>9. CASE ConferirTroca(r)
  BY <1>9, <1>h, <1>0, <1>v DEF ConferirTroca
<1> QED BY <1>1, <1>2, <1>3, <1>4, <1>5, <1>6, <1>7, <1>8, <1>9 DEF PassoCadastro

InvCadastroConta == IInvCad /\ (sozinho => SoCad)

LEMMA InvCadastroInicio == ASSUME InitConta PROVE InvCadastroConta
<1>1. SoCad
  BY DEF InitConta, InitCadastro, SoCad, CartaUnica, EmCad, CartasDe
<1> QED BY <1>1, InitIInvCad DEF InvCadastroConta, InitConta

LEMMA InvCadastroPasso == ASSUME InvCadastroConta, [NextConta]_varsConta PROVE InvCadastroConta'
<1>1. CASE UNCHANGED varsCadastro
  <2>1. IInvCad'
    BY <1>1, NextIInvCad DEF InvCadastroConta
  <2>2. SoCad => SoCad'
    BY <1>1 DEF varsCadastro, linksCad, SoCad, EmCad, CartaUnica, CartasDe
  <2> QED BY <2>1, <2>2, SozinhoAntes DEF InvCadastroConta
<1>2. CASE NextCad
  <2>1. PICK r \in ReqCad : /\ PassoCadastro(r) \/ PerderCad(r)
                            /\ So(\A s \in ReqCad \ {r} : EmCad(s, "livre"))
    BY <1>2 DEF NextCad
  <2>2. IInvCad'
    BY <2>1, PassoIInvCad DEF InvCadastroConta
  <2>3. ASSUME sozinho' PROVE SoCad'
    <3>1. sozinho /\ OciosoCad(r)
      BY <2>1, <2>3, SoMenos DEF OciosoCad
    <3> QED BY <2>1, <3>1, PassoSoCad DEF InvCadastroConta, IInvCad
  <2> QED BY <2>2, <2>3 DEF InvCadastroConta
<1> QED BY <1>1, <1>2, ContaCadastro
-----------------------------------------------------------------------------
(* The tokens of a machine, of requests that do not overlap. *)

\* The transaction that is about to write saw what its machine had.
SoDisp ==
  /\ \A m \in Maquina : \A t, u \in NaoRevogados(m) : t = u
  /\ \A r \in ReqDisp : EmDisp(r, "grava") => NaoRevogados(reqDisp[r].maq) \subseteq reqDisp[r].vistos

OciosoDisp(r) == \A s \in ReqDisp \ {r} : EmDisp(s, "livre")

\* The tokens of m that are not revoked, after a step.
Restantes(m) == {t \in 1 .. tokens' : maquina'[t] = m /\ token'[t] # "revogado"}

LEMMA PousaDisp ==
  ASSUME InvDisp, NEW r \in ReqDisp, OciosoDisp(r), NEW q, SegueDisp(r, q),
         \A m \in Maquina : \A t, u \in Restantes(m) : t = u,
         q.pc # "grava" \/ Restantes(q.maq) \subseteq q.vistos
  PROVE  SoDisp'
<1>1. reqDisp'[r] = q /\ \A s \in ReqDisp \ {r} : reqDisp'[s].pc = "livre"
  BY DEF SegueDisp, InvDisp, TypeOKDispositivos, OciosoDisp, EmDisp
<1>2. \A s \in ReqDisp : EmDisp(s, "grava")' => s = r
  BY <1>1 DEF EmDisp
<1>3. q.pc = "grava" => NaoRevogados(reqDisp[r].maq)' \subseteq reqDisp'[r].vistos
  BY <1>1 DEF NaoRevogados, Restantes
<1>4. \A m \in Maquina : \A t, u \in NaoRevogados(m)' : t = u
  BY DEF NaoRevogados, Restantes
<1>5. \A s \in ReqDisp : EmDisp(s, "grava")' => NaoRevogados(reqDisp[s].maq)' \subseteq reqDisp'[s].vistos
  BY <1>1, <1>2, <1>3 DEF EmDisp
<1> QED BY <1>4, <1>5 DEF SoDisp

\* Tokens are revoked, run out, or are valid again: nothing is added.
LEMMA MenosTokens ==
  ASSUME SoDisp, UNCHANGED <<tokens, maquina>>,
         \A t \in 1 .. tokens : token'[t] # "revogado" => token[t] # "revogado"
  PROVE  /\ \A m : Restantes(m) \subseteq NaoRevogados(m)
         /\ \A m \in Maquina : \A t, u \in Restantes(m) : t = u
<1>1. \A m : Restantes(m) \subseteq NaoRevogados(m)
  BY DEF NaoRevogados, Restantes
<1> QED BY <1>1 DEF SoDisp

LEMMA PassoSoDisp ==
  ASSUME InvDisp, SoDisp, NEW r \in ReqDisp, OciosoDisp(r), PassoDispositivos(r)
  PROVE  SoDisp'
<1> DEFINE p == reqDisp[r]
<1>h. /\ p \in HandlerDisp /\ LivreDisp.pc = "livre" /\ CoerenteDisp(p) /\ tokens \in Nat
      /\ tokens <= MaxTokens
      /\ maquina \in [TokenApi -> Maquina \cup {SemMaquina}]
      /\ token \in [TokenApi -> {"vivo", "vencido", "revogado"}]
  BY DispAssumption DEF InvDisp, TypeOKDispositivos, LivreDisp
<1>0. ASSUME NEW q, SegueDisp(r, q), q.pc # "grava", UNCHANGED <<tokens, maquina, token>>
      PROVE  SoDisp'
  <2>1. \A m \in Maquina : \A t, u \in Restantes(m) : t = u
    BY <1>0, MenosTokens
  <2> QED BY <1>0, <2>1, PousaDisp
<1>m. ASSUME SegueDisp(r, LivreDisp), UNCHANGED <<tokens, maquina>>,
             \A t \in 1 .. tokens : token'[t] # "revogado" => token[t] # "revogado"
      PROVE  SoDisp'
  BY <1>h, <1>m, MenosTokens, PousaDisp
<1>1. ASSUME NEW m \in Maquina, Vincular(r, m) PROVE SoDisp'
  <2> DEFINE pc == IF m \in Conectadas THEN "linha" ELSE "conta"
             q == [LivreDisp EXCEPT !.pc = pc, !.maq = m]
  <2>1. SegueDisp(r, q) /\ UNCHANGED <<tokens, maquina, token>>
    BY <1>1 DEF Vincular
  <2>2. q.pc # "grava"
    BY DEF LivreDisp
  <2> HIDE DEF q
  <2> QED BY <1>0, <2>1, <2>2
<1>2. CASE ContarConectados(r)
  <2>1. [p EXCEPT !.pc = "linha"].pc = "linha"
    BY <1>h DEF HandlerDisp
  <2> QED BY <1>0, <1>2, <1>h, <2>1 DEF ContarConectados
<1>3. CASE SalvarMaquina(r)
  <2>1. [p EXCEPT !.pc = "troca"].pc = "troca"
    BY <1>h DEF HandlerDisp
  <2> QED BY <1>0, <1>3, <2>1 DEF SalvarMaquina
<1>4. CASE TrocarToken(r)
  <2> DEFINE V == NaoRevogados(p.maq)
             q == [p EXCEPT !.pc = "grava", !.vistos = V]
  <2>1. SegueDisp(r, q) /\ UNCHANGED <<tokens, maquina, token>>
    BY <1>4 DEF TrocarToken
  <2>2. Restantes(p.maq) = V
    BY <2>1 DEF NaoRevogados, Restantes
  <2> HIDE DEF V
  <2>3. q.maq = p.maq /\ q.vistos = V
    BY <1>h DEF HandlerDisp
  <2>4. \A m \in Maquina : \A t, u \in Restantes(m) : t = u
    BY <2>1, MenosTokens
  <2>5. Restantes(q.maq) \subseteq q.vistos
    BY <2>2, <2>3
  <2> HIDE DEF q, p
  <2> QED BY <2>1, <2>4, <2>5, PousaDisp
<1>5. CASE GravarToken(r)
  <2> DEFINE n == tokens + 1
  <2>1. /\ n \in TokenApi /\ tokens' = n /\ SegueDisp(r, LivreDisp)
        /\ maquina' = [maquina EXCEPT ![n] = p.maq] /\ p.pc = "grava"
        /\ token' = [t \in TokenApi |-> IF t \in p.vistos THEN "revogado" ELSE token[t]]
    BY <1>5 DEF GravarToken, EmDisp, Revoga
  <2>2. NaoRevogados(p.maq) \subseteq p.vistos
    BY <2>1 DEF SoDisp, EmDisp
  <2>3. ASSUME NEW m \in Maquina, NEW t \in Restantes(m)
        PROVE  (t = n /\ m = p.maq) \/ (m # p.maq /\ t \in NaoRevogados(m))
    <3>1. t \in 1 .. n /\ maquina'[t] = m /\ token'[t] # "revogado"
      BY <2>1 DEF NaoRevogados, Restantes
    <3>2. CASE t = n
      BY <3>1, <3>2, <2>1, <1>h
    <3>3. CASE t # n
      <4>1. t \in 1 .. tokens /\ t \in TokenApi
        BY <3>1, <3>3, <1>h, DispAssumption DEF TokenApi
      <4>2. maquina[t] = m /\ token[t] # "revogado" /\ t \notin p.vistos
        BY <4>1, <3>1, <3>3, <2>1, <1>h
      <4> QED BY <4>1, <4>2, <2>2 DEF NaoRevogados
    <3> QED BY <3>2, <3>3
  <2>4. \A m \in Maquina : \A t, u \in Restantes(m) : t = u
    BY <2>3 DEF SoDisp
  <2> QED BY <1>h, <2>1, <2>4, PousaDisp
<1>6. ASSUME NEW m \in Maquina, AbrirRevogacao(r, m) PROVE SoDisp'
  <2> DEFINE q == [LivreDisp EXCEPT !.pc = "revoga", !.maq = m]
  <2>1. SegueDisp(r, q) /\ UNCHANGED <<tokens, maquina, token>> /\ q.pc = "revoga"
    BY <1>6 DEF AbrirRevogacao, LivreDisp
  <2> HIDE DEF q
  <2> QED BY <1>0, <2>1
<1>t. 1 .. tokens \subseteq TokenApi
  BY <1>h, DispAssumption DEF TokenApi
<1>7. CASE RevogarMaquina(r)
  BY <1>7, <1>m, <1>t DEF RevogarMaquina, Revoga
<1>8. CASE RevogarTodas(r)
  <2>1. SegueDisp(r, p) /\ p.pc = "livre"
    BY <1>8 DEF RevogarTodas, EmDisp, SegueDisp, InvDisp, TypeOKDispositivos
  <2>2. \A m \in Maquina : \A t, u \in Restantes(m) : t = u
    BY <1>8, <1>t, MenosTokens DEF RevogarTodas, Revoga
  <2> HIDE DEF p
  <2> QED BY <2>1, <2>2, PousaDisp
<1>9. ASSUME NEW t \in TokenApi, UsarToken(r, t) PROVE SoDisp'
  <2> DEFINE q == [LivreDisp EXCEPT !.pc = "usa", !.tok = t, !.maq = maquina[t]]
  <2>1. SegueDisp(r, q) /\ UNCHANGED <<tokens, maquina, token>> /\ q.pc = "usa"
    BY <1>9 DEF UsarToken, LivreDisp
  <2> HIDE DEF q
  <2> QED BY <1>0, <2>1
<1>10. CASE RegistrarUso(r)
  <2>1. \A t \in 1 .. tokens : token'[t] # "revogado" => token[t] # "revogado"
    BY <1>10, <1>t, <1>h DEF RegistrarUso
  <2> QED BY <1>10, <1>m, <2>1 DEF RegistrarUso
<1>11. CASE FalharDisp(r)
  BY <1>11, <1>0, <1>h DEF FalharDisp
<1> QED BY <1>1, <1>2, <1>3, <1>4, <1>5, <1>6, <1>7, <1>8, <1>9, <1>10, <1>11
     DEF PassoDispositivos

InvDispositivosConta == InvDisp /\ (sozinho => SoDisp)

LEMMA InvDispositivosInicio == ASSUME InitConta PROVE InvDispositivosConta
<1>1. SoDisp
  BY DEF InitConta, InitDispositivos, SoDisp, NaoRevogados, EmDisp, LivreDisp
<1> QED BY <1>1, InitInvDisp DEF InvDispositivosConta, InitConta

LEMMA InvDispositivosPasso ==
  ASSUME InvDispositivosConta, [NextConta]_varsConta
  PROVE  InvDispositivosConta'
<1>1. CASE UNCHANGED varsDispositivos
  <2>1. InvDisp'
    BY <1>1, NextInvDisp DEF InvDispositivosConta
  <2>2. SoDisp => SoDisp'
    BY <1>1 DEF varsDispositivos, SoDisp, EmDisp, NaoRevogados
  <2> QED BY <2>1, <2>2, SozinhoAntes DEF InvDispositivosConta
<1>2. CASE NextDisp
  <2>0. InvDisp'
    BY <1>2, NextInvDisp DEF NextDisp, NextDispositivos, InvDispositivosConta
  <2>1. ASSUME NEW t \in TokenApi, VencerToken(t), sozinho' = sozinho PROVE sozinho' => SoDisp'
    <3> SUFFICES ASSUME SoDisp PROVE SoDisp'
      BY <2>1 DEF InvDispositivosConta
    <3>1. \A u \in 1 .. tokens : token'[u] # "revogado" => token[u] # "revogado"
      BY <2>1, DispAssumption DEF VencerToken, InvDispositivosConta, InvDisp, TypeOKDispositivos, TokenApi
    <3>2. /\ \A m : NaoRevogados(m)' \subseteq NaoRevogados(m)
          /\ \A m \in Maquina : \A v, u \in NaoRevogados(m)' : v = u
          /\ reqDisp' = reqDisp
      BY <2>1, <3>1, MenosTokens DEF VencerToken, Restantes, NaoRevogados
    <3>3. ASSUME NEW r \in ReqDisp, EmDisp(r, "grava")'
          PROVE NaoRevogados(reqDisp[r].maq)' \subseteq reqDisp'[r].vistos
      <4>1. NaoRevogados(reqDisp[r].maq) \subseteq reqDisp[r].vistos
        BY <3>2, <3>3 DEF SoDisp, EmDisp
      <4>2. NaoRevogados(reqDisp[r].maq)' \subseteq NaoRevogados(reqDisp[r].maq)
        BY <2>1, <3>1, <3>2 DEF VencerToken, NaoRevogados
      <4> QED BY <4>1, <4>2, <3>2
    <3> QED BY <3>2, <3>3 DEF SoDisp
  <2>2. ASSUME NEW r \in ReqDisp, PassoDispositivos(r), So(\A s \in ReqDisp \ {r} : EmDisp(s, "livre")),
               sozinho'
        PROVE  SoDisp'
    <3>1. sozinho /\ OciosoDisp(r)
      BY <2>2, SoMenos DEF OciosoDisp
    <3> QED BY <2>2, <3>1, PassoSoDisp DEF InvDispositivosConta
  <2> QED BY <1>2, <2>0, <2>1, <2>2 DEF InvDispositivosConta, NextDisp
<1> QED BY <1>1, <1>2, ContaDispositivos

\* Tokens that are all the same one are at most one.
LEMMA NoMaximoUm ==
  ASSUME InvDisp, SoDisp
  PROVE  UmTokenPorMaquina
<1> SUFFICES ASSUME NEW m \in Maquina PROVE Cardinality(NaoRevogados(m)) <= 1
  BY DEF UmTokenPorMaquina
<1>1. CASE NaoRevogados(m) = {}
  BY <1>1, FS_EmptySet
<1>2. ASSUME NEW t \in NaoRevogados(m) PROVE Cardinality(NaoRevogados(m)) <= 1
  <2>1. NaoRevogados(m) = {t}
    BY <1>2 DEF SoDisp
  <2>2. Cardinality({t}) = 1
    BY FS_Singleton
  <2> QED BY <2>1, <2>2
<1> QED BY <1>1, <1>2

\* Requests that do not overlap, cut short anywhere: a family of sessions has one that can be
\* refreshed, a link changes the password once and is the only one, an account has one living
\* letter of a kind, a machine one token, and a recovery code opens one session.
THEOREM CredencialSempreUnica == SpecConta => []CredencialUnica
<1>1. InvSessoesConta /\ InvCadastroConta /\ InvDispositivosConta /\ InvAdm => CredencialUnica
  BY SessoesSozinhas, NoMaximoUm DEF InvCadastroConta, SoCad, InvDispositivosConta, InvAdm, SoAdm,
     CredencialUnica
<1> QED BY <1>1, InvSessoesInicio, InvSessoesPasso, InvCadastroInicio, InvCadastroPasso,
           InvDispositivosInicio, InvDispositivosPasso, InvAdmInicio, InvAdmPasso, PTL DEF SpecConta

\* Requests that do not overlap and whose answers arrive: between them the browser holds a token
\* that is not spent and nobody was taken for a thief; once the password was changed no session
\* of the old one lives, and once the account is blocked none does.
THEOREM SessaoSempreCerta == SpecConta => []SessaoCerta
<1>1. InvSessoesConta => SessaoCerta
  BY SessoesSozinhas
<1> QED BY <1>1, InvSessoesInicio, InvSessoesPasso, PTL DEF SpecConta
-----------------------------------------------------------------------------
(* The licences, of requests that do not overlap. *)

\* What a handler that is alone read still holds when it writes.
LidoLic(q) ==
  /\ q.pc \in {"confere", "emite"} => \A l \in Licenca \ Novas : tipo[l] # "TRIAL"
  /\ q.pc = "emite" => Ativas = {}
  /\ q.pc = "renova" /\ q.lic # Nenhuma => status[q.lic] = "ATIVA" /\ assinatura[q.lic] = q.assin
  /\ q.pc \in {"reativa", "altera"} => /\ status[q.lic] \in {"ATIVA", "SUSPENSA"}
                                       /\ q.alvo \in {"ATIVA", "SUSPENSA", "REVOGADA"}
  /\ q.pc \in {"reabre", "estende"} => /\ status[q.lic] = q.alvo
                                       /\ q.alvo \in {"ATIVA", "SUSPENSA", "EXPIRADA"}
  /\ q.pc = "expira" => status[q.lic] = "ATIVA" /\ Vencida(q.lic)

SoLic == \A r \in Req : LidoLic(req[r])

OciosoLic(r) == \A s \in Req \ {r} : Em(s, "livre")

OrdemLic == RevogadaDefinitiva /\ ExpiraNoPrazo /\ AnunciadoVale /\ TrialUmaVez

\* A handler that reads.
LEMMA LeLic ==
  ASSUME IInv, SoLic, NEW r \in Req, OciosoLic(r), NEW q, Segue(r, q), LidoLic(q),
         UNCHANGED <<licencas, anunciado, hoje>>
  PROVE  SoLic' /\ OrdemLic
<1>1. /\ status' = status /\ tipo' = tipo /\ assinatura' = assinatura /\ validade' = validade
      /\ anunciado' = anunciado /\ hoje' = hoje
  BY DEF licencas
<1>2. req'[r] = q /\ \A s \in Req \ {r} : req'[s].pc = "livre"
  BY DEF IInv, TypeOK, Segue, OciosoLic, Em
<1>4. ASSUME NEW s \in Req PROVE LidoLic(req[s])'
  <2>1. CASE s = r
    BY <1>1, <1>2, <2>1 DEF LidoLic, Novas, Ativas, Vencida
  <2>2. CASE s # r
    BY <1>2, <2>2 DEF LidoLic
  <2> QED BY <2>1, <2>2
<1>5. OrdemLic
  BY <1>1 DEF OrdemLic, RevogadaDefinitiva, ExpiraNoPrazo, AnunciadoVale, TrialUmaVez, Novas
<1> QED BY <1>4, <1>5 DEF SoLic

\* A handler that writes, and is done.
LEMMA EscreveLic ==
  ASSUME IInv, SoLic, NEW r \in Req, OciosoLic(r), Segue(r, Livre) \/ (UNCHANGED req /\ Em(r, "livre"))
  PROVE  SoLic'
<1>1. \A s \in Req : req'[s].pc = "livre"
  BY DEF IInv, TypeOK, Segue, OciosoLic, Em, Livre
<1> QED BY <1>1 DEF SoLic, LidoLic

\* A licence is emitted.
LEMMA EmiteLic ==
  ASSUME IInv, SoLic, NEW l \in Novas, NEW t, NEW s, NEW ate, NEW R \in SUBSET Ativas,
         Emite(l, t, s, ate, R)
  PROVE  /\ RevogadaDefinitiva /\ ExpiraNoPrazo
         /\ status'[l] = "ATIVA" /\ assinatura'[l] = s /\ validade'[l] = ate
<1>1. l \in Licenca /\ status[l] = "INEXISTENTE"
  BY DEF Novas
<1>2. /\ status'[l] = "ATIVA" /\ assinatura'[l] = s /\ validade'[l] = ate /\ tipo'[l] = t
      /\ \A k \in Licenca : k # l => tipo'[k] = tipo[k] /\ status'[k] \in {status[k], "REVOGADA"}
      /\ \A k \in Licenca : k # l => status'[k] = IF k \in R THEN "REVOGADA" ELSE status[k]
  BY <1>1 DEF Emite, IInv, TypeOK
<1>3. RevogadaDefinitiva /\ ExpiraNoPrazo
  BY <1>1, <1>2 DEF RevogadaDefinitiva, ExpiraNoPrazo
<1> QED BY <1>2, <1>3

\* No handler is about to give a trial but the one that steps.
LEMMA SemTrial ==
  ASSUME NEW r \in Req, OciosoLic(r), ~Em(r, "emite")
  PROVE  TrialUmaVez
  BY DEF OciosoLic, Em, TrialUmaVez

\* Every step of a handler that is alone keeps what it knows, and is in order.
LEMMA PassoLic ==
  ASSUME IInv, SoLic, NEW r \in Req, OciosoLic(r), Handlers(r)
  PROVE  SoLic' /\ OrdemLic
<1> DEFINE p == req[r]
<1>h. /\ p \in Handler /\ Segura(p) /\ LidoLic(p)
      /\ status \in [Licenca -> StatusLicenca] /\ validade \in [Licenca -> Dia]
      /\ anunciado \in [Assinatura -> Dia]
  BY DEF IInv, TypeOK, SoLic
<1>n. Nenhuma \notin Licenca
  BY NenhumaAssumption
<1>l. LidoLic(Livre)
  BY DEF LidoLic, Livre
<1>1. CASE AbrirTrial(r) \/ ConferirTrial(r)
  <2>1. (\A l \in Licenca \ Novas : tipo[l] # "TRIAL") =>
          /\ LidoLic([Livre EXCEPT !.pc = "confere"])
          /\ Ativas = {} => LidoLic([Livre EXCEPT !.pc = "emite"])
    BY DEF LidoLic, Livre
  <2>2. \A l \in Licenca \ Novas : tipo[l] # "TRIAL"
    BY <1>1, <1>h DEF AbrirTrial, ConferirTrial, Em, LidoLic
  <2> QED BY <1>1, <1>l, <2>1, <2>2, LeLic DEF AbrirTrial, ConferirTrial
<1>2. CASE EmitirTrial(r)
  <2>1. PICK l \in Novas : Emite(l, "TRIAL", Nenhuma, hoje + TrialDias, {})
    BY <1>2 DEF EmitirTrial
  <2>2. Ativas = {} /\ \A k \in Licenca \ Novas : tipo[k] # "TRIAL"
    BY <1>2, <1>h DEF EmitirTrial, Em, LidoLic
  <2>3. anunciado' = anunciado /\ Segue(r, Livre)
    BY <1>2 DEF EmitirTrial
  <2> QED BY <2>1, <2>2, <2>3, EmiteLic, EscreveLic DEF OrdemLic, AnunciadoVale, TrialUmaVez
<1>3. ASSUME NEW t \in TiposManuais, NEW ate \in Dia, EmitirManual(r, t, ate) PROVE SoLic' /\ OrdemLic
  <2>1. PICK l \in Novas : Emite(l, t, Nenhuma, ate, Ativas)
    BY <1>3 DEF EmitirManual, EmiteSubstituindo
  <2>3. anunciado' = anunciado /\ UNCHANGED req /\ Em(r, "livre")
    BY <1>3 DEF EmitirManual
  <2>4. TrialUmaVez
    BY <2>3, SemTrial DEF Em
  <2> QED BY <2>1, <2>3, <2>4, EmiteLic, EscreveLic DEF OrdemLic, AnunciadoVale
<1>4. ASSUME NEW s \in Assinatura, NEW ate \in Dia, AbrirRenovacao(r, s, ate) PROVE SoLic' /\ OrdemLic
  <2>1. PICK l \in AtivasDa(s) \cup {Nenhuma} :
          Segue(r, [Livre EXCEPT !.pc = "renova", !.lic = l, !.assin = s, !.ate = ate])
    BY <1>4 DEF AbrirRenovacao
  <2> DEFINE q == [Livre EXCEPT !.pc = "renova", !.lic = l, !.assin = s, !.ate = ate]
  <2>2. LidoLic(q)
    BY DEF LidoLic, Livre, AtivasDa, Ativas
  <2> HIDE DEF q
  <2>3. Segue(r, q)
    BY <2>1 DEF q
  <2> QED BY <1>4, <2>2, <2>3, LeLic DEF AbrirRenovacao
<1>5. CASE Renovar(r)
  <2>1. /\ p.pc = "renova" /\ p.assin \in Assinatura /\ Segue(r, Livre)
        /\ anunciado' = [anunciado EXCEPT ![p.assin] = p.ate]
    BY <1>5, <1>h DEF Renovar, Em, Segura
  <2>2. \A s \in Assinatura : anunciado'[s] # anunciado[s] => s = p.assin /\ anunciado'[s] = p.ate
    BY <2>1, <1>h
  <2>5. TrialUmaVez
    BY <2>1, SemTrial DEF Em
  <2>3. CASE p.lic = Nenhuma
    <3>1. PICK l \in Novas : Emite(l, "ASSINATURA", p.assin, p.ate, Ativas)
      BY <1>5, <2>3 DEF Renovar, EmiteSubstituindo
    <3>2. l \in Licenca
      BY DEF Novas
    <3>3. /\ RevogadaDefinitiva /\ ExpiraNoPrazo
          /\ status'[l] = "ATIVA" /\ assinatura'[l] = p.assin /\ validade'[l] = p.ate
      BY <3>1, EmiteLic
    <3> HIDE DEF p
    <3>4. AnunciadoVale
      BY <2>2, <3>2, <3>3 DEF AnunciadoVale
    <3> QED BY <2>1, <2>5, <3>3, <3>4, EscreveLic DEF OrdemLic
  <2>4. CASE p.lic # Nenhuma
    <3>1. /\ validade' = [validade EXCEPT ![p.lic] = p.ate]
          /\ status' = status /\ tipo' = tipo /\ assinatura' = assinatura
      BY <1>5, <2>4 DEF Renovar
    <3>2. p.lic \in Licenca /\ status[p.lic] = "ATIVA" /\ assinatura[p.lic] = p.assin
      BY <1>h, <2>1, <2>4 DEF Handler, LidoLic
    <3>3. RevogadaDefinitiva /\ ExpiraNoPrazo
      BY <3>1, <1>h DEF RevogadaDefinitiva, ExpiraNoPrazo
    <3>4. validade'[p.lic] = p.ate
      BY <3>1, <3>2, <1>h
    <3> HIDE DEF p
    <3>5. AnunciadoVale
      BY <2>2, <3>1, <3>2, <3>4 DEF AnunciadoVale
    <3> QED BY <2>1, <2>5, <3>3, <3>5, EscreveLic DEF OrdemLic
  <2> QED BY <2>3, <2>4
<1>6. ASSUME NEW s \in Assinatura, AbrirEncerramento(r, s) PROVE SoLic' /\ OrdemLic
  <2>1. PICK l \in AtivasDa(s) :
          Segue(r, [Livre EXCEPT !.pc = "altera", !.lic = l, !.alvo = "REVOGADA"])
    BY <1>6 DEF AbrirEncerramento
  <2> DEFINE q == [Livre EXCEPT !.pc = "altera", !.lic = l, !.alvo = "REVOGADA"]
  <2>2. LidoLic(q)
    BY DEF LidoLic, Livre, AtivasDa, Ativas
  <2> HIDE DEF q
  <2>3. Segue(r, q)
    BY <2>1 DEF q
  <2> QED BY <1>6, <2>2, <2>3, LeLic DEF AbrirEncerramento
<1>7. ASSUME NEW l \in Licenca, NEW s \in {"ATIVA", "SUSPENSA", "REVOGADA"}, AbrirStatus(r, l, s)
      PROVE  SoLic' /\ OrdemLic
  <2> DEFINE q == [Livre EXCEPT !.pc = IF s = "ATIVA" THEN "reativa" ELSE "altera", !.lic = l,
                     !.alvo = s]
  <2>1. Segue(r, q) /\ UNCHANGED <<licencas, anunciado, hoje>> /\ status[l] \in {"ATIVA", "SUSPENSA"}
    BY <1>7 DEF AbrirStatus
  <2>2. LidoLic(q)
    BY <2>1 DEF LidoLic, Livre
  <2> HIDE DEF q
  <2> QED BY <2>1, <2>2, LeLic
<1>v. ASSUME NEW pc, Segue(r, [p EXCEPT !.pc = pc]), UNCHANGED <<licencas, anunciado, hoje>>,
             \/ p.pc = "reativa" /\ pc = "altera"
             \/ p.pc = "reabre" /\ pc = "estende"
      PROVE  SoLic' /\ OrdemLic
  <2> DEFINE q == [p EXCEPT !.pc = pc]
  <2>1. q.pc = pc /\ q.lic = p.lic /\ q.alvo = p.alvo
    BY <1>h DEF Handler
  <2>2. Segue(r, q)
    BY <1>v
  <2> HIDE DEF q
  <2>3. LidoLic(q)
    BY <1>h, <1>v, <2>1 DEF LidoLic
  <2> QED BY <1>v, <2>2, <2>3, LeLic
<1>8. CASE ConferirReativacao(r)
  BY <1>8, <1>v, <1>l, LeLic DEF ConferirReativacao, Em
<1>9. CASE ConferirExtensao(r)
  BY <1>9, <1>v, <1>l, LeLic DEF ConferirExtensao, Em
<1>10. ASSUME NEW l \in Licenca, NEW dias \in 1 .. Horizonte, AbrirExtensao(r, l, dias)
       PROVE  SoLic' /\ OrdemLic
  <2> DEFINE ate == Maior(hoje, validade[l]) + dias
             q == [Livre EXCEPT !.pc = IF status[l] = "EXPIRADA" THEN "reabre" ELSE "estende",
                     !.lic = l, !.ate = ate, !.alvo = status[l]]
  <2>1. Segue(r, q) /\ UNCHANGED <<licencas, anunciado, hoje>>
        /\ status[l] \in {"ATIVA", "SUSPENSA", "EXPIRADA"}
    BY <1>10 DEF AbrirExtensao
  <2> HIDE DEF ate
  <2>2. LidoLic(q)
    BY <2>1 DEF LidoLic, Livre
  <2> HIDE DEF q
  <2> QED BY <2>1, <2>2, LeLic
<1>w. ASSUME p.lic \in Licenca, NEW x, p.pc # "emite",
             status'[p.lic] = x, \A k \in Licenca : k # p.lic => status'[k] = status[k],
             status[p.lic] # "REVOGADA", status[p.lic] # "INEXISTENTE",
             x = "EXPIRADA" /\ status[p.lic] # "EXPIRADA" => Vencida(p.lic),
             tipo' = tipo, anunciado' = anunciado, Segue(r, Livre), x # "INEXISTENTE"
      PROVE  SoLic' /\ OrdemLic
  <2>1. TrialUmaVez
    BY <1>w, SemTrial DEF Em
  <2> HIDE DEF p
  <2>2. RevogadaDefinitiva /\ ExpiraNoPrazo
    BY <1>w DEF RevogadaDefinitiva, ExpiraNoPrazo
  <2>3. AnunciadoVale
    BY <1>w DEF AnunciadoVale
  <2> QED BY <1>w, <2>1, <2>2, <2>3, EscreveLic DEF OrdemLic
<1>11. CASE Alterar(r)
  <2>1. /\ p.pc = "altera" /\ status' = [status EXCEPT ![p.lic] = p.alvo] /\ tipo' = tipo
        /\ anunciado' = anunciado /\ Segue(r, Livre)
    BY <1>11 DEF Alterar, Em
  <2>2. /\ p.lic \in Licenca /\ status[p.lic] \in {"ATIVA", "SUSPENSA"}
        /\ p.alvo \in {"ATIVA", "SUSPENSA", "REVOGADA"}
    BY <2>1, <1>h DEF Segura, LidoLic
  <2>3. /\ status'[p.lic] = p.alvo
        /\ \A k \in Licenca : k # p.lic => status'[k] = status[k]
    BY <2>1, <2>2, <1>h
  <2> HIDE DEF p
  <2> QED BY <1>w, <2>1, <2>2, <2>3
<1>12. CASE Estender(r)
  <2>1. /\ p.pc = "estende" /\ tipo' = tipo /\ anunciado' = anunciado /\ Segue(r, Livre)
        /\ (p.alvo = "EXPIRADA" /\ status' = [status EXCEPT ![p.lic] = "ATIVA"]) \/ status' = status
    BY <1>12 DEF Estender, Em
  <2>2. p.lic \in Licenca /\ status[p.lic] \in {"ATIVA", "SUSPENSA", "EXPIRADA"}
    BY <2>1, <1>h DEF Segura, LidoLic
  <2> HIDE DEF p
  <2>3. CASE status' = status
    BY <1>w, <2>1, <2>2, <2>3
  <2>4. CASE status' = [status EXCEPT ![p.lic] = "ATIVA"]
    <3>1. /\ status'[p.lic] = "ATIVA"
          /\ \A k \in Licenca : k # p.lic => status'[k] = status[k]
      BY <2>2, <2>4, <1>h
    <3> QED BY <1>w, <2>1, <2>2, <3>1
  <2> QED BY <2>1, <2>3, <2>4
<1>13. ASSUME LerAtual(r) PROVE SoLic' /\ OrdemLic
  <2>1. PICK l \in Ativas : Vencida(l) /\ Segue(r, [Livre EXCEPT !.pc = "expira", !.lic = l])
    BY <1>13 DEF LerAtual
  <2> DEFINE q == [Livre EXCEPT !.pc = "expira", !.lic = l]
  <2>2. LidoLic(q)
    BY <2>1 DEF LidoLic, Livre, Ativas
  <2> HIDE DEF q
  <2>3. Segue(r, q)
    BY <2>1 DEF q
  <2> QED BY <1>13, <2>2, <2>3, LeLic DEF LerAtual
<1>14. CASE MarcarExpirada(r)
  <2>1. /\ p.pc = "expira" /\ status' = [status EXCEPT ![p.lic] = "EXPIRADA"] /\ tipo' = tipo
        /\ anunciado' = anunciado /\ Segue(r, Livre)
    BY <1>14 DEF MarcarExpirada, Em
  <2>2. p.lic \in Licenca /\ status[p.lic] = "ATIVA" /\ Vencida(p.lic)
    BY <2>1, <1>h DEF Segura, LidoLic
  <2>3. /\ status'[p.lic] = "EXPIRADA"
        /\ \A k \in Licenca : k # p.lic => status'[k] = status[k]
    BY <2>1, <2>2, <1>h
  <2> HIDE DEF p
  <2> QED BY <1>w, <2>1, <2>2, <2>3
<1>15. CASE Falhar(r)
  BY <1>15, <1>l, LeLic DEF Falhar
<1> QED BY <1>1, <1>2, <1>3, <1>4, <1>5, <1>6, <1>7, <1>8, <1>9, <1>10, <1>11, <1>12, <1>13,
          <1>14, <1>15 DEF Handlers

InvLicencasConta == IInv /\ (sozinho => SoLic)

LEMMA InvLicencasInicio == ASSUME InitConta PROVE InvLicencasConta
<1>1. SoLic
  BY DEF InitConta, Init, SoLic, LidoLic, Livre
<1> QED BY <1>1, InitIInv DEF InvLicencasConta, InitConta

LEMMA InvLicencasPasso ==
  ASSUME InvLicencasConta, [NextConta]_varsConta
  PROVE  InvLicencasConta' /\ (sozinho' => OrdemLic \/ UNCHANGED vars)
<1>1. IInv'
  BY ContaLicencas, NextIInv DEF NextLicencas, Next, InvLicencasConta
<1>2. CASE UNCHANGED vars
  <2>2. SoLic => SoLic'
    BY <1>2 DEF vars, SoLic, LidoLic, Novas, Ativas, Vencida
  <2> QED BY <1>1, <1>2, <2>2, SozinhoAntes DEF InvLicencasConta, SoLic
<1>3. ASSUME NEW r \in Req, Handlers(r), So(\A s \in Req \ {r} : Em(s, "livre")), sozinho'
      PROVE  SoLic' /\ OrdemLic
  <2>1. sozinho /\ OciosoLic(r)
    BY <1>3, SoMenos DEF OciosoLic
  <2> QED BY <1>3, <2>1, PassoLic DEF InvLicencasConta
<1>4. ASSUME PassarDia, sozinho' = sozinho, sozinho' PROVE SoLic' /\ OrdemLic
  <2>1. /\ hoje' = hoje + 1 /\ status' = status /\ tipo' = tipo /\ assinatura' = assinatura
        /\ validade' = validade /\ anunciado' = anunciado /\ req' = req /\ SoLic
    BY <1>4 DEF PassarDia, licencas, InvLicencasConta
  <2>2. OrdemLic
    BY <2>1 DEF OrdemLic, RevogadaDefinitiva, ExpiraNoPrazo, AnunciadoVale, TrialUmaVez, Novas
  <2>3. ASSUME NEW r \in Req PROVE LidoLic(req[r])'
    <3>1. LidoLic(req[r]) /\ Segura(req[r])
      BY <2>1 DEF SoLic, InvLicencasConta, IInv
    <3>2. \A l \in Licenca : Vencida(l) => Vencida(l)'
      <4>1. hoje \in Int /\ \A l \in Licenca : validade[l] \in Int
        BY DiasAssumption DEF InvLicencasConta, IInv, TypeOK, Dia
      <4> QED BY <4>1, <2>1 DEF Vencida
    <3> QED BY <2>1, <3>1, <3>2 DEF LidoLic, Segura, Novas, Ativas
  <2> QED BY <2>2, <2>3 DEF SoLic
<1>5. CASE NextLicencas
  BY <1>1, <1>3, <1>4, <1>5 DEF NextLicencas, InvLicencasConta, SoLic
<1> QED BY <1>2, <1>5, ContaLicencas

\* Handlers that do not overlap, any of which may fail at any await: a revoked licence stays
\* revoked, a licence expires only past its last day, what a renewal announces is the validity of
\* an active licence, and the trial of the first login is for an account that never had one and
\* has no active licence, whatever an administrator gives by hand.
THEOREM LicencaSempreEmOrdem == SpecConta => LicencaEmOrdem
<1>1. InvLicencasConta /\ [NextConta]_varsConta
      => [sozinho' => RevogadaDefinitiva /\ ExpiraNoPrazo /\ AnunciadoVale /\ TrialUmaVez]_vars
  BY InvLicencasPasso DEF OrdemLic
<1>2. InvLicencasConta /\ [NextConta]_varsConta => InvLicencasConta'
  BY InvLicencasPasso
<1> QED BY <1>1, <1>2, InvLicencasInicio, PTL DEF SpecConta, LicencaEmOrdem
-----------------------------------------------------------------------------
(* The routine's e-mails: types, and the bound that holds whatever overlaps. *)

HandlerAv == [pc : {"livre", "marca", "lista", "confere", "envia", "anota"},
              comeco : 0 .. UltimoDiaAv, hoje : 0 .. UltimoDiaAv, tipo : Tipos,
              itens : SUBSET Lido, item : SUBSET Lido]

\* A row as it was read: of a period, that ends soon, or that ended.
ItemBom(t, i, dia) ==
  /\ i.inicio = i.fim - Ciclo
  /\ t = "pre" => i.fim <= dia + 3
  /\ t = "vencido" => i.fim < dia

\* What an execution holds, on a day: one row at a time.
BomAv(q, dia) ==
  /\ q \in HandlerAv
  /\ q.comeco <= q.hoje /\ q.hoje <= dia
  /\ IF q.pc \in {"envia", "anota"} THEN \E i \in Lido : q.item = {i} ELSE q.item = {}
  /\ q.pc \in {"confere", "envia", "anota"} => \A i \in q.itens \cup q.item : ItemBom(q.tipo, i, dia)

LinhasAv ==
  /\ diaAv \in 0 .. UltimoDiaAv
  /\ sitAv \in [AssinaturaAv -> {"ATIVA", "INADIMPLENTE"}]
  /\ inicioAv \in [AssinaturaAv -> Dias] /\ fimAv \in [AssinaturaAv -> Dias]
  /\ \A a \in AssinaturaAv : inicioAv[a] = fimAv[a] - Ciclo
  /\ cartaoAv \subseteq AssinaturaAv /\ agendadaAv \subseteq AssinaturaAv
  /\ auditAv \in [Tipos \X AssinaturaAv -> -1 .. UltimoDiaAv]
  /\ \A y \in Tipos \X AssinaturaAv : auditAv[y] <= diaAv
  /\ enviadosAv \in [Tipos \X AssinaturaAv \X Dias -> Nat]
  /\ mortesAv \in 0 .. MaxMortes /\ ultimaAv \in 0 .. diaAv

MaosAv == reqAv \in [ReqAv -> HandlerAv] /\ \A r \in ReqAv : BomAv(reqAv[r], diaAv)

TiposAv == LinhasAv /\ MaosAv /\ pontualAv \in BOOLEAN

LEMMA TiposAvOk == TiposAv => TypeOKAvisos
<1> SUFFICES ASSUME TiposAv PROVE TypeOKAvisos
  OBVIOUS
<1>1. ASSUME NEW r \in ReqAv
      PROVE  /\ reqAv[r].pc \in {"livre", "marca", "lista", "confere", "envia", "anota"}
             /\ reqAv[r].comeco \in 0 .. diaAv /\ reqAv[r].hoje \in 0 .. diaAv
             /\ reqAv[r].tipo \in Tipos
             /\ reqAv[r].itens \subseteq Lido /\ reqAv[r].item \subseteq Lido
  <2>1. PICK q \in HandlerAv : q = reqAv[r] /\ q.comeco <= q.hoje /\ q.hoje <= diaAv
    BY DEF TiposAv, MaosAv, BomAv
  <2>2. q.comeco \in 0 .. diaAv /\ q.hoje \in 0 .. diaAv
    BY <2>1, AvisosAssumption DEF HandlerAv, TiposAv, LinhasAv
  <2> QED BY <2>1, <2>2 DEF HandlerAv
<1>2. pontualAv \in BOOLEAN
  BY Zenon DEF TiposAv
<1>3. LinhasAv
  BY DEF TiposAv
<1> QED BY Zenon, <1>1, <1>2, <1>3 DEF TypeOKAvisos, LinhasAv

LEMMA LivreAvBom == \A dia \in Nat : BomAv(LivreAv, dia)
  BY AvisosAssumption DEF BomAv, LivreAv, HandlerAv, Tipos, Lido

\* One execution moves.
LEMMA MaoAv ==
  ASSUME TiposAv, NEW r \in ReqAv, NEW q, SegueAv(r, q), BomAv(q, diaAv), diaAv' = diaAv
  PROVE  MaosAv'
<1>1. q \in HandlerAv
  BY DEF BomAv
<1>2. reqAv' \in [ReqAv -> HandlerAv] /\ \A s \in ReqAv : reqAv'[s] = q \/ reqAv'[s] = reqAv[s]
  BY <1>1 DEF SegueAv, TiposAv, MaosAv
<1> QED BY <1>2 DEF TiposAv, MaosAv

\* An execution reads.
LEMMA SoLeTiposAv ==
  ASSUME TiposAv, NEW r \in ReqAv, NEW q, SoLeAv(r, q), BomAv(q, diaAv)
  PROVE  TiposAv'
<1>1. UNCHANGED <<diaAv, linhasAv, auditAv, contasAv>> /\ SegueAv(r, q)
  BY DEF SoLeAv
<1>2. MaosAv'
  BY <1>1, MaoAv
<1>3. LinhasAv'
  BY <1>1 DEF TiposAv, LinhasAv, linhasAv, contasAv
<1>4. pontualAv' \in BOOLEAN
  BY Zenon, <1>1 DEF TiposAv, contasAv
<1> QED BY <1>2, <1>3, <1>4 DEF TiposAv

\* The handler itself, with another place in the routine.
LEMMA OutroPcAv ==
  ASSUME TiposAv, NEW r \in ReqAv
  PROVE  /\ \A pc \in {"lista", "marca"}, h \in 0 .. UltimoDiaAv :
              reqAv[r].pc \notin {"envia", "anota"} /\ h <= diaAv /\ reqAv[r].comeco <= h
              => BomAv([reqAv[r] EXCEPT !.pc = pc, !.hoje = h], diaAv)
         /\ reqAv[r].pc = "envia" => BomAv([reqAv[r] EXCEPT !.pc = "anota"], diaAv)
         /\ reqAv[r].pc = "anota" => BomAv([reqAv[r] EXCEPT !.pc = "confere", !.item = {}], diaAv)
         /\ reqAv[r].pc = "confere" => BomAv([reqAv[r] EXCEPT !.pc = "lista", !.tipo = "vencido"], diaAv)
<1>1. PICK q \in HandlerAv : q = reqAv[r] /\ BomAv(q, diaAv)
  BY DEF TiposAv, MaosAv
<1>2. ASSUME NEW pc \in {"lista", "marca"}, NEW h \in 0 .. UltimoDiaAv, q.pc \notin {"envia", "anota"},
             h <= diaAv, q.comeco <= h
      PROVE  BomAv([q EXCEPT !.pc = pc, !.hoje = h], diaAv)
  BY <1>1, <1>2 DEF BomAv, HandlerAv
<1>3. q.pc = "envia" => BomAv([q EXCEPT !.pc = "anota"], diaAv)
  BY <1>1 DEF BomAv, HandlerAv
<1>4. q.pc = "anota" => BomAv([q EXCEPT !.pc = "confere", !.item = {}], diaAv)
  BY <1>1 DEF BomAv, HandlerAv
<1>5. q.pc = "confere" => BomAv([q EXCEPT !.pc = "lista", !.tipo = "vencido"], diaAv)
  BY <1>1 DEF BomAv, HandlerAv, Tipos
<1> QED BY <1>1, <1>2, <1>3, <1>4, <1>5

\* Rows that are read.
LEMMA LidosTipo ==
  ASSUME TiposAv, NEW A \in SUBSET AssinaturaAv
  PROVE  /\ Lidos(A) \in SUBSET Lido
         /\ \A i \in Lidos(A) : /\ i.a \in A /\ i.inicio = inicioAv[i.a] /\ i.fim = fimAv[i.a]
                                /\ i.inicio = i.fim - Ciclo
         /\ \A a \in A : \E i \in Lidos(A) : i.a = a /\ i.fim = fimAv[a]
<1>1. ASSUME NEW a \in A
      PROVE  /\ a \in AssinaturaAv /\ inicioAv[a] \in Dias /\ fimAv[a] \in Dias
             /\ inicioAv[a] = fimAv[a] - Ciclo
  BY DEF TiposAv, LinhasAv
<1>2. Lidos(A) \in SUBSET Lido
  BY <1>1 DEF Lidos, Lido
<1>3. \A i \in Lidos(A) : \E a \in A : i.a = a /\ i.inicio = inicioAv[a] /\ i.fim = fimAv[a]
  BY DEF Lidos
<1>4. ASSUME NEW a \in A PROVE \E i \in Lidos(A) : i.a = a /\ i.fim = fimAv[a]
  <2>1. [a |-> a, inicio |-> inicioAv[a], fim |-> fimAv[a]] \in Lidos(A)
    BY DEF Lidos
  <2> QED BY <2>1
<1> QED BY <1>1, <1>2, <1>3, <1>4

\* The other list, and the item that is taken from it.
LEMMA ListaAv ==
  ASSUME TiposAv, NEW r \in ReqAv, reqAv[r].pc = "lista",
         NEW I, I = Lidos(IF reqAv[r].tipo = "pre" THEN PrestesAVencer(reqAv[r]) ELSE Vencidas(reqAv[r]))
  PROVE  BomAv([reqAv[r] EXCEPT !.pc = "confere", !.itens = I], diaAv)
<1>1. PICK q \in HandlerAv : q = reqAv[r] /\ BomAv(q, diaAv)
  BY DEF TiposAv, MaosAv
<1> DEFINE A == IF q.tipo = "pre" THEN PrestesAVencer(q) ELSE Vencidas(q)
<1>2. A \in SUBSET AssinaturaAv /\ I = Lidos(A)
  BY <1>1 DEF PrestesAVencer, Vencidas
<1>3. I \in SUBSET Lido /\ \A i \in I : i.a \in A /\ i.fim = fimAv[i.a] /\ i.inicio = i.fim - Ciclo
  <2> HIDE DEF A
  <2> QED BY <1>2, LidosTipo
<1>4. q.hoje \in Int /\ q.hoje <= diaAv /\ diaAv \in Int /\ \A a \in AssinaturaAv : fimAv[a] \in Int
  BY <1>1, AvisosAssumption DEF BomAv, HandlerAv, TiposAv, LinhasAv, Dias
<1>5. ASSUME NEW i \in I PROVE ItemBom(q.tipo, i, diaAv)
  <2>1. q.tipo = "pre" => i.fim = q.hoje + 3
    BY <1>3 DEF PrestesAVencer
  <2>2. q.tipo = "vencido" => i.fim \in (q.hoje - 4) .. (q.hoje - 1)
    BY <1>3 DEF Vencidas
  <2>3. i.fim \in Int
    BY <1>2, <1>3, <1>4
  <2> HIDE DEF A
  <2> QED BY <1>3, <1>4, <2>1, <2>2, <2>3 DEF ItemBom
<1> HIDE DEF A
<1>6. BomAv([q EXCEPT !.pc = "confere", !.itens = I], diaAv)
  BY <1>1, <1>3, <1>5 DEF BomAv, HandlerAv
<1> QED BY <1>1, <1>6

LEMMA ConfereAv ==
  ASSUME TiposAv, NEW r \in ReqAv, reqAv[r].pc = "confere", NEW i \in reqAv[r].itens
  PROVE  /\ BomAv([reqAv[r] EXCEPT !.itens = @ \ {i}, !.pc = "confere", !.item = {}], diaAv)
         /\ BomAv([reqAv[r] EXCEPT !.itens = @ \ {i}, !.pc = "envia", !.item = {i}], diaAv)
         /\ i \in Lido
<1>1. PICK q \in HandlerAv : q = reqAv[r] /\ BomAv(q, diaAv)
  BY DEF TiposAv, MaosAv
<1>2. i \in Lido /\ ItemBom(q.tipo, i, diaAv)
  BY <1>1 DEF BomAv, HandlerAv
<1>3. BomAv([q EXCEPT !.itens = @ \ {i}, !.pc = "confere", !.item = {}], diaAv)
  BY <1>1 DEF BomAv, HandlerAv
<1>4. BomAv([q EXCEPT !.itens = @ \ {i}, !.pc = "envia", !.item = {i}], diaAv)
  BY <1>1, <1>2 DEF BomAv, HandlerAv
<1> QED BY <1>1, <1>2, <1>3, <1>4

\* The start has the types.
LEMMA AvInit == ASSUME InitAvisos PROVE TiposAv
<1>1. /\ 0 \in 0 .. UltimoDiaAv /\ 0 \in Dias /\ Ciclo \in Dias /\ -1 \in -1 .. UltimoDiaAv
      /\ Ciclo \in Nat /\ 0 \in 0 .. MaxMortes /\ 0 \in Nat
  BY AvisosAssumption DEF Dias
<1>2. MaosAv
  BY <1>1, LivreAvBom DEF InitAvisos, MaosAv, BomAv
<1>3. /\ diaAv \in 0 .. UltimoDiaAv /\ mortesAv \in 0 .. MaxMortes /\ ultimaAv \in 0 .. diaAv
      /\ agendadaAv \subseteq AssinaturaAv /\ cartaoAv \subseteq AssinaturaAv
  BY <1>1 DEF InitAvisos
<1>4. /\ sitAv \in [AssinaturaAv -> {"ATIVA", "INADIMPLENTE"}]
      /\ inicioAv \in [AssinaturaAv -> Dias] /\ fimAv \in [AssinaturaAv -> Dias]
      /\ \A a \in AssinaturaAv : inicioAv[a] = fimAv[a] - Ciclo
  BY <1>1 DEF InitAvisos
<1>5. /\ auditAv \in [Tipos \X AssinaturaAv -> -1 .. UltimoDiaAv]
      /\ \A y \in Tipos \X AssinaturaAv : auditAv[y] <= diaAv
  BY <1>1 DEF InitAvisos
<1>6. enviadosAv \in [Tipos \X AssinaturaAv \X Dias -> Nat]
  BY <1>1 DEF InitAvisos
<1>7. pontualAv \in BOOLEAN
  BY Zenon DEF InitAvisos
<1> QED BY <1>2, <1>3, <1>4, <1>5, <1>6, <1>7 DEF TiposAv, LinhasAv

\* The clerk's flag.
LEMMA PontualFica ==
  ASSUME TiposAv, NextAv \/ UNCHANGED varsAvisos
  PROVE  pontualAv' \in BOOLEAN /\ (pontualAv' => pontualAv)
<1>1. pontualAv \in BOOLEAN
  BY Zenon DEF TiposAv
<1>2. pontualAv' = pontualAv \/ pontualAv' = FALSE
  <2>1. CASE UNCHANGED varsAvisos
    BY Zenon, <2>1 DEF varsAvisos, contasAv
  <2>2. ASSUME NEW r \in ReqAv, PassoAvisos(r) \/ FalhaAvisos(r)
        PROVE  pontualAv' = pontualAv \/ pontualAv' = FALSE
    BY Zenon, <2>2 DEF PassoAvisos, FalhaAvisos, Comecar, MarcarVencidas, Listar, Conferir, Enviar, Anotar,
       Terminar, AnotarEmVao, Morrer, SoLeAv, Impontual, contasAv
  <2>3. CASE ClienteAvisos \/ PassarDiaAv
    BY Zenon, <2>3 DEF ClienteAvisos, PagarPeriodo, AgendarCancelamento, PassarDiaAv, Impontual, contasAv
  <2> QED BY <2>1, <2>2, <2>3 DEF NextAv
<1>3. CASE pontualAv' = pontualAv
  BY Zenon, <1>1, <1>3
<1>4. CASE pontualAv' = FALSE
  BY Zenon, <1>4
<1> QED BY Zenon, <1>2, <1>3, <1>4

\* Every step of an execution keeps the types.
LEMMA PassoTiposAv ==
  ASSUME TiposAv, NEW r \in ReqAv, PassoAvisos(r) \/ FalhaAvisos(r), pontualAv' \in BOOLEAN
  PROVE  TiposAv'
<1>h. /\ reqAv[r] \in HandlerAv /\ BomAv(reqAv[r], diaAv) /\ LinhasAv /\ diaAv \in 0 .. UltimoDiaAv
      /\ diaAv \in Nat
  BY AvisosAssumption DEF TiposAv, MaosAv, LinhasAv
<1>l. BomAv(LivreAv, diaAv)
  BY <1>h, LivreAvBom
<1>i. ASSUME NEW q, BomAv(q, diaAv), SegueAv(r, q), LinhasAv', diaAv' = diaAv PROVE TiposAv'
  BY <1>i, MaoAv DEF TiposAv
<1>u. (Impontual \/ UNCHANGED ultimaAv) /\ diaAv' = diaAv => ultimaAv' \in 0 .. diaAv'
  BY <1>h DEF Impontual, LinhasAv
<1>1. CASE Comecar(r)
  <2> DEFINE pc == IF Atrasadas = {} THEN "lista" ELSE "marca"
             I == Lidos(Atrasadas)
             q == [LivreAv EXCEPT !.pc = pc, !.comeco = diaAv, !.hoje = diaAv, !.itens = I]
  <2>1. SegueAv(r, q) /\ UNCHANGED <<diaAv, linhasAv, auditAv, enviadosAv, mortesAv>>
        /\ (Impontual \/ UNCHANGED ultimaAv)
    BY <1>1 DEF Comecar
  <2>2. Atrasadas \in SUBSET AssinaturaAv
    BY DEF Atrasadas
  <2>3. I \in SUBSET Lido
    BY <2>2, LidosTipo
  <2>4. pc \in {"lista", "marca"}
    OBVIOUS
  <2> HIDE DEF I, pc
  <2>5. BomAv(q, diaAv)
    <3>1. q \in HandlerAv
      BY <1>h, <2>3, <2>4 DEF LivreAv, HandlerAv, Tipos
    <3>2. q.pc = pc /\ q.item = {} /\ q.comeco = diaAv /\ q.hoje = diaAv
      BY DEF LivreAv
    <3> HIDE DEF q
    <3> QED BY <1>h, <2>4, <3>1, <3>2 DEF BomAv
  <2>6. LinhasAv'
    BY <1>h, <1>u, <2>1 DEF LinhasAv, linhasAv
  <2> HIDE DEF q
  <2> QED BY <1>i, <2>1, <2>5, <2>6
<1>2. CASE MarcarVencidas(r)
  <2> DEFINE q == [reqAv[r] EXCEPT !.pc = "lista", !.hoje = diaAv]
  <2>1. /\ SegueAv(r, q) /\ UNCHANGED <<diaAv, inicioAv, fimAv, cartaoAv, agendadaAv, auditAv, contasAv>>
        /\ sitAv' \in [AssinaturaAv -> {"ATIVA", "INADIMPLENTE"}] /\ reqAv[r].pc = "marca"
    BY <1>2, <1>h DEF MarcarVencidas, EmAv, LinhasAv
  <2>2. BomAv(q, diaAv)
    <3>1. reqAv[r].comeco <= diaAv
      BY <1>h, AvisosAssumption DEF BomAv, HandlerAv
    <3>2. reqAv[r].pc \notin {"envia", "anota"} /\ diaAv <= diaAv
      BY <1>h, <2>1
    <3> QED BY <3>1, <3>2, <1>h, OutroPcAv
  <2>3. LinhasAv'
    BY <1>h, <2>1 DEF LinhasAv, contasAv
  <2> HIDE DEF q
  <2> QED BY <1>i, <2>1, <2>2, <2>3
<1>3. CASE Listar(r)
  BY <1>3, ListaAv, SoLeTiposAv DEF Listar, EmAv
<1>4. CASE Conferir(r)
  <2>1. PICK i \in reqAv[r].itens :
          SoLeAv(r, [reqAv[r] EXCEPT !.itens = @ \ {i},
                    !.pc = IF JaEnviado(reqAv[r].tipo, i) THEN "confere" ELSE "envia",
                    !.item = IF JaEnviado(reqAv[r].tipo, i) THEN {} ELSE {i}])
    BY <1>4 DEF Conferir
  <2>2. reqAv[r].pc = "confere"
    BY <1>4 DEF Conferir, EmAv
  <2> DEFINE q == [reqAv[r] EXCEPT !.itens = @ \ {i}, !.pc = "confere", !.item = {}]
             e == [reqAv[r] EXCEPT !.itens = @ \ {i}, !.pc = "envia", !.item = {i}]
  <2>3. BomAv(q, diaAv) /\ BomAv(e, diaAv)
    BY <2>2, ConfereAv
  <2>4. SoLeAv(r, q) \/ SoLeAv(r, e)
    BY <2>1
  <2> HIDE DEF q, e
  <2> QED BY <2>3, <2>4, SoLeTiposAv
<1>5. CASE Enviar(r)
  <2> DEFINE q == [reqAv[r] EXCEPT !.pc = "anota"]
  <2>1. /\ SegueAv(r, q) /\ UNCHANGED <<diaAv, linhasAv, auditAv, mortesAv, ultimaAv, pontualAv>>
        /\ reqAv[r].pc = "envia"
    BY <1>5 DEF Enviar, EmAv
  <2>2. PICK i \in reqAv[r].item : enviadosAv' = [enviadosAv EXCEPT ![<<reqAv[r].tipo, i.a, i.fim>>] = @ + 1]
    BY <1>5 DEF Enviar
  <2>3. BomAv(q, diaAv)
    BY <2>1, OutroPcAv
  <2>4. enviadosAv' \in [Tipos \X AssinaturaAv \X Dias -> Nat]
    <3> DEFINE y == <<reqAv[r].tipo, i.a, i.fim>>
    <3>1. y \in Tipos \X AssinaturaAv \X Dias
      BY <1>h, <2>2 DEF HandlerAv, Lido
    <3>2. enviadosAv' = [enviadosAv EXCEPT ![y] = @ + 1]
      BY <2>2
    <3> HIDE DEF y
    <3> DEFINE S == Tipos \X AssinaturaAv \X Dias
    <3>3. y \in S /\ enviadosAv \in [S -> Nat]
      BY <1>h, <3>1 DEF LinhasAv
    <3> HIDE DEF S
    <3>4. enviadosAv' \in [S -> Nat]
      BY <3>2, <3>3
    <3> QED BY <3>4 DEF S
  <2>5. LinhasAv'
    BY <1>h, <2>1, <2>4 DEF LinhasAv, linhasAv
  <2> HIDE DEF q
  <2> QED BY <1>i, <2>1, <2>3, <2>5
<1>6. CASE Anotar(r)
  <2> DEFINE q == [reqAv[r] EXCEPT !.pc = "confere", !.item = {}]
  <2>1. SegueAv(r, q) /\ UNCHANGED <<diaAv, linhasAv, contasAv>> /\ reqAv[r].pc = "anota"
    BY <1>6 DEF Anotar, EmAv
  <2>2. PICK i \in reqAv[r].item : auditAv' = [auditAv EXCEPT ![<<reqAv[r].tipo, i.a>>] = diaAv]
    BY <1>6 DEF Anotar
  <2>3. BomAv(q, diaAv)
    BY <2>1, OutroPcAv
  <2>4. diaAv \in -1 .. UltimoDiaAv
    BY <1>h, AvisosAssumption
  <2>5. auditAv' \in [Tipos \X AssinaturaAv -> -1 .. UltimoDiaAv]
        /\ \A y \in Tipos \X AssinaturaAv : auditAv'[y] <= diaAv
    <3> DEFINE y == <<reqAv[r].tipo, i.a>>
               S == Tipos \X AssinaturaAv
    <3>1. y \in S
      BY <1>h, <2>2 DEF HandlerAv, Lido
    <3>2. auditAv' = [auditAv EXCEPT ![y] = diaAv]
      BY <2>2
    <3>3. auditAv \in [S -> -1 .. UltimoDiaAv] /\ \A z \in S : auditAv[z] <= diaAv
      BY <1>h DEF LinhasAv
    <3> HIDE DEF y, S
    <3>4. auditAv' \in [S -> -1 .. UltimoDiaAv] /\ \A z \in S : auditAv'[z] <= diaAv
      BY <1>h, <2>4, <3>1, <3>2, <3>3
    <3> QED BY <3>4 DEF S
  <2>6. LinhasAv'
    BY <1>h, <2>1, <2>5 DEF LinhasAv, linhasAv, contasAv
  <2> HIDE DEF q
  <2> QED BY <1>i, <2>1, <2>3, <2>6
<1>7. CASE Terminar(r)
  <2>1. reqAv[r].pc = "confere"
    BY <1>7 DEF Terminar, EmAv
  <2> DEFINE q == [reqAv[r] EXCEPT !.pc = "lista", !.tipo = "vencido"]
  <2>2. BomAv(q, diaAv)
    BY <2>1, OutroPcAv
  <2> HIDE DEF q
  <2>3. CASE SoLeAv(r, q)
    BY <2>2, <2>3, SoLeTiposAv
  <2>4. CASE /\ SegueAv(r, LivreAv)
             /\ ultimaAv' = IF pontualAv /\ reqAv[r].comeco > ultimaAv THEN reqAv[r].comeco ELSE ultimaAv
             /\ UNCHANGED <<diaAv, linhasAv, auditAv, enviadosAv, mortesAv, pontualAv>>
    <3>1. ultimaAv' \in {reqAv[r].comeco, ultimaAv} /\ diaAv' = diaAv
      BY <2>4
    <3>2. ultimaAv' \in 0 .. diaAv'
      BY <3>1, <1>h DEF BomAv, HandlerAv, LinhasAv
    <3>3. LinhasAv'
      BY <1>h, <2>4, <3>2 DEF LinhasAv, linhasAv
    <3> QED BY <1>i, <1>l, <2>4, <3>3
  <2> QED BY <1>7, <2>3, <2>4 DEF Terminar, q
<1>8. CASE AnotarEmVao(r) \/ Morrer(r)
  <2> DEFINE e == [reqAv[r] EXCEPT !.pc = "confere", !.item = {}]
  <2>1. (SegueAv(r, e) /\ reqAv[r].pc = "anota") \/ SegueAv(r, LivreAv)
    BY <1>8 DEF AnotarEmVao, Morrer, EmAv
  <2>2. mortesAv' \in 0 .. MaxMortes
    BY <1>8, <1>h, AvisosAssumption DEF AnotarEmVao, Morrer, Perde, LinhasAv
  <2>3. UNCHANGED <<diaAv, linhasAv, auditAv, enviadosAv>> /\ Impontual
    BY <1>8 DEF AnotarEmVao, Morrer
  <2>4. LinhasAv'
    BY <1>h, <1>u, <2>2, <2>3 DEF LinhasAv, linhasAv
  <2>5. reqAv[r].pc = "anota" => BomAv(e, diaAv)
    BY OutroPcAv
  <2> HIDE DEF e
  <2> QED BY <1>i, <1>l, <2>1, <2>3, <2>4, <2>5
<1> QED BY <1>1, <1>2, <1>3, <1>4, <1>5, <1>6, <1>7, <1>8 DEF PassoAvisos, FalhaAvisos

\* So does what goes on around them.
LEMMA RedorTiposAv ==
  ASSUME TiposAv, ClienteAvisos \/ PassarDiaAv, pontualAv' \in BOOLEAN
  PROVE  TiposAv'
<1>h. LinhasAv /\ MaosAv /\ diaAv \in Nat
  BY AvisosAssumption DEF TiposAv, LinhasAv
<1>m. reqAv' = reqAv /\ (diaAv' = diaAv \/ diaAv' = diaAv + 1)
  BY DEF ClienteAvisos, PagarPeriodo, AgendarCancelamento, PassarDiaAv
<1>1. MaosAv'
  <2>1. ASSUME NEW q, BomAv(q, diaAv) PROVE BomAv(q, diaAv')
    <3>1. q.hoje \in Nat /\ \A i \in q.itens \cup q.item : i.fim \in Nat
      BY <2>1, AvisosAssumption DEF BomAv, HandlerAv, Lido, Dias
    <3> QED BY <1>m, <1>h, <2>1, <3>1 DEF BomAv, ItemBom
  <2> QED BY <1>m, <1>h, <2>1 DEF MaosAv
<1>2. ASSUME NEW a \in AssinaturaAv, PagarPeriodo(a) PROVE LinhasAv'
  <2> DEFINE novo == IF fimAv[a] + Ciclo <= diaAv THEN diaAv ELSE fimAv[a]
  <2>1. /\ sitAv' = [sitAv EXCEPT ![a] = "ATIVA"]
        /\ inicioAv' = [inicioAv EXCEPT ![a] = novo] /\ fimAv' = [fimAv EXCEPT ![a] = novo + Ciclo]
        /\ UNCHANGED <<diaAv, cartaoAv, agendadaAv, auditAv, contasAv>> /\ fimAv[a] <= UltimoDiaAv
    BY <1>2 DEF PagarPeriodo
  <2>2. novo \in Dias /\ novo + Ciclo \in Dias /\ novo \in Nat
    BY <1>h, <2>1, AvisosAssumption DEF Dias, LinhasAv
  <2> HIDE DEF novo
  <2>3. /\ inicioAv' \in [AssinaturaAv -> Dias] /\ fimAv' \in [AssinaturaAv -> Dias]
        /\ sitAv' \in [AssinaturaAv -> {"ATIVA", "INADIMPLENTE"}]
    BY <1>h, <2>1, <2>2 DEF LinhasAv
  <2>4. \A b \in AssinaturaAv : inicioAv'[b] = fimAv'[b] - Ciclo
    BY <1>h, <2>1, <2>2, AvisosAssumption DEF LinhasAv
  <2> QED BY <1>h, <2>1, <2>3, <2>4 DEF LinhasAv, contasAv
<1>3. ASSUME NEW a \in AssinaturaAv, AgendarCancelamento(a) PROVE LinhasAv'
  BY <1>3, <1>h DEF AgendarCancelamento, LinhasAv, contasAv
<1>4. ASSUME PassarDiaAv PROVE LinhasAv'
  <2>1. /\ diaAv' \in 0 .. UltimoDiaAv /\ ultimaAv' \in 0 .. diaAv' /\ diaAv <= diaAv'
        /\ UNCHANGED <<linhasAv, auditAv, enviadosAv, mortesAv>>
    BY <1>4, <1>h, AvisosAssumption DEF PassarDiaAv, LinhasAv, Impontual
  <2>2. \A y \in Tipos \X AssinaturaAv : auditAv'[y] <= diaAv'
    BY <2>1, <1>h, AvisosAssumption DEF LinhasAv
  <2>3. UNCHANGED <<sitAv, inicioAv, fimAv, cartaoAv, agendadaAv>>
    BY <2>1 DEF linhasAv
  <2> QED BY <2>1, <2>2, <2>3, <1>h DEF LinhasAv
<1>5. LinhasAv'
  BY <1>2, <1>3, <1>4 DEF ClienteAvisos
<1> QED BY Zenon, <1>1, <1>5 DEF TiposAv

\* Whatever the account does, the routine's rows and executions keep their types.
LEMMA AvPasso ==
  ASSUME TiposAv, [NextConta]_varsConta
  PROVE  /\ TiposAv'
         /\ \/ \E r \in ReqAv : PassoAvisos(r) \/ FalhaAvisos(r)
            \/ ClienteAvisos \/ PassarDiaAv \/ UNCHANGED varsAvisos
<1>1. CASE NextAv
  <2>1. pontualAv' \in BOOLEAN
    BY <1>1, PontualFica
  <2>2. \/ \E r \in ReqAv : PassoAvisos(r) \/ FalhaAvisos(r)
        \/ ClienteAvisos \/ PassarDiaAv
    BY <1>1 DEF NextAv
  <2>3. TiposAv'
    BY <2>1, <2>2, PassoTiposAv, RedorTiposAv
  <2> QED BY <2>2, <2>3
<1>2. CASE UNCHANGED varsAvisos
  <2>1. UNCHANGED <<diaAv, linhasAv, auditAv, contasAv, reqAv>>
    BY <1>2 DEF varsAvisos
  <2>2. LinhasAv' /\ MaosAv'
    BY <2>1 DEF TiposAv, LinhasAv, MaosAv, linhasAv, contasAv
  <2>3. pontualAv' \in BOOLEAN
    BY <1>2, PontualFica
  <2>4. TiposAv'
    BY Zenon, <2>2, <2>3 DEF TiposAv
  <2> QED BY <1>2, <2>4
<1> QED BY <1>1, <1>2, ContaAvisos

LEMMA AvInicio == ASSUME InitConta PROVE TiposAv
  BY AvInit DEF InitConta
-----------------------------------------------------------------------------
(* How often a warning goes out, whatever overlaps, dies or loses its row. *)

\* An execution has a warning in its hands; those about to send it, and to write its row.
LevaAv(q, x) == \E i \in q.item : x = <<q.tipo, i.a, i.fim>>
Enviando(x) == {r \in ReqAv : reqAv[r].pc = "envia" /\ LevaAv(reqAv[r], x)}
Anotando(x) == {r \in ReqAv : reqAv[r].pc = "anota" /\ LevaAv(reqAv[r], x)}

\* The row that stops a warning.
Anotado(x) == auditAv[<<x[1], x[2]>>] >= IF x[1] = "pre" THEN x[3] - Ciclo ELSE x[3]

Aviso == Tipos \X AssinaturaAv \X Dias

\* While a warning has no row, each time it went out is somebody about to write it, or a loss; and
\* who is about to send it one more time is not among them.
LimiteAv ==
  \A x \in Aviso :
    /\ Anotado(x) \/ enviadosAv[x] <= Cardinality(Anotando(x)) + mortesAv
    /\ enviadosAv[x] + Cardinality(Enviando(x)) <= Cardinality(ReqAv) + mortesAv

\* Executions, and others.
LEMMA Separadas ==
  ASSUME NEW A \in SUBSET ReqAv, NEW B \in SUBSET ReqAv, A \cap B = {}
  PROVE  /\ IsFiniteSet(A) /\ IsFiniteSet(B)
         /\ Cardinality(A) \in Nat /\ Cardinality(B) \in Nat /\ Cardinality(ReqAv) \in Nat
         /\ Cardinality(A) + Cardinality(B) <= Cardinality(ReqAv)
<1>2. IsFiniteSet(A) /\ IsFiniteSet(B) /\ IsFiniteSet(ReqAv)
  BY FS_Subset, AvisosFinitosAssumption
<1>3. Cardinality(A) \in Nat /\ Cardinality(B) \in Nat /\ Cardinality(ReqAv) \in Nat
  BY <1>2, FS_CardinalityType
<1>4. Cardinality(A \cup B) = Cardinality(A) + Cardinality(B)
  <2>1. Cardinality(A \cap B) = 0
    BY FS_EmptySet
  <2>2. Cardinality(A \cup B) = Cardinality(A) + Cardinality(B) - Cardinality(A \cap B)
    BY <1>2, FS_Union
  <2> QED BY <1>3, <2>1, <2>2
<1>5. Cardinality(A \cup B) <= Cardinality(ReqAv)
  BY <1>2, FS_Subset
<1> QED BY <1>2, <1>3, <1>4, <1>5

\* Those executions, and how many.
LEMMA MaosFinitas ==
  ASSUME NEW x
  PROVE  /\ IsFiniteSet(Enviando(x)) /\ IsFiniteSet(Anotando(x))
         /\ Cardinality(Enviando(x)) \in Nat /\ Cardinality(Anotando(x)) \in Nat
         /\ Cardinality(ReqAv) \in Nat
         /\ Cardinality(Enviando(x)) + Cardinality(Anotando(x)) <= Cardinality(ReqAv)
<1>1. /\ Enviando(x) \in SUBSET ReqAv /\ Anotando(x) \in SUBSET ReqAv
      /\ Enviando(x) \cap Anotando(x) = {}
  BY DEF Enviando, Anotando
<1> QED BY <1>1, Separadas

\* One execution moves.
LEMMA MaosMudam ==
  ASSUME TiposAv, NEW r \in ReqAv, NEW q, SegueAv(r, q), NEW x
  PROVE  /\ Enviando(x)' = IF q.pc = "envia" /\ LevaAv(q, x) THEN Enviando(x) \cup {r} ELSE Enviando(x) \ {r}
         /\ Anotando(x)' = IF q.pc = "anota" /\ LevaAv(q, x) THEN Anotando(x) \cup {r} ELSE Anotando(x) \ {r}
<1>1. /\ reqAv'[r] = q /\ \A s \in ReqAv \ {r} : reqAv'[s] = reqAv[s]
  BY DEF SegueAv, TiposAv, MaosAv
<1> QED BY <1>1 DEF Enviando, Anotando, LevaAv

\* A set gains or loses one.
LEMMA MaisUm ==
  ASSUME NEW S, NEW r, IsFiniteSet(S)
  PROVE  /\ Cardinality(S \cup {r}) = IF r \in S THEN Cardinality(S) ELSE Cardinality(S) + 1
         /\ Cardinality(S \ {r}) = IF r \in S THEN Cardinality(S) - 1 ELSE Cardinality(S)
  BY FS_AddElement, FS_RemoveElement

\* What an execution with empty hands does changes no bound.
LEMMA LimiteQuieto ==
  ASSUME TiposAv, LimiteAv, NEW r \in ReqAv, NEW q, SegueAv(r, q),
         reqAv[r].pc \notin {"envia", "anota"}, q.pc \notin {"envia", "anota"},
         UNCHANGED <<auditAv, enviadosAv, mortesAv>>
  PROVE  LimiteAv'
<1> SUFFICES ASSUME NEW x \in Aviso
             PROVE  /\ Anotado(x)' \/ enviadosAv'[x] <= Cardinality(Anotando(x)') + mortesAv'
                    /\ enviadosAv'[x] + Cardinality(Enviando(x)') <= Cardinality(ReqAv) + mortesAv'
  BY DEF LimiteAv
<1>1. Enviando(x)' = Enviando(x) \ {r} /\ Anotando(x)' = Anotando(x) \ {r}
  BY MaosMudam
<1>2. r \notin Enviando(x) /\ r \notin Anotando(x)
  BY DEF Enviando, Anotando
<1>3. Enviando(x)' = Enviando(x) /\ Anotando(x)' = Anotando(x)
  BY <1>1, <1>2
<1>4. Anotado(x)' = Anotado(x)
  BY DEF Anotado
<1> QED BY <1>3, <1>4 DEF LimiteAv

\* Nor does what goes on around them.
LEMMA LimiteParado ==
  ASSUME LimiteAv, UNCHANGED <<auditAv, enviadosAv, mortesAv, reqAv>>
  PROVE  LimiteAv'
  BY DEF LimiteAv, Anotado, Anotando, Enviando, LevaAv

\* What an execution holds, of its type.
LEMMA NaMao ==
  ASSUME TiposAv, NEW r \in ReqAv, reqAv[r].pc \in {"envia", "anota"}
  PROVE  \E i \in Lido : /\ reqAv[r].item = {i} /\ reqAv[r].tipo \in Tipos
                         /\ ItemBom(reqAv[r].tipo, i, diaAv)
                         /\ <<reqAv[r].tipo, i.a, i.fim>> \in Aviso
                         /\ <<reqAv[r].tipo, i.a>> \in Tipos \X AssinaturaAv
<1>1. PICK q \in HandlerAv : q = reqAv[r] /\ BomAv(q, diaAv)
  BY DEF TiposAv, MaosAv
<1>2. PICK i \in Lido : q.item = {i} /\ ItemBom(q.tipo, i, diaAv)
  BY <1>1 DEF BomAv
<1>3. q.tipo \in Tipos /\ i.a \in AssinaturaAv /\ i.fim \in Dias
  BY <1>1 DEF HandlerAv, Lido
<1>4. <<q.tipo, i.a, i.fim>> \in Aviso /\ <<q.tipo, i.a>> \in Tipos \X AssinaturaAv
  BY <1>3 DEF Aviso
<1> QED BY <1>1, <1>2, <1>3, <1>4

\* A row written today stops the warning it is of.
LEMMA AnotaHoje ==
  ASSUME TiposAv, NEW t \in Tipos, NEW i, i \in Lido, ItemBom(t, i, diaAv)
  PROVE  diaAv >= IF t = "pre" THEN i.fim - Ciclo ELSE i.fim
<1>1. i.fim \in Nat /\ Ciclo \in Nat /\ Ciclo > 3 /\ diaAv \in Nat
  BY AvisosAssumption DEF Lido, Dias, TiposAv, LinhasAv
<1> QED BY <1>1 DEF ItemBom, Tipos

\* The bounds of one warning, with the numbers they speak of.
LimiteDe(x) ==
  /\ Anotado(x) \/ enviadosAv[x] <= Cardinality(Anotando(x)) + mortesAv
  /\ enviadosAv[x] + Cardinality(Enviando(x)) <= Cardinality(ReqAv) + mortesAv

LEMMA ContasAv ==
  ASSUME TiposAv, LimiteAv, NEW x \in Aviso
  PROVE  /\ LimiteDe(x)
         /\ enviadosAv[x] \in Nat /\ mortesAv \in Nat
         /\ IsFiniteSet(Enviando(x)) /\ IsFiniteSet(Anotando(x))
         /\ Cardinality(Enviando(x)) \in Nat /\ Cardinality(Anotando(x)) \in Nat
         /\ Cardinality(ReqAv) \in Nat
         /\ Cardinality(Enviando(x)) + Cardinality(Anotando(x)) <= Cardinality(ReqAv)
<1>1. /\ mortesAv \in Nat /\ enviadosAv[x] \in Nat
  BY AvisosAssumption DEF TiposAv, LinhasAv, Aviso
<1> QED BY <1>1, MaosFinitas DEF LimiteAv, LimiteDe

\* About to send what has no row yet.
LEMMA ConfereMaos ==
  ASSUME TiposAv, NEW r \in ReqAv, Conferir(r), NEW x \in Aviso
  PROVE  /\ UNCHANGED <<auditAv, enviadosAv, mortesAv>> /\ Anotado(x)' = Anotado(x)
         /\ r \notin Enviando(x) /\ r \notin Anotando(x) /\ Anotando(x)' = Anotando(x)
         /\ \/ Enviando(x)' = Enviando(x)
            \/ ~Anotado(x) /\ Enviando(x)' = Enviando(x) \cup {r}
<1>1. PICK i \in reqAv[r].itens :
        SoLeAv(r, [reqAv[r] EXCEPT !.itens = @ \ {i},
                  !.pc = IF JaEnviado(reqAv[r].tipo, i) THEN "confere" ELSE "envia",
                  !.item = IF JaEnviado(reqAv[r].tipo, i) THEN {} ELSE {i}])
  BY DEF Conferir
<1>2. PICK q \in HandlerAv : q = reqAv[r] /\ BomAv(q, diaAv)
  BY DEF TiposAv, MaosAv
<1>3. q.pc = "confere"
  BY <1>2 DEF Conferir, EmAv
<1>4. i \in Lido /\ ItemBom(q.tipo, i, diaAv) /\ q.tipo \in Tipos
  BY <1>1, <1>2, <1>3 DEF BomAv, HandlerAv
<1> DEFINE pc == IF JaEnviado(q.tipo, i) THEN "confere" ELSE "envia"
           it == IF JaEnviado(q.tipo, i) THEN {} ELSE {i}
           p == [q EXCEPT !.itens = @ \ {i}, !.pc = pc, !.item = it]
<1>5. SegueAv(r, p) /\ UNCHANGED <<auditAv, enviadosAv, mortesAv>>
  BY <1>1, <1>2 DEF SoLeAv, contasAv
<1>6. pc = "confere" \/ (pc = "envia" /\ it = {i} /\ ~JaEnviado(q.tipo, i))
  OBVIOUS
<1> HIDE DEF pc, it
<1>7. p.pc = pc /\ p.item = it /\ p.tipo = q.tipo
  BY DEF HandlerAv
<1> HIDE DEF p
<1>8. /\ Anotando(x)' = Anotando(x) \ {r}
      /\ Enviando(x)' = IF pc = "envia" /\ LevaAv(p, x) THEN Enviando(x) \cup {r} ELSE Enviando(x) \ {r}
  BY <1>5, <1>6, <1>7, MaosMudam
<1>9. r \notin Enviando(x) /\ r \notin Anotando(x)
  BY <1>2, <1>3 DEF Enviando, Anotando
<1>10. Anotado(x)' = Anotado(x)
  BY <1>5 DEF Anotado
<1>11. ASSUME pc = "envia", LevaAv(p, x) PROVE ~Anotado(x)
  <2>1. x = <<q.tipo, i.a, i.fim>> /\ i.inicio = i.fim - Ciclo
    BY <1>4, <1>6, <1>7, <1>11 DEF LevaAv, ItemBom
  <2>2. JaEnviado(q.tipo, i) <=> Anotado(<<q.tipo, i.a, i.fim>>)
    BY <1>4, <2>1 DEF JaEnviado, Anotado
  <2>3. ~JaEnviado(q.tipo, i)
    BY <1>6, <1>11
  <2>4. ~Anotado(<<q.tipo, i.a, i.fim>>)
    BY Zenon, <2>2, <2>3
  <2> QED BY Zenon, <2>1, <2>4
<1>12. CASE pc = "envia" /\ LevaAv(p, x)
  <2>1. ~Anotado(x)
    BY <1>11, <1>12
  <2>2. Anotando(x)' = Anotando(x) /\ Enviando(x)' = Enviando(x) \cup {r}
    BY <1>8, <1>9, <1>12
  <2> QED BY <1>5, <1>9, <1>10, <2>1, <2>2
<1>13. CASE ~(pc = "envia" /\ LevaAv(p, x))
  <2>1. Anotando(x)' = Anotando(x) /\ Enviando(x)' = Enviando(x)
    BY <1>8, <1>9, <1>13
  <2> QED BY <1>5, <1>9, <1>10, <2>1
<1> QED BY <1>12, <1>13

LEMMA LimiteConfere ==
  ASSUME TiposAv, LimiteAv, NEW r \in ReqAv, Conferir(r), NEW x \in Aviso
  PROVE  LimiteDe(x)'
<1>1. /\ UNCHANGED <<auditAv, enviadosAv, mortesAv>> /\ Anotado(x)' = Anotado(x)
      /\ r \notin Enviando(x) /\ r \notin Anotando(x) /\ Anotando(x)' = Anotando(x)
  BY ConfereMaos
<1>2. CASE Enviando(x)' = Enviando(x)
  BY <1>1, <1>2, ContasAv DEF LimiteDe
<1>3. CASE ~Anotado(x) /\ Enviando(x)' = Enviando(x) \cup {r}
  <2>1. enviadosAv[x] <= Cardinality(Anotando(x)) + mortesAv
    BY <1>3, ContasAv DEF LimiteDe
  <2>2. /\ Enviando(x) \cup {r} \in SUBSET ReqAv /\ Anotando(x) \in SUBSET ReqAv
        /\ (Enviando(x) \cup {r}) \cap Anotando(x) = {}
    BY <1>1 DEF Enviando, Anotando
  <2>3. Cardinality(Enviando(x)') + Cardinality(Anotando(x)) <= Cardinality(ReqAv)
        /\ Cardinality(Enviando(x)') \in Nat
    BY <1>3, <2>2, Separadas
  <2>4. /\ enviadosAv'[x] <= Cardinality(Anotando(x)') + mortesAv'
        /\ enviadosAv'[x] + Cardinality(Enviando(x)') <= Cardinality(ReqAv) + mortesAv'
    BY <1>1, <2>1, <2>3, ContasAv
  <2> QED BY <2>4 DEF LimiteDe
<1>4. Enviando(x)' = Enviando(x) \/ (~Anotado(x) /\ Enviando(x)' = Enviando(x) \cup {r})
  BY ConfereMaos
<1> QED BY <1>2, <1>3, <1>4

\* Sent: one about to send less, one about to write more.
LEMMA EnviaMaos ==
  ASSUME TiposAv, NEW r \in ReqAv, Enviar(r), NEW x \in Aviso
  PROVE  /\ UNCHANGED <<auditAv, mortesAv>> /\ Anotado(x)' = Anotado(x)
         /\ \/ /\ enviadosAv'[x] = enviadosAv[x]
               /\ Enviando(x)' = Enviando(x) /\ Anotando(x)' = Anotando(x)
            \/ /\ enviadosAv'[x] = enviadosAv[x] + 1
               /\ r \in Enviando(x) /\ Enviando(x)' = Enviando(x) \ {r}
               /\ r \notin Anotando(x) /\ Anotando(x)' = Anotando(x) \cup {r}
<1>1. PICK i \in Lido : /\ reqAv[r].item = {i} /\ reqAv[r].tipo \in Tipos
                        /\ <<reqAv[r].tipo, i.a, i.fim>> \in Aviso
  BY NaMao DEF Enviar, EmAv
<1> DEFINE y == <<reqAv[r].tipo, i.a, i.fim>>
           p == [reqAv[r] EXCEPT !.pc = "anota"]
<1>2. /\ enviadosAv' = [enviadosAv EXCEPT ![y] = @ + 1] /\ SegueAv(r, p)
      /\ UNCHANGED <<auditAv, mortesAv>> /\ reqAv[r].pc = "envia" /\ reqAv[r] \in HandlerAv
  BY <1>1 DEF Enviar, EmAv, TiposAv, MaosAv
<1>3. p.pc = "anota" /\ (LevaAv(p, x) <=> x = y) /\ (LevaAv(reqAv[r], x) <=> x = y)
  BY <1>1, <1>2 DEF LevaAv, HandlerAv
<1>4. y \in Aviso /\ enviadosAv \in [Aviso -> Nat]
  BY <1>1 DEF TiposAv, LinhasAv, Aviso
<1> HIDE DEF y, p
<1>5. enviadosAv'[x] = IF x = y THEN enviadosAv[x] + 1 ELSE enviadosAv[x]
  BY <1>2, <1>4
<1>6. /\ Enviando(x)' = Enviando(x) \ {r}
      /\ Anotando(x)' = IF x = y THEN Anotando(x) \cup {r} ELSE Anotando(x) \ {r}
  BY <1>2, <1>3, MaosMudam
<1>7. r \notin Anotando(x) /\ (r \in Enviando(x) <=> x = y)
  BY <1>2, <1>3 DEF Anotando, Enviando
<1>8. Anotado(x)' = Anotado(x)
  BY <1>2 DEF Anotado
<1> QED BY <1>2, <1>5, <1>6, <1>7, <1>8

LEMMA LimiteEnvia ==
  ASSUME TiposAv, LimiteAv, NEW r \in ReqAv, Enviar(r), NEW x \in Aviso
  PROVE  LimiteDe(x)'
<1>1. UNCHANGED <<auditAv, mortesAv>> /\ Anotado(x)' = Anotado(x)
  BY EnviaMaos
<1>2. CASE /\ enviadosAv'[x] = enviadosAv[x]
           /\ Enviando(x)' = Enviando(x) /\ Anotando(x)' = Anotando(x)
  BY <1>1, <1>2, ContasAv DEF LimiteDe
<1>3. CASE /\ enviadosAv'[x] = enviadosAv[x] + 1
           /\ r \in Enviando(x) /\ Enviando(x)' = Enviando(x) \ {r}
           /\ r \notin Anotando(x) /\ Anotando(x)' = Anotando(x) \cup {r}
  <2>1. /\ Cardinality(Enviando(x)') = Cardinality(Enviando(x)) - 1
        /\ Cardinality(Anotando(x)') = Cardinality(Anotando(x)) + 1
    BY <1>3, MaisUm, ContasAv
  <2> QED BY <1>1, <1>3, <2>1, ContasAv DEF LimiteDe
<1> QED BY <1>2, <1>3, EnviaMaos

\* A row that is written stops what its writer had in hands.
LEMMA AnotaMaos ==
  ASSUME TiposAv, NEW r \in ReqAv, Anotar(r), NEW x \in Aviso
  PROVE  /\ UNCHANGED <<enviadosAv, mortesAv>> /\ Enviando(x)' = Enviando(x)
         /\ Anotado(x) => Anotado(x)'
         /\ Anotado(x)' \/ Anotando(x)' = Anotando(x)
<1>1. PICK i \in Lido : /\ reqAv[r].item = {i} /\ reqAv[r].tipo \in Tipos
                        /\ ItemBom(reqAv[r].tipo, i, diaAv)
                        /\ <<reqAv[r].tipo, i.a>> \in Tipos \X AssinaturaAv
  BY NaMao DEF Anotar, EmAv
<1> DEFINE z == <<reqAv[r].tipo, i.a>>
           p == [reqAv[r] EXCEPT !.pc = "confere", !.item = {}]
<1>2. /\ auditAv' = [auditAv EXCEPT ![z] = diaAv] /\ SegueAv(r, p) /\ p.pc = "confere"
      /\ UNCHANGED <<enviadosAv, mortesAv>> /\ reqAv[r].pc = "anota" /\ reqAv[r] \in HandlerAv
  <2>1. reqAv[r] \in HandlerAv
    BY DEF TiposAv, MaosAv
  <2> QED BY <1>1, <2>1 DEF Anotar, EmAv, HandlerAv, contasAv
<1>3. LevaAv(reqAv[r], x) => <<x[1], x[2]>> = z /\ x = <<reqAv[r].tipo, i.a, i.fim>>
  BY <1>1 DEF LevaAv
<1>4. /\ <<x[1], x[2]>> \in Tipos \X AssinaturaAv /\ x[3] \in Nat
      /\ auditAv \in [Tipos \X AssinaturaAv -> -1 .. UltimoDiaAv] /\ auditAv[<<x[1], x[2]>>] <= diaAv
      /\ Ciclo \in Nat /\ diaAv \in Nat
  BY AvisosAssumption DEF Aviso, Dias, TiposAv, LinhasAv
<1>z. z \in Tipos \X AssinaturaAv
  BY <1>1
<1> HIDE DEF p, z
<1>5. LevaAv(reqAv[r], x) => Anotado(x)'
  <2>1. LevaAv(reqAv[r], x) => auditAv'[<<x[1], x[2]>>] = diaAv
    BY <1>2, <1>3, <1>4, <1>z
  <2>2. LevaAv(reqAv[r], x) => diaAv >= IF x[1] = "pre" THEN x[3] - Ciclo ELSE x[3]
    BY <1>1, <1>3, AnotaHoje
  <2> QED BY <2>1, <2>2 DEF Anotado
<1>6. Anotado(x) => Anotado(x)'
  <2> DEFINE y == <<x[1], x[2]>>
             n == IF x[1] = "pre" THEN x[3] - Ciclo ELSE x[3]
  <2>1. n \in Int
    BY <1>4
  <2>2. auditAv[y] \in Int /\ auditAv[y] <= diaAv
    BY <1>4
  <2>3. auditAv'[y] \in {auditAv[y], diaAv}
    BY <1>2, <1>4, <1>z
  <2> HIDE DEF n, y
  <2>4. auditAv[y] >= n => auditAv'[y] >= n
    BY <1>4, <2>1, <2>2, <2>3
  <2> QED BY <2>4 DEF n, y, Anotado
<1>7. Enviando(x)' = Enviando(x) \ {r} /\ Anotando(x)' = Anotando(x) \ {r}
  BY <1>2, MaosMudam
<1>8. r \notin Enviando(x) /\ (r \in Anotando(x) <=> LevaAv(reqAv[r], x))
  BY <1>2 DEF Enviando, Anotando
<1>9. Enviando(x)' = Enviando(x) /\ (~LevaAv(reqAv[r], x) => Anotando(x)' = Anotando(x))
  BY <1>7, <1>8
<1> QED BY <1>2, <1>5, <1>6, <1>9

LEMMA LimiteAnota ==
  ASSUME TiposAv, LimiteAv, NEW r \in ReqAv, Anotar(r), NEW x \in Aviso
  PROVE  LimiteDe(x)'
  BY AnotaMaos, ContasAv DEF LimiteDe

\* What is lost, and what was to be written, add up.
LEMMA LimitePerde ==
  ASSUME TiposAv, LimiteAv, NEW r \in ReqAv, FalhaAvisos(r), NEW x \in Aviso
  PROVE  LimiteDe(x)'
<1>1. PICK q : SegueAv(r, q) /\ q.pc \notin {"envia", "anota"}
  <2>1. CASE AnotarEmVao(r)
    <3>1. reqAv[r] \in HandlerAv
      BY DEF TiposAv, MaosAv
    <3>2. [reqAv[r] EXCEPT !.pc = "confere", !.item = {}].pc = "confere"
      BY <3>1 DEF HandlerAv
    <3> QED BY <2>1, <3>2 DEF AnotarEmVao
  <2>2. CASE Morrer(r)
    BY <2>2 DEF Morrer, LivreAv
  <2> QED BY <2>1, <2>2 DEF FalhaAvisos
<1>2. UNCHANGED <<auditAv, enviadosAv>> /\ mortesAv' = mortesAv + 1
  BY DEF FalhaAvisos, AnotarEmVao, Morrer, Perde
<1>3. Enviando(x)' = Enviando(x) \ {r} /\ Anotando(x)' = Anotando(x) \ {r}
  BY <1>1, MaosMudam
<1>4. /\ Cardinality(Enviando(x)') \in {Cardinality(Enviando(x)), Cardinality(Enviando(x)) - 1}
      /\ Cardinality(Anotando(x)') \in {Cardinality(Anotando(x)), Cardinality(Anotando(x)) - 1}
  <2>1. IsFiniteSet(Enviando(x)) /\ IsFiniteSet(Anotando(x))
    BY MaosFinitas
  <2>2. /\ Cardinality(Enviando(x) \ {r}) \in {Cardinality(Enviando(x)), Cardinality(Enviando(x)) - 1}
        /\ Cardinality(Anotando(x) \ {r}) \in {Cardinality(Anotando(x)), Cardinality(Anotando(x)) - 1}
    BY <2>1, MaisUm
  <2> QED BY <1>3, <2>2
<1>5. Anotado(x)' = Anotado(x)
  BY <1>2 DEF Anotado
<1> QED BY <1>2, <1>4, <1>5, ContasAv DEF LimiteDe

\* A step that keeps hands empty.
LEMMA QuietoMove ==
  ASSUME TiposAv, NEW r \in ReqAv, Comecar(r) \/ MarcarVencidas(r) \/ Listar(r) \/ Terminar(r)
  PROVE  /\ \E q : SegueAv(r, q) /\ q.pc \notin {"envia", "anota"}
         /\ reqAv[r].pc \notin {"envia", "anota"} /\ UNCHANGED <<auditAv, enviadosAv, mortesAv>>
<1>h. reqAv[r] \in HandlerAv
  BY DEF TiposAv, MaosAv
<1>1. PICK q : SegueAv(r, q) /\ q.pc \notin {"envia", "anota"}
  <2> DEFINE Quieto(q) == SegueAv(r, q) /\ q.pc \notin {"envia", "anota"}
             pc == IF Atrasadas = {} THEN "lista" ELSE "marca"
             c == [LivreAv EXCEPT !.pc = pc, !.comeco = diaAv, !.hoje = diaAv, !.itens = Lidos(Atrasadas)]
             m == [reqAv[r] EXCEPT !.pc = "lista", !.hoje = diaAv]
             I == Lidos(IF reqAv[r].tipo = "pre" THEN PrestesAVencer(reqAv[r]) ELSE Vencidas(reqAv[r]))
             l == [reqAv[r] EXCEPT !.pc = "confere", !.itens = I]
             t == [reqAv[r] EXCEPT !.pc = "lista", !.tipo = "vencido"]
  <2>0. SegueAv(r, c) \/ SegueAv(r, m) \/ SegueAv(r, l) \/ SegueAv(r, t) \/ SegueAv(r, LivreAv)
    BY DEF Comecar, MarcarVencidas, Listar, Terminar, SoLeAv
  <2>1. /\ c.pc \in {"lista", "marca"} /\ m.pc = "lista" /\ l.pc = "confere" /\ t.pc = "lista"
        /\ LivreAv.pc = "livre"
    BY <1>h DEF HandlerAv, LivreAv
  <2> HIDE DEF c, m, l, t
  <2>2. Quieto(c) \/ Quieto(m) \/ Quieto(l) \/ Quieto(t) \/ Quieto(LivreAv)
    BY <2>0, <2>1
  <2> HIDE DEF Quieto
  <2>3. \E q : Quieto(q)
    BY <2>2
  <2> QED BY <2>3 DEF Quieto
<1>2. reqAv[r].pc \notin {"envia", "anota"} /\ UNCHANGED <<auditAv, enviadosAv, mortesAv>>
  BY DEF Comecar, MarcarVencidas, Listar, Terminar, SoLeAv, EmAv, contasAv
<1> QED BY <1>1, <1>2

\* Each execution's step keeps the bound.
LEMMA LimitePasso ==
  ASSUME TiposAv, LimiteAv, NEW r \in ReqAv, PassoAvisos(r) \/ FalhaAvisos(r)
  PROVE  LimiteAv'
<1>1. CASE Comecar(r) \/ MarcarVencidas(r) \/ Listar(r) \/ Terminar(r)
  BY <1>1, QuietoMove, LimiteQuieto
<1>2. CASE Conferir(r) \/ Enviar(r) \/ Anotar(r) \/ FalhaAvisos(r)
  <2>1. \A x \in Aviso : LimiteDe(x)'
    BY <1>2, LimiteConfere, LimiteEnvia, LimiteAnota, LimitePerde
  <2> QED BY <2>1 DEF LimiteAv, LimiteDe
<1> QED BY <1>1, <1>2 DEF PassoAvisos
-----------------------------------------------------------------------------
(* The e-mails of executions that do not overlap. *)

OciosoAv(r) == \A s \in ReqAv \ {r} : EmAv(s, "livre")

NaLista == {"confere", "envia", "anota"}

\* What an execution alone holds: rows that are still so; those whose period ended are overdue, or
\* still to be marked; it tells it to who did not pay; and what it writes the row of was sent.
MaoSo(q, fim, sit, ag, env) ==
  q.pc # "livre" =>
    /\ \A i \in q.itens \cup q.item : i.fim = fim[i.a]
    /\ \A a \in AssinaturaAv \ ag : fim[a] < q.comeco =>
         sit[a] = "INADIMPLENTE" \/ (q.pc = "marca" /\ \E i \in q.itens : i.a = a)
    /\ q.tipo = "vencido" /\ q.pc \in NaLista =>
         \A i \in q.itens \cup q.item : sit[i.a] = "INADIMPLENTE"
    /\ q.pc = "anota" => \A i \in q.item : env[<<q.tipo, i.a, i.fim>>] > 0

\* A row of an end of period is of one that was sent.
Registrado(fim, aud, env) ==
  \A a \in AssinaturaAv : aud[<<"vencido", a>>] >= fim[a] => env[<<"vencido", a, fim[a]>>] > 0

SoAv ==
  /\ \A r \in ReqAv : MaoSo(reqAv[r], fimAv, sitAv, agendadaAv, enviadosAv)
  /\ Registrado(fimAv, auditAv, enviadosAv)

\* One execution moves, the others rest.
LEMMA MoveSo ==
  ASSUME TiposAv, NEW r \in ReqAv, OciosoAv(r), NEW q, SegueAv(r, q),
         MaoSo(q, fimAv', sitAv', agendadaAv', enviadosAv'), Registrado(fimAv', auditAv', enviadosAv')
  PROVE  SoAv'
<1>1. /\ reqAv'[r] = q /\ \A s \in ReqAv \ {r} : reqAv'[s] = reqAv[s] /\ reqAv[s].pc = "livre"
  BY DEF SegueAv, TiposAv, MaosAv, OciosoAv, EmAv
<1>2. ASSUME NEW s \in ReqAv PROVE MaoSo(reqAv'[s], fimAv', sitAv', agendadaAv', enviadosAv')
  <2>1. CASE s = r
    BY <1>1, <2>1
  <2>2. CASE s # r
    <3>1. reqAv'[s].pc = "livre"
      BY <1>1, <2>2
    <3> QED BY <3>1 DEF MaoSo
  <2> QED BY <2>1, <2>2
<1> QED BY <1>2 DEF SoAv

LEMMA LivreSo == MaoSo(LivreAv, fimAv', sitAv', agendadaAv', enviadosAv')
  BY DEF MaoSo, LivreAv

\* Starting, and marking who is overdue.
LEMMA SoComeca ==
  ASSUME TiposAv, SoAv, NEW r \in ReqAv, OciosoAv(r), Comecar(r)
  PROVE  SoAv'
<1> DEFINE pc == IF Atrasadas = {} THEN "lista" ELSE "marca"
           I == Lidos(Atrasadas)
           q == [LivreAv EXCEPT !.pc = pc, !.comeco = diaAv, !.hoje = diaAv, !.itens = I]
<1>1. SegueAv(r, q) /\ UNCHANGED <<diaAv, linhasAv, auditAv, enviadosAv>>
  BY DEF Comecar
<1>2. q.pc = pc /\ q.itens = I /\ q.item = {} /\ q.tipo = "pre" /\ q.comeco = diaAv
  BY DEF LivreAv
<1>3. Atrasadas \in SUBSET AssinaturaAv
  BY DEF Atrasadas
<1>4. /\ \A i \in I : i.fim = fimAv[i.a]
      /\ \A a \in Atrasadas : \E i \in I : i.a = a
  BY <1>3, LidosTipo
<1>5. \A a \in AssinaturaAv \ agendadaAv : fimAv[a] < diaAv /\ sitAv[a] # "INADIMPLENTE" => a \in Atrasadas
  BY DEF TiposAv, LinhasAv, Atrasadas
<1>6. pc \in {"lista", "marca"} /\ (Atrasadas # {} => pc = "marca")
  OBVIOUS
<1>7. UNCHANGED <<fimAv, sitAv, agendadaAv>>
  BY <1>1 DEF linhasAv
<1> HIDE DEF q, I, pc
<1>8. MaoSo(q, fimAv, sitAv, agendadaAv, enviadosAv)
  BY <1>2, <1>4, <1>5, <1>6 DEF MaoSo, NaLista
<1> QED BY <1>1, <1>7, <1>8, MoveSo DEF SoAv

LEMMA SoMarca ==
  ASSUME TiposAv, SoAv, NEW r \in ReqAv, OciosoAv(r), MarcarVencidas(r)
  PROVE  SoAv'
<1> DEFINE q == [reqAv[r] EXCEPT !.pc = "lista", !.hoje = diaAv]
<1>1. /\ SegueAv(r, q) /\ UNCHANGED <<fimAv, agendadaAv, auditAv, enviadosAv>> /\ reqAv[r].pc = "marca"
      /\ sitAv' = [a \in AssinaturaAv |->
                    IF \E i \in reqAv[r].itens : i.a = a THEN "INADIMPLENTE" ELSE sitAv[a]]
  BY DEF MarcarVencidas, EmAv, contasAv
<1>2. reqAv[r] \in HandlerAv
  BY DEF TiposAv, MaosAv
<1>3. q.pc = "lista" /\ q.itens = reqAv[r].itens /\ q.item = reqAv[r].item /\ q.comeco = reqAv[r].comeco
  BY <1>2 DEF HandlerAv
<1>4. MaoSo(reqAv[r], fimAv, sitAv, agendadaAv, enviadosAv)
  BY DEF SoAv
<1> HIDE DEF q
<1>5. MaoSo(q, fimAv, sitAv', agendadaAv, enviadosAv)
  BY <1>1, <1>3, <1>4 DEF MaoSo, NaLista
<1> QED BY <1>1, <1>5, MoveSo DEF SoAv

\* Going through the lists.
LEMMA SoLista ==
  ASSUME TiposAv, SoAv, NEW r \in ReqAv, OciosoAv(r), Listar(r)
  PROVE  SoAv'
<1> DEFINE A == IF reqAv[r].tipo = "pre" THEN PrestesAVencer(reqAv[r]) ELSE Vencidas(reqAv[r])
           q == [reqAv[r] EXCEPT !.pc = "confere", !.itens = Lidos(A)]
<1>1. SegueAv(r, q) /\ UNCHANGED <<fimAv, agendadaAv, sitAv, auditAv, enviadosAv>> /\ reqAv[r].pc = "lista"
  BY DEF Listar, EmAv, SoLeAv, linhasAv, contasAv
<1>2. BomAv(reqAv[r], diaAv) /\ reqAv[r] \in HandlerAv
  BY DEF TiposAv, MaosAv
<1>3. /\ q.pc = "confere" /\ q.itens = Lidos(A) /\ q.item = {} /\ q.comeco = reqAv[r].comeco
      /\ q.tipo = reqAv[r].tipo
  BY <1>1, <1>2 DEF HandlerAv, BomAv
<1>4. MaoSo(reqAv[r], fimAv, sitAv, agendadaAv, enviadosAv)
  BY DEF SoAv
<1>5. A \in SUBSET AssinaturaAv /\ (reqAv[r].tipo = "vencido" => \A a \in A : sitAv[a] = "INADIMPLENTE")
  BY DEF PrestesAVencer, Vencidas
<1> HIDE DEF q, A
<1>6. \A i \in Lidos(A) : i.fim = fimAv[i.a] /\ i.a \in A
  BY <1>5, LidosTipo
<1>7. MaoSo(q, fimAv, sitAv, agendadaAv, enviadosAv)
  BY <1>1, <1>3, <1>4, <1>5, <1>6 DEF MaoSo, NaLista
<1> QED BY <1>1, <1>7, MoveSo DEF SoAv

LEMMA SoConfere ==
  ASSUME TiposAv, SoAv, NEW r \in ReqAv, OciosoAv(r), Conferir(r)
  PROVE  SoAv'
<1>1. PICK i \in reqAv[r].itens :
        SoLeAv(r, [reqAv[r] EXCEPT !.itens = @ \ {i},
                  !.pc = IF JaEnviado(reqAv[r].tipo, i) THEN "confere" ELSE "envia",
                  !.item = IF JaEnviado(reqAv[r].tipo, i) THEN {} ELSE {i}])
  BY DEF Conferir
<1> DEFINE pc == IF JaEnviado(reqAv[r].tipo, i) THEN "confere" ELSE "envia"
           it == IF JaEnviado(reqAv[r].tipo, i) THEN {} ELSE {i}
           q == [reqAv[r] EXCEPT !.itens = @ \ {i}, !.pc = pc, !.item = it]
<1>2. reqAv[r] \in HandlerAv
  BY DEF TiposAv, MaosAv
<1>3. SegueAv(r, q) /\ UNCHANGED <<fimAv, agendadaAv, sitAv, auditAv, enviadosAv>> /\ reqAv[r].pc = "confere"
  BY <1>1 DEF Conferir, EmAv, SoLeAv, linhasAv, contasAv
<1>4. pc \in {"confere", "envia"} /\ it \subseteq {i}
  OBVIOUS
<1> HIDE DEF pc, it
<1>5. /\ q.pc = pc /\ q.itens = reqAv[r].itens \ {i} /\ q.item = it /\ q.comeco = reqAv[r].comeco
      /\ q.tipo = reqAv[r].tipo
  BY <1>2 DEF HandlerAv
<1>6. MaoSo(reqAv[r], fimAv, sitAv, agendadaAv, enviadosAv)
  BY DEF SoAv
<1> HIDE DEF q
<1>7. MaoSo(q, fimAv, sitAv, agendadaAv, enviadosAv)
  BY <1>1, <1>3, <1>4, <1>5, <1>6 DEF MaoSo, NaLista
<1> QED BY <1>3, <1>7, MoveSo DEF SoAv

\* One more warning went out.
LEMMA MaisUmAviso ==
  ASSUME TiposAv, NEW y \in Aviso, enviadosAv' = [enviadosAv EXCEPT ![y] = @ + 1]
  PROVE  /\ enviadosAv'[y] > 0 /\ enviadosAv'[y] = enviadosAv[y] + 1
         /\ \A x \in Aviso : x # y => enviadosAv'[x] = enviadosAv[x]
         /\ \A x \in Aviso : enviadosAv[x] > 0 => enviadosAv'[x] > 0
         /\ \A x \in Aviso : enviadosAv[x] \in Nat /\ enviadosAv'[x] \in Nat
<1>1. enviadosAv \in [Aviso -> Nat]
  BY DEF TiposAv, LinhasAv, Aviso
<1> QED BY <1>1

LEMMA Vencido == ASSUME TiposAv, NEW a \in AssinaturaAv PROVE <<"vencido", a, fimAv[a]>> \in Aviso
  BY DEF TiposAv, LinhasAv, Aviso, Tipos

LEMMA SoEnvia ==
  ASSUME TiposAv, SoAv, NEW r \in ReqAv, OciosoAv(r), Enviar(r)
  PROVE  SoAv'
<1>1. PICK i \in Lido : /\ reqAv[r].item = {i} /\ reqAv[r].tipo \in Tipos
                        /\ <<reqAv[r].tipo, i.a, i.fim>> \in Aviso
  BY NaMao DEF Enviar, EmAv
<1> DEFINE y == <<reqAv[r].tipo, i.a, i.fim>>
           q == [reqAv[r] EXCEPT !.pc = "anota"]
<1>2. /\ enviadosAv' = [enviadosAv EXCEPT ![y] = @ + 1] /\ SegueAv(r, q)
      /\ UNCHANGED <<fimAv, sitAv, agendadaAv, auditAv>> /\ reqAv[r].pc = "envia"
  BY <1>1 DEF Enviar, EmAv, linhasAv
<1>3. reqAv[r] \in HandlerAv
  BY DEF TiposAv, MaosAv
<1>4. /\ q.pc = "anota" /\ q.itens = reqAv[r].itens /\ q.item = {i} /\ q.comeco = reqAv[r].comeco
      /\ q.tipo = reqAv[r].tipo
  BY <1>1, <1>3 DEF HandlerAv
<1>5. enviadosAv'[y] > 0 /\ \A x \in Aviso : enviadosAv[x] > 0 => enviadosAv'[x] > 0
  BY <1>1, <1>2, MaisUmAviso
<1>6. MaoSo(reqAv[r], fimAv, sitAv, agendadaAv, enviadosAv)
  BY DEF SoAv
<1>7. \A j \in q.item : <<q.tipo, j.a, j.fim>> = y
  BY <1>4
<1> HIDE DEF q, y
<1>8. MaoSo(q, fimAv, sitAv, agendadaAv, enviadosAv')
  BY <1>1, <1>2, <1>4, <1>5, <1>6, <1>7 DEF MaoSo, NaLista
<1>9. Registrado(fimAv, auditAv, enviadosAv')
  <2> SUFFICES ASSUME NEW a \in AssinaturaAv, auditAv[<<"vencido", a>>] >= fimAv[a]
               PROVE  enviadosAv'[<<"vencido", a, fimAv[a]>>] > 0
    BY DEF Registrado
  <2>1. enviadosAv[<<"vencido", a, fimAv[a]>>] > 0
    BY DEF SoAv, Registrado
  <2> QED BY <1>5, <2>1, Vencido
<1> QED BY <1>2, <1>8, <1>9, MoveSo

LEMMA SoAnota ==
  ASSUME TiposAv, SoAv, NEW r \in ReqAv, OciosoAv(r), Anotar(r)
  PROVE  SoAv'
<1>1. PICK i \in Lido : /\ reqAv[r].item = {i} /\ reqAv[r].tipo \in Tipos
                        /\ <<reqAv[r].tipo, i.a>> \in Tipos \X AssinaturaAv
  BY NaMao DEF Anotar, EmAv
<1> DEFINE z == <<reqAv[r].tipo, i.a>>
           q == [reqAv[r] EXCEPT !.pc = "confere", !.item = {}]
<1>2. /\ auditAv' = [auditAv EXCEPT ![z] = diaAv] /\ SegueAv(r, q)
      /\ UNCHANGED <<fimAv, sitAv, agendadaAv, enviadosAv>> /\ reqAv[r].pc = "anota"
  BY <1>1 DEF Anotar, EmAv, linhasAv, contasAv
<1>3. reqAv[r] \in HandlerAv
  BY DEF TiposAv, MaosAv
<1>4. /\ q.pc = "confere" /\ q.itens = reqAv[r].itens /\ q.item = {} /\ q.comeco = reqAv[r].comeco
      /\ q.tipo = reqAv[r].tipo
  BY <1>3 DEF HandlerAv
<1>5. MaoSo(reqAv[r], fimAv, sitAv, agendadaAv, enviadosAv)
  BY DEF SoAv
<1>6. i.fim = fimAv[i.a] /\ enviadosAv[<<reqAv[r].tipo, i.a, i.fim>>] > 0
  BY <1>1, <1>2, <1>5 DEF MaoSo
<1>7. /\ z \in Tipos \X AssinaturaAv /\ auditAv \in [Tipos \X AssinaturaAv -> -1 .. UltimoDiaAv]
  BY <1>1 DEF TiposAv, LinhasAv
<1>8. MaoSo(q, fimAv, sitAv, agendadaAv, enviadosAv)
  <2> HIDE DEF q
  <2> QED BY <1>2, <1>4, <1>5 DEF MaoSo, NaLista
<1>9. Registrado(fimAv, auditAv', enviadosAv)
  <2> SUFFICES ASSUME NEW a \in AssinaturaAv, auditAv'[<<"vencido", a>>] >= fimAv[a]
               PROVE  enviadosAv[<<"vencido", a, fimAv[a]>>] > 0
    BY DEF Registrado
  <2>1. CASE z = <<"vencido", a>>
    BY <1>6, <2>1
  <2>2. CASE z # <<"vencido", a>>
    <3>1. <<"vencido", a>> \in Tipos \X AssinaturaAv
      BY DEF Tipos
    <3> DEFINE v == <<"vencido", a>>
    <3> HIDE DEF z, v
    <3>2. auditAv'[v] = auditAv[v]
      BY <1>2, <1>7, <2>2, <3>1 DEF v
    <3> QED BY <3>2 DEF v, SoAv, Registrado
  <2> QED BY <2>1, <2>2
<1> HIDE DEF q, z
<1> QED BY <1>2, <1>8, <1>9, MoveSo

\* The end of a list, of an execution, or of a process.
LEMMA SoTermina ==
  ASSUME TiposAv, SoAv, NEW r \in ReqAv, OciosoAv(r), Terminar(r) \/ FalhaAvisos(r)
  PROVE  SoAv'
<1>1. UNCHANGED <<fimAv, sitAv, agendadaAv, auditAv, enviadosAv>>
  BY DEF Terminar, FalhaAvisos, AnotarEmVao, Morrer, SoLeAv, linhasAv, contasAv
<1>2. Registrado(fimAv', auditAv', enviadosAv')
  BY <1>1 DEF SoAv
<1>3. reqAv[r] \in HandlerAv /\ MaoSo(reqAv[r], fimAv, sitAv, agendadaAv, enviadosAv)
  BY DEF SoAv, TiposAv, MaosAv
<1> DEFINE l == [reqAv[r] EXCEPT !.pc = "lista", !.tipo = "vencido"]
           c == [reqAv[r] EXCEPT !.pc = "confere", !.item = {}]
<1>4. \/ SegueAv(r, LivreAv)
      \/ SegueAv(r, l) /\ reqAv[r].pc = "confere"
      \/ SegueAv(r, c) /\ reqAv[r].pc = "anota"
  BY DEF Terminar, FalhaAvisos, AnotarEmVao, Morrer, SoLeAv, EmAv
<1>5. /\ l.pc = "lista" /\ l.itens = reqAv[r].itens /\ l.item = reqAv[r].item /\ l.comeco = reqAv[r].comeco
      /\ c.pc = "confere" /\ c.itens = reqAv[r].itens /\ c.item = {} /\ c.comeco = reqAv[r].comeco
      /\ c.tipo = reqAv[r].tipo
  BY <1>3 DEF HandlerAv
<1> HIDE DEF l, c
<1>6. reqAv[r].pc = "confere" => MaoSo(l, fimAv', sitAv', agendadaAv', enviadosAv')
  BY <1>1, <1>3, <1>5 DEF MaoSo, NaLista
<1>7. reqAv[r].pc = "anota" => MaoSo(c, fimAv', sitAv', agendadaAv', enviadosAv')
  BY <1>1, <1>3, <1>5 DEF MaoSo, NaLista
<1> QED BY <1>2, <1>4, <1>6, <1>7, LivreSo, MoveSo

LEMMA SoPassoAv ==
  ASSUME TiposAv, SoAv, NEW r \in ReqAv, OciosoAv(r), PassoAvisos(r) \/ FalhaAvisos(r)
  PROVE  SoAv'
  BY SoComeca, SoMarca, SoLista, SoConfere, SoEnvia, SoAnota, SoTermina DEF PassoAvisos

\* A period that is paid ends after today.
LEMMA PagaDepois ==
  ASSUME TiposAv, NEW a \in AssinaturaAv, PagarPeriodo(a)
  PROVE  /\ fimAv'[a] > diaAv /\ \A b \in AssinaturaAv : b # a => fimAv'[b] = fimAv[b]
         /\ \A b \in AssinaturaAv : fimAv[b] \in Nat /\ fimAv'[b] \in Nat
         /\ UNCHANGED <<diaAv, agendadaAv, auditAv, enviadosAv, mortesAv, ultimaAv, pontualAv, reqAv>>
<1>1. /\ fimAv \in [AssinaturaAv -> Dias] /\ diaAv \in Nat /\ Ciclo \in Nat /\ Ciclo > 3
      /\ UltimoDiaAv \in Nat /\ \A b \in AssinaturaAv : fimAv[b] \in Nat
  BY AvisosAssumption DEF TiposAv, LinhasAv, Dias
<1> DEFINE novo == IF fimAv[a] + Ciclo <= diaAv THEN diaAv ELSE fimAv[a]
<1>2. fimAv' = [fimAv EXCEPT ![a] = novo + Ciclo]
      /\ UNCHANGED <<diaAv, agendadaAv, auditAv, enviadosAv, mortesAv, ultimaAv, pontualAv, reqAv>>
  BY DEF PagarPeriodo, contasAv
<1>3. novo \in Nat /\ novo + Ciclo > diaAv
  BY <1>1
<1> HIDE DEF novo
<1> QED BY <1>1, <1>2, <1>3

\* Clients act while nobody is at work; days go by.
LEMMA SoRedor ==
  ASSUME TiposAv, SoAv,
         \/ ClienteAvisos /\ \A r \in ReqAv : EmAv(r, "livre")
         \/ PassarDiaAv \/ UNCHANGED varsAvisos
  PROVE  SoAv'
<1>1. CASE PassarDiaAv \/ UNCHANGED varsAvisos
  BY <1>1 DEF PassarDiaAv, varsAvisos, linhasAv, contasAv, SoAv
<1>2. ASSUME NEW a \in AssinaturaAv, PagarPeriodo(a) \/ AgendarCancelamento(a),
             \A r \in ReqAv : EmAv(r, "livre")
      PROVE  SoAv'
  <2>1. reqAv' = reqAv /\ auditAv' = auditAv /\ enviadosAv' = enviadosAv
    BY <1>2 DEF PagarPeriodo, AgendarCancelamento, contasAv
  <2>2. \A r \in ReqAv : MaoSo(reqAv'[r], fimAv', sitAv', agendadaAv', enviadosAv')
    BY <1>2, <2>1 DEF MaoSo, EmAv
  <2>3. Registrado(fimAv', auditAv, enviadosAv)
    <3>1. CASE PagarPeriodo(a)
      <4> SUFFICES ASSUME NEW b \in AssinaturaAv, auditAv[<<"vencido", b>>] >= fimAv'[b]
                   PROVE  enviadosAv[<<"vencido", b, fimAv'[b]>>] > 0
        BY DEF Registrado
      <4>1. b # a
        <5>1. auditAv[<<"vencido", a>>] \in Int /\ auditAv[<<"vencido", a>>] <= diaAv /\ diaAv \in Int
          BY AvisosAssumption DEF TiposAv, LinhasAv, Tipos
        <5>2. fimAv'[a] > diaAv /\ fimAv'[a] \in Nat
          BY <3>1, PagaDepois
        <5> QED BY <5>1, <5>2
      <4>2. fimAv'[b] = fimAv[b]
        BY <3>1, <4>1, PagaDepois
      <4> QED BY <4>2 DEF SoAv, Registrado
    <3>2. CASE AgendarCancelamento(a)
      BY <3>2 DEF AgendarCancelamento, SoAv, Registrado
    <3> QED BY <1>2, <3>1, <3>2
  <2> QED BY <2>1, <2>2, <2>3 DEF SoAv
<1> QED BY <1>1, <1>2 DEF ClienteAvisos

\* A warning that went out has its row, or who writes it; who is about to send it is the first.
UmaVezDe(x) ==
  /\ enviadosAv[x] <= 1
  /\ enviadosAv[x] = 0 \/ Anotado(x) \/ Anotando(x) # {}
  /\ Enviando(x) # {} => enviadosAv[x] = 0

UmaVezAv == \A x \in Aviso : UmaVezDe(x)

\* The steps that keep hands empty.
LEMMA QuietoMaos ==
  ASSUME TiposAv, NEW r \in ReqAv, NEW x \in Aviso,
         Comecar(r) \/ MarcarVencidas(r) \/ Listar(r) \/ Terminar(r)
  PROVE  /\ UNCHANGED <<auditAv, enviadosAv, mortesAv>> /\ Anotado(x)' = Anotado(x)
         /\ Enviando(x)' = Enviando(x) /\ Anotando(x)' = Anotando(x)
<1>1. PICK q : SegueAv(r, q) /\ q.pc \notin {"envia", "anota"}
  BY QuietoMove
<1>2. reqAv[r].pc \notin {"envia", "anota"} /\ UNCHANGED <<auditAv, enviadosAv, mortesAv>>
  BY QuietoMove
<1>3. Enviando(x)' = Enviando(x) \ {r} /\ Anotando(x)' = Anotando(x) \ {r}
  BY <1>1, MaosMudam
<1>4. r \notin Enviando(x) /\ r \notin Anotando(x)
  BY <1>2 DEF Enviando, Anotando
<1>5. Anotado(x)' = Anotado(x)
  BY <1>2 DEF Anotado
<1> QED BY <1>2, <1>3, <1>4, <1>5

\* Executions that do not overlap, and lose nothing.
LEMMA UmaVezPasso ==
  ASSUME TiposAv, UmaVezAv, NEW r \in ReqAv, OciosoAv(r), PassoAvisos(r)
  PROVE  UmaVezAv'
<1> SUFFICES ASSUME NEW x \in Aviso PROVE UmaVezDe(x)'
  BY DEF UmaVezAv
<1>x. UmaVezDe(x) /\ enviadosAv[x] \in Nat
  BY DEF UmaVezAv, TiposAv, LinhasAv, Aviso
<1>s. Enviando(x) \subseteq {r} /\ Anotando(x) \subseteq {r}
  BY DEF Enviando, Anotando, OciosoAv, EmAv
<1>1. CASE Comecar(r) \/ MarcarVencidas(r) \/ Listar(r) \/ Terminar(r)
  BY <1>1, <1>x, QuietoMaos DEF UmaVezDe
<1>2. CASE Conferir(r)
  <2>1. /\ UNCHANGED enviadosAv /\ Anotado(x)' = Anotado(x)
        /\ r \notin Enviando(x) /\ r \notin Anotando(x) /\ Anotando(x)' = Anotando(x)
    BY <1>2, ConfereMaos
  <2>2. CASE Enviando(x)' = Enviando(x)
    BY <1>x, <2>1, <2>2 DEF UmaVezDe
  <2>3. CASE ~Anotado(x) /\ Enviando(x)' = Enviando(x) \cup {r}
    <3>1. enviadosAv[x] = 0
      BY <1>s, <1>x, <2>1, <2>3 DEF UmaVezDe
    <3> QED BY <2>1, <3>1 DEF UmaVezDe
  <2>4. Enviando(x)' = Enviando(x) \/ (~Anotado(x) /\ Enviando(x)' = Enviando(x) \cup {r})
    BY <1>2, ConfereMaos
  <2> QED BY <2>2, <2>3, <2>4
<1>3. CASE Enviar(r)
  <2>1. Anotado(x)' = Anotado(x)
    BY <1>3, EnviaMaos
  <2>2. CASE /\ enviadosAv'[x] = enviadosAv[x]
             /\ Enviando(x)' = Enviando(x) /\ Anotando(x)' = Anotando(x)
    BY <1>x, <2>1, <2>2 DEF UmaVezDe
  <2>3. CASE /\ enviadosAv'[x] = enviadosAv[x] + 1
             /\ r \in Enviando(x) /\ Enviando(x)' = Enviando(x) \ {r}
             /\ r \notin Anotando(x) /\ Anotando(x)' = Anotando(x) \cup {r}
    <3>1. enviadosAv'[x] = 1 /\ Enviando(x)' = {} /\ Anotando(x)' # {}
      BY <1>s, <1>x, <2>3 DEF UmaVezDe
    <3> QED BY <3>1 DEF UmaVezDe
  <2> QED BY <1>3, <2>2, <2>3, EnviaMaos
<1>4. CASE Anotar(r)
  <2>1. /\ UNCHANGED enviadosAv /\ Enviando(x)' = Enviando(x)
        /\ Anotado(x) => Anotado(x)'
        /\ Anotado(x)' \/ Anotando(x)' = Anotando(x)
    BY <1>4, AnotaMaos
  <2> QED BY <1>x, <2>1 DEF UmaVezDe
<1> QED BY <1>1, <1>2, <1>3, <1>4 DEF PassoAvisos

LEMMA UmaVezParado ==
  ASSUME UmaVezAv, UNCHANGED <<auditAv, enviadosAv, reqAv>>
  PROVE  UmaVezAv'
  BY DEF UmaVezAv, UmaVezDe, Anotado, Anotando, Enviando, LevaAv
-----------------------------------------------------------------------------
\* Complete executions, four days apart at most: who was overdue when the last one began was told;
\* the one at work has told them, or has them in its list.
Contado(fim, ag, env, dia) == \A a \in AssinaturaAv \ ag : fim[a] < dia => env[<<"vencido", a, fim[a]>>] > 0

Percorre(q, fim, ag, env) ==
  q.pc \in NaLista /\ q.tipo = "vencido" =>
    \A a \in AssinaturaAv \ ag : fim[a] < q.comeco =>
      env[<<"vencido", a, fim[a]>>] > 0 \/ \E i \in q.itens \cup q.item : i.a = a

SoPontual ==
  /\ diaAv - ultimaAv <= 4
  /\ Contado(fimAv, agendadaAv, enviadosAv, ultimaAv)
  /\ \A r \in ReqAv : Percorre(reqAv[r], fimAv, agendadaAv, enviadosAv)

LEMMA MovePontual ==
  ASSUME TiposAv, NEW r \in ReqAv, OciosoAv(r), NEW q, SegueAv(r, q), diaAv' - ultimaAv' <= 4,
         Percorre(q, fimAv', agendadaAv', enviadosAv'), Contado(fimAv', agendadaAv', enviadosAv', ultimaAv')
  PROVE  SoPontual'
<1>1. /\ reqAv'[r] = q /\ \A s \in ReqAv \ {r} : reqAv'[s] = reqAv[s] /\ reqAv[s].pc = "livre"
  BY DEF SegueAv, TiposAv, MaosAv, OciosoAv, EmAv
<1>2. ASSUME NEW s \in ReqAv PROVE Percorre(reqAv'[s], fimAv', agendadaAv', enviadosAv')
  <2>1. CASE s = r
    BY <1>1, <2>1
  <2>2. CASE s # r
    <3>1. reqAv'[s].pc = "livre"
      BY <1>1, <2>2
    <3> QED BY <3>1 DEF Percorre, NaLista
  <2> QED BY <2>1, <2>2
<1> QED BY <1>2 DEF SoPontual

\* A list that is made has everybody who was not told before.
LEMMA PontualLista ==
  ASSUME TiposAv, SoAv, SoPontual, NEW r \in ReqAv, OciosoAv(r), Listar(r)
  PROVE  SoPontual'
<1> DEFINE A == IF reqAv[r].tipo = "pre" THEN PrestesAVencer(reqAv[r]) ELSE Vencidas(reqAv[r])
           q == [reqAv[r] EXCEPT !.pc = "confere", !.itens = Lidos(A)]
<1>1. SegueAv(r, q) /\ UNCHANGED <<fimAv, agendadaAv, enviadosAv, diaAv, ultimaAv>> /\ reqAv[r].pc = "lista"
  BY DEF Listar, EmAv, SoLeAv, linhasAv, contasAv
<1>2. BomAv(reqAv[r], diaAv) /\ reqAv[r] \in HandlerAv
  BY DEF TiposAv, MaosAv
<1>3. q.itens = Lidos(A) /\ q.comeco = reqAv[r].comeco /\ q.tipo = reqAv[r].tipo
  BY <1>2 DEF HandlerAv
<1>4. MaoSo(reqAv[r], fimAv, sitAv, agendadaAv, enviadosAv)
  BY DEF SoAv
<1>5. A \in SUBSET AssinaturaAv
  BY DEF PrestesAVencer, Vencidas
<1>n. /\ reqAv[r].comeco \in Int /\ reqAv[r].hoje \in Int /\ diaAv \in Int /\ ultimaAv \in Int
      /\ reqAv[r].comeco <= reqAv[r].hoje /\ reqAv[r].hoje <= diaAv
  BY <1>2, AvisosAssumption DEF BomAv, HandlerAv, TiposAv, LinhasAv
<1>6. ASSUME NEW a \in AssinaturaAv \ agendadaAv, fimAv[a] < reqAv[r].comeco, reqAv[r].tipo = "vencido"
      PROVE  enviadosAv[<<"vencido", a, fimAv[a]>>] > 0 \/ a \in A
  <2>1. sitAv[a] = "INADIMPLENTE"
    BY <1>1, <1>4, <1>6 DEF MaoSo
  <2>2. fimAv[a] \in Int
    BY AvisosAssumption DEF TiposAv, LinhasAv, Dias
  <2>3. CASE fimAv[a] >= reqAv[r].hoje - 4
    <3>1. fimAv[a] \in (reqAv[r].hoje - 4) .. (reqAv[r].hoje - 1)
      BY <1>n, <1>6, <2>2, <2>3
    <3> QED BY <1>6, <2>1, <3>1 DEF Vencidas
  <2>4. CASE fimAv[a] < reqAv[r].hoje - 4
    <3>1. fimAv[a] < ultimaAv
      BY <1>n, <2>2, <2>4 DEF SoPontual
    <3> QED BY <3>1 DEF SoPontual, Contado
  <2> QED BY <1>n, <2>2, <2>3, <2>4
<1> HIDE DEF q, A
<1>7. \A a \in A : \E i \in Lidos(A) : i.a = a
  BY <1>5, LidosTipo
<1>8. Percorre(q, fimAv, agendadaAv, enviadosAv)
  BY <1>3, <1>6, <1>7 DEF Percorre
<1> QED BY <1>1, <1>8, MovePontual DEF SoPontual

LEMMA PontualConfere ==
  ASSUME TiposAv, SoAv, SoPontual, NEW r \in ReqAv, OciosoAv(r), Conferir(r)
  PROVE  SoPontual'
<1>1. PICK i \in reqAv[r].itens :
        SoLeAv(r, [reqAv[r] EXCEPT !.itens = @ \ {i},
                  !.pc = IF JaEnviado(reqAv[r].tipo, i) THEN "confere" ELSE "envia",
                  !.item = IF JaEnviado(reqAv[r].tipo, i) THEN {} ELSE {i}])
  BY DEF Conferir
<1> DEFINE pc == IF JaEnviado(reqAv[r].tipo, i) THEN "confere" ELSE "envia"
           it == IF JaEnviado(reqAv[r].tipo, i) THEN {} ELSE {i}
           q == [reqAv[r] EXCEPT !.itens = @ \ {i}, !.pc = pc, !.item = it]
<1>2. reqAv[r] \in HandlerAv /\ BomAv(reqAv[r], diaAv)
  BY DEF TiposAv, MaosAv
<1>3. SegueAv(r, q) /\ UNCHANGED <<fimAv, agendadaAv, enviadosAv, diaAv, ultimaAv>> /\ reqAv[r].pc = "confere"
  BY <1>1 DEF Conferir, EmAv, SoLeAv, linhasAv, contasAv
<1>4. it = {i} \/ JaEnviado(reqAv[r].tipo, i)
  OBVIOUS
<1> HIDE DEF pc, it
<1>5. /\ q.itens = reqAv[r].itens \ {i} /\ q.item = it /\ q.comeco = reqAv[r].comeco
      /\ q.tipo = reqAv[r].tipo
  BY <1>2 DEF HandlerAv
<1>6. i.fim = fimAv[i.a] /\ i.a \in AssinaturaAv /\ reqAv[r].item = {}
  BY <1>1, <1>2, <1>3 DEF SoAv, MaoSo, HandlerAv, Lido, BomAv
<1>7. reqAv[r].tipo = "vencido" /\ it # {i} => enviadosAv[<<"vencido", i.a, fimAv[i.a]>>] > 0
  <2>1. JaEnviado("vencido", i) => auditAv[<<"vencido", i.a>>] >= fimAv[i.a]
    BY <1>6 DEF JaEnviado
  <2> QED BY <1>4, <1>6, <2>1 DEF SoAv, Registrado
<1>8. Percorre(reqAv[r], fimAv, agendadaAv, enviadosAv)
  BY DEF SoPontual
<1> HIDE DEF q
<1>9. Percorre(q, fimAv, agendadaAv, enviadosAv)
  <2> SUFFICES ASSUME q.tipo = "vencido", NEW a \in AssinaturaAv \ agendadaAv, fimAv[a] < q.comeco,
                      ~(enviadosAv[<<"vencido", a, fimAv[a]>>] > 0)
               PROVE  \E j \in q.itens \cup q.item : j.a = a
    BY DEF Percorre
  <2>1. PICK j \in reqAv[r].itens : j.a = a
    BY <1>3, <1>5, <1>6, <1>8 DEF Percorre, NaLista
  <2>2. CASE j = i
    BY <1>5, <1>7, <2>1, <2>2
  <2>3. CASE j # i
    BY <1>5, <2>1, <2>3
  <2> QED BY <2>2, <2>3
<1> QED BY <1>3, <1>9, MovePontual DEF SoPontual

LEMMA PontualEnvia ==
  ASSUME TiposAv, SoAv, SoPontual, NEW r \in ReqAv, OciosoAv(r), Enviar(r)
  PROVE  SoPontual'
<1>1. PICK i \in Lido : /\ reqAv[r].item = {i} /\ <<reqAv[r].tipo, i.a, i.fim>> \in Aviso
  BY NaMao DEF Enviar, EmAv
<1> DEFINE y == <<reqAv[r].tipo, i.a, i.fim>>
           q == [reqAv[r] EXCEPT !.pc = "anota"]
<1>2. /\ enviadosAv' = [enviadosAv EXCEPT ![y] = @ + 1] /\ SegueAv(r, q)
      /\ UNCHANGED <<fimAv, agendadaAv, diaAv, ultimaAv>> /\ reqAv[r].pc = "envia"
  BY <1>1 DEF Enviar, EmAv, linhasAv
<1>3. reqAv[r] \in HandlerAv
  BY DEF TiposAv, MaosAv
<1>4. /\ q.itens = reqAv[r].itens /\ q.item = reqAv[r].item /\ q.comeco = reqAv[r].comeco
      /\ q.tipo = reqAv[r].tipo
  BY <1>3 DEF HandlerAv
<1>5. \A a \in AssinaturaAv : enviadosAv[<<"vencido", a, fimAv[a]>>] > 0
        => enviadosAv'[<<"vencido", a, fimAv[a]>>] > 0
  BY <1>1, <1>2, MaisUmAviso, Vencido
<1>6. Percorre(reqAv[r], fimAv, agendadaAv, enviadosAv) /\ Contado(fimAv, agendadaAv, enviadosAv, ultimaAv)
  BY DEF SoPontual
<1> HIDE DEF q, y
<1>7. Percorre(q, fimAv, agendadaAv, enviadosAv') /\ Contado(fimAv, agendadaAv, enviadosAv', ultimaAv)
  BY <1>2, <1>4, <1>5, <1>6 DEF Percorre, Contado, NaLista
<1> QED BY <1>2, <1>7, MovePontual DEF SoPontual

LEMMA PontualAnota ==
  ASSUME TiposAv, SoAv, SoPontual, NEW r \in ReqAv, OciosoAv(r), Anotar(r)
  PROVE  SoPontual'
<1> DEFINE q == [reqAv[r] EXCEPT !.pc = "confere", !.item = {}]
<1>1. SegueAv(r, q) /\ UNCHANGED <<fimAv, agendadaAv, enviadosAv, diaAv, ultimaAv>> /\ reqAv[r].pc = "anota"
  BY DEF Anotar, EmAv, linhasAv, contasAv
<1>2. reqAv[r] \in HandlerAv /\ MaoSo(reqAv[r], fimAv, sitAv, agendadaAv, enviadosAv)
  BY DEF TiposAv, MaosAv, SoAv
<1>3. q.itens = reqAv[r].itens /\ q.item = {} /\ q.comeco = reqAv[r].comeco /\ q.tipo = reqAv[r].tipo
  BY <1>2 DEF HandlerAv
<1>4. \A i \in reqAv[r].item : i.fim = fimAv[i.a] /\ enviadosAv[<<reqAv[r].tipo, i.a, i.fim>>] > 0
  BY <1>1, <1>2 DEF MaoSo
<1>5. Percorre(reqAv[r], fimAv, agendadaAv, enviadosAv)
  BY DEF SoPontual
<1> HIDE DEF q
<1>6. Percorre(q, fimAv, agendadaAv, enviadosAv)
  BY <1>1, <1>3, <1>4, <1>5 DEF Percorre, NaLista
<1> QED BY <1>1, <1>6, MovePontual DEF SoPontual

\* An execution that ends has told everybody who was overdue when it began.
LEMMA PontualTermina ==
  ASSUME TiposAv, SoAv, SoPontual, NEW r \in ReqAv, OciosoAv(r), Terminar(r)
  PROVE  SoPontual'
<1>1. BomAv(reqAv[r], diaAv) /\ reqAv[r] \in HandlerAv /\ reqAv[r].pc = "confere"
      /\ UNCHANGED <<fimAv, agendadaAv, enviadosAv, diaAv>>
  BY DEF TiposAv, MaosAv, Terminar, EmAv, SoLeAv, linhasAv, contasAv
<1>2. diaAv \in Int /\ ultimaAv \in Int /\ reqAv[r].comeco \in Int
      /\ \A a \in AssinaturaAv : fimAv[a] \in Int
  BY <1>1, AvisosAssumption DEF BomAv, HandlerAv, TiposAv, LinhasAv, Dias
<1>3. CASE SoLeAv(r, [reqAv[r] EXCEPT !.pc = "lista", !.tipo = "vencido"])
  <2> DEFINE q == [reqAv[r] EXCEPT !.pc = "lista", !.tipo = "vencido"]
  <2>1. SegueAv(r, q) /\ ultimaAv' = ultimaAv
    BY <1>3 DEF SoLeAv, contasAv
  <2>2. q.pc = "lista"
    BY <1>1 DEF HandlerAv
  <2> HIDE DEF q
  <2>3. Percorre(q, fimAv, agendadaAv, enviadosAv)
    BY <2>2 DEF Percorre, NaLista
  <2> QED BY <1>1, <2>1, <2>3, MovePontual DEF SoPontual
<1>4. CASE /\ reqAv[r].tipo = "vencido" /\ SegueAv(r, LivreAv) /\ reqAv[r].itens = {}
           /\ ultimaAv' = IF pontualAv /\ reqAv[r].comeco > ultimaAv THEN reqAv[r].comeco ELSE ultimaAv
  <2>1. reqAv[r].item = {}
    BY <1>1 DEF BomAv
  <2>2. Percorre(reqAv[r], fimAv, agendadaAv, enviadosAv) /\ Contado(fimAv, agendadaAv, enviadosAv, ultimaAv)
    BY DEF SoPontual
  <2>3. Contado(fimAv, agendadaAv, enviadosAv, reqAv[r].comeco)
    BY <1>1, <1>4, <2>1, <2>2 DEF Percorre, Contado, NaLista
  <2>4. ultimaAv' = ultimaAv \/ (ultimaAv' = reqAv[r].comeco /\ reqAv[r].comeco > ultimaAv)
    BY <1>4
  <2>5. Contado(fimAv, agendadaAv, enviadosAv, ultimaAv') /\ diaAv - ultimaAv' <= 4
    BY <1>2, <2>2, <2>3, <2>4 DEF SoPontual
  <2>6. Percorre(LivreAv, fimAv, agendadaAv, enviadosAv)
    BY DEF Percorre, LivreAv, NaLista
  <2> QED BY <1>1, <1>4, <2>5, <2>6, MovePontual
<1> QED BY <1>3, <1>4 DEF Terminar

\* Starting and marking.
LEMMA PontualComeca ==
  ASSUME TiposAv, SoAv, SoPontual, NEW r \in ReqAv, OciosoAv(r), Comecar(r) \/ MarcarVencidas(r)
  PROVE  SoPontual'
<1>1. UNCHANGED <<fimAv, agendadaAv, enviadosAv, diaAv, ultimaAv>>
  <2>1. CASE Comecar(r)
    <3>1. \A s \in ReqAv : EmAv(s, "livre")
      BY <2>1 DEF Comecar, OciosoAv
    <3> QED BY <2>1, <3>1 DEF Comecar, linhasAv
  <2>2. CASE MarcarVencidas(r)
    BY <2>2 DEF MarcarVencidas, contasAv
  <2> QED BY <2>1, <2>2
<1> DEFINE pc == IF Atrasadas = {} THEN "lista" ELSE "marca"
           c == [LivreAv EXCEPT !.pc = pc, !.comeco = diaAv, !.hoje = diaAv, !.itens = Lidos(Atrasadas)]
           m == [reqAv[r] EXCEPT !.pc = "lista", !.hoje = diaAv]
<1>2. SegueAv(r, c) \/ SegueAv(r, m)
  BY DEF Comecar, MarcarVencidas
<1>3. reqAv[r] \in HandlerAv
  BY DEF TiposAv, MaosAv
<1>4. c.pc \in {"lista", "marca"} /\ m.pc = "lista"
  BY <1>3 DEF HandlerAv, LivreAv
<1> HIDE DEF c, m
<1>5. Percorre(c, fimAv, agendadaAv, enviadosAv) /\ Percorre(m, fimAv, agendadaAv, enviadosAv)
  BY <1>4 DEF Percorre, NaLista
<1> QED BY <1>1, <1>2, <1>5, MovePontual DEF SoPontual

LEMMA PontualPasso ==
  ASSUME TiposAv, SoAv, SoPontual, NEW r \in ReqAv, OciosoAv(r), PassoAvisos(r)
  PROVE  SoPontual'
  BY PontualComeca, PontualLista, PontualConfere, PontualEnvia, PontualAnota, PontualTermina DEF PassoAvisos

LEMMA PontualRedor ==
  ASSUME TiposAv, SoPontual, pontualAv',
         \/ ClienteAvisos /\ \A r \in ReqAv : EmAv(r, "livre")
         \/ PassarDiaAv \/ UNCHANGED varsAvisos
  PROVE  SoPontual'
<1>1. CASE UNCHANGED varsAvisos
  BY <1>1 DEF varsAvisos, linhasAv, contasAv, SoPontual
<1>2. CASE PassarDiaAv
  <2>1. UNCHANGED <<fimAv, agendadaAv, enviadosAv, reqAv>> /\ diaAv' = diaAv + 1
    BY <1>2 DEF PassarDiaAv, linhasAv
  <2>2. diaAv + 1 - ultimaAv <= 4 /\ ultimaAv' = ultimaAv
    <3>1. ~Impontual
      BY Zenon DEF Impontual
    <3>2. diaAv + 1 - ultimaAv <= 4 /\ UNCHANGED <<pontualAv, ultimaAv>>
      BY Zenon, <1>2, <3>1 DEF PassarDiaAv
    <3> QED BY <3>2
  <2>3. diaAv' - ultimaAv' <= 4
    <3>1. diaAv \in Int /\ ultimaAv \in Int
      BY AvisosAssumption DEF TiposAv, LinhasAv
    <3> QED BY <2>1, <2>2, <3>1
  <2>4. Contado(fimAv', agendadaAv', enviadosAv', ultimaAv')
    BY <2>1, <2>2 DEF SoPontual
  <2>5. \A r \in ReqAv : Percorre(reqAv'[r], fimAv', agendadaAv', enviadosAv')
    BY <2>1 DEF SoPontual
  <2> QED BY <2>3, <2>4, <2>5 DEF SoPontual
<1>3. ASSUME NEW a \in AssinaturaAv, PagarPeriodo(a) \/ AgendarCancelamento(a),
             \A r \in ReqAv : EmAv(r, "livre")
      PROVE  SoPontual'
  <2>1. reqAv' = reqAv /\ UNCHANGED <<enviadosAv, diaAv, ultimaAv>>
    BY <1>3 DEF PagarPeriodo, AgendarCancelamento, contasAv
  <2>2. \A r \in ReqAv : Percorre(reqAv'[r], fimAv', agendadaAv', enviadosAv')
    BY <1>3, <2>1 DEF Percorre, EmAv, NaLista
  <2>3. Contado(fimAv', agendadaAv', enviadosAv, ultimaAv)
    <3>1. CASE PagarPeriodo(a)
      <4> SUFFICES ASSUME NEW b \in AssinaturaAv \ agendadaAv, fimAv'[b] < ultimaAv
                   PROVE  enviadosAv[<<"vencido", b, fimAv'[b]>>] > 0
        BY <3>1 DEF Contado, PagarPeriodo
      <4>1. b # a
        <5>1. fimAv'[a] > diaAv /\ fimAv'[a] \in Nat
          BY <3>1, PagaDepois
        <5>2. ultimaAv \in Int /\ diaAv \in Int /\ ultimaAv <= diaAv
          BY AvisosAssumption DEF TiposAv, LinhasAv
        <5> QED BY <5>1, <5>2
      <4>2. fimAv'[b] = fimAv[b]
        BY <3>1, <4>1, PagaDepois
      <4> QED BY <4>2 DEF SoPontual, Contado
    <3>2. CASE AgendarCancelamento(a)
      BY <3>2 DEF AgendarCancelamento, SoPontual, Contado
    <3> QED BY <1>3, <3>1, <3>2
  <2> QED BY <2>1, <2>2, <2>3 DEF SoPontual
<1> QED BY <1>1, <1>2, <1>3 DEF ClienteAvisos

InvAvConta ==
  /\ TiposAv /\ LimiteAv
  /\ sozinho => SoAv /\ (inteiro => UmaVezAv) /\ (pontualAv => SoPontual)

\* The invariant holds at the start, and every step of the account keeps it.
LEMMA InvAvInicio == ASSUME InitConta PROVE InvAvConta
<1>1. TiposAv /\ InitAvisos
  BY AvInicio DEF InitConta
<1>2. /\ \A r \in ReqAv : reqAv[r].pc = "livre"
      /\ \A x \in Aviso : enviadosAv[x] = 0
      /\ \A a \in AssinaturaAv : fimAv[a] = Ciclo /\ auditAv[<<"vencido", a>>] = -1
      /\ diaAv = 0 /\ ultimaAv = 0 /\ mortesAv = 0
  BY <1>1 DEF InitAvisos, Aviso, LivreAv, Tipos
<1>3. \A x \in Aviso : Enviando(x) = {} /\ Anotando(x) = {}
  BY <1>2 DEF Enviando, Anotando
<1>4. UmaVezAv
  BY <1>2, <1>3 DEF UmaVezAv, UmaVezDe
<1>5. LimiteAv
  <2>1. Cardinality({}) = 0 /\ Cardinality(ReqAv) \in Nat
    BY FS_EmptySet, FS_CardinalityType, AvisosFinitosAssumption
  <2> SUFFICES ASSUME NEW x \in Aviso
               PROVE  /\ enviadosAv[x] <= Cardinality(Anotando(x)) + mortesAv
                      /\ enviadosAv[x] + Cardinality(Enviando(x)) <= Cardinality(ReqAv) + mortesAv
    BY DEF LimiteAv
  <2>2. Cardinality(Enviando(x)) = 0 /\ Cardinality(Anotando(x)) = 0
    BY <1>3, <2>1
  <2> QED BY <1>2, <2>1, <2>2
<1>6. SoAv
  <2>1. \A r \in ReqAv : MaoSo(reqAv[r], fimAv, sitAv, agendadaAv, enviadosAv)
    BY <1>2 DEF MaoSo
  <2>2. Registrado(fimAv, auditAv, enviadosAv)
    BY <1>2, AvisosAssumption DEF Registrado
  <2> QED BY <2>1, <2>2 DEF SoAv
<1>7. SoPontual
  <2>1. \A r \in ReqAv : Percorre(reqAv[r], fimAv, agendadaAv, enviadosAv)
    BY <1>2 DEF Percorre, NaLista
  <2>2. Contado(fimAv, agendadaAv, enviadosAv, ultimaAv)
    <3>1. \A a \in AssinaturaAv \ agendadaAv : ~(fimAv[a] < ultimaAv)
      <4>1. Ciclo \in Nat /\ ~(Ciclo < 0)
        BY AvisosAssumption
      <4> QED BY <1>2, <4>1
    <3> QED BY <3>1 DEF Contado
  <2>3. diaAv - ultimaAv <= 4
    BY <1>2
  <2> QED BY <2>1, <2>2, <2>3 DEF SoPontual
<1>8. SoAv /\ (inteiro => UmaVezAv) /\ (pontualAv => SoPontual)
  BY Zenon, <1>4, <1>6, <1>7
<1> QED BY <1>1, <1>5, <1>8 DEF InvAvConta

LEMMA InvAvPasso == ASSUME InvAvConta, [NextConta]_varsConta PROVE InvAvConta'
<1>1. TiposAv /\ TiposAv' /\ LimiteAv
  BY AvPasso DEF InvAvConta
<1>2. CASE UNCHANGED varsAvisos
  <2>1. UNCHANGED <<auditAv, enviadosAv, mortesAv, reqAv>>
    BY <1>2 DEF varsAvisos, contasAv
  <2>2. LimiteAv' /\ (UmaVezAv => UmaVezAv')
    BY <1>1, <2>1, LimiteParado, UmaVezParado
  <2>3. ASSUME sozinho' PROVE SoAv' /\ (inteiro' => UmaVezAv') /\ (pontualAv' => SoPontual')
    <3>1. sozinho /\ (inteiro' => inteiro)
      BY <2>3, SozinhoAntes, InteiroAntes
    <3>2. SoAv' /\ (inteiro' => UmaVezAv')
      BY <1>1, <1>2, <2>2, <3>1, SoRedor DEF InvAvConta
    <3>3. ASSUME pontualAv' PROVE SoPontual'
      <4>1. pontualAv
        BY <1>1, <1>2, <3>3, PontualFica
      <4>2. SoPontual
        BY <3>1, <4>1 DEF InvAvConta
      <4> QED BY <1>1, <1>2, <3>3, <4>2, PontualRedor
    <3> QED BY <3>2, <3>3
  <2> QED BY <1>1, <2>2, <2>3 DEF InvAvConta
<1>3. CASE NextAv
  <2>p. pontualAv' => pontualAv
    BY <1>1, <1>3, PontualFica
  <2>1. ASSUME NEW r \in ReqAv, So(\A s \in ReqAv \ {r} : EmAv(s, "livre")),
               \/ PassoAvisos(r) /\ UNCHANGED inteiro
               \/ FalhaAvisos(r) /\ inteiro' = FALSE
        PROVE  InvAvConta'
    <3>1. LimiteAv'
      BY <1>1, <2>1, LimitePasso
    <3>2. ASSUME sozinho' PROVE SoAv' /\ (inteiro' => UmaVezAv') /\ (pontualAv' => SoPontual')
      <4>1. sozinho /\ OciosoAv(r)
        BY <2>1, <3>2, SoMenos DEF OciosoAv
      <4>2. SoAv /\ SoAv'
        BY <1>1, <2>1, <4>1, SoPassoAv DEF InvAvConta
      <4>3. CASE PassoAvisos(r) /\ UNCHANGED inteiro
        <5>1. inteiro' => UmaVezAv'
          BY <1>1, <4>1, <4>3, UmaVezPasso DEF InvAvConta
        <5>2. ASSUME pontualAv' PROVE SoPontual'
          <6>1. SoPontual
            BY <2>p, <4>1, <5>2 DEF InvAvConta
          <6> QED BY <1>1, <4>1, <4>2, <4>3, <6>1, PontualPasso
        <5> QED BY <4>2, <5>1, <5>2
      <4>4. CASE FalhaAvisos(r) /\ inteiro' = FALSE
        <5>1. ~pontualAv' /\ ~inteiro'
          BY Zenon, <4>4 DEF FalhaAvisos, AnotarEmVao, Morrer, Impontual
        <5> QED BY Zenon, <4>2, <5>1
      <4> QED BY <2>1, <4>3, <4>4
    <3> QED BY <1>1, <3>1, <3>2 DEF InvAvConta
  <2>2. CASE ClienteAvisos /\ So(\A s \in ReqAv : EmAv(s, "livre")) /\ UNCHANGED inteiro
    <3>1. UNCHANGED <<auditAv, enviadosAv, mortesAv, reqAv>>
      BY <2>2 DEF ClienteAvisos, PagarPeriodo, AgendarCancelamento, contasAv
    <3>2. LimiteAv' /\ (UmaVezAv => UmaVezAv')
      BY <1>1, <3>1, LimiteParado, UmaVezParado
    <3>3. ASSUME sozinho' PROVE SoAv' /\ (inteiro' => UmaVezAv') /\ (pontualAv' => SoPontual')
      <4>1. sozinho /\ \A s \in ReqAv : EmAv(s, "livre")
        BY <2>2, <3>3, SoMenos
      <4>2. SoAv' /\ (inteiro' => UmaVezAv')
        BY <1>1, <2>2, <3>2, <4>1, SoRedor DEF InvAvConta
      <4>3. ASSUME pontualAv' PROVE SoPontual'
        <5>1. SoPontual
          BY <2>p, <4>1, <4>3 DEF InvAvConta
        <5> QED BY <1>1, <2>2, <4>1, <4>3, <5>1, PontualRedor
      <4> QED BY <4>2, <4>3
    <3> QED BY <1>1, <3>2, <3>3 DEF InvAvConta
  <2>3. CASE PassarDiaAv /\ UNCHANGED <<sozinho, inteiro>>
    <3>1. UNCHANGED <<auditAv, enviadosAv, mortesAv, reqAv>>
      BY <2>3 DEF PassarDiaAv
    <3>2. LimiteAv' /\ (UmaVezAv => UmaVezAv')
      BY <1>1, <3>1, LimiteParado, UmaVezParado
    <3>3. ASSUME sozinho' PROVE SoAv' /\ (inteiro' => UmaVezAv') /\ (pontualAv' => SoPontual')
      <4>1. SoAv' /\ (inteiro' => UmaVezAv')
        BY <1>1, <2>3, <3>2, <3>3, SoRedor DEF InvAvConta
      <4>2. ASSUME pontualAv' PROVE SoPontual'
        <5>1. SoPontual
          BY <2>p, <2>3, <3>3, <4>2 DEF InvAvConta
        <5> QED BY <1>1, <2>3, <4>2, <5>1, PontualRedor
      <4> QED BY <4>1, <4>2
    <3> QED BY <1>1, <3>2, <3>3 DEF InvAvConta
  <2> QED BY <1>3, <2>1, <2>2, <2>3 DEF NextAv
<1> QED BY <1>2, <1>3, ContaAvisos

\* What it says of the e-mails.
LEMMA AvisosCertos == ASSUME InvAvConta PROVE AvisoNaMedida /\ TypeOKAvisos
<1>1. TiposAv /\ TypeOKAvisos /\ DOMAIN enviadosAv = Aviso
  BY TiposAvOk DEF InvAvConta, TiposAv, LinhasAv, Aviso
<1>2. AvisoLimitado
  <2>1. \A x \in Aviso : enviadosAv[x] <= Cardinality(ReqAv) + mortesAv
    BY <1>1, ContasAv DEF InvAvConta, LimiteDe
  <2> QED BY <1>1, <2>1 DEF AvisoLimitado
<1>3. sozinho /\ inteiro => AvisoUmaVez
  BY <1>1 DEF InvAvConta, UmaVezAv, UmaVezDe, AvisoUmaVez
<1>4. ASSUME sozinho, pontualAv PROVE AvisaQuemVenceu
  <2>1. SoPontual
    BY <1>4 DEF InvAvConta
  <2> SUFFICES ASSUME NEW a \in AssinaturaAv \ agendadaAv, diaAv > fimAv[a] + 4
               PROVE  enviadosAv[<<"vencido", a, fimAv[a]>>] > 0
    BY DEF AvisaQuemVenceu
  <2>2. fimAv[a] \in Int /\ diaAv \in Int /\ ultimaAv \in Int
    BY <1>1, AvisosAssumption DEF TiposAv, LinhasAv, Dias
  <2>3. fimAv[a] < ultimaAv
    BY <2>1, <2>2 DEF SoPontual
  <2> QED BY <2>1, <2>3 DEF SoPontual, Contado
<1>5. AvisoNaMedida
  BY Zenon, <1>2, <1>3, <1>4 DEF AvisoNaMedida
<1> QED BY <1>1, <1>5

\* However executions overlap, die, lose rows and start again, a warning of one period goes out at
\* most once for each of them at work and once for each loss; those that do not overlap send it
\* once, and tell everybody whose period ended unpaid before the window of four days is over.
THEOREM AvisoSempreNaMedida == SpecConta => []AvisoNaMedida
<1>1. InitConta => InvAvConta
  BY InvAvInicio
<1>2. InvAvConta /\ [NextConta]_varsConta => InvAvConta'
  BY InvAvPasso
<1>3. InvAvConta => AvisoNaMedida
  BY AvisosCertos
<1> QED BY <1>1, <1>2, <1>3, PTL DEF SpecConta

\* Alone, an execution tells that the plan ended to who has a period that ended, unpaid.
THEOREM AvisoSempreVerdadeiro == SpecConta => AvisoVerdadeiro
<1> DEFINE Verdadeiro == sozinho' => \A a \in AssinaturaAv, f \in Dias :
             enviadosAv'[<<"vencido", a, f>>] > enviadosAv[<<"vencido", a, f>>] =>
               f = fimAv[a] /\ f < diaAv /\ sitAv[a] = "INADIMPLENTE"
<1>1. InitConta => InvAvConta
  BY InvAvInicio
<1>2. InvAvConta /\ [NextConta]_varsConta => InvAvConta'
  BY InvAvPasso
<1>3. ASSUME InvAvConta, [NextConta]_varsConta PROVE [Verdadeiro]_varsAvisos
  <2> SUFFICES ASSUME sozinho', NEW a \in AssinaturaAv, NEW f \in Dias,
                      enviadosAv'[<<"vencido", a, f>>] > enviadosAv[<<"vencido", a, f>>]
               PROVE  f = fimAv[a] /\ f < diaAv /\ sitAv[a] = "INADIMPLENTE"
    OBVIOUS
  <2>t. TiposAv
    BY <1>3 DEF InvAvConta
  <2>x. <<"vencido", a, f>> \in Aviso
    BY DEF Aviso, Tipos
  <2>n. \A x \in Aviso : enviadosAv[x] \in Nat
    BY <2>t DEF TiposAv, LinhasAv, Aviso
  <2> DEFINE x == <<"vencido", a, f>>
  <2>d. ~UNCHANGED enviadosAv
    <3> HIDE DEF x
    <3>1. enviadosAv'[x] > enviadosAv[x] /\ enviadosAv[x] \in Nat
      BY <2>x, <2>n DEF x
    <3> QED BY <3>1
  <2>1. PICK r \in ReqAv : Enviar(r) /\ So(\A s \in ReqAv \ {r} : EmAv(s, "livre"))
    <3>1. NextAv
      BY <1>3, <2>d, ContaAvisos DEF varsAvisos, contasAv
    <3>2. ~ClienteAvisos /\ ~PassarDiaAv
      BY <2>d DEF ClienteAvisos, PagarPeriodo, AgendarCancelamento, PassarDiaAv, contasAv
    <3>3. \A r \in ReqAv : PassoAvisos(r) \/ FalhaAvisos(r) => Enviar(r)
      BY <2>d DEF PassoAvisos, FalhaAvisos, Comecar, MarcarVencidas, Listar, Conferir, Anotar,
         Terminar, AnotarEmVao, Morrer, SoLeAv, contasAv
    <3> QED BY <3>1, <3>2, <3>3 DEF NextAv
  <2>2. SoAv
    BY <1>3, <2>1, SoMenos DEF InvAvConta
  <2>3. PICK i \in Lido : /\ reqAv[r].item = {i} /\ reqAv[r].tipo \in Tipos
                          /\ ItemBom(reqAv[r].tipo, i, diaAv)
                          /\ <<reqAv[r].tipo, i.a, i.fim>> \in Aviso
    BY <2>1, <2>t, NaMao DEF Enviar, EmAv
  <2> DEFINE y == <<reqAv[r].tipo, i.a, i.fim>>
  <2>4. enviadosAv' = [enviadosAv EXCEPT ![y] = @ + 1] /\ reqAv[r].pc = "envia"
    BY <2>1, <2>3 DEF Enviar, EmAv
  <2>5. x = y
    <3>1. y \in Aviso
      BY <2>3
    <3> HIDE DEF x, y
    <3>2. x \in Aviso /\ enviadosAv'[x] > enviadosAv[x] /\ enviadosAv[x] \in Nat
      BY <2>x, <2>n DEF x
    <3>3. x # y => enviadosAv'[x] = enviadosAv[x]
      BY <2>t, <2>4, <3>1, <3>2, MaisUmAviso
    <3> QED BY <3>2, <3>3
  <2>6. reqAv[r].tipo = "vencido" /\ i.a = a /\ i.fim = f
    BY <2>5
  <2>7. i.fim = fimAv[i.a] /\ sitAv[i.a] = "INADIMPLENTE"
    BY <2>2, <2>3, <2>4, <2>6 DEF SoAv, MaoSo, NaLista
  <2>8. f < diaAv
    BY <2>3, <2>6 DEF ItemBom
  <2> QED BY <2>6, <2>7, <2>8
<1> QED BY <1>1, <1>2, <1>3, PTL DEF SpecConta, AvisoVerdadeiro
-----------------------------------------------------------------------------
(* The cards: types, and what MP and the rows say of each other whatever overlaps. *)

\* A preapproval that was made is of a request; an id is of a preapproval of that request.
IdsCertos ==
  /\ \A g \in Pre : (pre[g].ref = 0) <=> (pre[g].status = "nenhum")
  /\ \A g \in Pre : pre[g].ref # 0 => plano[pre[g].ref] # "INEXISTENTE"
  /\ \A a \in Pedidos : idMp[a] # 0 => pre[idMp[a]].ref = a
  /\ \A g \in avisosPre : pre[g].ref # 0

\* Whose notification was answered has its id, or its request is over.
Respondida == \A g \in Pre : pre[g].ref # 0 =>
  g \in avisosPre \/ idMp[pre[g].ref] # 0 \/ pre[g].ref \notin Vivos

LinhasCart ==
  /\ plano \in [Pedidos -> {"INEXISTENTE", "ATIVA", "CANCELADA"}]
  /\ idMp \in [Pedidos -> 0 .. MaxPre]
  /\ agendadas \subseteq Pedidos
  /\ pre \in [Pre -> [ref : 0 .. MaxPedidos, status : StatusPre]]
  /\ cobradas \subseteq Pre /\ avisosPre \subseteq Pre /\ avisosCob \subseteq Pre
  /\ registrada \in [Pre -> 0 .. MaxPedidos]
  /\ perdidas \subseteq Pre
  /\ IdsCertos /\ Respondida

\* What a handler carries, whatever the others do.
MaoCart(q, pl, id, p) ==
  /\ q \in HandlerCart
  /\ q.pc \notin {"livre", "pede", "leEspelho", "leCobranca"} => q.a \in Pedidos /\ pl[q.a] # "INEXISTENTE"
  /\ q.pc \notin {"livre", "pede", "cartao", "desiste", "agenda"} => q.g \in Pre
  /\ q.pc \in {"grava", "cancela", "pausa", "espelha", "gravaId"} => p[q.g].ref = q.a
  /\ q.pc \in {"leEspelho", "espelha", "gravaId"} =>
       p[q.g].ref # 0 /\ (q.st = "cancelled" => p[q.g].status = "cancelled")
  /\ q.pc \in {"pede", "solta"} /\ q.g # 0 => p[q.g].ref # 0
  /\ q.pc = "espelha" /\ ~q.semId => id[q.a] # 0

TiposCart == LinhasCart /\ reqCart \in [ReqCart -> HandlerCart] /\ \A r \in ReqCart : MaoCart(reqCart[r], plano, idMp, pre)

\* Nothing is unmade.
CresceCart ==
  /\ \A a \in Pedidos : plano[a] # "INEXISTENTE" => plano'[a] # "INEXISTENTE"
  /\ \A a \in Pedidos : plano[a] = "CANCELADA" => plano'[a] = "CANCELADA"
  /\ \A a \in Pedidos : idMp[a] # 0 => idMp'[a] # 0
  /\ \A g \in Pre : pre[g].ref # 0 =>
       pre'[g].ref = pre[g].ref /\ (pre[g].status = "cancelled" => pre'[g].status = "cancelled")

LEMMA NumerosCart ==
  /\ 0 \in 0 .. MaxPedidos /\ 0 \in 0 .. MaxPre /\ Pedidos \subseteq 0 .. MaxPedidos /\ Pre \subseteq 0 .. MaxPre
  /\ 0 \notin Pedidos /\ 0 \notin Pre
  /\ \A a \in 0 .. MaxPedidos : a # 0 => a \in Pedidos
  /\ \A g \in 0 .. MaxPre : g # 0 => g \in Pre
  BY CartoesAssumption DEF Pedidos, Pre

LEMMA LivreCartBom == ASSUME NEW pl, NEW id, NEW p PROVE MaoCart(LivreCart, pl, id, p) /\ LivreCart \in HandlerCart
<1>1. LivreCart \in HandlerCart
  BY NumerosCart DEF LivreCart, HandlerCart, StatusPre
<1>2. LivreCart.pc = "livre"
  BY DEF LivreCart
<1> HIDE DEF LivreCart
<1> QED BY <1>1, <1>2 DEF MaoCart

\* What a handler carries stays true.
LEMMA MaoFica ==
  ASSUME LinhasCart, CresceCart, NEW q, MaoCart(q, plano, idMp, pre)
  PROVE  MaoCart(q, plano', idMp', pre')
<1>1. q \in HandlerCart
  BY DEF MaoCart
<1>2. q.pc \notin {"livre", "pede", "leEspelho", "leCobranca"} => q.a \in Pedidos /\ plano'[q.a] # "INEXISTENTE"
  BY DEF MaoCart, CresceCart
<1>3. q.pc \notin {"livre", "pede", "cartao", "desiste", "agenda"} => q.g \in Pre
  BY DEF MaoCart
<1>4. q.pc \in {"grava", "cancela", "pausa", "espelha", "gravaId"} => pre'[q.g].ref = q.a
  <2>1. q.pc \in {"grava", "cancela", "pausa", "espelha", "gravaId"}
          => q.g \in Pre /\ pre[q.g].ref = q.a /\ q.a # 0
    BY NumerosCart DEF MaoCart
  <2> QED BY <2>1 DEF CresceCart
<1>5. q.pc \in {"leEspelho", "espelha", "gravaId"} =>
       pre'[q.g].ref # 0 /\ (q.st = "cancelled" => pre'[q.g].status = "cancelled")
  BY <1>3 DEF MaoCart, CresceCart
<1>6. q.pc = "espelha" /\ ~q.semId => idMp'[q.a] # 0
  BY <1>2 DEF MaoCart, CresceCart
<1>7. q.pc \in {"pede", "solta"} /\ q.g # 0 => pre'[q.g].ref # 0
  <2>1. q.g \in 0 .. MaxPre
    BY <1>1 DEF HandlerCart
  <2> QED BY <2>1, NumerosCart DEF MaoCart, CresceCart
<1> QED BY <1>1, <1>2, <1>3, <1>4, <1>5, <1>6, <1>7 DEF MaoCart

\* One handler moves.
LEMMA MoveCart ==
  ASSUME TiposCart, NEW r \in ReqCart, NEW q, SegueCart(r, q), LinhasCart', CresceCart,
         MaoCart(q, plano', idMp', pre')
  PROVE  TiposCart'
<1>1. q \in HandlerCart
  BY DEF MaoCart
<1>2. reqCart' \in [ReqCart -> HandlerCart] /\ \A s \in ReqCart : reqCart'[s] = q \/ reqCart'[s] = reqCart[s]
  BY <1>1 DEF SegueCart, TiposCart
<1>3. \A s \in ReqCart : MaoCart(reqCart[s], plano', idMp', pre')
  BY MaoFica DEF TiposCart
<1> QED BY <1>2, <1>3 DEF TiposCart

\* One handler moves, and the rows stay.
LEMMA LeCart ==
  ASSUME TiposCart, NEW r \in ReqCart, NEW q, SegueCart(r, q), MaoCart(q, plano, idMp, pre),
         UNCHANGED <<linhasCart, mpCart>>
  PROVE  TiposCart'
<1>1. UNCHANGED <<plano, idMp, agendadas, registrada, perdidas, pre, cobradas, avisosPre, avisosCob>>
  BY DEF linhasCart, mpCart
<1>2. LinhasCart'
  BY <1>1 DEF TiposCart, LinhasCart, IdsCertos, Respondida, Vivos
<1>3. CresceCart
  BY <1>1 DEF CresceCart
<1> QED BY <1>1, <1>2, <1>3, MoveCart

\* The start has the types.
LEMMA CartInit == ASSUME InitCartoes PROVE TiposCart
<1>1. LinhasCart
  BY NumerosCart DEF InitCartoes, LinhasCart, IdsCertos, Respondida, StatusPre
<1>2. reqCart \in [ReqCart -> HandlerCart] /\ \A r \in ReqCart : reqCart[r] = LivreCart
  BY LivreCartBom DEF InitCartoes
<1> QED BY <1>1, <1>2, LivreCartBom DEF TiposCart

\* A request's id is a preapproval of it.
LEMMA DoIdBom ==
  ASSUME LinhasCart, NEW g \in Pre
  PROVE  /\ DoId(g) # 0 => DoId(g) \in Pedidos /\ idMp[DoId(g)] = g /\ pre[g].ref = DoId(g)
         /\ DoId(g) = 0 => \A a \in Pedidos : idMp[a] # g
<1>1. g # 0 /\ 0 \notin Pedidos
  BY NumerosCart
<1>2. CASE \E a \in Pedidos : idMp[a] = g
  <2>1. DoId(g) \in Pedidos /\ idMp[DoId(g)] = g
    BY <1>2 DEF DoId
  <2> QED BY <1>1, <2>1 DEF LinhasCart, IdsCertos
<1>3. CASE \A a \in Pedidos : idMp[a] # g
  BY <1>3 DEF DoId
<1> QED BY <1>2, <1>3

\* MP changes the status of a preapproval that was made and not cancelled.
LEMMA MudaPreBom ==
  ASSUME LinhasCart, NEW g \in Pre, NEW st \in StatusPre \ {"nenhum"}, MudaPre(g, st),
         pre[g].ref # 0, UNCHANGED linhasCart
  PROVE  LinhasCart' /\ CresceCart /\ pre'[g].status = st /\ pre'[g].ref = pre[g].ref
         /\ \A h \in Pre : pre'[h].ref = pre[h].ref
<1>1. UNCHANGED <<plano, idMp, agendadas, registrada, perdidas, cobradas, avisosCob>>
  BY DEF linhasCart, MudaPre
<1>2. pre \in [Pre -> [ref : 0 .. MaxPedidos, status : StatusPre]]
  BY DEF LinhasCart
<1>3. \A h \in Pre : pre'[h].ref = pre[h].ref
  BY <1>2 DEF MudaPre
<1>4. \A h \in Pre : pre'[h].status = IF h = g THEN st ELSE pre[h].status
  BY <1>2 DEF MudaPre
<1>5. pre' \in [Pre -> [ref : 0 .. MaxPedidos, status : StatusPre]]
  BY <1>2 DEF MudaPre
<1>6. pre[g].status # "cancelled" /\ avisosPre' = avisosPre \cup {g}
  BY DEF MudaPre
<1>7. IdsCertos'
  BY <1>1, <1>3, <1>4, <1>6, NumerosCart DEF IdsCertos, LinhasCart
<1>8. Respondida'
  <2>1. Vivos' = Vivos
    BY <1>1 DEF Vivos
  <2> QED BY <1>1, <1>3, <1>6, <2>1 DEF Respondida, LinhasCart
<1>9. LinhasCart'
  BY <1>1, <1>5, <1>6, <1>7, <1>8 DEF LinhasCart
<1>10. CresceCart
  BY <1>1, <1>3, <1>4, <1>6 DEF CresceCart
<1> QED BY <1>3, <1>4, <1>9, <1>10

\* MP makes a preapproval of a request.
LEMMA CriaPreBom ==
  ASSUME LinhasCart, NEW a \in Pedidos, plano[a] # "INEXISTENTE", NEW g \in Pre, CriaPre(a, g),
         UNCHANGED linhasCart
  PROVE  LinhasCart' /\ CresceCart /\ pre'[g].ref = a /\ pre[g].ref = 0
         /\ \A h \in Pre \ {g} : pre'[h] = pre[h]
<1>1. UNCHANGED <<plano, idMp, agendadas, registrada, perdidas, cobradas, avisosCob>>
  BY DEF linhasCart, CriaPre
<1>2. pre \in [Pre -> [ref : 0 .. MaxPedidos, status : StatusPre]]
  BY DEF LinhasCart
<1>3. pre'[g].ref = a /\ pre'[g].status = "authorized" /\ \A h \in Pre \ {g} : pre'[h] = pre[h]
  BY <1>2 DEF CriaPre
<1>4. pre' \in [Pre -> [ref : 0 .. MaxPedidos, status : StatusPre]]
  <2>1. [ref |-> a, status |-> "authorized"] \in [ref : 0 .. MaxPedidos, status : StatusPre]
    BY NumerosCart DEF StatusPre
  <2> QED BY <1>2, <2>1 DEF CriaPre
<1>5. pre[g].ref = 0 /\ avisosPre' = avisosPre \cup {g}
  BY DEF CriaPre, LinhasCart, IdsCertos
<1>6. a # 0 /\ Pedidos \subseteq 0 .. MaxPedidos
  BY NumerosCart
<1>7. IdsCertos'
  <2>1. \A b \in Pedidos : idMp'[b] # 0 => pre'[idMp'[b]].ref = b
    <3> SUFFICES ASSUME NEW b \in Pedidos, idMp[b] # 0 PROVE pre'[idMp[b]].ref = b
      BY <1>1
    <3>1. pre[idMp[b]].ref = b /\ b # 0 /\ idMp[b] \in Pre
      BY NumerosCart DEF LinhasCart, IdsCertos
    <3>2. idMp[b] # g
      BY <1>5, <3>1
    <3> QED BY <1>3, <3>1, <3>2
  <2>2. \A h \in Pre : (pre'[h].ref = 0) <=> (pre'[h].status = "nenhum")
    BY <1>3, <1>6 DEF LinhasCart, IdsCertos
  <2>3. \A h \in Pre : pre'[h].ref # 0 => plano'[pre'[h].ref] # "INEXISTENTE"
    BY <1>1, <1>3 DEF LinhasCart, IdsCertos
  <2>4. \A h \in avisosPre' : pre'[h].ref # 0
    <3> SUFFICES ASSUME NEW h \in avisosPre' PROVE pre'[h].ref # 0
      OBVIOUS
    <3>1. CASE h = g
      BY <1>3, <1>6, <3>1
    <3>2. CASE h # g
      BY <1>3, <1>5, <3>2 DEF LinhasCart, IdsCertos
    <3> QED BY <3>1, <3>2
  <2> QED BY <2>1, <2>2, <2>3, <2>4 DEF IdsCertos
<1>8. Respondida'
  <2>1. Vivos' = Vivos
    BY <1>1 DEF Vivos
  <2> QED BY <1>1, <1>3, <1>5, <2>1 DEF Respondida, LinhasCart
<1>9. LinhasCart'
  BY <1>1, <1>4, <1>5, <1>7, <1>8 DEF LinhasCart
<1>10. CresceCart
  BY <1>1, <1>3, <1>5 DEF CresceCart
<1> QED BY <1>3, <1>5, <1>9, <1>10

\* A request ends.
LEMMA CancelaBom ==
  ASSUME LinhasCart, NEW a \in Pedidos, plano[a] # "INEXISTENTE",
         plano' = [plano EXCEPT ![a] = "CANCELADA"],
         agendadas' \subseteq Pedidos, UNCHANGED <<idMp, registrada, perdidas, pre, cobradas, avisosCob>>,
         avisosPre' \subseteq avisosPre,
         \A g \in avisosPre \ avisosPre' : pre[g].ref # 0 => idMp[pre[g].ref] # 0
  PROVE  LinhasCart' /\ CresceCart /\ Vivos' = Vivos \ {a}
<1>1. plano \in [Pedidos -> {"INEXISTENTE", "ATIVA", "CANCELADA"}]
  BY DEF LinhasCart
<1>2. plano' \in [Pedidos -> {"INEXISTENTE", "ATIVA", "CANCELADA"}]
  BY <1>1
<1>3. plano'[a] = "CANCELADA" /\ \A b \in Pedidos \ {a} : plano'[b] = plano[b]
  BY <1>1
<1>4. Vivos' = Vivos \ {a}
  BY <1>3 DEF Vivos
<1>5. CresceCart
  BY <1>3 DEF CresceCart
<1>6. IdsCertos'
  <2>1. \A g \in Pre : pre[g].ref # 0 => pre[g].ref \in Pedidos /\ plano[pre[g].ref] # "INEXISTENTE"
    BY NumerosCart DEF LinhasCart, IdsCertos
  <2>2. \A g \in Pre : pre[g].ref # 0 => plano'[pre[g].ref] # "INEXISTENTE"
    BY <1>5, <2>1 DEF CresceCart
  <2> QED BY <2>2 DEF LinhasCart, IdsCertos
<1>7. Respondida'
  BY <1>4 DEF Respondida, LinhasCart
<1> QED BY <1>2, <1>4, <1>5, <1>6, <1>7 DEF LinhasCart

\* A request keeps an id, of a preapproval of its own.
LEMMA GravaBom ==
  ASSUME LinhasCart, NEW a \in Pedidos, NEW g \in Pre, pre[g].ref = a,
         idMp' = [idMp EXCEPT ![a] = g], avisosPre' = avisosPre \/ avisosPre' = avisosPre \ {g},
         UNCHANGED <<plano, agendadas, registrada, perdidas, pre, cobradas, avisosCob>>
  PROVE  LinhasCart' /\ CresceCart
<1>1. idMp \in [Pedidos -> 0 .. MaxPre] /\ g \in 0 .. MaxPre /\ g # 0
  BY NumerosCart DEF LinhasCart
<1>2. idMp' \in [Pedidos -> 0 .. MaxPre]
  BY <1>1
<1>3. idMp'[a] = g /\ \A b \in Pedidos \ {a} : idMp'[b] = idMp[b]
  BY <1>1
<1>4. CresceCart
  BY <1>1, <1>3 DEF CresceCart
<1>5. IdsCertos'
  BY <1>3 DEF LinhasCart, IdsCertos
<1>6. Respondida'
  <2>1. Vivos' = Vivos
    BY DEF Vivos
  <2> SUFFICES ASSUME NEW h \in Pre, pre[h].ref # 0
               PROVE  h \in avisosPre' \/ idMp'[pre[h].ref] # 0 \/ pre[h].ref \notin Vivos
    BY <2>1 DEF Respondida
  <2>2. CASE pre[h].ref = a
    BY <1>1, <1>3, <2>2
  <2>3. CASE pre[h].ref # a
    <3>1. pre[h].ref \in Pedidos /\ h # g
      BY <2>3, NumerosCart DEF LinhasCart
    <3>2. h \in avisosPre \/ idMp[pre[h].ref] # 0 \/ pre[h].ref \notin Vivos
      BY DEF LinhasCart, Respondida
    <3> QED BY <1>3, <2>3, <3>1, <3>2
  <2> QED BY <2>2, <2>3
<1> QED BY <1>2, <1>4, <1>5, <1>6 DEF LinhasCart

\* A notification is answered.
LEMMA RespondeBom ==
  ASSUME LinhasCart, NEW g \in Pre, pre[g].ref # 0, avisosPre' = avisosPre \/ avisosPre' = avisosPre \ {g},
         idMp[pre[g].ref] # 0 \/ pre[g].ref \notin Vivos, agendadas' \subseteq Pedidos,
         UNCHANGED <<plano, idMp, registrada, perdidas, pre, cobradas, avisosCob>>
  PROVE  LinhasCart' /\ CresceCart
<1>1. Vivos' = Vivos
  BY DEF Vivos
<1>2. Respondida'
  BY <1>1 DEF LinhasCart, Respondida
<1>3. IdsCertos'
  BY DEF LinhasCart, IdsCertos
<1>4. CresceCart
  BY DEF CresceCart
<1> QED BY <1>2, <1>3, <1>4 DEF LinhasCart

\* A handler that ends carries nothing.
LEMMA LivreMove ==
  ASSUME TiposCart, NEW r \in ReqCart, SegueCart(r, LivreCart), LinhasCart', CresceCart
  PROVE  TiposCart'
<1>1. MaoCart(LivreCart, plano', idMp', pre')
  BY LivreCartBom
<1> QED BY <1>1, MoveCart

LEMMA ParadoCresce ==
  ASSUME LinhasCart, UNCHANGED <<linhasCart, mpCart>>
  PROVE  LinhasCart' /\ CresceCart
<1>1. UNCHANGED <<plano, idMp, agendadas, registrada, perdidas, pre, cobradas, avisosPre, avisosCob>>
  BY DEF linhasCart, mpCart
<1> QED BY <1>1 DEF LinhasCart, IdsCertos, Respondida, Vivos, CresceCart

\* The handlers begin.
LEMMA TiposAbrir ==
  ASSUME TiposCart, NEW r \in ReqCart,
         AbrirAssinar(r) \/ AbrirDesistencia(r) \/ \E g \in Pre : AbrirEspelho(r, g) \/ AbrirCobranca(r, g)
  PROVE  TiposCart'
<1>n. \A a \in Vivos : a \in Pedidos /\ plano[a] # "INEXISTENTE" /\ idMp[a] \in 0 .. MaxPre
        /\ (idMp[a] # 0 => idMp[a] \in Pre /\ pre[idMp[a]].ref = a)
  BY NumerosCart DEF Vivos, TiposCart, LinhasCart, IdsCertos
<1>0. /\ LivreCart \in HandlerCart /\ LivreCart.a = 0 /\ LivreCart.g = 0 /\ LivreCart.pc = "livre"
      /\ 0 \in 0 .. MaxPedidos /\ 0 \in 0 .. MaxPre /\ Pedidos \subseteq 0 .. MaxPedidos /\ Pre \subseteq 0 .. MaxPre
  BY LivreCartBom, NumerosCart DEF LivreCart
<1>1. CASE AbrirAssinar(r)
  <2>1. CASE SoLeCart(r, [LivreCart EXCEPT !.pc = "pede"])
    <3> DEFINE q == [LivreCart EXCEPT !.pc = "pede"]
    <3>1. q \in HandlerCart /\ q.pc = "pede"
      BY <1>0 DEF HandlerCart
    <3>2. SegueCart(r, q) /\ UNCHANGED <<linhasCart, mpCart>>
      BY <2>1 DEF SoLeCart
    <3>3. q.g = 0
      BY <1>0
    <3> HIDE DEF q
    <3>4. MaoCart(q, plano, idMp, pre)
      BY <3>1, <3>3 DEF MaoCart
    <3> QED BY <3>2, <3>4, LeCart
  <2>2. ASSUME NEW a \in Vivos, SoLeCart(r, [LivreCart EXCEPT !.pc = "pede", !.g = idMp[a]])
        PROVE  TiposCart'
    <3> DEFINE q == [LivreCart EXCEPT !.pc = "pede", !.g = idMp[a]]
    <3>1. q \in HandlerCart /\ q.pc = "pede"
      BY <1>0, <1>n DEF HandlerCart
    <3>2. SegueCart(r, q) /\ UNCHANGED <<linhasCart, mpCart>>
      BY <2>2 DEF SoLeCart
    <3>3. q.g = idMp[a] /\ a # 0 /\ (idMp[a] # 0 => pre[idMp[a]].ref = a)
      BY <1>0, <1>n, NumerosCart DEF LivreCart
    <3> HIDE DEF q
    <3>4. MaoCart(q, plano, idMp, pre)
      BY <3>1, <3>3 DEF MaoCart
    <3> QED BY <3>2, <3>4, LeCart
  <2>3. ASSUME NEW a \in Vivos,
               SoLeCart(r, [LivreCart EXCEPT !.pc = IF idMp[a] = 0 THEN "cartao" ELSE "solta",
                               !.a = a, !.g = idMp[a]])
        PROVE  TiposCart'
    <3> DEFINE pc == IF idMp[a] = 0 THEN "cartao" ELSE "solta"
               q == [LivreCart EXCEPT !.pc = pc, !.a = a, !.g = idMp[a]]
    <3>p. pc \in {"cartao", "solta"} /\ (pc = "solta" => idMp[a] # 0)
      OBVIOUS
    <3>2. SegueCart(r, q) /\ UNCHANGED <<linhasCart, mpCart>>
      BY <2>3 DEF SoLeCart
    <3> HIDE DEF pc
    <3>1. q \in HandlerCart /\ q.pc = pc /\ q.a = a /\ q.g = idMp[a]
      BY <1>0, <1>n, <3>p DEF HandlerCart
    <3> HIDE DEF q
    <3>3. MaoCart(q, plano, idMp, pre)
      BY <1>n, <3>1, <3>p, NumerosCart DEF MaoCart
    <3> QED BY <3>2, <3>3, LeCart
  <2> QED BY <1>1, <2>1, <2>2, <2>3 DEF AbrirAssinar
<1>2. CASE AbrirDesistencia(r)
  <2>1. PICK a \in Vivos : SoLeCart(r, [LivreCart EXCEPT !.a = a, !.g = idMp[a],
            !.pc = IF idMp[a] = 0 THEN "agenda" ELSE IF Pago(a) THEN "pausa" ELSE "cancela"])
    BY <1>2 DEF AbrirDesistencia
  <2> DEFINE pc == IF idMp[a] = 0 THEN "agenda" ELSE IF Pago(a) THEN "pausa" ELSE "cancela"
             q == [LivreCart EXCEPT !.a = a, !.g = idMp[a], !.pc = pc]
  <2>p. pc \in {"agenda", "pausa", "cancela"} /\ (pc # "agenda" => idMp[a] # 0)
    OBVIOUS
  <2>2. SegueCart(r, q) /\ UNCHANGED <<linhasCart, mpCart>>
    BY <2>1 DEF SoLeCart
  <2> HIDE DEF pc
  <2>3. q \in HandlerCart /\ q.pc = pc /\ q.a = a /\ q.g = idMp[a]
    BY <1>0, <1>n, <2>p DEF HandlerCart
  <2> HIDE DEF q
  <2>4. MaoCart(q, plano, idMp, pre)
    BY <1>n, <2>3, <2>p DEF MaoCart
  <2> QED BY <2>2, <2>4, LeCart
<1>3. ASSUME NEW g \in Pre, AbrirEspelho(r, g) PROVE TiposCart'
  <2> DEFINE q == [LivreCart EXCEPT !.pc = "leEspelho", !.g = g, !.st = pre[g].status]
  <2>1. pre[g].status \in StatusPre /\ pre[g].ref # 0
    BY <1>3 DEF AbrirEspelho, TiposCart, LinhasCart, IdsCertos
  <2>2. SegueCart(r, q) /\ UNCHANGED <<linhasCart, mpCart>>
    BY <1>3 DEF AbrirEspelho, SoLeCart
  <2>3. q \in HandlerCart /\ q.pc = "leEspelho" /\ q.g = g /\ q.st = pre[g].status
    BY <1>0, <2>1 DEF HandlerCart
  <2> HIDE DEF q
  <2>4. MaoCart(q, plano, idMp, pre)
    BY <2>1, <2>3 DEF MaoCart
  <2> QED BY <2>2, <2>4, LeCart
<1>4. ASSUME NEW g \in Pre, AbrirCobranca(r, g) PROVE TiposCart'
  <2> DEFINE q == [LivreCart EXCEPT !.pc = "leCobranca", !.g = g]
  <2>2. SegueCart(r, q) /\ UNCHANGED <<linhasCart, mpCart>>
    BY <1>4 DEF AbrirCobranca, SoLeCart
  <2>3. q \in HandlerCart /\ q.pc = "leCobranca" /\ q.g = g
    BY <1>0 DEF HandlerCart
  <2> HIDE DEF q
  <2>4. MaoCart(q, plano, idMp, pre)
    BY <2>3 DEF MaoCart
  <2> QED BY <2>2, <2>4, LeCart
<1> QED BY <1>1, <1>2, <1>3, <1>4

\* assinar: the request, and the card of before.
LEMMA TiposPedir == ASSUME TiposCart, NEW r \in ReqCart, Pedir(r) PROVE TiposCart'
<1>1. PICK a \in Pedidos :
       /\ plano[a] = "INEXISTENTE"
       /\ plano' = [b \in Pedidos |-> IF b = a THEN "ATIVA"
                                      ELSE IF b \in Vivos /\ ~Pago(b) THEN "CANCELADA" ELSE plano[b]]
       /\ SegueCart(r, [reqCart[r] EXCEPT !.pc = IF reqCart[r].g = 0 THEN "cartao" ELSE "solta",
                          !.a = a, !.novo = TRUE])
  BY DEF Pedir
<1>2. UNCHANGED <<idMp, agendadas, registrada, perdidas, pre, cobradas, avisosPre, avisosCob>>
  BY DEF Pedir, mpCart
<1>3. plano \in [Pedidos -> {"INEXISTENTE", "ATIVA", "CANCELADA"}]
  BY DEF TiposCart, LinhasCart
<1>4. plano' \in [Pedidos -> {"INEXISTENTE", "ATIVA", "CANCELADA"}]
  BY <1>1, <1>3
<1>5. plano'[a] = "ATIVA" /\ \A b \in Pedidos \ {a} : plano'[b] = plano[b] \/ (plano[b] = "ATIVA" /\ plano'[b] = "CANCELADA")
  BY <1>1, <1>3 DEF Vivos
<1>6. CresceCart
  BY <1>1, <1>2, <1>5 DEF CresceCart
<1>7. \A g \in Pre : pre[g].ref # 0 => pre[g].ref \in Pedidos /\ pre[g].ref # a /\ plano'[pre[g].ref] # "INEXISTENTE"
  BY <1>1, <1>6, NumerosCart DEF TiposCart, LinhasCart, IdsCertos, CresceCart
<1>8. LinhasCart'
  <2>1. IdsCertos'
    BY <1>2, <1>7 DEF TiposCart, LinhasCart, IdsCertos
  <2>2. Respondida'
    <3>1. \A g \in Pre : pre[g].ref # 0 /\ pre[g].ref \in Vivos' => pre[g].ref \in Vivos
      BY <1>5, <1>7 DEF Vivos
    <3> QED BY <1>2, <3>1 DEF TiposCart, LinhasCart, Respondida
  <2> QED BY <1>2, <1>4, <2>1, <2>2 DEF TiposCart, LinhasCart
<1> DEFINE pc == IF reqCart[r].g = 0 THEN "cartao" ELSE "solta"
           q == [reqCart[r] EXCEPT !.pc = pc, !.a = a, !.novo = TRUE]
<1>9. pc \in {"cartao", "solta"} /\ (pc = "solta" => reqCart[r].g # 0)
  OBVIOUS
<1>10. SegueCart(r, q)
  BY <1>1
<1> HIDE DEF pc
<1>11. q \in HandlerCart /\ q.pc = pc /\ q.a = a /\ q.g = reqCart[r].g /\ q.g \in 0 .. MaxPre
  BY <1>9, NumerosCart DEF TiposCart, HandlerCart
<1> HIDE DEF q
<1>12. q.g # 0 => pre'[q.g].ref # 0
  BY <1>2, <1>11 DEF TiposCart, MaoCart, Pedir, EmCart
<1>13. MaoCart(q, plano', idMp', pre')
  BY <1>5, <1>9, <1>11, <1>12, NumerosCart DEF MaoCart
<1> QED BY <1>6, <1>8, <1>10, <1>13, MoveCart

\* The handler goes to MP with no card in its hands.
LEMMA VaiCartao ==
  ASSUME TiposCart, NEW r \in ReqCart, EmCart(r, "solta"), LinhasCart', CresceCart,
         SegueCart(r, [reqCart[r] EXCEPT !.pc = "cartao", !.g = 0])
  PROVE  TiposCart'
<1> DEFINE q == [reqCart[r] EXCEPT !.pc = "cartao", !.g = 0]
<1>1. SegueCart(r, q)
  OBVIOUS
<1>2. q \in HandlerCart /\ q.pc = "cartao" /\ q.a = reqCart[r].a
  BY NumerosCart DEF TiposCart, HandlerCart
<1>3. q.a \in Pedidos /\ plano'[q.a] # "INEXISTENTE"
  BY <1>2 DEF TiposCart, MaoCart, EmCart, CresceCart
<1> HIDE DEF q
<1>4. MaoCart(q, plano', idMp', pre')
  BY <1>2, <1>3 DEF MaoCart
<1> QED BY <1>1, <1>4, MoveCart

\* A preapproval a handler holds was made.
LEMMA NaMaoFeita ==
  ASSUME TiposCart, NEW r \in ReqCart, reqCart[r].pc \in {"grava", "cancela", "pausa", "espelha", "gravaId"}
  PROVE  /\ reqCart[r].g \in Pre /\ reqCart[r].a \in Pedidos /\ pre[reqCart[r].g].ref = reqCart[r].a
         /\ reqCart[r].a # 0 /\ plano[reqCart[r].a] # "INEXISTENTE"
  BY NumerosCart DEF TiposCart, MaoCart

\* cancelarNoProvedor, of a card that MP made.
LEMMA TiposSoltar == ASSUME TiposCart, NEW r \in ReqCart, Soltar(r) \/ SoltarEmVao(r) PROVE TiposCart'
<1>1. CASE Soltar(r)
  <2>1. EmCart(r, "solta") /\ UNCHANGED linhasCart /\ SegueCart(r, [reqCart[r] EXCEPT !.pc = "cartao", !.g = 0])
    BY <1>1 DEF Soltar
  <2>2. reqCart[r].g \in Pre /\ pre[reqCart[r].g].ref # 0
    BY <2>1, NumerosCart DEF TiposCart, MaoCart, EmCart
  <2>3. LinhasCart' /\ CresceCart
    <3>1. CASE MudaPre(reqCart[r].g, "cancelled")
      BY <2>1, <2>2, <3>1, MudaPreBom DEF StatusPre, TiposCart
    <3>2. CASE UNCHANGED mpCart
      BY <2>1, <3>2, ParadoCresce DEF TiposCart
    <3> QED BY <1>1, <3>1, <3>2 DEF Soltar
  <2> QED BY <2>1, <2>3, VaiCartao
<1>2. CASE SoltarEmVao(r)
  <2>1. LinhasCart' /\ CresceCart
    BY <1>2, ParadoCresce DEF SoltarEmVao, SoLeCart, TiposCart
  <2> QED BY <1>2, <2>1, VaiCartao DEF SoltarEmVao, SoLeCart
<1> QED BY <1>1, <1>2

\* A refusal of MP: the new request is given up.
LEMMA TiposRecusa ==
  ASSUME TiposCart, NEW r \in ReqCart, EmCart(r, "cartao"), DepoisDaRecusa(r), LinhasCart', CresceCart
  PROVE  TiposCart'
<1>1. CASE SegueCart(r, LivreCart)
  BY <1>1, LivreMove
<1>2. CASE SegueCart(r, [reqCart[r] EXCEPT !.pc = "desiste"])
  <2> DEFINE q == [reqCart[r] EXCEPT !.pc = "desiste"]
  <2>1. q \in HandlerCart /\ q.pc = "desiste" /\ q.a = reqCart[r].a
    BY DEF TiposCart, HandlerCart
  <2>2. q.a \in Pedidos /\ plano'[q.a] # "INEXISTENTE"
    BY <2>1 DEF TiposCart, MaoCart, EmCart, CresceCart
  <2>3. SegueCart(r, q)
    BY <1>2
  <2> HIDE DEF q
  <2>4. MaoCart(q, plano', idMp', pre')
    BY <2>1, <2>2 DEF MaoCart
  <2> QED BY <2>3, <2>4, MoveCart
<1> QED BY <1>1, <1>2 DEF DepoisDaRecusa

\* assinarComCartao: MP makes it, or refuses.
LEMMA TiposCriar == ASSUME TiposCart, NEW r \in ReqCart, CriarNoMp(r) \/ CriarSemResposta(r) PROVE TiposCart'
<1>1. EmCart(r, "cartao") /\ UNCHANGED linhasCart
  BY DEF CriarNoMp, CriarSemResposta
<1>2. reqCart[r].a \in Pedidos /\ plano[reqCart[r].a] # "INEXISTENTE"
  BY <1>1 DEF TiposCart, MaoCart, EmCart
<1>3. ASSUME NEW g \in Pre, CriaPre(reqCart[r].a, g), SegueCart(r, [reqCart[r] EXCEPT !.pc = "grava", !.g = g])
      PROVE  TiposCart'
  <2> DEFINE q == [reqCart[r] EXCEPT !.pc = "grava", !.g = g]
  <2>1. LinhasCart' /\ CresceCart /\ pre'[g].ref = reqCart[r].a
    BY <1>1, <1>2, <1>3, CriaPreBom DEF TiposCart
  <2>2. q \in HandlerCart /\ q.pc = "grava" /\ q.a = reqCart[r].a /\ q.g = g
    BY NumerosCart DEF TiposCart, HandlerCart
  <2>3. plano'[q.a] # "INEXISTENTE"
    BY <1>2, <2>1, <2>2 DEF CresceCart
  <2> HIDE DEF q
  <2>4. MaoCart(q, plano', idMp', pre')
    BY <1>2, <2>1, <2>2, <2>3 DEF MaoCart
  <2>5. SegueCart(r, q)
    BY <1>3 DEF q
  <2> QED BY <2>1, <2>4, <2>5, MoveCart
<1>4. ASSUME DepoisDaRecusa(r), UNCHANGED mpCart \/ \E g \in Pre : CriaPre(reqCart[r].a, g)
      PROVE  TiposCart'
  <2>1. LinhasCart' /\ CresceCart
    BY <1>1, <1>2, <1>4, CriaPreBom, ParadoCresce DEF TiposCart
  <2> QED BY <1>1, <1>4, <2>1, TiposRecusa
<1> QED BY <1>3, <1>4 DEF CriarNoMp, CriarSemResposta

LEMMA TiposGravar == ASSUME TiposCart, NEW r \in ReqCart, Gravar(r) PROVE TiposCart'
<1>1. reqCart[r].g \in Pre /\ reqCart[r].a \in Pedidos /\ pre[reqCart[r].g].ref = reqCart[r].a
  BY NaMaoFeita DEF Gravar, EmCart
<1>2. /\ idMp' = [idMp EXCEPT ![reqCart[r].a] = reqCart[r].g] /\ avisosPre' = avisosPre
      /\ UNCHANGED <<plano, agendadas, registrada, perdidas, pre, cobradas, avisosCob>>
  BY DEF Gravar, mpCart
<1>3. LinhasCart' /\ CresceCart
  BY <1>1, <1>2, GravaBom DEF TiposCart
<1> QED BY <1>3, LivreMove DEF Gravar

LEMMA TiposDesistir == ASSUME TiposCart, NEW r \in ReqCart, DesistirDoPedido(r) PROVE TiposCart'
<1>1. reqCart[r].a \in Pedidos /\ plano[reqCart[r].a] # "INEXISTENTE"
  BY DEF DesistirDoPedido, EmCart, TiposCart, MaoCart
<1>2. /\ plano' = [plano EXCEPT ![reqCart[r].a] = "CANCELADA"]
      /\ UNCHANGED <<idMp, agendadas, registrada, perdidas, pre, cobradas, avisosPre, avisosCob>>
  BY DEF DesistirDoPedido, mpCart
<1>3. LinhasCart' /\ CresceCart
  BY <1>1, <1>2, CancelaBom DEF TiposCart, LinhasCart
<1> QED BY <1>3, LivreMove DEF DesistirDoPedido

\* cancelar: what MP stopped.
LEMMA TiposParar == ASSUME TiposCart, NEW r \in ReqCart, PararNoMp(r) PROVE TiposCart'
<1>1. reqCart[r].pc \in {"cancela", "pausa"} /\ UNCHANGED linhasCart
  BY DEF PararNoMp
<1>2. /\ reqCart[r].g \in Pre /\ reqCart[r].a \in Pedidos /\ pre[reqCart[r].g].ref = reqCart[r].a
      /\ reqCart[r].a # 0 /\ plano[reqCart[r].a] # "INEXISTENTE"
  BY <1>1, NaMaoFeita
<1>3. ASSUME NEW pc \in {"desiste", "agenda"}, SegueCart(r, [reqCart[r] EXCEPT !.pc = pc]), LinhasCart', CresceCart
      PROVE  TiposCart'
  <2> DEFINE q == [reqCart[r] EXCEPT !.pc = pc]
  <2>1. q \in HandlerCart /\ q.pc = pc /\ q.a = reqCart[r].a
    BY DEF TiposCart, HandlerCart
  <2>2. q.a \in Pedidos /\ plano'[q.a] # "INEXISTENTE"
    BY <1>2, <1>3, <2>1 DEF CresceCart
  <2>3. SegueCart(r, q)
    BY <1>3
  <2> HIDE DEF q
  <2>4. MaoCart(q, plano', idMp', pre')
    BY <2>1, <2>2 DEF MaoCart
  <2> QED BY <1>3, <2>3, <2>4, MoveCart
<1>4. CASE MudaPre(reqCart[r].g, IF reqCart[r].pc = "cancela" THEN "cancelled" ELSE "paused")
           /\ SegueCart(r, [reqCart[r] EXCEPT !.pc = IF reqCart[r].pc = "cancela" THEN "desiste" ELSE "agenda"])
  <2>1. (IF reqCart[r].pc = "cancela" THEN "cancelled" ELSE "paused") \in StatusPre \ {"nenhum"}
    BY DEF StatusPre
  <2>2. LinhasCart' /\ CresceCart
    BY <1>1, <1>2, <1>4, <2>1, MudaPreBom DEF TiposCart
  <2> QED BY <1>3, <1>4, <2>2
<1>5. CASE UNCHANGED mpCart /\ (SegueCart(r, [reqCart[r] EXCEPT !.pc = "agenda"]) \/ SegueCart(r, LivreCart))
  <2>1. LinhasCart' /\ CresceCart
    BY <1>1, <1>5, ParadoCresce DEF TiposCart
  <2> QED BY <1>3, <1>5, <2>1, LivreMove
<1> QED BY <1>4, <1>5 DEF PararNoMp

LEMMA TiposAgendar == ASSUME TiposCart, NEW r \in ReqCart, AgendarFim(r) PROVE TiposCart'
<1>1. reqCart[r].a \in Pedidos
  BY DEF AgendarFim, EmCart, TiposCart, MaoCart
<1>2. agendadas' \subseteq Pedidos /\ UNCHANGED <<plano, idMp, registrada, perdidas, pre, cobradas, avisosPre, avisosCob>>
  BY <1>1 DEF AgendarFim, mpCart, TiposCart, LinhasCart
<1>3. LinhasCart' /\ CresceCart
  BY <1>2 DEF TiposCart, LinhasCart, IdsCertos, Respondida, Vivos, CresceCart
<1> QED BY <1>3, LivreMove DEF AgendarFim

\* processarAssinatura: which request, and what it says.
LEMMA TiposLer ==
  ASSUME TiposCart, NEW r \in ReqCart, LerEspelho(r)
  PROVE  TiposCart'
<1> DEFINE g == reqCart[r].g
           a == IF DoId(g) = 0 /\ g # 0 THEN pre[g].ref ELSE DoId(g)
<1>1. g \in Pre /\ pre[g].ref # 0 /\ pre[g].ref \in Pedidos /\ g # 0 /\ EmCart(r, "leEspelho")
  BY NumerosCart DEF LerEspelho, LerEspelhoDe, EmCart, TiposCart, MaoCart, LinhasCart
<1>2. LerEspelhoDe(r, a)
  BY DEF LerEspelho
<1>3. a = pre[g].ref
  BY <1>1, DoIdBom DEF TiposCart
<1>u. UNCHANGED <<plano, idMp, agendadas, registrada, perdidas, pre, cobradas, avisosCob>>
  BY <1>2 DEF LerEspelhoDe, linhasCart
<1> HIDE DEF a
<1>4. CASE plano[a] = "ATIVA"
  <2> DEFINE q == [reqCart[r] EXCEPT !.pc = "espelha", !.a = a, !.pago = Pago(a),
                                !.agendada = a \in agendadas, !.semId = (idMp[a] = 0)]
  <2>1. SegueCart(r, q) /\ UNCHANGED avisosPre
    BY <1>1, <1>2, <1>3, <1>4 DEF LerEspelhoDe
  <2>2. Pago(a) \in BOOLEAN /\ (a \in agendadas) \in BOOLEAN /\ (idMp[a] = 0) \in BOOLEAN
    BY DEF Pago
  <2>3. /\ q \in HandlerCart /\ q.pc = "espelha" /\ q.a = a /\ q.g = g /\ q.st = reqCart[r].st
        /\ (~q.semId => idMp[a] # 0)
    BY <1>1, <1>3, <2>2, NumerosCart DEF TiposCart, HandlerCart
  <2>4. q.st = "cancelled" => pre[g].status = "cancelled"
    BY <1>1, <2>3 DEF TiposCart, MaoCart, EmCart
  <2> HIDE DEF q, g
  <2>5. MaoCart(q, plano, idMp, pre)
    BY <1>1, <1>3, <1>4, <2>3, <2>4 DEF MaoCart
  <2> QED BY <1>u, <2>1, <2>5, LeCart DEF linhasCart, mpCart
<1>5. CASE plano[a] # "ATIVA"
  <2>1. SegueCart(r, LivreCart) /\ RespondePre(reqCart[r])
    BY <1>2, <1>5 DEF LerEspelhoDe
  <2>2. avisosPre' = avisosPre \/ avisosPre' = avisosPre \ {g}
    BY <2>1 DEF RespondePre
  <2>3. pre[g].ref \notin Vivos /\ agendadas' \subseteq Pedidos
    BY <1>3, <1>5, <1>u DEF Vivos, TiposCart, LinhasCart
  <2>4. LinhasCart' /\ CresceCart
    BY <1>1, <1>u, <2>2, <2>3, RespondeBom DEF TiposCart
  <2> QED BY <2>1, <2>4, LivreMove
<1> QED BY <1>4, <1>5

LEMMA TiposEspelhar == ASSUME TiposCart, NEW r \in ReqCart, Espelhar(r) PROVE TiposCart'
<1> DEFINE p == reqCart[r]
<1>1. /\ p.pc = "espelha" /\ p.g \in Pre /\ p.a \in Pedidos /\ pre[p.g].ref = p.a /\ p.a # 0
      /\ plano[p.a] # "INEXISTENTE" /\ (~p.semId => idMp[p.a] # 0)
      /\ (p.st = "cancelled" => pre[p.g].status = "cancelled") /\ p \in HandlerCart
  BY NaMaoFeita DEF Espelhar, EmCart, TiposCart, MaoCart
<1>2. UNCHANGED <<idMp, registrada, perdidas, pre, cobradas, avisosCob>>
  BY DEF Espelhar
<1>3. agendadas' \subseteq Pedidos
  BY <1>1 DEF Espelhar, TiposCart, LinhasCart
<1>4. plano' = plano \/ plano' = [plano EXCEPT ![p.a] = "CANCELADA"]
  BY DEF Espelhar
<1>5. \/ p.semId /\ SegueCart(r, [p EXCEPT !.pc = "gravaId"]) /\ avisosPre' = avisosPre
      \/ ~p.semId /\ SegueCart(r, LivreCart) /\ (avisosPre' = avisosPre \/ avisosPre' = avisosPre \ {p.g})
  BY DEF Espelhar, RespondePre
<1> HIDE DEF p
<1>6. LinhasCart' /\ CresceCart
  <2>1. /\ avisosPre' \subseteq avisosPre
        /\ \A g \in avisosPre \ avisosPre' : pre[g].ref # 0 => idMp[pre[g].ref] # 0
    BY <1>1, <1>5
  <2>2. CASE plano' = [plano EXCEPT ![p.a] = "CANCELADA"]
    BY <1>1, <1>2, <1>3, <2>1, <2>2, CancelaBom DEF TiposCart
  <2>3. CASE plano' = plano
    <3>1. CASE p.semId
      BY <1>2, <1>3, <1>5, <2>3, <3>1 DEF TiposCart, LinhasCart, IdsCertos, Respondida, Vivos, CresceCart
    <3>2. CASE ~p.semId
      BY <1>1, <1>2, <1>3, <1>5, <2>3, <3>2, RespondeBom DEF TiposCart
    <3> QED BY Zenon, <3>1, <3>2
  <2> QED BY <1>4, <2>2, <2>3
<1>7. CASE SegueCart(r, LivreCart)
  BY <1>6, <1>7, LivreMove
<1>8. CASE SegueCart(r, [p EXCEPT !.pc = "gravaId"])
  <2> DEFINE q == [p EXCEPT !.pc = "gravaId"]
  <2>1. q \in HandlerCart /\ q.pc = "gravaId" /\ q.a = p.a /\ q.g = p.g /\ q.st = p.st
    BY <1>1 DEF HandlerCart
  <2>2. plano'[q.a] # "INEXISTENTE"
    BY <1>1, <1>6, <2>1 DEF CresceCart
  <2>3. SegueCart(r, q)
    BY <1>8
  <2> HIDE DEF q
  <2>4. MaoCart(q, plano', idMp', pre')
    BY <1>1, <1>2, <2>1, <2>2 DEF MaoCart
  <2> QED BY <1>6, <2>3, <2>4, MoveCart
<1> QED BY <1>5, <1>7, <1>8

LEMMA TiposGravarId == ASSUME TiposCart, NEW r \in ReqCart, GravarId(r) PROVE TiposCart'
<1>1. reqCart[r].g \in Pre /\ reqCart[r].a \in Pedidos /\ pre[reqCart[r].g].ref = reqCart[r].a
  BY NaMaoFeita DEF GravarId, EmCart
<1>2. /\ idMp' = [idMp EXCEPT ![reqCart[r].a] = reqCart[r].g]
      /\ avisosPre' = avisosPre \/ avisosPre' = avisosPre \ {reqCart[r].g}
      /\ UNCHANGED <<plano, agendadas, registrada, perdidas, pre, cobradas, avisosCob>>
  BY DEF GravarId, RespondePre
<1>3. LinhasCart' /\ CresceCart
  BY <1>1, <1>2, GravaBom DEF TiposCart
<1> QED BY <1>3, LivreMove DEF GravarId

\* processarCobranca: a charge finds its request, and is registered on it.
LEMMA TiposCobranca == ASSUME TiposCart, NEW r \in ReqCart, LerCobranca(r) \/ RegistrarCobranca(r) PROVE TiposCart'
<1>n. 0 \in 0 .. MaxPedidos /\ Pedidos \subseteq 0 .. MaxPedidos
  BY NumerosCart
<1>1. CASE LerCobranca(r)
  <2> DEFINE g == reqCart[r].g
             a == DoId(g)
  <2>1. g \in 0 .. MaxPre /\ UNCHANGED <<plano, idMp, agendadas, registrada, pre, cobradas, avisosPre>>
    BY <1>1 DEF LerCobranca, TiposCart, HandlerCart
  <2>2. reqCart[r].pc = "leCobranca" /\ g \in Pre
    BY <1>1 DEF LerCobranca, EmCart, TiposCart, MaoCart
  <2>3. avisosCob' \subseteq Pre /\ perdidas' \subseteq Pre
    BY <1>1, <2>2 DEF LerCobranca, TiposCart, LinhasCart
  <2>4. LinhasCart' /\ CresceCart
    BY <2>1, <2>3 DEF TiposCart, LinhasCart, IdsCertos, Respondida, Vivos, CresceCart
  <2>5. CASE SegueCart(r, LivreCart)
    BY <2>4, <2>5, LivreMove
  <2>6. CASE a # 0 /\ plano[a] = "ATIVA" /\ SegueCart(r, [reqCart[r] EXCEPT !.pc = "registra", !.a = a])
    <3>1. a \in Pedidos
      BY <2>2, <2>6, DoIdBom DEF TiposCart
    <3> DEFINE q == [reqCart[r] EXCEPT !.pc = "registra", !.a = a]
    <3>2. SegueCart(r, q)
      BY <2>6
    <3> HIDE DEF a
    <3>3. q \in HandlerCart /\ q.pc = "registra" /\ q.a = a /\ q.g = g
      BY <1>n, <3>1 DEF TiposCart, HandlerCart
    <3> HIDE DEF q
    <3>4. MaoCart(q, plano', idMp', pre')
      BY <2>1, <2>2, <2>6, <3>1, <3>3 DEF MaoCart
    <3> QED BY <2>4, <3>2, <3>4, MoveCart
  <2> QED BY <1>1, <2>5, <2>6 DEF LerCobranca
<1>2. CASE RegistrarCobranca(r)
  <2>1. reqCart[r].pc = "registra" /\ reqCart[r].g \in Pre /\ reqCart[r].a \in Pedidos
    BY <1>2 DEF RegistrarCobranca, EmCart, TiposCart, MaoCart
  <2>2. UNCHANGED <<plano, idMp, agendadas, perdidas, pre, cobradas, avisosPre>> /\ SegueCart(r, LivreCart)
    BY <1>2 DEF RegistrarCobranca
  <2>3. registrada' \in [Pre -> 0 .. MaxPedidos] /\ avisosCob' \subseteq Pre
    BY <1>2, <1>n, <2>1 DEF RegistrarCobranca, TiposCart, LinhasCart
  <2>4. LinhasCart' /\ CresceCart
    BY <2>2, <2>3 DEF TiposCart, LinhasCart, IdsCertos, Respondida, Vivos, CresceCart
  <2> QED BY <2>2, <2>4, LivreMove
<1> QED BY <1>1, <1>2

\* MP by itself.
LEMMA TiposMp == ASSUME TiposCart, MpCartoes PROVE TiposCart' /\ CresceCart /\ UNCHANGED <<linhasCart, reqCart>>
                        /\ \A g \in Pre : pre'[g].ref = pre[g].ref
<1>1. PICK g \in Pre : MpCobra(g) \/ MpMuda(g)
  BY DEF MpCartoes
<1>2. UNCHANGED <<linhasCart, reqCart>>
  BY <1>1 DEF MpCobra, MpMuda
<1>3. LinhasCart' /\ CresceCart /\ \A h \in Pre : pre'[h].ref = pre[h].ref
  <2>1. CASE MpCobra(g)
    <3>1. UNCHANGED <<plano, idMp, agendadas, registrada, perdidas, pre, avisosPre>>
      BY <2>1 DEF MpCobra, linhasCart
    <3>2. cobradas' \subseteq Pre /\ avisosCob' \subseteq Pre
      BY <2>1 DEF MpCobra, TiposCart, LinhasCart
    <3> QED BY <3>1, <3>2 DEF TiposCart, LinhasCart, IdsCertos, Respondida, Vivos, CresceCart
  <2>2. CASE MpMuda(g)
    <3>1. pre[g].ref # 0
      BY <2>2 DEF MpMuda, TiposCart, LinhasCart, IdsCertos
    <3>2. PICK st \in StatusPre \ {"nenhum"} : MudaPre(g, st)
      BY <2>2 DEF MpMuda
    <3> QED BY <1>2, <3>1, <3>2, MudaPreBom DEF TiposCart
  <2> QED BY <1>1, <2>1, <2>2
<1>4. \A r \in ReqCart : MaoCart(reqCart[r], plano', idMp', pre')
  BY <1>3, MaoFica DEF TiposCart
<1> QED BY <1>2, <1>3, <1>4 DEF TiposCart

\* The types of the cards hold at every step of theirs.
LEMMA TiposCartPasso ==
  ASSUME TiposCart, NEW r \in ReqCart, PassoCartoes(r) \/ FalhaCartoes(r)
  PROVE  TiposCart'
<1>1. CASE PassoCartoes(r)
  <2>1. CASE AbrirAssinar(r) \/ AbrirDesistencia(r) \/ \E g \in Pre : AbrirEspelho(r, g) \/ AbrirCobranca(r, g)
    BY <2>1, TiposAbrir
  <2> QED BY <1>1, <2>1, TiposPedir, TiposSoltar, TiposCriar, TiposGravar, TiposDesistir, TiposParar,
             TiposAgendar, TiposLer, TiposEspelhar, TiposGravarId, TiposCobranca DEF PassoCartoes
<1>2. CASE FalhaCartoes(r)
  <2>1. CASE SoLeCart(r, LivreCart)
    <3>1. LinhasCart' /\ CresceCart
      BY <2>1, ParadoCresce DEF SoLeCart, TiposCart
    <3> QED BY <2>1, <3>1, LivreMove DEF SoLeCart
  <2> QED BY <1>2, <2>1, TiposSoltar, TiposCriar DEF FalhaCartoes
<1> QED BY <1>1, <1>2

LEMMA TiposCartParado == ASSUME TiposCart, UNCHANGED varsCartoes PROVE TiposCart'
<1>1. UNCHANGED <<plano, idMp, agendadas, registrada, perdidas, pre, cobradas, avisosPre, avisosCob, reqCart>>
  BY DEF varsCartoes, linhasCart, mpCart
<1> QED BY <1>1 DEF TiposCart, LinhasCart, IdsCertos, Respondida, Vivos

(* The cards of requests that do not overlap, with nothing that fails. *)

OciosoCart(r) == \A s \in ReqCart \ {r} : EmCart(s, "livre")

\* A preapproval of a living request has its id saved, or who is about to save it.
ComId == \A g \in Pre : pre[g].ref \in Vivos =>
  idMp[pre[g].ref] # 0 \/ \E r \in ReqCart : reqCart[r].pc = "grava" /\ reqCart[r].a = pre[g].ref

\* No card is left of a request that is over, but in the hands of who is about to cancel it.
Guardado(g) == pre[g].ref \in Vivos \/ pre[g].status = "cancelled" \/ Trocado(pre[g].ref)
SemSobra == \A g \in Pre : pre[g].ref # 0 =>
  Guardado(g) \/ \E r \in ReqCart : reqCart[r].pc = "solta" /\ reqCart[r].g = g

\* What a handler that is alone carries.
MaoSoCart(q, pl, id, p, reg) ==
  /\ q.pc = "pede" => \A b \in Pedidos : pl[b] = "ATIVA" => q.g = id[b] /\ \A g \in Pre : reg[g] # b
  /\ q.pc \in {"solta", "cartao"} => pl[q.a] = "ATIVA" /\ (q.novo => \A g \in Pre : p[g].ref # q.a)
  /\ q.pc = "desiste" => \A g \in Pre : p[g].ref = q.a =>
       p[g].status = "cancelled" \/ \E h \in Pre : h # g /\ p[h].ref = q.a

SoCart ==
  /\ \A a, b \in Vivos : a = b
  /\ ComId /\ SemSobra
  /\ \A g \in perdidas : pre[g].ref # 0 /\ Trocado(pre[g].ref)
  /\ \A r \in ReqCart : MaoSoCart(reqCart[r], plano, idMp, pre, registrada)

LEMMA MaoSoLivre == ASSUME NEW q, q.pc = "livre", NEW pl, NEW id, NEW p, NEW reg PROVE MaoSoCart(q, pl, id, p, reg)
  BY DEF MaoSoCart

LEMMA MaosSo ==
  ASSUME TiposCart, NEW r \in ReqCart, OciosoCart(r), NEW q, SegueCart(r, q),
         MaoSoCart(q, plano', idMp', pre', registrada')
  PROVE  /\ \A s \in ReqCart : MaoSoCart(reqCart'[s], plano', idMp', pre', registrada')
         /\ reqCart'[r] = q /\ \A s \in ReqCart \ {r} : reqCart'[s].pc = "livre" /\ reqCart[s].pc = "livre"
<1>1. reqCart'[r] = q /\ \A s \in ReqCart \ {r} : reqCart'[s].pc = "livre" /\ reqCart[s].pc = "livre"
  BY DEF TiposCart, SegueCart, OciosoCart, EmCart
<1>2. ASSUME NEW s \in ReqCart PROVE MaoSoCart(reqCart'[s], plano', idMp', pre', registrada')
  <2>1. CASE s = r
    BY <1>1, <2>1
  <2>2. CASE s # r
    BY <1>1, <2>2, MaoSoLivre
  <2> QED BY <2>1, <2>2
<1> QED BY <1>1, <1>2

\* With free hands, every preapproval is accounted for by the rows.
LEMMA SemMao ==
  ASSUME SoCart, NEW r \in ReqCart, OciosoCart(r)
  PROVE  /\ reqCart[r].pc # "grava" => \A g \in Pre : pre[g].ref \in Vivos => idMp[pre[g].ref] # 0
         /\ reqCart[r].pc # "solta" => \A g \in Pre : pre[g].ref # 0 => Guardado(g)
  BY DEF SoCart, ComId, SemSobra, OciosoCart, EmCart

\* A request with an id and another preapproval changed its card.
LEMMA OutroCartao ==
  ASSUME LinhasCart, NEW g \in Pre, pre[g].ref # 0, idMp[pre[g].ref] # 0, idMp[pre[g].ref] # g
  PROVE  Trocado(pre[g].ref)
<1>1. pre[g].ref \in Pedidos
  BY NumerosCart DEF LinhasCart
<1>2. idMp[pre[g].ref] \in Pre /\ pre[idMp[pre[g].ref]].ref = pre[g].ref
  BY <1>1, NumerosCart DEF LinhasCart, IdsCertos
<1> QED BY <1>2 DEF Trocado

LEMMA GuardadoFica ==
  ASSUME LinhasCart, CresceCart, NEW g \in Pre, pre[g].ref # 0, Guardado(g),
         pre[g].ref \in Vivos /\ pre[g].ref \notin Vivos' => pre'[g].status = "cancelled" \/ Trocado(pre[g].ref)
  PROVE  Guardado(g)'
<1>1. pre'[g].ref = pre[g].ref /\ (pre[g].status = "cancelled" => pre'[g].status = "cancelled")
  BY DEF CresceCart
<1> DEFINE b == pre[g].ref
<1>2. ASSUME Trocado(b) PROVE \E h, k \in Pre : h # k /\ pre'[h].ref = b /\ pre'[k].ref = b
  <2>1. PICK h \in Pre, k \in Pre : h # k /\ pre[h].ref = b /\ pre[k].ref = b
    BY <1>2 DEF Trocado
  <2>2. pre'[h].ref = b /\ pre'[k].ref = b
    BY <2>1 DEF CresceCart
  <2> QED BY <2>1, <2>2
<1>3. Trocado(b) => Trocado(pre[g].ref)'
  BY <1>1, <1>2 DEF Trocado
<1> QED BY <1>1, <1>3 DEF Guardado

\* A step that makes no preapproval and no request.
LEMMA RedorSo ==
  ASSUME TiposCart, SoCart, NEW r \in ReqCart, OciosoCart(r), NEW q, SegueCart(r, q), CresceCart,
         reqCart[r].pc \notin {"grava", "solta"},
         Vivos' \subseteq Vivos, \A g \in Pre : pre'[g].ref = pre[g].ref,
         \A g \in Pre : pre[g].ref \in Vivos /\ pre[g].ref \notin Vivos' =>
           pre'[g].status = "cancelled" \/ Trocado(pre[g].ref),
         \A g \in perdidas' : g \in perdidas \/ (g \in Pre /\ pre[g].ref # 0 /\ Trocado(pre[g].ref)),
         MaoSoCart(q, plano', idMp', pre', registrada')
  PROVE  SoCart'
<1>l. LinhasCart /\ 0 \notin Pedidos /\ Vivos \subseteq Pedidos /\ perdidas \subseteq Pre
  BY NumerosCart DEF TiposCart, LinhasCart, Vivos
<1>1. \A s \in ReqCart : MaoSoCart(reqCart'[s], plano', idMp', pre', registrada')
  BY MaosSo
<1>2. ComId'
  <2>1. \A g \in Pre : pre[g].ref \in Vivos => idMp'[pre[g].ref] # 0
    BY <1>l, SemMao DEF CresceCart
  <2> QED BY <2>1 DEF ComId
<1>3. SemSobra'
  <2>1. \A g \in Pre : pre[g].ref # 0 => Guardado(g)'
    BY <1>l, SemMao, GuardadoFica
  <2> QED BY <2>1 DEF SemSobra
<1>4. \A g \in perdidas' : (pre[g].ref # 0 /\ Trocado(pre[g].ref))'
  <2> SUFFICES ASSUME NEW g \in perdidas' PROVE (pre[g].ref # 0 /\ Trocado(pre[g].ref))'
    OBVIOUS
  <2>1. g \in Pre /\ pre[g].ref # 0 /\ Trocado(pre[g].ref)
    BY <1>l DEF SoCart
  <2> QED BY <2>1 DEF Trocado
<1>5. \A a, b \in Vivos' : a = b
  BY DEF SoCart
<1> QED BY <1>1, <1>2, <1>3, <1>4, <1>5 DEF SoCart

\* MP by itself makes nothing, and what it cancelled stays so.
LEMMA MpSo == ASSUME TiposCart, SoCart, MpCartoes PROVE SoCart'
<1>1. /\ CresceCart /\ UNCHANGED <<plano, idMp, agendadas, registrada, perdidas, reqCart>>
      /\ \A g \in Pre : pre'[g].ref = pre[g].ref
  BY TiposMp DEF linhasCart
<1>2. LinhasCart /\ Vivos' = Vivos /\ perdidas \subseteq Pre
  BY <1>1 DEF TiposCart, LinhasCart, Vivos
<1>3. ComId'
  BY <1>1, <1>2 DEF SoCart, ComId
<1>4. SemSobra'
  <2> SUFFICES ASSUME NEW g \in Pre, pre[g].ref # 0
               PROVE  Guardado(g)' \/ \E r \in ReqCart : reqCart[r].pc = "solta" /\ reqCart[r].g = g
    BY <1>1 DEF SemSobra
  <2>1. Guardado(g) => Guardado(g)'
    BY <1>1, <1>2, GuardadoFica
  <2> QED BY <2>1 DEF SoCart, SemSobra
<1>5. \A g \in perdidas' : (pre[g].ref # 0 /\ Trocado(pre[g].ref))'
  BY <1>1, <1>2 DEF SoCart, Trocado
<1>6. ASSUME NEW r \in ReqCart PROVE MaoSoCart(reqCart'[r], plano', idMp', pre', registrada')
  <2> DEFINE q == reqCart[r]
  <2>1. MaoSoCart(q, plano, idMp, pre, registrada)
    BY DEF SoCart
  <2>2. reqCart'[r] = q
    BY <1>1
  <2>3. q.pc = "desiste" => q.a # 0
    BY NumerosCart DEF TiposCart, MaoCart
  <2> HIDE DEF q
  <2>4. q.pc = "desiste" => \A g \in Pre : pre'[g].ref = q.a =>
       pre'[g].status = "cancelled" \/ \E h \in Pre : h # g /\ pre'[h].ref = q.a
    BY <1>1, <2>1, <2>3 DEF MaoSoCart, CresceCart
  <2> QED BY <1>1, <2>1, <2>2, <2>4 DEF MaoSoCart
<1> QED BY <1>2, <1>3, <1>4, <1>5, <1>6 DEF SoCart

\* A handler reads, and the rows stay.
LEMMA LeSo ==
  ASSUME TiposCart, SoCart, NEW r \in ReqCart, OciosoCart(r), NEW q, SegueCart(r, q),
         reqCart[r].pc \notin {"grava", "solta"}, UNCHANGED <<plano, idMp, registrada, perdidas, pre>>,
         MaoSoCart(q, plano, idMp, pre, registrada)
  PROVE  SoCart'
<1>1. CresceCart /\ Vivos' = Vivos
  BY DEF CresceCart, Vivos
<1> QED BY <1>1, RedorSo

LEMMA SoAbrir ==
  ASSUME TiposCart, SoCart, NEW r \in ReqCart, OciosoCart(r),
         AbrirAssinar(r) \/ AbrirDesistencia(r) \/ \E g \in Pre : AbrirEspelho(r, g) \/ AbrirCobranca(r, g)
  PROVE  SoCart'
<1>1. reqCart[r].pc = "livre" /\ UNCHANGED <<plano, idMp, registrada, perdidas, pre>>
  BY DEF AbrirAssinar, AbrirDesistencia, AbrirEspelho, AbrirCobranca, SoLeCart, linhasCart, mpCart, EmCart
<1>2. PICK q : SegueCart(r, q) /\ MaoSoCart(q, plano, idMp, pre, registrada)
  <2>1. CASE AbrirAssinar(r)
    <3>1. CASE Vivos = {} /\ SegueCart(r, [LivreCart EXCEPT !.pc = "pede"])
      <4> DEFINE q == [LivreCart EXCEPT !.pc = "pede"]
      <4>1. q.pc = "pede" /\ \A b \in Pedidos : plano[b] # "ATIVA"
        BY <3>1 DEF LivreCart, Vivos
      <4>2. SegueCart(r, q)
        BY <3>1
      <4> HIDE DEF q
      <4> QED BY <4>1, <4>2 DEF MaoSoCart
    <3>2. ASSUME NEW a \in Vivos, ~Pago(a), SegueCart(r, [LivreCart EXCEPT !.pc = "pede", !.g = idMp[a]])
          PROVE  \E q : SegueCart(r, q) /\ MaoSoCart(q, plano, idMp, pre, registrada)
      <4> DEFINE q == [LivreCart EXCEPT !.pc = "pede", !.g = idMp[a]]
      <4>1. q.pc = "pede" /\ q.g = idMp[a]
        BY DEF LivreCart
      <4>2. \A b \in Pedidos : plano[b] = "ATIVA" => b = a
        BY DEF SoCart, Vivos
      <4>3. SegueCart(r, q) /\ \A g \in Pre : registrada[g] # a
        BY <3>2 DEF Pago
      <4> HIDE DEF q
      <4> QED BY <4>1, <4>2, <4>3 DEF MaoSoCart
    <3>3. ASSUME NEW a \in Vivos,
                 SegueCart(r, [LivreCart EXCEPT !.pc = IF idMp[a] = 0 THEN "cartao" ELSE "solta",
                               !.a = a, !.g = idMp[a]])
          PROVE  \E q : SegueCart(r, q) /\ MaoSoCart(q, plano, idMp, pre, registrada)
      <4> DEFINE pc == IF idMp[a] = 0 THEN "cartao" ELSE "solta"
                 q == [LivreCart EXCEPT !.pc = pc, !.a = a, !.g = idMp[a]]
      <4>p. pc \in {"cartao", "solta"}
        OBVIOUS
      <4>3. SegueCart(r, q) /\ plano[a] = "ATIVA"
        BY <3>3 DEF Vivos
      <4> HIDE DEF pc
      <4>1. q.pc = pc /\ q.a = a /\ q.novo = FALSE
        BY DEF LivreCart
      <4> HIDE DEF q
      <4> QED BY <4>p, <4>1, <4>3 DEF MaoSoCart
    <3> QED BY <2>1, <3>1, <3>2, <3>3 DEF AbrirAssinar, SoLeCart
  <2>2. CASE AbrirDesistencia(r)
    <3>1. PICK a \in Vivos : SegueCart(r, [LivreCart EXCEPT !.a = a, !.g = idMp[a],
            !.pc = IF idMp[a] = 0 THEN "agenda" ELSE IF Pago(a) THEN "pausa" ELSE "cancela"])
      BY <2>2 DEF AbrirDesistencia, SoLeCart
    <3> DEFINE pc == IF idMp[a] = 0 THEN "agenda" ELSE IF Pago(a) THEN "pausa" ELSE "cancela"
               q == [LivreCart EXCEPT !.a = a, !.g = idMp[a], !.pc = pc]
    <3>p. pc \in {"agenda", "pausa", "cancela"} /\ SegueCart(r, q)
      BY <3>1
    <3> HIDE DEF pc
    <3>2. q.pc = pc
      BY DEF LivreCart
    <3> HIDE DEF q
    <3> QED BY <3>p, <3>2 DEF MaoSoCart
  <2>3. ASSUME NEW g \in Pre, AbrirEspelho(r, g)
        PROVE  \E q : SegueCart(r, q) /\ MaoSoCart(q, plano, idMp, pre, registrada)
    <3> DEFINE q == [LivreCart EXCEPT !.pc = "leEspelho", !.g = g, !.st = pre[g].status]
    <3>1. q.pc = "leEspelho" /\ SegueCart(r, q)
      BY <2>3 DEF AbrirEspelho, SoLeCart, LivreCart
    <3> HIDE DEF q
    <3> QED BY <3>1 DEF MaoSoCart
  <2>4. ASSUME NEW g \in Pre, AbrirCobranca(r, g)
        PROVE  \E q : SegueCart(r, q) /\ MaoSoCart(q, plano, idMp, pre, registrada)
    <3> DEFINE q == [LivreCart EXCEPT !.pc = "leCobranca", !.g = g]
    <3>1. q.pc = "leCobranca" /\ SegueCart(r, q)
      BY <2>4 DEF AbrirCobranca, SoLeCart, LivreCart
    <3> HIDE DEF q
    <3> QED BY <3>1 DEF MaoSoCart
  <2> QED BY <2>1, <2>2, <2>3, <2>4
<1> QED BY <1>1, <1>2, LeSo

\* The new request is the only living one, and the card of the one before is in hand.
LEMMA SoPedir == ASSUME TiposCart, SoCart, NEW r \in ReqCart, OciosoCart(r), Pedir(r) PROVE SoCart'
<1>1. PICK a \in Pedidos :
       /\ plano[a] = "INEXISTENTE"
       /\ plano' = [b \in Pedidos |-> IF b = a THEN "ATIVA"
                                      ELSE IF b \in Vivos /\ ~Pago(b) THEN "CANCELADA" ELSE plano[b]]
       /\ SegueCart(r, [reqCart[r] EXCEPT !.pc = IF reqCart[r].g = 0 THEN "cartao" ELSE "solta",
                          !.a = a, !.novo = TRUE])
  BY DEF Pedir
<1>2. UNCHANGED <<idMp, registrada, perdidas, pre>> /\ reqCart[r].pc = "pede"
  BY DEF Pedir, mpCart, EmCart
<1>l. LinhasCart /\ plano \in [Pedidos -> {"INEXISTENTE", "ATIVA", "CANCELADA"}]
  BY DEF TiposCart, LinhasCart
<1>3. \A b \in Pedidos : plano[b] = "ATIVA" => reqCart[r].g = idMp[b] /\ \A g \in Pre : registrada[g] # b
  BY <1>2 DEF SoCart, MaoSoCart
<1>4. Vivos' = {a}
  <2>1. \A b \in Vivos : ~Pago(b)
    BY <1>3 DEF Vivos, Pago
  <2>2. \A b \in Pedidos : plano'[b] = "ATIVA" <=> b = a
    BY <1>1, <1>l, <2>1 DEF Vivos
  <2> QED BY <2>2 DEF Vivos
<1>5. \A g \in Pre : pre[g].ref # 0 => pre[g].ref \in Pedidos /\ pre[g].ref # a
  BY <1>1, <1>l, NumerosCart DEF LinhasCart, IdsCertos
<1>6. \A g \in Pre : pre[g].ref # a
  BY <1>1, <1>5, NumerosCart
<1> DEFINE pc == IF reqCart[r].g = 0 THEN "cartao" ELSE "solta"
           q == [reqCart[r] EXCEPT !.pc = pc, !.a = a, !.novo = TRUE]
<1>7. pc \in {"cartao", "solta"} /\ (reqCart[r].g # 0 => pc = "solta") /\ SegueCart(r, q)
  BY <1>1
<1> HIDE DEF pc
<1>8. q.pc = pc /\ q.a = a /\ q.g = reqCart[r].g
  BY DEF TiposCart, HandlerCart
<1> HIDE DEF q
<1>9. plano'[a] = "ATIVA"
  BY <1>1
<1>10. MaoSoCart(q, plano', idMp', pre', registrada')
  BY <1>2, <1>6, <1>7, <1>8, <1>9 DEF MaoSoCart
<1>11. reqCart'[r] = q /\ \A s \in ReqCart : MaoSoCart(reqCart'[s], plano', idMp', pre', registrada')
  BY <1>7, <1>10, MaosSo
<1>12. ComId'
  BY <1>2, <1>4, <1>6 DEF ComId
<1>13. SemSobra'
  <2> SUFFICES ASSUME NEW g \in Pre, pre[g].ref # 0
               PROVE  Guardado(g)' \/ \E s \in ReqCart : reqCart'[s].pc = "solta" /\ reqCart'[s].g = g
    BY <1>2 DEF SemSobra
  <2>1. Guardado(g)
    BY <1>2, SemMao
  <2>2. pre[g].status = "cancelled" \/ Trocado(pre[g].ref) => Guardado(g)'
    BY <1>2 DEF Guardado, Trocado
  <2>3. CASE pre[g].ref \in Vivos
    <3>1. idMp[pre[g].ref] # 0 /\ reqCart[r].g = idMp[pre[g].ref]
      BY <1>2, <1>3, <2>3, SemMao DEF Vivos
    <3>2. CASE reqCart[r].g = g
      <4>1. q.pc = "solta" /\ q.g = g
        BY <1>7, <1>8, <3>1, <3>2
      <4> QED BY <1>11, <4>1
    <3>3. CASE reqCart[r].g # g
      BY <1>l, <2>2, <3>1, <3>3, OutroCartao
    <3> QED BY <3>2, <3>3
  <2> QED BY <2>1, <2>2, <2>3 DEF Guardado
<1>14. \A g \in perdidas' : (pre[g].ref # 0 /\ Trocado(pre[g].ref))'
  BY <1>2 DEF SoCart, Trocado
<1> QED BY <1>4, <1>11, <1>12, <1>13, <1>14 DEF SoCart

\* The card of before is cancelled.
LEMMA SoSoltar == ASSUME TiposCart, SoCart, NEW r \in ReqCart, OciosoCart(r), Soltar(r) PROVE SoCart'
<1> DEFINE p == reqCart[r]
           q == [p EXCEPT !.pc = "cartao", !.g = 0]
<1>1. /\ p.pc = "solta" /\ SegueCart(r, q) /\ UNCHANGED <<plano, idMp, registrada, perdidas>>
      /\ MudaPre(p.g, "cancelled") \/ (pre[p.g].status = "cancelled" /\ UNCHANGED mpCart)
      /\ UNCHANGED linhasCart
  BY DEF Soltar, EmCart, linhasCart
<1>l. LinhasCart /\ p.g \in Pre /\ pre[p.g].ref # 0
  BY <1>1, NumerosCart DEF TiposCart, MaoCart
<1>2. CresceCart /\ (\A g \in Pre : pre'[g].ref = pre[g].ref) /\ pre'[p.g].status = "cancelled"
  <2>1. CASE MudaPre(p.g, "cancelled")
    BY <1>1, <1>l, <2>1, MudaPreBom DEF StatusPre
  <2>2. CASE pre[p.g].status = "cancelled" /\ UNCHANGED mpCart
    <3>1. pre' = pre
      BY <2>2 DEF mpCart
    <3> QED BY <1>1, <1>l, <2>2, <3>1, ParadoCresce
  <2> QED BY <1>1, <2>1, <2>2
<1>3. q.pc = "cartao" /\ q.a = p.a /\ q.novo = p.novo
  BY DEF TiposCart, HandlerCart
<1>4. p.pc = "solta" /\ MaoSoCart(p, plano, idMp, pre, registrada)
  BY <1>1 DEF SoCart
<1> HIDE DEF q, p
<1>5. MaoSoCart(q, plano', idMp', pre', registrada')
  BY <1>1, <1>2, <1>3, <1>4 DEF MaoSoCart
<1>6. \A s \in ReqCart : MaoSoCart(reqCart'[s], plano', idMp', pre', registrada')
  BY <1>1, <1>5, MaosSo
<1>7. Vivos' = Vivos /\ perdidas \subseteq Pre
  BY <1>1, <1>l DEF Vivos, LinhasCart
<1>8. ComId'
  <2>1. \A g \in Pre : pre[g].ref \in Vivos => idMp[pre[g].ref] # 0
    BY <1>1, SemMao DEF p
  <2> QED BY <1>1, <1>2, <1>7, <2>1 DEF ComId
<1>9. SemSobra'
  <2> SUFFICES ASSUME NEW g \in Pre, pre[g].ref # 0 PROVE Guardado(g)'
    BY <1>2 DEF SemSobra
  <2>1. CASE g = p.g
    BY <1>2, <2>1 DEF Guardado
  <2>2. CASE g # p.g
    <3>1. Guardado(g)
      BY <2>2 DEF SoCart, SemSobra, OciosoCart, EmCart, p
    <3> QED BY <1>2, <1>7, <1>l, <3>1, GuardadoFica
  <2> QED BY <2>1, <2>2
<1>10. \A g \in perdidas' : (pre[g].ref # 0 /\ Trocado(pre[g].ref))'
  BY <1>1, <1>2, <1>7 DEF SoCart, Trocado
<1> QED BY <1>6, <1>7, <1>8, <1>9, <1>10 DEF SoCart

\* The card is made, or refused.
LEMMA SoCriar == ASSUME TiposCart, SoCart, NEW r \in ReqCart, OciosoCart(r), CriarNoMp(r) PROVE SoCart'
<1> DEFINE p == reqCart[r]
<1>1. /\ p.pc = "cartao" /\ p \in HandlerCart /\ p.a \in Pedidos /\ plano[p.a] = "ATIVA"
      /\ (p.novo => \A g \in Pre : pre[g].ref # p.a)
      /\ UNCHANGED <<plano, idMp, registrada, perdidas>> /\ UNCHANGED linhasCart
  BY DEF CriarNoMp, EmCart, TiposCart, MaoCart, SoCart, MaoSoCart, linhasCart
<1>l. LinhasCart /\ Vivos' = Vivos /\ p.a \in Vivos /\ perdidas \subseteq Pre
  BY <1>1 DEF TiposCart, LinhasCart, Vivos
<1>2. ASSUME NEW g \in Pre, CriaPre(p.a, g), SegueCart(r, [p EXCEPT !.pc = "grava", !.g = g])
      PROVE  SoCart'
  <2> DEFINE q == [p EXCEPT !.pc = "grava", !.g = g]
  <2>1. CresceCart /\ pre'[g].ref = p.a /\ pre[g].ref = 0 /\ \A h \in Pre \ {g} : pre'[h] = pre[h]
    BY <1>1, <1>2, <1>l, CriaPreBom
  <2>2. q.pc = "grava" /\ q.a = p.a /\ SegueCart(r, q)
    BY <1>1, <1>2 DEF HandlerCart
  <2> HIDE DEF q
  <2>3. MaoSoCart(q, plano', idMp', pre', registrada')
    BY <2>2 DEF MaoSoCart
  <2>4. reqCart'[r] = q /\ \A s \in ReqCart : MaoSoCart(reqCart'[s], plano', idMp', pre', registrada')
    BY <2>2, <2>3, MaosSo
  <2>5. ComId'
    <3> SUFFICES ASSUME NEW h \in Pre, pre'[h].ref \in Vivos
                 PROVE  idMp'[pre'[h].ref] # 0 \/ \E s \in ReqCart : reqCart'[s].pc = "grava" /\ reqCart'[s].a = pre'[h].ref
      BY <1>l DEF ComId
    <3>1. CASE h = g
      BY <2>1, <2>2, <2>4, <3>1
    <3>2. CASE h # g
      <4>1. pre'[h] = pre[h]
        BY <2>1, <3>2
      <4> QED BY <1>1, <4>1, SemMao
    <3> QED BY <3>1, <3>2
  <2>6. SemSobra'
    <3> SUFFICES ASSUME NEW h \in Pre, pre'[h].ref # 0 PROVE Guardado(h)'
      BY DEF SemSobra
    <3>1. CASE h = g
      BY <1>l, <2>1, <3>1 DEF Guardado
    <3>2. CASE h # g
      <4>1. pre'[h] = pre[h] /\ Guardado(h)
        BY <1>1, <2>1, <3>2, SemMao
      <4> QED BY <1>l, <2>1, <4>1, GuardadoFica
    <3> QED BY <3>1, <3>2
  <2>7. \A h \in perdidas' : (pre[h].ref # 0 /\ Trocado(pre[h].ref))'
    <3> SUFFICES ASSUME NEW h \in perdidas PROVE (pre[h].ref # 0 /\ Trocado(pre[h].ref))'
      BY <1>1
    <3>1. PICK i \in Pre, k \in Pre : i # k /\ pre[i].ref = pre[h].ref /\ pre[k].ref = pre[h].ref
      BY DEF SoCart, Trocado
    <3>3. pre[h].ref # 0
      BY <1>l DEF SoCart
    <3>2. CASE h # g /\ i # g /\ k # g
      <4>1. h \in Pre /\ pre'[h] = pre[h] /\ pre'[i] = pre[i] /\ pre'[k] = pre[k]
        BY <1>l, <2>1, <3>2
      <4>2. pre'[h].ref # 0 /\ i # k /\ pre'[i].ref = pre'[h].ref /\ pre'[k].ref = pre'[h].ref
        BY <3>1, <3>3, <4>1
      <4> QED BY <4>2 DEF Trocado
    <3>4. h # g /\ i # g /\ k # g
      BY <2>1, <3>1, <3>3
    <3> QED BY <3>2, <3>4
  <2> QED BY <1>l, <2>4, <2>5, <2>6, <2>7 DEF SoCart
<1>3. ASSUME UNCHANGED mpCart, DepoisDaRecusa(r) PROVE SoCart'
  <2>1. UNCHANGED <<plano, idMp, registrada, perdidas, pre>>
    BY <1>1, <1>3 DEF mpCart
  <2>2. CASE SegueCart(r, LivreCart)
    <3>1. MaoSoCart(LivreCart, plano, idMp, pre, registrada)
      BY MaoSoLivre DEF LivreCart
    <3> QED BY <1>1, <2>1, <2>2, <3>1, LeSo
  <2>3. CASE p.novo /\ SegueCart(r, [p EXCEPT !.pc = "desiste"])
    <3> DEFINE q == [p EXCEPT !.pc = "desiste"]
    <3>1. q.pc = "desiste" /\ q.a = p.a /\ SegueCart(r, q)
      BY <1>1, <2>3 DEF HandlerCart
    <3> HIDE DEF q
    <3>2. MaoSoCart(q, plano, idMp, pre, registrada)
      BY <1>1, <2>3, <3>1 DEF MaoSoCart
    <3> QED BY <1>1, <2>1, <3>1, <3>2, LeSo
  <2> QED BY <1>3, <2>2, <2>3 DEF DepoisDaRecusa
<1> QED BY <1>2, <1>3 DEF CriarNoMp

\* The id is saved.
LEMMA SoGravar == ASSUME TiposCart, SoCart, NEW r \in ReqCart, OciosoCart(r), Gravar(r) PROVE SoCart'
<1> DEFINE p == reqCart[r]
<1>1. /\ p.pc = "grava" /\ SegueCart(r, LivreCart) /\ idMp' = [idMp EXCEPT ![p.a] = p.g]
      /\ UNCHANGED <<plano, registrada, perdidas, pre>>
  BY DEF Gravar, EmCart, mpCart
<1>l. /\ LinhasCart /\ Vivos' = Vivos /\ perdidas \subseteq Pre /\ p.a \in Pedidos /\ p.g \in Pre /\ p.g # 0
      /\ idMp \in [Pedidos -> 0 .. MaxPre]
  BY <1>1, NaMaoFeita, NumerosCart DEF TiposCart, LinhasCart, Vivos
<1> HIDE DEF p
<1>2. MaoSoCart(LivreCart, plano', idMp', pre', registrada')
  BY MaoSoLivre DEF LivreCart
<1>3. \A s \in ReqCart : MaoSoCart(reqCart'[s], plano', idMp', pre', registrada')
  BY <1>1, <1>2, MaosSo
<1>4. ComId'
  <2> SUFFICES ASSUME NEW g \in Pre, pre[g].ref \in Vivos PROVE idMp'[pre[g].ref] # 0
    BY <1>1, <1>l DEF ComId
  <2>1. idMp[pre[g].ref] # 0 \/ p.a = pre[g].ref
    BY DEF SoCart, ComId, OciosoCart, EmCart, p
  <2>2. pre[g].ref \in Pedidos
    BY DEF Vivos
  <2> QED BY <1>1, <1>l, <2>1, <2>2
<1>5. SemSobra'
  <2>1. \A g \in Pre : pre[g].ref # 0 => Guardado(g)
    BY <1>1, SemMao DEF p
  <2>2. \A g \in Pre : Guardado(g) => Guardado(g)'
    BY <1>1, <1>l DEF Guardado, Trocado
  <2> QED BY <1>1, <2>1, <2>2 DEF SemSobra
<1>6. \A g \in perdidas' : (pre[g].ref # 0 /\ Trocado(pre[g].ref))'
  BY <1>1, <1>l DEF SoCart, Trocado
<1> QED BY <1>3, <1>4, <1>5, <1>6, <1>l DEF SoCart

\* A request ends, and leaves no card that MP will charge.
LEMMA SoDesistir == ASSUME TiposCart, SoCart, NEW r \in ReqCart, OciosoCart(r), DesistirDoPedido(r) PROVE SoCart'
<1> DEFINE p == reqCart[r]
<1>1. /\ p.pc = "desiste" /\ SegueCart(r, LivreCart) /\ plano' = [plano EXCEPT ![p.a] = "CANCELADA"]
      /\ UNCHANGED <<idMp, agendadas, registrada, perdidas, pre, cobradas, avisosPre, avisosCob>>
  BY DEF DesistirDoPedido, EmCart, mpCart
<1>2. p.a \in Pedidos /\ plano[p.a] # "INEXISTENTE" /\ LinhasCart /\ agendadas' \subseteq Pedidos
  BY <1>1 DEF TiposCart, MaoCart, LinhasCart
<1>3. CresceCart /\ Vivos' = Vivos \ {p.a}
  BY <1>1, <1>2, CancelaBom
<1>4. \A g \in Pre : pre[g].ref = p.a => pre[g].status = "cancelled" \/ \E h \in Pre : h # g /\ pre[h].ref = p.a
  BY <1>1 DEF SoCart, MaoSoCart
<1>5. MaoSoCart(LivreCart, plano', idMp', pre', registrada')
  BY MaoSoLivre DEF LivreCart
<1>6. \A g \in Pre : pre[g].ref \in Vivos /\ pre[g].ref \notin Vivos' =>
           pre'[g].status = "cancelled" \/ Trocado(pre[g].ref)
  <2> SUFFICES ASSUME NEW g \in Pre, pre[g].ref = p.a PROVE pre[g].status = "cancelled" \/ Trocado(pre[g].ref)
    BY <1>1, <1>3
  <2> QED BY <1>4 DEF Trocado
<1> QED BY <1>1, <1>3, <1>5, <1>6, RedorSo

LEMMA SoParar == ASSUME TiposCart, SoCart, NEW r \in ReqCart, OciosoCart(r), PararNoMp(r) PROVE SoCart'
<1> DEFINE p == reqCart[r]
<1>1. /\ p.pc \in {"cancela", "pausa"} /\ UNCHANGED linhasCart
      /\ UNCHANGED <<plano, idMp, agendadas, registrada, perdidas>>
  BY DEF PararNoMp, linhasCart
<1>2. p.g \in Pre /\ p.a \in Pedidos /\ pre[p.g].ref = p.a /\ p.a # 0 /\ LinhasCart /\ p \in HandlerCart
  BY <1>1, NaMaoFeita DEF TiposCart
<1>3. Vivos' = Vivos
  BY <1>1 DEF Vivos
<1>4. CASE MudaPre(p.g, IF p.pc = "cancela" THEN "cancelled" ELSE "paused")
           /\ SegueCart(r, [p EXCEPT !.pc = IF p.pc = "cancela" THEN "desiste" ELSE "agenda"])
  <2> DEFINE st == IF p.pc = "cancela" THEN "cancelled" ELSE "paused"
             pc == IF p.pc = "cancela" THEN "desiste" ELSE "agenda"
             q == [p EXCEPT !.pc = pc]
  <2>1. /\ st \in StatusPre \ {"nenhum"} /\ pc \in {"desiste", "agenda"}
        /\ (pc = "desiste" => st = "cancelled")
    BY DEF StatusPre
  <2>2. MudaPre(p.g, st) /\ SegueCart(r, q)
    BY <1>4
  <2> HIDE DEF st, pc
  <2>3. CresceCart /\ pre'[p.g].status = st /\ \A h \in Pre : pre'[h].ref = pre[h].ref
    BY <1>1, <1>2, <2>1, <2>2, MudaPreBom
  <2>4. q.pc = pc /\ q.a = p.a
    BY <1>2 DEF HandlerCart
  <2> HIDE DEF q
  <2>5. MaoSoCart(q, plano', idMp', pre', registrada')
    <3>1. pc = "desiste" => \A g \in Pre : pre'[g].ref = p.a =>
             pre'[g].status = "cancelled" \/ \E h \in Pre : h # g /\ pre'[h].ref = p.a
      BY <1>2, <2>1, <2>3
    <3> QED BY <2>1, <2>4, <3>1 DEF MaoSoCart
  <2> QED BY <1>1, <1>3, <2>2, <2>3, <2>5, RedorSo
<1>5. CASE UNCHANGED mpCart /\ SegueCart(r, [p EXCEPT !.pc = "agenda"])
  <2> DEFINE q == [p EXCEPT !.pc = "agenda"]
  <2>1. q.pc = "agenda" /\ SegueCart(r, q) /\ pre' = pre
    BY <1>2, <1>5 DEF HandlerCart, mpCart
  <2> HIDE DEF q
  <2>2. MaoSoCart(q, plano, idMp, pre, registrada)
    BY <2>1 DEF MaoSoCart
  <2> QED BY <1>1, <2>1, <2>2, LeSo
<1>6. CASE UNCHANGED mpCart /\ SegueCart(r, LivreCart)
  <2>1. MaoSoCart(LivreCart, plano, idMp, pre, registrada) /\ pre' = pre
    BY <1>6, MaoSoLivre DEF LivreCart, mpCart
  <2> QED BY <1>1, <1>6, <2>1, LeSo
<1> QED BY <1>4, <1>5, <1>6 DEF PararNoMp

\* The steps that change no preapproval and end no request.
LEMMA SoOutros ==
  ASSUME TiposCart, SoCart, NEW r \in ReqCart, OciosoCart(r),
         AgendarFim(r) \/ LerEspelho(r) \/ GravarId(r) \/ LerCobranca(r) \/ RegistrarCobranca(r)
  PROVE  SoCart'
<1>v. MaoSoCart(LivreCart, plano', idMp', pre', registrada') /\ MaoSoCart(LivreCart, plano, idMp, pre, registrada)
  BY MaoSoLivre DEF LivreCart
<1>1. CASE AgendarFim(r)
  BY <1>1, <1>v, LeSo DEF AgendarFim, EmCart, mpCart
<1>2. CASE LerEspelho(r)
  <2> DEFINE g == reqCart[r].g
             a == IF DoId(g) = 0 /\ g # 0 THEN pre[g].ref ELSE DoId(g)
  <2>1. LerEspelhoDe(r, a)
    BY <1>2 DEF LerEspelho
  <2> HIDE DEF a
  <2>2. reqCart[r].pc = "leEspelho" /\ UNCHANGED <<plano, idMp, registrada, perdidas, pre>>
    BY <2>1 DEF LerEspelhoDe, EmCart, linhasCart
  <2>3. CASE SegueCart(r, LivreCart)
    BY <1>v, <2>2, <2>3, LeSo
  <2>4. CASE SegueCart(r, [reqCart[r] EXCEPT !.pc = "espelha", !.a = a, !.pago = Pago(a),
                                !.agendada = a \in agendadas, !.semId = idMp[a] = 0])
    <3> DEFINE q == [reqCart[r] EXCEPT !.pc = "espelha", !.a = a, !.pago = Pago(a),
                                !.agendada = a \in agendadas, !.semId = (idMp[a] = 0)]
    <3>1. q.pc = "espelha" /\ SegueCart(r, q)
      BY <2>4 DEF TiposCart, HandlerCart
    <3> HIDE DEF q
    <3>2. MaoSoCart(q, plano, idMp, pre, registrada)
      BY <3>1 DEF MaoSoCart
    <3> QED BY <2>2, <3>1, <3>2, LeSo
  <2> QED BY <2>1, <2>3, <2>4 DEF LerEspelhoDe
<1>3. CASE GravarId(r)
  <2>1. reqCart[r].pc = "gravaId" /\ SegueCart(r, LivreCart) /\ UNCHANGED <<plano, registrada, perdidas, pre>>
    BY <1>3 DEF GravarId, EmCart
  <2>2. CresceCart
    <3>1. reqCart[r].g # 0 /\ idMp \in [Pedidos -> 0 .. MaxPre] /\ reqCart[r].a \in Pedidos
      BY <2>1, NaMaoFeita, NumerosCart DEF TiposCart, LinhasCart
    <3>2. idMp' = [idMp EXCEPT ![reqCart[r].a] = reqCart[r].g]
      BY <1>3 DEF GravarId
    <3>3. \A b \in Pedidos : idMp[b] # 0 => idMp'[b] # 0
      BY <3>1, <3>2
    <3> QED BY <2>1, <3>3 DEF CresceCart
  <2>3. Vivos' = Vivos
    BY <2>1 DEF Vivos
  <2> QED BY <1>v, <2>1, <2>2, <2>3, RedorSo
<1>4. CASE LerCobranca(r)
  <2> DEFINE g == reqCart[r].g
             a == DoId(g)
  <2>1. /\ reqCart[r].pc = "leCobranca" /\ g \in Pre /\ LinhasCart
        /\ UNCHANGED <<plano, idMp, registrada, pre>>
    BY <1>4 DEF LerCobranca, EmCart, TiposCart, MaoCart
  <2>2. CresceCart /\ Vivos' = Vivos
    BY <2>1 DEF CresceCart, Vivos
  <2>3. \A h \in perdidas' : h \in perdidas \/ (h \in Pre /\ pre[h].ref # 0 /\ Trocado(pre[h].ref))
    <3>1. CASE a = 0 /\ pre[g].ref \in Vivos /\ perdidas' = perdidas \cup {g}
      <4>1. pre[g].ref \in Pedidos /\ pre[g].ref # 0 /\ idMp[pre[g].ref] # 0
        BY <2>1, <3>1, NumerosCart, SemMao DEF Vivos
      <4>2. idMp[pre[g].ref] # g
        BY <2>1, <3>1, <4>1, DoIdBom
      <4>3. Trocado(pre[g].ref)
        BY <2>1, <4>1, <4>2, OutroCartao
      <4> QED BY <2>1, <3>1, <4>1, <4>3
    <3>2. perdidas' = perdidas \/ (a = 0 /\ pre[g].ref \in Vivos /\ perdidas' = perdidas \cup {g})
      BY <1>4 DEF LerCobranca
    <3> QED BY <3>1, <3>2
  <2>4. CASE SegueCart(r, LivreCart)
    BY <1>v, <2>1, <2>2, <2>3, <2>4, RedorSo
  <2>5. CASE SegueCart(r, [reqCart[r] EXCEPT !.pc = "registra", !.a = a])
    <3> DEFINE q == [reqCart[r] EXCEPT !.pc = "registra", !.a = a]
    <3>1. q.pc = "registra" /\ SegueCart(r, q)
      BY <2>5 DEF TiposCart, HandlerCart
    <3> HIDE DEF q
    <3>2. MaoSoCart(q, plano', idMp', pre', registrada')
      BY <3>1 DEF MaoSoCart
    <3> QED BY <2>1, <2>2, <2>3, <3>1, <3>2, RedorSo
  <2> QED BY <1>4, <2>4, <2>5 DEF LerCobranca
<1>5. CASE RegistrarCobranca(r)
  <2>1. reqCart[r].pc = "registra" /\ SegueCart(r, LivreCart) /\ UNCHANGED <<plano, idMp, perdidas, pre>>
    BY <1>5 DEF RegistrarCobranca, EmCart
  <2>2. CresceCart /\ Vivos' = Vivos
    BY <2>1 DEF CresceCart, Vivos
  <2> QED BY <1>v, <2>1, <2>2, RedorSo
<1> QED BY <1>1, <1>2, <1>3, <1>4, <1>5

\* What MP cancelled dies, and it was the card of the request or one of many.
LEMMA SoEspelhar == ASSUME TiposCart, SoCart, NEW r \in ReqCart, OciosoCart(r), Espelhar(r) PROVE SoCart'
<1> DEFINE p == reqCart[r]
<1>1. /\ p.pc = "espelha" /\ p.g \in Pre /\ p.a \in Pedidos /\ pre[p.g].ref = p.a /\ p.a # 0
      /\ (p.st = "cancelled" => pre[p.g].status = "cancelled") /\ p \in HandlerCart
  BY NaMaoFeita DEF Espelhar, EmCart, TiposCart, MaoCart
<1>2. UNCHANGED <<idMp, registrada, perdidas, pre>>
  BY DEF Espelhar
<1>3. plano' = plano \/ (p.st = "cancelled" /\ plano' = [plano EXCEPT ![p.a] = "CANCELADA"])
  BY DEF Espelhar
<1>4. SegueCart(r, LivreCart) \/ SegueCart(r, [p EXCEPT !.pc = "gravaId"])
  BY DEF Espelhar
<1>5. plano \in [Pedidos -> {"INEXISTENTE", "ATIVA", "CANCELADA"}]
  BY DEF TiposCart, LinhasCart
<1> HIDE DEF p
<1>6. CresceCart /\ Vivos' \subseteq Vivos /\ (\A b \in Vivos \ Vivos' : b = p.a /\ p.st = "cancelled")
  BY <1>1, <1>2, <1>3, <1>5 DEF CresceCart, Vivos
<1>7. \A g \in Pre : pre[g].ref \in Vivos /\ pre[g].ref \notin Vivos' =>
           pre'[g].status = "cancelled" \/ Trocado(pre[g].ref)
  <2> SUFFICES ASSUME NEW g \in Pre, pre[g].ref = p.a, p.st = "cancelled"
               PROVE  pre[g].status = "cancelled" \/ Trocado(pre[g].ref)
    BY <1>2, <1>6
  <2> QED BY <1>1 DEF Trocado
<1>8. CASE SegueCart(r, LivreCart)
  <2>1. MaoSoCart(LivreCart, plano', idMp', pre', registrada')
    BY MaoSoLivre DEF LivreCart
  <2> QED BY <1>1, <1>2, <1>6, <1>7, <1>8, <2>1, RedorSo DEF p
<1>9. CASE SegueCart(r, [p EXCEPT !.pc = "gravaId"])
  <2> DEFINE q == [p EXCEPT !.pc = "gravaId"]
  <2>1. q.pc = "gravaId" /\ SegueCart(r, q)
    BY <1>1, <1>9 DEF HandlerCart
  <2> HIDE DEF q
  <2>2. MaoSoCart(q, plano', idMp', pre', registrada')
    BY <2>1 DEF MaoSoCart
  <2> QED BY <1>1, <1>2, <1>6, <1>7, <2>1, <2>2, RedorSo DEF p
<1> QED BY <1>4, <1>8, <1>9
-----------------------------------------------------------------------------
InvCartConta == TiposCart /\ (sozinho /\ inteiro => SoCart)

LEMMA InvCartInicio == ASSUME InitConta PROVE InvCartConta
<1>1. TiposCart /\ InitCartoes
  BY CartInit DEF InitConta
<1>2. /\ Vivos = {} /\ (\A g \in Pre : pre[g].ref = 0) /\ perdidas = {}
      /\ \A r \in ReqCart : reqCart[r].pc = "livre"
  BY <1>1 DEF InitCartoes, Vivos, LivreCart
<1>3. \A r \in ReqCart : MaoSoCart(reqCart[r], plano, idMp, pre, registrada)
  BY <1>2, MaoSoLivre
<1>4. SoCart
  BY <1>2, <1>3 DEF SoCart, ComId, SemSobra
<1> QED BY <1>1, <1>4 DEF InvCartConta

LEMMA InvCartPasso == ASSUME InvCartConta, [NextConta]_varsConta PROVE InvCartConta'
<1>t. TiposCart
  BY DEF InvCartConta
<1>1. CASE UNCHANGED varsCartoes
  <2>1. TiposCart'
    BY <1>1, <1>t, TiposCartParado
  <2>2. UNCHANGED <<plano, idMp, registrada, perdidas, pre, reqCart>>
    BY <1>1 DEF varsCartoes, linhasCart, mpCart
  <2>3. SoCart => SoCart'
    BY <2>2 DEF SoCart, ComId, SemSobra, Guardado, Trocado, Vivos
  <2>4. sozinho' /\ inteiro' => sozinho /\ inteiro
    BY SozinhoAntes, InteiroAntes
  <2> QED BY <2>1, <2>3, <2>4 DEF InvCartConta
<1>2. CASE NextCart
  <2>1. ASSUME NEW r \in ReqCart, So(\A s \in ReqCart \ {r} : EmCart(s, "livre")),
               \/ PassoCartoes(r) /\ UNCHANGED inteiro
               \/ FalhaCartoes(r) /\ inteiro' = FALSE
        PROVE  InvCartConta'
    <3>1. TiposCart'
      BY <1>t, <2>1, TiposCartPasso
    <3>2. ASSUME sozinho', inteiro' PROVE SoCart'
      <4>1. sozinho /\ OciosoCart(r)
        BY <2>1, <3>2, SoMenos DEF OciosoCart
      <4>2. inteiro /\ PassoCartoes(r)
        BY <2>1, <3>2
      <4>3. SoCart
        BY <4>1, <4>2 DEF InvCartConta
      <4>4. CASE AbrirAssinar(r) \/ AbrirDesistencia(r) \/ \E g \in Pre : AbrirEspelho(r, g) \/ AbrirCobranca(r, g)
        BY <1>t, <4>1, <4>3, <4>4, SoAbrir
      <4>5. CASE Pedir(r) \/ Soltar(r) \/ CriarNoMp(r) \/ Gravar(r) \/ DesistirDoPedido(r)
        BY <1>t, <4>1, <4>3, <4>5, SoPedir, SoSoltar, SoCriar, SoGravar, SoDesistir
      <4>6. CASE PararNoMp(r) \/ Espelhar(r)
        BY <1>t, <4>1, <4>3, <4>6, SoParar, SoEspelhar
      <4>7. CASE AgendarFim(r) \/ LerEspelho(r) \/ GravarId(r) \/ LerCobranca(r) \/ RegistrarCobranca(r)
        BY <1>t, <4>1, <4>3, <4>7, SoOutros
      <4> QED BY <4>2, <4>4, <4>5, <4>6, <4>7 DEF PassoCartoes
    <3> QED BY <3>1, <3>2 DEF InvCartConta
  <2>2. CASE MpCartoes /\ UNCHANGED <<sozinho, inteiro>>
    BY <1>t, <2>2, TiposMp, MpSo DEF InvCartConta
  <2> QED BY <1>2, <2>1, <2>2 DEF NextCart
<1> QED BY <1>1, <1>2, ContaCartoes

\* What it says of the cards.
LEMMA CartoesCertos == ASSUME InvCartConta PROVE CartaoCerto
<1>t. TiposCart /\ LinhasCart /\ IdsCertos
  BY DEF InvCartConta, TiposCart, LinhasCart
<1>1. \A g \in Autorizadas : g \in Pre /\ pre[g].ref # 0 /\ pre[g].ref \in Pedidos
  BY <1>t, NumerosCart DEF Autorizadas, LinhasCart, IdsCertos
<1>2. \A g \in Autorizadas \ avisosPre : DaConta(g) => idMp[pre[g].ref] = g
  <2> SUFFICES ASSUME NEW g \in Autorizadas \ avisosPre, pre[g].ref \in Vivos, ~Trocado(pre[g].ref)
               PROVE  idMp[pre[g].ref] = g
    BY DEF DaConta
  <2>1. idMp[pre[g].ref] # 0
    BY <1>t, <1>1 DEF LinhasCart, Respondida
  <2> QED BY <1>t, <1>1, <2>1, OutroCartao
<1>3. CartaoReconhecido
  BY <1>2 DEF CartaoReconhecido, InvCartConta, SoCart
<1>4. ASSUME sozinho, inteiro, ParadosCart
      PROVE  CartaoTemPedido /\ ((\A a \in Pedidos : ~Trocado(a)) => Cardinality(Autorizadas) <= 1)
  <2>1. SoCart
    BY <1>4 DEF InvCartConta
  <2>2. \A g \in Autorizadas : (pre[g].ref \in Vivos /\ idMp[pre[g].ref] = g) \/ Trocado(pre[g].ref)
    <3> SUFFICES ASSUME NEW g \in Autorizadas, ~Trocado(pre[g].ref)
                 PROVE  pre[g].ref \in Vivos /\ idMp[pre[g].ref] = g
      OBVIOUS
    <3>1. pre[g].ref \in Vivos
      BY <1>1, <1>4, <2>1 DEF SoCart, SemSobra, Guardado, ParadosCart, EmCart, Autorizadas
    <3>2. idMp[pre[g].ref] # 0
      BY <1>1, <1>4, <2>1, <3>1 DEF SoCart, ComId, ParadosCart, EmCart
    <3> QED BY <1>t, <1>1, <3>1, <3>2, OutroCartao
  <2>3. CartaoTemPedido
    BY <2>2 DEF CartaoTemPedido
  <2>4. ASSUME \A a \in Pedidos : ~Trocado(a) PROVE Cardinality(Autorizadas) <= 1
    <3>1. \A g, h \in Autorizadas : g = h
      BY <1>1, <2>1, <2>2, <2>4 DEF SoCart
    <3>2. CASE Autorizadas = {}
      BY <3>2, FS_EmptySet
    <3>3. ASSUME NEW g \in Autorizadas PROVE Cardinality(Autorizadas) <= 1
      <4>1. Autorizadas = {g}
        BY <3>1, <3>3
      <4> QED BY <4>1, FS_Singleton
    <3> QED BY <3>2, <3>3
  <2> QED BY <2>3, <2>4
<1>5. UmCartaoCobra
  BY <1>4 DEF UmCartaoCobra
<1> QED BY <1>3, <1>5 DEF CartaoCerto

\* However the requests of a card overlap, die or lose an answer, a card whose notifications are
\* answered is known to the living request it is of, if that one never changed its card; those that
\* do not overlap nor fail lose no charge of it, and leave no card charged for a request that is over.
THEOREM CartaoSempreCerto == SpecConta => []CartaoCerto
<1>1. InitConta => InvCartConta
  BY InvCartInicio
<1>2. InvCartConta /\ [NextConta]_varsConta => InvCartConta'
  BY InvCartPasso
<1>3. InvCartConta => CartaoCerto
  BY CartoesCertos
<1> QED BY <1>1, <1>2, <1>3, PTL DEF SpecConta
-----------------------------------------------------------------------------
(* The calendar. *)

LEMMA MenorDosMeses ==
  ASSUME NEW S \in SUBSET Nat, S # {}
  PROVE  \E f \in S : \A g \in S : f <= g
<1> DEFINE R == {p \in Nat \X Nat : p[1] < p[2]}
<1>1. IsWellFoundedOn(R, Nat)
  BY Zenon, NatLessThanWellFounded DEF OpToRel
<1> HIDE DEF R
<1>2. PICK f \in S : \A g \in S : <<g, f>> \notin R
  BY <1>1, WFMin
<1>3. ASSUME NEW g \in S PROVE f <= g
  <2>1. ~(g < f)
    BY <1>2 DEF R
  <2> QED BY <2>1
<1> QED BY <1>3

\* The length of a month, and the leap days before it.
Dura(m) == DiasNoMes(AnoDe(m), m % 12)
Bissextos(m) == {y \in PrimeiroAno .. AnoDe(m) : Bissexto(y) /\ (y < AnoDe(m) \/ m % 12 > 1)}

LEMMA MesEAno ==
  ASSUME NEW m \in Nat
  PROVE  /\ m % 12 \in 0 .. 11 /\ m \div 12 \in Nat /\ m = 12 * (m \div 12) + (m % 12)
         /\ AnoDe(m) = PrimeiroAno + m \div 12 /\ AnoDe(m) \in Nat
         /\ m % 12 # 11 => (m + 1) % 12 = (m % 12) + 1 /\ AnoDe(m + 1) = AnoDe(m)
         /\ m % 12 = 11 => (m + 1) % 12 = 0 /\ AnoDe(m + 1) = AnoDe(m) + 1
<1>1. m % 12 \in 0 .. 11 /\ m \div 12 \in Nat /\ m = 12 * (m \div 12) + (m % 12)
  OBVIOUS
<1>2. m % 12 # 11 => (m + 1) % 12 = (m % 12) + 1 /\ (m + 1) \div 12 = m \div 12
  OBVIOUS
<1>3. ASSUME m % 12 = 11 PROVE (m + 1) % 12 = 0 /\ (m + 1) \div 12 = m \div 12 + 1
  <2> DEFINE a == m \div 12
  <2>1. a \in Nat /\ m + 1 = 12 * (a + 1)
    BY <1>1, <1>3
  <2> HIDE DEF a
  <2>2. (12 * (a + 1)) % 12 = 0 /\ (12 * (a + 1)) \div 12 = a + 1
    BY <2>1
  <2>3. (m + 1) % 12 = 0 /\ (m + 1) \div 12 = a + 1
    BY <2>1, <2>2
  <2> QED BY <2>3 DEF a
<1> QED BY <1>1, <1>2, <1>3, PeriodoAssumption DEF AnoDe

LEMMA DuraBom == ASSUME NEW m \in Nat PROVE Dura(m) \in 28 .. 31
  BY MesEAno DEF Dura, DiasNoMes

LEMMA BissextosBons ==
  ASSUME NEW m \in Nat
  PROVE  /\ IsFiniteSet(Bissextos(m)) /\ Cardinality(Bissextos(m)) \in Nat
         /\ Cardinality(Bissextos(m)) <= m \div 12 + 1
         /\ m % 12 <= 1 => Cardinality(Bissextos(m)) <= m \div 12
<1>0. AnoDe(m) \in Nat /\ PrimeiroAno \in Nat /\ m \div 12 \in Nat /\ AnoDe(m) = PrimeiroAno + m \div 12
      /\ m % 12 \in 0 .. 11
  BY MesEAno, PeriodoAssumption
<1>1. IsFiniteSet(PrimeiroAno .. AnoDe(m)) /\ Cardinality(PrimeiroAno .. AnoDe(m)) = m \div 12 + 1
  BY <1>0, FS_Interval
<1>2. Bissextos(m) \subseteq PrimeiroAno .. AnoDe(m)
  BY DEF Bissextos
<1>3. IsFiniteSet(Bissextos(m)) /\ Cardinality(Bissextos(m)) <= m \div 12 + 1
  BY <1>1, <1>2, FS_Subset
<1>4. Cardinality(Bissextos(m)) \in Nat
  BY <1>3, FS_CardinalityType
<1>5. ASSUME m % 12 <= 1 PROVE Cardinality(Bissextos(m)) <= m \div 12
  <2>1. Bissextos(m) \subseteq PrimeiroAno .. (AnoDe(m) - 1)
    BY <1>0, <1>5 DEF Bissextos
  <2>2. /\ IsFiniteSet(PrimeiroAno .. (AnoDe(m) - 1))
        /\ Cardinality(PrimeiroAno .. (AnoDe(m) - 1)) = m \div 12
    BY <1>0, FS_Interval
  <2> QED BY <2>1, <2>2, FS_Subset
<1> QED BY <1>3, <1>4, <1>5

LEMMA AcumuladoBom ==
  ASSUME NEW i \in 0 .. 11
  PROVE  /\ Acumulado[i + 1] \in Nat /\ 28 * i <= Acumulado[i + 1]
         /\ Acumulado[i + 1] <= 31 * i /\ (i > 1 => Acumulado[i + 1] <= 31 * i - 3)
         /\ i < 11 => Acumulado[i + 2] = Acumulado[i + 1] + (CASE i = 1 -> 28 [] i \in {3, 5, 8, 10} -> 30 [] OTHER -> 31)
         /\ Acumulado[1] = 0 /\ Acumulado[12] = 334
<1>1. i \in {0, 1, 2, 3, 4, 5, 6, 7, 8, 9, 10, 11}
  OBVIOUS
<1> QED BY <1>1 DEF Acumulado

LEMMA PrimeiroBom ==
  ASSUME NEW m \in Nat
  PROVE  PrimeiroDe(m) \in Nat /\ 28 * m <= PrimeiroDe(m) /\ PrimeiroDe(m) <= 31 * m
<1> DEFINE i == m % 12
           a == m \div 12
           c == Cardinality(Bissextos(m))
           k == Acumulado[i + 1]
<1>1. i \in 0 .. 11 /\ a \in Nat /\ m = 12 * a + i
  BY MesEAno
<1>2. c \in Nat /\ c <= a + 1 /\ (i <= 1 => c <= a)
  BY BissextosBons
<1>3. k \in Nat /\ 28 * i <= k /\ k <= 31 * i /\ (i > 1 => k <= 31 * i - 3)
  BY <1>1, AcumuladoBom
<1>4. PrimeiroDe(m) = 365 * a + k + c
  BY DEF PrimeiroDe, Bissextos
<1> HIDE DEF i, a, c, k
<1> QED BY <1>1, <1>2, <1>3, <1>4

\* A month ends where the next one begins.
LEMMA MesSeguinte ==
  ASSUME NEW m \in Nat
  PROVE  PrimeiroDe(m + 1) = PrimeiroDe(m) + Dura(m)
<1> DEFINE i == m % 12
           a == m \div 12
           c == Cardinality(Bissextos(m))
           d == Cardinality(Bissextos(m + 1))
<1>1. i \in 0 .. 11 /\ a \in Nat /\ m = 12 * a + i
  BY MesEAno
<1>2. c \in Nat /\ IsFiniteSet(Bissextos(m))
  BY BissextosBons
<1>3. PrimeiroDe(m) = 365 * a + Acumulado[i + 1] + c
  BY DEF PrimeiroDe, Bissextos
<1>4. PrimeiroDe(m + 1) = 365 * ((m + 1) \div 12) + Acumulado[((m + 1) % 12) + 1] + d
  BY DEF PrimeiroDe, Bissextos
<1>y. AnoDe(m) \in Nat /\ PrimeiroAno \in Nat /\ PrimeiroAno <= AnoDe(m)
  BY MesEAno, PeriodoAssumption
<1>5. CASE i = 11
  <2>1. (m + 1) % 12 = 0 /\ (m + 1) \div 12 = a + 1 /\ AnoDe(m + 1) = AnoDe(m) + 1
    BY <1>5, MesEAno
  <2>2. Bissextos(m + 1) = Bissextos(m)
    BY <1>5, <1>y, <2>1 DEF Bissextos
  <2>3. Dura(m) = 31
    BY <1>5 DEF Dura, DiasNoMes
  <2>4. Acumulado[1] = 0 /\ Acumulado[12] = 334
    BY DEF Acumulado
  <2>5. PrimeiroDe(m) = 365 * a + 334 + c
    BY <1>3, <1>5, <2>4
  <2>6. PrimeiroDe(m + 1) = 365 * (a + 1) + 0 + c
    BY <1>4, <2>1, <2>2, <2>4
  <2> HIDE DEF a, c, d, i
  <2> QED BY <1>1, <1>2, <2>3, <2>5, <2>6
<1>6. CASE i # 11
  <2>1. (m + 1) % 12 = i + 1 /\ (m + 1) \div 12 = a /\ AnoDe(m + 1) = AnoDe(m)
    BY <1>6, MesEAno
  <2>2. /\ Acumulado[i + 1] \in Nat
        /\ Acumulado[i + 2] = Acumulado[i + 1] + (CASE i = 1 -> 28 [] i \in {3, 5, 8, 10} -> 30 [] OTHER -> 31)
    BY <1>1, <1>6, AcumuladoBom
  <2>3. PrimeiroDe(m + 1) = 365 * a + Acumulado[i + 2] + d
    <3>1. (i + 1) + 1 = i + 2
      BY <1>1
    <3> QED BY <1>4, <2>1, <3>1
  <2>4. CASE i = 1
    <3>1. Bissextos(m + 1) = IF Bissexto(AnoDe(m)) THEN Bissextos(m) \cup {AnoDe(m)} ELSE Bissextos(m)
      BY <1>y, <2>1, <2>4 DEF Bissextos
    <3>2. AnoDe(m) \notin Bissextos(m)
      BY <1>y, <2>4 DEF Bissextos
    <3>3. d = IF Bissexto(AnoDe(m)) THEN c + 1 ELSE c
      BY <1>2, <3>1, <3>2, FS_AddElement
    <3>4. Dura(m) = IF Bissexto(AnoDe(m)) THEN 29 ELSE 28
      BY <2>4 DEF Dura, DiasNoMes
    <3>5. Acumulado[i + 2] = Acumulado[i + 1] + 28
      BY <2>2, <2>4
    <3> HIDE DEF a, c, d, i
    <3> QED BY <1>1, <1>2, <1>3, <2>2, <2>3, <3>3, <3>4, <3>5
  <2>5. CASE i # 1
    <3>1. Bissextos(m + 1) = Bissextos(m)
      <4>1. (i + 1 > 1) <=> (i > 1)
        BY <1>1, <2>5
      <4> QED BY <2>1, <4>1 DEF Bissextos
    <3>2. Dura(m) = CASE i \in {3, 5, 8, 10} -> 30 [] OTHER -> 31
      BY <2>5 DEF Dura, DiasNoMes
    <3>3. Acumulado[i + 2] = Acumulado[i + 1] + Dura(m) /\ Dura(m) \in {30, 31}
      BY <2>2, <2>5, <3>2
    <3> HIDE DEF a, c, d, i
    <3> QED BY <1>1, <1>2, <1>3, <2>2, <2>3, <3>1, <3>3 DEF c, d
  <2> QED BY <2>4, <2>5
<1> QED BY <1>5, <1>6

\* A month is over when a later one begins.
LEMMA MesesSobem ==
  ASSUME NEW m \in Nat, NEW n \in Nat, m < n
  PROVE  PrimeiroDe(m) + Dura(m) <= PrimeiroDe(n)
<1> DEFINE C == {k \in Nat : m < k /\ ~(PrimeiroDe(m) + Dura(m) <= PrimeiroDe(k))}
<1>0. PrimeiroDe(m) \in Nat /\ Dura(m) \in Nat
  BY PrimeiroBom, DuraBom
<1>1. ASSUME C # {} PROVE FALSE
  <2>1. PICK k \in C : \A j \in C : k <= j
    BY <1>1, MenorDosMeses
  <2>2. k \in Nat /\ m < k /\ ~(PrimeiroDe(m) + Dura(m) <= PrimeiroDe(k))
    BY <2>1
  <2>3. k # m + 1
    BY <2>2, <1>0, MesSeguinte
  <2>4. k - 1 \in Nat /\ m < k - 1 /\ (k - 1) + 1 = k
    BY <2>2, <2>3
  <2>5. PrimeiroDe(m) + Dura(m) <= PrimeiroDe(k - 1)
    BY <2>1, <2>4
  <2>6. /\ PrimeiroDe(k - 1) \in Nat /\ Dura(k - 1) \in Nat /\ PrimeiroDe(k) \in Nat
        /\ PrimeiroDe(k) = PrimeiroDe(k - 1) + Dura(k - 1)
    <3> DEFINE j == k - 1
    <3> HIDE DEF C
    <3>1. j \in Nat /\ k \in Nat /\ j + 1 = k
      BY <2>2, <2>4
    <3> HIDE DEF j
    <3>2. PrimeiroDe(j) \in Nat /\ Dura(j) \in Nat /\ PrimeiroDe(k) \in Nat
      BY <3>1, PrimeiroBom, DuraBom
    <3>3. PrimeiroDe(j + 1) = PrimeiroDe(j) + Dura(j)
      BY <3>1, MesSeguinte
    <3> QED BY <3>1, <3>2, <3>3 DEF j
  <2> DEFINE p == PrimeiroDe(k)
             o == PrimeiroDe(k - 1)
             e == Dura(k - 1)
             f == PrimeiroDe(m) + Dura(m)
  <2>7. o \in Nat /\ e \in Nat /\ p = o + e /\ f <= o /\ f \in Nat /\ ~(f <= p)
    BY <1>0, <2>2, <2>5, <2>6
  <2> HIDE DEF p, o, e, f
  <2> QED BY <2>7
<1> QED BY <1>1

\* A day is of one month, and MesDe finds it.
LEMMA MesExiste ==
  ASSUME NEW d \in Nat
  PROVE  \E m \in Nat : PrimeiroDe(m) <= d /\ d < PrimeiroDe(m) + Dura(m)
<1> DEFINE C == {k \in Nat : d < PrimeiroDe(k)}
<1>1. d + 1 \in C
  BY PrimeiroBom
<1>2. PICK k \in C : \A j \in C : k <= j
  BY <1>1, MenorDosMeses
<1>3. k \in Nat /\ d < PrimeiroDe(k) /\ k # 0
  BY <1>2, PrimeiroBom
<1>4. k - 1 \in Nat /\ (k - 1) + 1 = k /\ k - 1 \notin C
  BY <1>2, <1>3
<1>5. PrimeiroDe(k - 1) <= d /\ PrimeiroDe(k) = PrimeiroDe(k - 1) + Dura(k - 1)
  BY <1>4, PrimeiroBom, MesSeguinte
<1> QED BY <1>3, <1>4, <1>5

LEMMA MesUnico ==
  ASSUME NEW d \in Nat, NEW m \in Nat, PrimeiroDe(m) <= d, d < PrimeiroDe(m) + Dura(m),
         NEW n \in Nat, PrimeiroDe(n) <= d, d < PrimeiroDe(n) + Dura(n)
  PROVE  m = n
<1>1. PrimeiroDe(m) \in Nat /\ Dura(m) \in Nat /\ PrimeiroDe(n) \in Nat /\ Dura(n) \in Nat
  BY PrimeiroBom, DuraBom
<1>2. m < n => PrimeiroDe(m) + Dura(m) <= PrimeiroDe(n)
  BY MesesSobem
<1>3. n < m => PrimeiroDe(n) + Dura(n) <= PrimeiroDe(m)
  BY MesesSobem
<1> QED BY <1>1, <1>2, <1>3

LEMMA MesPerto ==
  ASSUME NEW d \in Nat, NEW m \in Nat, PrimeiroDe(m) <= d, d < PrimeiroDe(m) + Dura(m)
  PROVE  m \in (d \div 31) .. (d \div 28)
<1>1. 28 * m <= d
  BY PrimeiroBom
<1>2. d < 31 * (m + 1)
  <2>1. PrimeiroDe(m) <= 31 * m /\ PrimeiroDe(m) \in Nat /\ Dura(m) \in 28 .. 31
    BY PrimeiroBom, DuraBom
  <2> QED BY <2>1
<1>3. m <= d \div 28
  BY <1>1
<1>4. d \div 31 <= m
  BY <1>2
<1> QED BY <1>3, <1>4

LEMMA MesDeBom ==
  ASSUME NEW d \in Nat
  PROVE  /\ MesDe(d) \in Nat /\ PrimeiroDe(MesDe(d)) <= d /\ d < PrimeiroDe(MesDe(d)) + Dura(MesDe(d))
         /\ DiaDoMes(d) \in 1 .. Dura(MesDe(d)) /\ d = PrimeiroDe(MesDe(d)) + DiaDoMes(d) - 1
<1> DEFINE P(m) == PrimeiroDe(m) <= d /\ d < PrimeiroDe(m) + DiasNoMes(AnoDe(m), m % 12)
           S == (d \div 31) .. (d \div 28)
<1>1. PICK m \in Nat : PrimeiroDe(m) <= d /\ d < PrimeiroDe(m) + Dura(m)
  BY MesExiste
<1>2. m \in S /\ P(m)
  BY <1>1, MesPerto DEF Dura
<1>3. MesDe(d) = CHOOSE n \in S : P(n)
  BY DEF MesDe
<1> HIDE DEF P
<1>4. MesDe(d) \in S /\ P(MesDe(d))
  BY <1>2, <1>3
<1>5. MesDe(d) \in Nat
  <2>1. \A n \in S : n \in Nat
    BY <1>2
  <2> QED BY <1>4, <2>1
<1>6. PrimeiroDe(MesDe(d)) <= d /\ d < PrimeiroDe(MesDe(d)) + Dura(MesDe(d))
  BY <1>4 DEF P, Dura
<1>7. PrimeiroDe(MesDe(d)) \in Nat /\ Dura(MesDe(d)) \in Nat
  BY <1>5, PrimeiroBom, DuraBom
<1> QED BY <1>5, <1>6, <1>7 DEF DiaDoMes

\* The date of a day number.
LEMMA DataCerta ==
  ASSUME NEW m \in Nat, NEW e \in 1 .. Dura(m)
  PROVE  /\ PrimeiroDe(m) + e - 1 \in Nat
         /\ MesDe(PrimeiroDe(m) + e - 1) = m /\ DiaDoMes(PrimeiroDe(m) + e - 1) = e
<1> DEFINE d == PrimeiroDe(m) + e - 1
<1>1. PrimeiroDe(m) \in Nat /\ Dura(m) \in 28 .. 31
  BY PrimeiroBom, DuraBom
<1>2. d \in Nat /\ PrimeiroDe(m) <= d /\ d < PrimeiroDe(m) + Dura(m)
  BY <1>1
<1> HIDE DEF d
<1>3. MesDe(d) = m
  BY <1>2, MesDeBom, MesUnico
<1>4. DiaDoMes(d) = d - PrimeiroDe(m) + 1
  BY <1>3 DEF DiaDoMes
<1> USE DEF d
<1>5. d - PrimeiroDe(m) + 1 = e
  BY <1>1
<1> QED BY <1>2, <1>3, <1>4, <1>5

\* A period after a day: the same day, or what the month does not have carried into the next one.
LEMMA SomarBom ==
  ASSUME NEW d \in Nat
  PROVE  LET n == MesesDoPeriodo
             m == MesDe(d)
             a == DiaDoMes(d)
             f == SomarPeriodo(d)
         IN /\ f \in Nat /\ d < f /\ n \in {1, 12}
            /\ \/ MesDe(f) = m + n /\ DiaDoMes(f) = a
               \/ /\ MesDe(f) = m + n + 1 /\ DiaDoMes(f) \in 1 .. 3
                  /\ a - DiaDoMes(f) \in 28 .. 30
<1> DEFINE n == MesesDoPeriodo
           m == MesDe(d)
           a == DiaDoMes(d)
           f == SomarPeriodo(d)
           k == m + n
<1>1. n \in {1, 12}
  BY DEF MesesDoPeriodo
<1>2. m \in Nat /\ a \in 1 .. Dura(m) /\ d = PrimeiroDe(m) + a - 1
  BY MesDeBom
<1>3. f = PrimeiroDe(k) + a - 1
  BY DEF SomarPeriodo
<1> HIDE DEF n, m, a, f
<1>4. k \in Nat /\ k + 1 \in Nat /\ m < k
  BY <1>1, <1>2
<1>5. /\ Dura(m) \in 28 .. 31 /\ Dura(k) \in 28 .. 31 /\ Dura(k + 1) \in 28 .. 31
      /\ PrimeiroDe(m) \in Nat /\ PrimeiroDe(k) \in Nat /\ PrimeiroDe(k + 1) = PrimeiroDe(k) + Dura(k)
  BY <1>2, <1>4, DuraBom, PrimeiroBom, MesSeguinte
<1>6. PrimeiroDe(m) + Dura(m) <= PrimeiroDe(k)
  BY <1>2, <1>4, MesesSobem
<1>7. f \in Nat /\ d < f
  BY <1>2, <1>3, <1>5, <1>6
<1>8. CASE a <= Dura(k)
  <2>1. a \in 1 .. Dura(k)
    BY <1>2, <1>5, <1>8
  <2>2. MesDe(f) = k /\ DiaDoMes(f) = a
    BY <1>3, <1>4, <2>1, DataCerta
  <2> QED BY <1>1, <1>7, <2>2 DEF n, m, a, f
<1>9. CASE ~(a <= Dura(k))
  <2> DEFINE e == a - Dura(k)
  <2>1. e \in 1 .. 3 /\ e \in 1 .. Dura(k + 1) /\ f = PrimeiroDe(k + 1) + e - 1 /\ a - e \in 28 .. 30
    BY <1>2, <1>3, <1>5, <1>9
  <2> HIDE DEF e
  <2>2. MesDe(f) = k + 1 /\ DiaDoMes(f) = e
    BY <1>4, <2>1, DataCerta
  <2>3. MesDe(f) = m + n + 1 /\ DiaDoMes(f) \in 1 .. 3 /\ a - DiaDoMes(f) \in 28 .. 30
    BY <2>1, <2>2
  <2> QED BY <1>1, <1>7, <2>3 DEF n, m, a, f
<1> QED BY <1>8, <1>9

\* A due day is the day of the anchor, or that of a month that did not have it, carried over.
NoDia(c, f, t) ==
  \/ MesDe(f) = MesDe(c) + t /\ DiaDoMes(f) = DiaDoMes(c)
  \/ MesDe(f) = MesDe(c) + t + 1 /\ DiaDoMes(f) \in 1 .. 3 /\ DiaDoMes(c) - DiaDoMes(f) \in 28 .. 30

LEMMA DiaBom == ASSUME NEW d \in Nat PROVE MesDe(d) \in Nat /\ DiaDoMes(d) \in 1 .. 31
<1> DEFINE m == MesDe(d)
           e == DiaDoMes(d)
<1>1. m \in Nat /\ e \in 1 .. Dura(m)
  BY MesDeBom
<1> HIDE DEF m, e
<1>2. Dura(m) \in 28 .. 31
  BY <1>1, DuraBom
<1>3. m \in Nat /\ e \in 1 .. 31
  BY <1>1, <1>2
<1> QED BY <1>3 DEF m, e

LEMMA NoDiaInicio == ASSUME NEW d \in Nat PROVE NoDia(d, SomarPeriodo(d), MesesDoPeriodo)
  BY SomarBom DEF NoDia

\* What was carried over once is not carried over again.
LEMMA NoDiaSoma ==
  ASSUME NEW c \in Nat, NEW f \in Nat, NEW t \in Nat, NoDia(c, f, t)
  PROVE  NoDia(c, SomarPeriodo(f), t + MesesDoPeriodo)
<1> DEFINE n == MesesDoPeriodo
           s == SomarPeriodo(f)
           mc == MesDe(c)
           mf == MesDe(f)
           ms == MesDe(s)
           ec == DiaDoMes(c)
           ef == DiaDoMes(f)
           es == DiaDoMes(s)
<1>1. mc \in Nat /\ mf \in Nat /\ ec \in 1 .. 31 /\ ef \in 1 .. 31
  BY DiaBom
<1>2. n \in {1, 12} /\ s \in Nat /\ \/ (ms = mf + n /\ es = ef)
                                    \/ (ms = mf + n + 1 /\ es \in 1 .. 3 /\ ef - es \in 28 .. 30)
  BY SomarBom
<1>3. \/ (mf = mc + t /\ ef = ec)
      \/ (mf = mc + t + 1 /\ ef \in 1 .. 3 /\ ec - ef \in 28 .. 30)
  BY DEF NoDia
<1>4. NoDia(c, s, t + n) <=>
        \/ (ms = mc + (t + n) /\ es = ec)
        \/ (ms = mc + (t + n) + 1 /\ es \in 1 .. 3 /\ ec - es \in 28 .. 30)
  BY DEF NoDia
<1> HIDE DEF n, s, mc, mf, ms, ec, ef, es
<1>5. \/ (ms = mc + (t + n) /\ es = ec)
      \/ (ms = mc + (t + n) + 1 /\ es \in 1 .. 3 /\ ec - es \in 28 .. 30)
  <2>1. CASE mf = mc + t /\ ef = ec
    BY <1>1, <1>2, <2>1
  <2>2. CASE mf = mc + t + 1 /\ ef \in 1 .. 3 /\ ec - ef \in 28 .. 30
    <3>1. ms = mf + n /\ es = ef
      BY <1>1, <1>2, <2>2
    <3>2. ms = mc + (t + n) + 1
      BY <1>1, <1>2, <2>2, <3>1
    <3> QED BY <2>2, <3>1, <3>2
  <2> QED BY <1>3, <2>1, <2>2
<1>6. NoDia(c, s, t + n)
  BY <1>4, <1>5
<1> QED BY <1>6 DEF s, n

\* The due day against the day its months add up to.
LEMMA DerivaBoa ==
  ASSUME NEW c \in Nat, NEW f \in Nat, NEW t \in Nat, NoDia(c, f, t)
  PROVE  f - MesmoDia(c, t) \in 0 .. 3 /\ (DiaDoMes(c) <= 28 => f - MesmoDia(c, t) = 0)
<1> DEFINE m == MesDe(c) + t
           a == DiaDoMes(c)
           L == Dura(m)
           p == PrimeiroDe(m)
           e == DiaDoMes(f)
<1>1. MesDe(c) \in Nat /\ a \in 1 .. 31 /\ m \in Nat
  BY DiaBom
<1>2. MesmoDia(c, t) = p + (IF a > L THEN L ELSE a) - 1
  BY DEF MesmoDia, Dura
<1>3. L \in 28 .. 31 /\ p \in Nat /\ PrimeiroDe(m + 1) = p + L
  <2> HIDE DEF m
  <2> QED BY <1>1, DuraBom, PrimeiroBom, MesSeguinte
<1>4. f = PrimeiroDe(MesDe(f)) + e - 1 /\ e \in 1 .. Dura(MesDe(f))
  BY MesDeBom
<1>5. CASE MesDe(f) = m /\ e = a
  <2>1. f = p + a - 1 /\ a <= L
    <3>1. f = PrimeiroDe(m) + a - 1 /\ a \in 1 .. Dura(m)
      BY <1>4, <1>5
    <3> QED BY <1>3, <3>1
  <2> HIDE DEF m, a, L, p, e
  <2>2. f - MesmoDia(c, t) = 0
    BY <1>1, <1>2, <1>3, <2>1
  <2> QED BY <2>2
<1>6. CASE MesDe(f) = m + 1 /\ e \in 1 .. 3 /\ a - e \in 28 .. 30
  <2>1. f = (p + L) + e - 1
    BY <1>3, <1>4, <1>6
  <2> HIDE DEF m, a, L, p, e
  <2>2. f - MesmoDia(c, t) \in 0 .. 3 /\ ~(a <= 28)
    BY <1>1, <1>2, <1>3, <1>6, <2>1
  <2> QED BY <2>2 DEF a
<1> QED BY <1>5, <1>6 DEF NoDia

-----------------------------------------------------------------------------
InvPer ==
  /\ TypeOKPeriodo /\ ultimoPag < fimPer
  /\ NoDia(ancora, fimPer, pagosPer * MesesDoPeriodo)

LEMMA PerInicio == ASSUME InitPeriodo PROVE InvPer
<1>1. AnosDeInicio \in Nat /\ 12 * AnosDeInicio \in Nat
  BY PeriodoAssumption
<1>2. PrimeiroDe(12 * AnosDeInicio) \in Nat
  BY <1>1, PrimeiroBom
<1>3. ancora \in Nat
  BY <1>2 DEF InitPeriodo
<1>4. /\ fimPer \in Nat /\ ancora < fimPer /\ MesesDoPeriodo \in {1, 12}
      /\ NoDia(ancora, fimPer, MesesDoPeriodo)
  BY <1>3, SomarBom, NoDiaInicio DEF InitPeriodo
<1>5. pagosPer * MesesDoPeriodo = MesesDoPeriodo
  BY <1>4 DEF InitPeriodo
<1>6. TypeOKPeriodo
  BY <1>3, <1>4, PeriodoAssumption DEF InitPeriodo, TypeOKPeriodo
<1> QED BY <1>4, <1>5, <1>6 DEF InvPer, InitPeriodo

LEMMA PerParado == ASSUME InvPer, UNCHANGED varsPeriodo PROVE InvPer'
<1>1. UNCHANGED <<anual, ancora, pagosPer, inicioPer, fimPer, ultimoPag>>
  BY DEF varsPeriodo
<1>2. MesesDoPeriodo' = MesesDoPeriodo
  BY <1>1 DEF MesesDoPeriodo
<1>3. NoDia(ancora', fimPer', pagosPer' * MesesDoPeriodo')
  BY <1>1, <1>2 DEF InvPer
<1> QED BY <1>1, <1>3 DEF InvPer, TypeOKPeriodo, NoDia

\* A payment, whenever it comes.
LEMMA PerPaga ==
  ASSUME InvPer, PagamentoPeriodo
  PROVE  InvPer' /\ fimPer' > ultimoPag' /\ inicioPer' >= fimPer
<1>t. /\ anual \in BOOLEAN /\ ancora \in Nat /\ fimPer \in Nat /\ inicioPer \in Nat /\ ultimoPag \in Nat
      /\ pagosPer \in 1 .. MaxPagamentos /\ MaxPagamentos \in Nat
  BY PeriodoAssumption DEF InvPer, TypeOKPeriodo
<1>1. PICK d \in Atrasos : PagarEm(fimPer + d)
  BY DEF PagamentoPeriodo
<1> DEFINE dia == fimPer + d
           cheio == SomarPeriodo(fimPer)
           n == MesesDoPeriodo
<1>2. dia \in Nat /\ ultimoPag' = dia /\ anual' = anual /\ pagosPer < MaxPagamentos
  BY <1>1, <1>t, PeriodoAssumption DEF PagarEm
<1>3. MesesDoPeriodo' = MesesDoPeriodo /\ n \in {1, 12}
  BY <1>2 DEF MesesDoPeriodo
<1>4. cheio \in Nat /\ fimPer < cheio
  BY <1>t, SomarBom
<1>5. CASE PeriodoPassou(cheio, dia)
  <2>1. inicioPer' = dia /\ fimPer' = SomarPeriodo(dia) /\ ancora' = dia /\ pagosPer' = 1
    BY <1>1, <1>5 DEF PagarEm
  <2>2. SomarPeriodo(dia) \in Nat /\ dia < SomarPeriodo(dia) /\ NoDia(dia, SomarPeriodo(dia), n)
    BY <1>2, SomarBom, NoDiaInicio
  <2>3. cheio <= dia
    BY <1>5 DEF PeriodoPassou
  <2> HIDE DEF dia, cheio, n
  <2>4. NoDia(ancora', fimPer', pagosPer' * n)
    <3>1. 1 * n = n
      BY <1>3
    <3> QED BY <2>1, <2>2, <3>1
  <2>5. fimPer' > ultimoPag' /\ inicioPer' >= fimPer
    BY <1>t, <1>2, <1>4, <2>1, <2>2, <2>3
  <2>6. TypeOKPeriodo'
    BY <1>t, <1>2, <2>1, <2>2 DEF TypeOKPeriodo
  <2>7. NoDia(ancora, fimPer, pagosPer * MesesDoPeriodo)'
    BY <1>3, <2>4 DEF NoDia, n
  <2> QED BY <1>2, <2>1, <2>2, <2>5, <2>6, <2>7 DEF InvPer
<1>6. CASE ~PeriodoPassou(cheio, dia)
  <2>1. inicioPer' = fimPer /\ fimPer' = cheio /\ pagosPer' = pagosPer + 1 /\ ancora' = ancora
    BY <1>1, <1>6 DEF PagarEm
  <2>2. pagosPer * n \in Nat /\ (pagosPer + 1) * n = pagosPer * n + n
    BY <1>t, <1>3
  <2>3. NoDia(ancora, cheio, pagosPer * n + n)
    BY <1>t, <2>2, NoDiaSoma DEF InvPer
  <2>4. dia < cheio
    BY <1>2, <1>4, <1>6 DEF PeriodoPassou
  <2> HIDE DEF dia, cheio, n
  <2>5. NoDia(ancora', fimPer', pagosPer' * n)
    BY <2>1, <2>2, <2>3
  <2>6. fimPer' > ultimoPag' /\ inicioPer' >= fimPer
    BY <1>t, <1>2, <1>4, <2>1, <2>4
  <2>7. TypeOKPeriodo'
    BY <1>t, <1>2, <1>4, <2>1 DEF TypeOKPeriodo
  <2>8. NoDia(ancora, fimPer, pagosPer * MesesDoPeriodo)'
    BY <1>3, <2>5 DEF NoDia, n
  <2> QED BY <2>6, <2>7, <2>8 DEF InvPer
<1> QED BY <1>5, <1>6

LEMMA DerivaCerta == ASSUME InvPer PROVE DerivaLimitada
<1>1. /\ ancora \in Nat /\ fimPer \in Nat /\ pagosPer \in 1 .. MaxPagamentos /\ MaxPagamentos \in Nat
      /\ MesesDoPeriodo \in {1, 12}
  BY PeriodoAssumption DEF InvPer, TypeOKPeriodo, MesesDoPeriodo
<1>2. pagosPer * MesesDoPeriodo \in Nat
  BY <1>1
<1> QED BY <1>1, <1>2, DerivaBoa DEF InvPer, DerivaLimitada, Deriva

LEMMA PerPasso == ASSUME InvPer, [NextConta]_varsConta PROVE InvPer'
  BY ContaPeriodo, PerParado, PerPaga DEF NextPer

\* However many invoices are paid, monthly or yearly, from whatever day on and however late: the due
\* day drifts three days at most and never before its day, and a payment buys only days to come.
THEOREM PeriodoSempreJusto == SpecConta => PeriodoJusto
<1>1. InitConta => InvPer
  BY PerInicio DEF InitConta
<1>2. InvPer /\ [NextConta]_varsConta => InvPer'
  BY PerPasso
<1>3. InvPer => DerivaLimitada
  BY DerivaCerta
<1>4. InvPer /\ [NextConta]_varsConta /\ DerivaLimitada'
        => [<<inicioPer, fimPer>>' # <<inicioPer, fimPer>> =>
             DerivaLimitada' /\ fimPer' > ultimoPag' /\ inicioPer' >= fimPer]_varsPeriodo
  BY ContaPeriodo, PerPaga DEF NextPer
<1> QED BY <1>1, <1>2, <1>3, <1>4, PTL DEF SpecConta, PeriodoJusto
-----------------------------------------------------------------------------
(* The account as a whole. *)

\* The licences' invariant is the one of Licencas, whatever else the account does.
LEMMA LicencasPasso == ASSUME IInv, [NextConta]_varsConta PROVE IInv'
<1>1. CASE NextLicencas
  BY <1>1, NextIInv DEF NextLicencas, Next
<1>2. CASE UNCHANGED vars
  BY <1>2, NextIInv
<1> QED BY <1>1, <1>2, ContaLicencas

\* The components' invariants together hold at the start, and every step of the account keeps them.
TudoConta ==
  /\ IInv /\ InvSessoesConta /\ InvCadastroConta /\ InvDispositivosConta /\ InvAdm
  /\ InvCartConta /\ InvAvConta /\ InvPer

LEMMA TudoInicio == ASSUME InitConta PROVE TudoConta
<1>1. IInv /\ InvPer
  BY InitIInv, PerInicio DEF InitConta
<1>2. InvSessoesConta /\ InvCadastroConta /\ InvDispositivosConta /\ InvAdm
  BY InvSessoesInicio, InvCadastroInicio, InvDispositivosInicio, InvAdmInicio
<1>3. InvCartConta /\ InvAvConta
  BY InvCartInicio, InvAvInicio
<1> QED BY <1>1, <1>2, <1>3 DEF TudoConta

LEMMA TudoPasso == ASSUME TudoConta, [NextConta]_varsConta PROVE TudoConta'
<1>1. IInv' /\ InvPer'
  BY LicencasPasso, PerPasso DEF TudoConta
<1>2. InvSessoesConta' /\ InvCadastroConta' /\ InvDispositivosConta' /\ InvAdm'
  BY InvSessoesPasso, InvCadastroPasso, InvDispositivosPasso, InvAdmPasso DEF TudoConta
<1>3. InvCartConta' /\ InvAvConta'
  BY InvCartPasso, InvAvPasso DEF TudoConta
<1> QED BY <1>1, <1>2, <1>3 DEF TudoConta

\* Types of all that belongs to an account.
THEOREM TiposConta == SpecConta => []TypeOKConta
<1>1. InitConta => TudoConta
  BY TudoInicio
<1>2. TudoConta /\ [NextConta]_varsConta => TudoConta'
  BY TudoPasso
<1>3. ASSUME TudoConta PROVE TypeOKConta
  <2>1. TypeOK /\ TypeOKSessoes /\ TypeOKCadastro
    BY <1>3 DEF TudoConta, IInv, InvSessoesConta, TiposSes, InvSes, InvCadastroConta, IInvCad
  <2>2. TypeOKDispositivos /\ TypeOKAdministradores /\ TypeOKPeriodo
    BY <1>3 DEF TudoConta, InvDispositivosConta, InvDisp, InvAdm, TiposAdm, InvPer
  <2>3. TypeOKCartoes
    BY <1>3 DEF TudoConta, InvCartConta, TiposCart, LinhasCart, TypeOKCartoes
  <2>4. TypeOKAvisos
    BY <1>3, AvisosCertos DEF TudoConta
  <2> QED BY <2>1, <2>2, <2>3, <2>4 DEF TypeOKConta
<1> QED BY <1>1, <1>2, <1>3, PTL DEF SpecConta

\* A step of the account is, of the machines, one of theirs.
LEMMA DispPassa == NextDisp => NextDispositivos
<1> SUFFICES ASSUME NextDisp PROVE NextDispositivos
  OBVIOUS
<1>1. CASE \E r \in ReqDisp : PassoDispositivos(r) /\ So(\A s \in ReqDisp \ {r} : EmDisp(s, "livre"))
  BY <1>1, Zenon DEF NextDispositivos
<1>2. CASE \E t \in TokenApi : VencerToken(t) /\ UNCHANGED sozinho
  BY <1>2, Zenon DEF NextDispositivos
<1> QED BY <1>1, <1>2, Zenon DEF NextDisp

\* However its components run: one active licence, one root of each family of sessions, an e-mail
\* that was proved, and no more machines than those the limit and the handlers at work explain.
THEOREM ContaSempreSegura ==
  SpecConta => [](UmaAtiva /\ RaizUsada /\ EmailProvado /\ EstouroLimitado)
<1>1. InitConta => TudoConta /\ EstouroLimitado
  BY TudoInicio, EstouroInicio DEF InitConta
<1>2. TudoConta /\ EstouroLimitado /\ [NextConta]_varsConta => (TudoConta /\ EstouroLimitado)'
  <2> SUFFICES ASSUME TudoConta, EstouroLimitado, [NextConta]_varsConta
               PROVE  (TudoConta /\ EstouroLimitado)'
    OBVIOUS
  <2>1. TudoConta'
    BY TudoPasso
  <2>2. [NextDispositivos]_varsDispositivos
    BY ContaDispositivos, DispPassa
  <2>3. InvDisp
    BY DEF TudoConta, InvDispositivosConta
  <2>4. EstouroLimitado'
    BY <2>2, <2>3, NextEstouro
  <2> QED BY <2>1, <2>4
<1>3. TudoConta => UmaAtiva /\ RaizUsada /\ EmailProvado
  BY DEF TudoConta, IInv, InvSessoesConta, TiposSes, InvSes, InvCadastroConta, IInvCad
<1> QED BY <1>1, <1>2, <1>3, PTL DEF SpecConta
=============================================================================
