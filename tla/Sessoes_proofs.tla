---------------------------- MODULE Sessoes_proofs ----------------------------
(***************************************************************************)
(* Proofs about Sessoes, for every number of handlers, sessions, links and *)
(* passwords: types, and that a family whose token has turned has a spent  *)
(* first session.  A handler reads its session, awaits, marks it and       *)
(* awaits again before it opens the next one, so the invariant carries     *)
(* what it holds: a session that exists while it looks at one, a spent     *)
(* first session once it has marked its own (the marked session is the     *)
(* first, or, by the property itself, the first was spent before it).      *)
(*                                                                         *)
(* And about Cadastro, the other half of auth.service.ts: a verified       *)
(* account has an address somebody proved to read.                         *)
(***************************************************************************)
EXTENDS Sessoes, Cadastro, FiniteSetTheorems, TLAPS

\* What a handler holds, of n sessions opened and the spent ones in U.
CoerenteSes(q, n, U) ==
  /\ q.pc \in {"le", "conta", "usa", "acusa", "sai", "encerra"} => q.tok \in 1 .. n
  /\ q.pc = "responde" => q.novo \in 1 .. n
  /\ q.pc = "gira" => q.fam \in 1 .. n /\ q.fam \in U

InvSes ==
  /\ TypeOKSessoes
  /\ RaizUsada
  /\ \A t \in 1 .. abertas : familia[t] \in 1 .. abertas
  /\ cookie \in 0 .. abertas
  /\ \A r \in ReqSes : CoerenteSes(reqSes[r], abertas, usadas)

Parada == UNCHANGED <<linhasSes, contaSes, linksSes, cookie, alarme>>

\* An idle handler.
LEMMA LivreSesTipo == LivreSes \in HandlerSes /\ \A n, U : CoerenteSes(LivreSes, n, U)
  BY SessoesAssumption DEF LivreSes, HandlerSes, CoerenteSes, Rodando

\* The invariant holds at the start.
LEMMA InitInvSes == InitSessoes => InvSes
<1> SUFFICES ASSUME InitSessoes PROVE InvSes
  OBVIOUS
<1> USE SessoesAssumption
<1>1. reqSes \in [ReqSes -> HandlerSes]
      /\ \A r \in ReqSes : CoerenteSes(reqSes[r], abertas, usadas)
  BY LivreSesTipo DEF InitSessoes
<1>2. /\ familia \in [Sessao -> 0 .. MaxSessoes] /\ deSenha \in [Sessao -> 0 .. MaxSenha]
      /\ links \in [Link -> {"novo", "vivo", "usado"}] /\ trocas \in [Link -> Nat]
  BY DEF InitSessoes
<1>3. /\ abertas \in 0 .. MaxSessoes /\ senha \in 0 .. MaxSenha /\ cookie \in 0 .. MaxSessoes
      /\ abertas = 0 /\ cookie \in 0 .. abertas
  BY DEF InitSessoes
<1>4. usadas \subseteq Sessao /\ revogadas \subseteq Sessao /\ alarme \subseteq Sessao
  BY DEF InitSessoes
<1>5. bloqueada \in BOOLEAN /\ excluida \in BOOLEAN
  BY Zenon DEF InitSessoes
<1>6. TypeOKSessoes
  BY Zenon, <1>1, <1>2, <1>3, <1>4, <1>5 DEF TypeOKSessoes
<1>7. RaizUsada /\ \A t \in 1 .. abertas : familia[t] \in 1 .. abertas
  BY <1>3 DEF RaizUsada
<1> QED BY Zenon, <1>1, <1>3, <1>6, <1>7 DEF InvSes

\* What a handler holds stays true while sessions are opened and spent.
LEMMA Cresce ==
  ASSUME NEW n \in Nat, NEW m \in Nat, n <= m, NEW U, NEW V, U \subseteq V, NEW q, CoerenteSes(q, n, U)
  PROVE  CoerenteSes(q, m, V)
  BY DEF CoerenteSes

\* One handler moves, sessions are opened and spent: the handlers keep what they hold.
LEMMA HandlersSes ==
  ASSUME InvSes, NEW r \in ReqSes, NEW q \in HandlerSes, CoerenteSes(q, abertas', usadas'),
         SegueSes(r, q), abertas' \in Nat, abertas <= abertas', usadas \subseteq usadas'
  PROVE  reqSes' \in [ReqSes -> HandlerSes]
         /\ \A s \in ReqSes : CoerenteSes(reqSes[s], abertas, usadas)'
<1>1. reqSes' \in [ReqSes -> HandlerSes]
  BY DEF InvSes, TypeOKSessoes, SegueSes
<1>2. ASSUME NEW s \in ReqSes PROVE CoerenteSes(reqSes'[s], abertas', usadas')
  <2>1. CASE s = r
    BY <2>1 DEF InvSes, TypeOKSessoes, SegueSes
  <2>2. CASE s # r
    <3>1. reqSes'[s] = reqSes[s] /\ CoerenteSes(reqSes[s], abertas, usadas) /\ abertas \in Nat
      BY <2>2, SessoesAssumption DEF InvSes, TypeOKSessoes, SegueSes
    <3> QED BY <3>1, Cresce
  <2> QED BY <2>1, <2>2
<1> QED BY <1>1, <1>2

\* A step that opens no session.
LEMMA Muda ==
  ASSUME InvSes, NEW r \in ReqSes, NEW q \in HandlerSes, SegueSes(r, q),
         CoerenteSes(q, abertas, usadas'), UNCHANGED <<abertas, familia, deSenha>>,
         usadas \subseteq usadas', usadas' \subseteq Sessao, revogadas' \subseteq Sessao,
         senha' \in 0 .. MaxSenha, bloqueada' \in BOOLEAN, excluida' \in BOOLEAN,
         links' \in [Link -> {"novo", "vivo", "usado"}], trocas' \in [Link -> Nat],
         cookie' \in 0 .. abertas, alarme' \subseteq Sessao
  PROVE  InvSes'
<1>1. abertas' \in Nat /\ abertas' = abertas /\ abertas \in 0 .. MaxSessoes
  BY SessoesAssumption DEF InvSes, TypeOKSessoes
<1>2. reqSes' \in [ReqSes -> HandlerSes]
      /\ \A s \in ReqSes : CoerenteSes(reqSes[s], abertas, usadas)'
  BY <1>1, HandlersSes
<1>3. RaizUsada' /\ \A t \in 1 .. abertas' : familia'[t] \in 1 .. abertas'
  BY <1>1 DEF InvSes, RaizUsada
<1>4. cookie' \in 0 .. MaxSessoes
  BY <1>1, SessoesAssumption
<1> QED BY <1>1, <1>2, <1>3, <1>4 DEF InvSes, TypeOKSessoes

\* A step that only moves one handler.
LEMMA SoHandlerSes ==
  ASSUME InvSes, NEW r \in ReqSes, NEW q \in HandlerSes, CoerenteSes(q, abertas, usadas),
         SegueSes(r, q), Parada
  PROVE  InvSes'
<1>1. /\ abertas' = abertas /\ familia' = familia /\ deSenha' = deSenha /\ usadas' = usadas
      /\ revogadas' = revogadas /\ senha' = senha /\ bloqueada' = bloqueada
      /\ excluida' = excluida /\ links' = links /\ trocas' = trocas /\ cookie' = cookie /\ alarme' = alarme
  BY DEF Parada, linhasSes, contaSes, linksSes
<1> QED BY <1>1, Muda DEF InvSes, TypeOKSessoes

\* A session is opened: in a family of its own, or in one whose first session is spent.
LEMMA AbreInvSes ==
  ASSUME InvSes, NEW r \in ReqSes, NEW f, f = 0 \/ (f \in 1 .. abertas /\ f \in usadas),
         NEW v \in 0 .. MaxSenha, Abre(r, f, v), UNCHANGED <<contaSes, linksSes, cookie, alarme>>
  PROVE  InvSes'
<1> USE SessoesAssumption
<1> DEFINE t == abertas + 1
           fam == IF f = 0 THEN t ELSE f
           n == [reqSes[r] EXCEPT !.pc = "responde", !.novo = t]
<1>1. /\ t \in Sessao /\ abertas' = t /\ familia' = [familia EXCEPT ![t] = fam]
      /\ deSenha' = [deSenha EXCEPT ![t] = IF f = 0 THEN v ELSE deSenha[f]]
      /\ SegueSes(r, n) /\ usadas' = usadas /\ revogadas' = revogadas
  BY DEF Abre
<1>2. /\ abertas \in Nat /\ t \in 1 .. MaxSessoes /\ t \in Nat /\ abertas <= t
      /\ fam \in 1 .. t /\ (fam # t => fam \in usadas)
  BY <1>1 DEF InvSes, TypeOKSessoes, Sessao
<1>3. n \in HandlerSes /\ CoerenteSes(n, t, usadas)
  <2>1. reqSes[r] \in HandlerSes /\ t \in 0 .. MaxSessoes /\ t \in 1 .. t
    BY <1>2 DEF InvSes, TypeOKSessoes
  <2> HIDE DEF t
  <2>2. n \in HandlerSes /\ n.pc = "responde" /\ n.novo = t
    BY <2>1 DEF HandlerSes
  <2> HIDE DEF n
  <2> QED BY <2>1, <2>2 DEF CoerenteSes
<1>4. deSenha' \in [Sessao -> 0 .. MaxSenha]
  <2>1. f # 0 => f \in Sessao
    BY <1>2 DEF Sessao
  <2> QED BY <1>1, <2>1 DEF InvSes, TypeOKSessoes
<1> HIDE DEF n, fam
<1>5. reqSes' \in [ReqSes -> HandlerSes]
      /\ \A s \in ReqSes : CoerenteSes(reqSes[s], abertas, usadas)'
  BY <1>1, <1>2, <1>3, HandlersSes
<1>6. familia' \in [Sessao -> 0 .. MaxSessoes]
  BY <1>1, <1>2 DEF InvSes, TypeOKSessoes
<1>7. ASSUME NEW u \in 1 .. abertas'
      PROVE  familia'[u] \in 1 .. abertas' /\ (familia'[u] # u => familia'[u] \in usadas')
  <2>1. u \in Sessao /\ (u = t \/ u \in 1 .. abertas)
    BY <1>1, <1>2 DEF Sessao
  <2>2. CASE u = t
    BY <1>1, <1>2, <2>1, <2>2 DEF InvSes, TypeOKSessoes
  <2>3. CASE u \in 1 .. abertas /\ u # t
    <3>1. familia'[u] = familia[u] /\ familia[u] \in 1 .. abertas
          /\ (familia[u] # u => familia[u] \in usadas)
      BY <1>1, <2>1, <2>3 DEF InvSes, TypeOKSessoes, RaizUsada
    <3> QED BY <1>1, <1>2, <3>1
  <2> QED BY <2>1, <2>2, <2>3
<1>8. cookie' \in 0 .. abertas' /\ cookie' \in 0 .. MaxSessoes /\ abertas' \in 0 .. MaxSessoes
  BY <1>1, <1>2 DEF InvSes, TypeOKSessoes
<1>9. TypeOKSessoes'
  <2>1. /\ usadas' = usadas /\ revogadas' = revogadas /\ senha' = senha
        /\ bloqueada' = bloqueada /\ excluida' = excluida /\ links' = links /\ trocas' = trocas /\ alarme' = alarme
    BY <1>1 DEF contaSes, linksSes
  <2> QED BY <1>4, <1>5, <1>6, <1>8, <2>1 DEF InvSes, TypeOKSessoes
<1> QED BY <1>5, <1>7, <1>8, <1>9 DEF InvSes, RaizUsada

\* Every step of a handler keeps it.
LEMMA PassoInvSes ==
  ASSUME InvSes, NEW r \in ReqSes, PassoSessoes(r) \/ FalhaSessoes(r)
  PROVE  InvSes'
<1> USE SessoesAssumption DEF EmSes, VaiSes
<1> DEFINE q == reqSes[r]
<1>0. /\ q \in HandlerSes /\ CoerenteSes(q, abertas, usadas)
      /\ LivreSes \in HandlerSes /\ \A n, U : CoerenteSes(LivreSes, n, U)
  BY LivreSesTipo DEF InvSes, TypeOKSessoes
<1>tipos. /\ abertas \in 0 .. MaxSessoes /\ abertas \in Nat /\ 1 .. abertas \subseteq Sessao
          /\ familia \in [Sessao -> 0 .. MaxSessoes]
          /\ usadas \subseteq Sessao /\ revogadas \subseteq Sessao
          /\ senha \in 0 .. MaxSenha /\ bloqueada \in BOOLEAN /\ excluida \in BOOLEAN
          /\ links \in [Link -> {"novo", "vivo", "usado"}] /\ trocas \in [Link -> Nat]
          /\ cookie \in 0 .. abertas /\ alarme \subseteq Sessao
          /\ \A t \in 1 .. abertas : familia[t] \in 1 .. abertas
          /\ \A t \in 1 .. abertas : familia[t] # t => familia[t] \in usadas
  BY DEF InvSes, TypeOKSessoes, RaizUsada, Sessao
\* the steps that only go on to the next await, with what they hold
<1>pc. ASSUME NEW pc \in {"livre", "entra", "abre", "nega", "emite", "cria", "marca", "grava",
                          "derruba", "bloqueia", "libera", "despede", "exclui"},
              SegueSes(r, [q EXCEPT !.pc = pc]), Parada
       PROVE  InvSes'
  <2> DEFINE n == [q EXCEPT !.pc = pc]
  <2>1. n \in HandlerSes /\ CoerenteSes(n, abertas, usadas)
    BY <1>0 DEF HandlerSes, CoerenteSes
  <2> HIDE DEF n
  <2> QED BY <1>pc, <2>1, SoHandlerSes DEF n
<1>tok. ASSUME NEW pc \in {"conta", "usa", "acusa", "encerra"}, q.tok \in 1 .. abertas,
               SegueSes(r, [q EXCEPT !.pc = pc]), Parada
        PROVE  InvSes'
  <2> DEFINE n == [q EXCEPT !.pc = pc]
  <2>1. n \in HandlerSes /\ CoerenteSes(n, abertas, usadas)
    BY <1>0, <1>tok DEF HandlerSes, CoerenteSes, Rodando
  <2> HIDE DEF n
  <2> QED BY <1>tok, <2>1, SoHandlerSes DEF n
<1>livre. ASSUME SegueSes(r, LivreSes), Parada PROVE InvSes'
  BY <1>0, <1>livre, SoHandlerSes
<1> USE DEF Parada
<1>1. CASE Autenticar(r)
  <2> DEFINE n == [LivreSes EXCEPT !.pc = "abre", !.versao = senha]
  <2>1. n \in HandlerSes /\ n.pc = "abre"
    BY <1>0, <1>tipos DEF HandlerSes
  <2>2. SegueSes(r, n)
    BY <1>1 DEF Autenticar
  <2> HIDE DEF n
  <2>3. CoerenteSes(n, abertas, usadas)
    BY <2>1 DEF CoerenteSes
  <2> QED BY <1>1, <2>1, <2>2, <2>3, SoHandlerSes DEF Autenticar
<1>2. CASE AbrirSessao(r)
  <2> DEFINE v == q.versao
  <2>1. v \in 0 .. MaxSenha
    BY <1>0 DEF HandlerSes
  <2>2. Abre(r, 0, v) /\ UNCHANGED <<contaSes, linksSes, cookie, alarme>>
    BY <1>2 DEF AbrirSessao
  <2> HIDE DEF v
  <2> QED BY <2>1, <2>2, AbreInvSes
<1>3. CASE Responder(r)
  <2>1. cookie' \in 0 .. abertas
    BY <1>0, <1>3, <1>tipos DEF Responder, CoerenteSes
  <2>2. SegueSes(r, LivreSes) /\ UNCHANGED <<linhasSes, contaSes, linksSes, alarme>>
    BY <1>3 DEF Responder
  <2> QED BY <1>0, <1>tipos, <2>1, <2>2, Muda DEF linhasSes, contaSes, linksSes
<1>4. CASE PedirRenovacao(r) \/ PedirSaida(r)
  <2>1. cookie \in 1 .. abertas /\ cookie \in 0 .. MaxSessoes /\ Parada
    BY <1>4, <1>tipos DEF PedirRenovacao, PedirSaida
  <2>2. PICK pc \in {"le", "sai"} : SegueSes(r, [LivreSes EXCEPT !.pc = pc, !.tok = cookie])
    BY <1>4 DEF PedirRenovacao, PedirSaida
  <2> DEFINE n == [LivreSes EXCEPT !.pc = pc, !.tok = cookie]
  <2>3. n.pc = pc /\ n.tok = cookie
    BY DEF LivreSes
  <2>4. n \in HandlerSes
    BY <1>0, <2>1 DEF HandlerSes, Rodando
  <2>5. SegueSes(r, n)
    BY <2>2
  <2> HIDE DEF n
  <2>6. CoerenteSes(n, abertas, usadas)
    BY <2>1, <2>3 DEF CoerenteSes
  <2> QED BY <2>1, <2>4, <2>5, <2>6, SoHandlerSes
<1>5. CASE LerSessao(r)
  <2>1. q.tok \in 1 .. abertas
    BY <1>0, <1>5 DEF LerSessao, CoerenteSes
  <2>2. \E pc \in {"nega", "acusa", "conta"} : SegueSes(r, [q EXCEPT !.pc = pc])
    BY <1>5 DEF LerSessao
  <2> QED BY <1>5, <1>pc, <1>tok, <2>1, <2>2 DEF LerSessao
<1>6. CASE Acusar(r)
  <2> DEFINE n == [q EXCEPT !.pc = "nega"]
             f == familia[q.tok]
  <2>1. n \in HandlerSes /\ CoerenteSes(n, abertas, usadas) /\ f \in Sessao /\ DaFamilia(f) \subseteq Sessao
    BY <1>0, <1>6, <1>tipos DEF Acusar, HandlerSes, CoerenteSes, DaFamilia
  <2>2. /\ SegueSes(r, n) /\ revogadas' = revogadas \cup DaFamilia(f) /\ alarme' = alarme \cup {f}
        /\ UNCHANGED <<abertas, familia, usadas, deSenha, contaSes, linksSes, cookie>>
    BY <1>6 DEF Acusar
  <2> HIDE DEF n, f
  <2> QED BY <1>tipos, <2>1, <2>2, Muda DEF contaSes, linksSes
<1>7. CASE LerContaSes(r)
  <2>1. q.tok \in 1 .. abertas
    BY <1>0, <1>7 DEF LerContaSes, CoerenteSes
  <2>2. \E pc \in {"nega", "usa"} : SegueSes(r, [q EXCEPT !.pc = pc])
    BY <1>7 DEF LerContaSes
  <2> QED BY <1>7, <1>pc, <1>tok, <2>1, <2>2 DEF LerContaSes
\* the session spent is the first of its family, or the first was spent before it
<1>8. CASE MarcarUsada(r)
  <2> DEFINE f == familia[q.tok]
             n == [q EXCEPT !.pc = "gira", !.fam = f]
  <2>1. q.tok \in 1 .. abertas
    BY <1>0, <1>8 DEF MarcarUsada, CoerenteSes
  <2>2. /\ SegueSes(r, n) /\ usadas' = usadas \cup {q.tok}
        /\ UNCHANGED <<abertas, familia, revogadas, deSenha, contaSes, linksSes, cookie, alarme>>
    BY <1>8 DEF MarcarUsada
  <2>3. f \in 1 .. abertas /\ f \in usadas' /\ f \in 0 .. MaxSessoes
    BY <1>tipos, <2>1, <2>2
  <2>4. usadas \subseteq usadas' /\ usadas' \subseteq Sessao
    BY <1>tipos, <2>1, <2>2
  <2> HIDE DEF f
  <2>5. n \in HandlerSes /\ n.pc = "gira" /\ n.fam = f
    BY <1>0, <2>3 DEF HandlerSes, Rodando
  <2> HIDE DEF n
  <2>6. CoerenteSes(n, abertas, usadas')
    BY <2>3, <2>5 DEF CoerenteSes
  <2> QED BY <1>tipos, <2>2, <2>4, <2>5, <2>6, Muda DEF contaSes, linksSes
<1>9. CASE Girar(r)
  BY <1>0, <1>9, AbreInvSes DEF Girar, CoerenteSes
<1>10. CASE Negar(r)
  BY <1>0, <1>10, <1>tipos, Muda DEF Negar, linhasSes, contaSes, linksSes
<1>11. CASE LerSaida(r)
  <2>1. q.tok \in 1 .. abertas
    BY <1>0, <1>11 DEF LerSaida, CoerenteSes
  <2>2. \E pc \in {"nega", "encerra"} : SegueSes(r, [q EXCEPT !.pc = pc])
    BY <1>11 DEF LerSaida
  <2> QED BY <1>11, <1>pc, <1>tok, <2>1, <2>2 DEF LerSaida
<1>12. CASE EncerrarFamilia(r)
  <2> DEFINE n == [q EXCEPT !.pc = "nega"]
             D == DaFamilia(familia[q.tok])
  <2>1. n \in HandlerSes /\ CoerenteSes(n, abertas, usadas) /\ D \subseteq Sessao
    BY <1>0, <1>tipos DEF HandlerSes, CoerenteSes, DaFamilia
  <2>2. /\ SegueSes(r, n) /\ revogadas' = revogadas \cup D
        /\ UNCHANGED <<abertas, familia, usadas, deSenha, contaSes, linksSes, cookie, alarme>>
    BY <1>12 DEF EncerrarFamilia
  <2> HIDE DEF n, D
  <2> QED BY <1>tipos, <2>1, <2>2, Muda DEF contaSes, linksSes
<1>13. CASE RecuperarSenha(r)
  <2> DEFINE n == [LivreSes EXCEPT !.pc = "emite"]
  <2>1. n \in HandlerSes /\ CoerenteSes(n, abertas, usadas)
    BY <1>0 DEF HandlerSes, CoerenteSes
  <2> HIDE DEF n
  <2> QED BY <1>13, <2>1, SoHandlerSes DEF RecuperarSenha, n
<1>14. CASE GastarLinks(r)
  <2> DEFINE n == [q EXCEPT !.pc = "cria"]
  <2>1. n \in HandlerSes /\ CoerenteSes(n, abertas, usadas)
    BY <1>0 DEF HandlerSes, CoerenteSes
  <2>2. SegueSes(r, n) /\ links' \in [Link -> {"novo", "vivo", "usado"}]
        /\ UNCHANGED <<linhasSes, contaSes, trocas, cookie, alarme>>
    BY <1>14, <1>tipos DEF GastarLinks
  <2> HIDE DEF n
  <2> QED BY <1>tipos, <2>1, <2>2, Muda DEF linhasSes, contaSes
<1>15. CASE CriarLink(r)
  <2>1. SegueSes(r, LivreSes) /\ links' \in [Link -> {"novo", "vivo", "usado"}]
        /\ UNCHANGED <<linhasSes, contaSes, trocas, cookie, alarme>>
    BY <1>15, <1>tipos DEF CriarLink
  <2> QED BY <1>0, <1>tipos, <2>1, Muda DEF linhasSes, contaSes
<1>16. ASSUME NEW k \in Link, SeguirLink(r, k) PROVE InvSes'
  <2> DEFINE n == [LivreSes EXCEPT !.pc = "marca", !.link = k]
  <2>0. k \in 0 .. MaxLinks
    BY DEF Link
  <2>1. n \in HandlerSes /\ n.pc = "marca"
    BY <1>0, <2>0 DEF HandlerSes
  <2>2. SegueSes(r, n) /\ Parada
    BY <1>16 DEF SeguirLink
  <2> HIDE DEF n
  <2>3. CoerenteSes(n, abertas, usadas)
    BY <2>1 DEF CoerenteSes
  <2> QED BY <2>1, <2>2, <2>3, SoHandlerSes
<1>17. CASE MarcarLink(r)
  <2> DEFINE n == [q EXCEPT !.pc = "grava"]
  <2>1. n \in HandlerSes /\ CoerenteSes(n, abertas, usadas)
    BY <1>0 DEF HandlerSes, CoerenteSes
  <2>2. SegueSes(r, n) /\ links' \in [Link -> {"novo", "vivo", "usado"}]
        /\ UNCHANGED <<linhasSes, contaSes, trocas, cookie, alarme>>
    BY <1>17, <1>tipos DEF MarcarLink
  <2> HIDE DEF n
  <2> QED BY <1>tipos, <2>1, <2>2, Muda DEF linhasSes, contaSes
<1>18. CASE AlterarSenha(r)
  <2> DEFINE n == [LivreSes EXCEPT !.pc = "grava", !.volta = TRUE]
  <2>1. n \in HandlerSes /\ CoerenteSes(n, abertas, usadas)
    BY <1>0 DEF HandlerSes, CoerenteSes
  <2> HIDE DEF n
  <2> QED BY <1>18, <2>1, SoHandlerSes DEF AlterarSenha, n
<1>19. CASE GravarSenha(r)
  <2> DEFINE v == senha + 1
             n == [q EXCEPT !.pc = "derruba", !.versao = v]
  <2>1. v \in 0 .. MaxSenha /\ senha' = v /\ SegueSes(r, n)
    BY <1>19, <1>tipos DEF GravarSenha
  <2>2. trocas' \in [Link -> Nat] /\ UNCHANGED <<linhasSes, bloqueada, excluida, links, cookie, alarme>>
    BY <1>19, <1>tipos DEF GravarSenha
  <2> HIDE DEF v
  <2>3. n \in HandlerSes /\ CoerenteSes(n, abertas, usadas)
    BY <1>0, <2>1 DEF HandlerSes, CoerenteSes
  <2> HIDE DEF n
  <2> QED BY <1>tipos, <2>1, <2>2, <2>3, Muda DEF linhasSes
<1>20. CASE DerrubarTudo(r)
  <2> DEFINE n == IF q.volta THEN [q EXCEPT !.pc = "entra"] ELSE LivreSes
  <2>1. n \in HandlerSes /\ CoerenteSes(n, abertas, usadas)
    BY <1>0 DEF HandlerSes, CoerenteSes
  <2>2. SegueSes(r, n) /\ revogadas' = revogadas \cup 1 .. abertas
        /\ UNCHANGED <<abertas, familia, usadas, deSenha, contaSes, linksSes, cookie, alarme>>
    BY <1>20 DEF DerrubarTudo
  <2> HIDE DEF n
  <2> QED BY <1>tipos, <2>1, <2>2, Muda DEF contaSes, linksSes
<1>21. CASE Reentrar(r)
  BY <1>21, <1>pc, <1>livre DEF Reentrar
<1>22. ASSUME NEW b \in BOOLEAN, AlterarConta(r, b) PROVE InvSes'
  BY <1>22, <1>pc DEF AlterarConta
<1>23. CASE GravarConta(r)
  <2> DEFINE b == q.pc = "bloqueia"
             n == IF b THEN [LivreSes EXCEPT !.pc = "derruba"] ELSE LivreSes
  <2>1. n \in HandlerSes /\ CoerenteSes(n, abertas, usadas)
    BY <1>0 DEF HandlerSes, CoerenteSes
  <2>2. SegueSes(r, n) /\ bloqueada' \in BOOLEAN /\ excluida' = excluida
        /\ UNCHANGED <<linhasSes, senha, linksSes, cookie, alarme>>
    BY <1>23, <1>tipos DEF GravarConta
  <2> HIDE DEF n
  <2> QED BY <1>tipos, <2>1, <2>2, Muda DEF linhasSes, linksSes
<1>24. CASE FalhaSessoes(r)
  BY <1>24, <1>pc, <1>livre DEF FalhaSessoes, PerderSes, FalharRenovacao
<1>25. CASE PedirExclusao(r)
  BY <1>25, <1>pc DEF PedirExclusao
<1>26. CASE DespedirSessoes(r)
  <2> DEFINE n == [q EXCEPT !.pc = "exclui"]
  <2>1. n \in HandlerSes /\ CoerenteSes(n, abertas, usadas)
    BY <1>0 DEF HandlerSes, CoerenteSes
  <2>2. SegueSes(r, n) /\ revogadas' = revogadas \cup 1 .. abertas
        /\ UNCHANGED <<abertas, familia, usadas, deSenha, contaSes, linksSes, cookie, alarme>>
    BY <1>26 DEF DespedirSessoes
  <2> HIDE DEF n
  <2> QED BY <1>tipos, <2>1, <2>2, Muda DEF contaSes, linksSes
<1>27. CASE ExcluirLinha(r)
  <2> DEFINE n == [q EXCEPT !.pc = "nega"]
  <2>1. n \in HandlerSes /\ CoerenteSes(n, abertas, usadas)
    BY <1>0 DEF HandlerSes, CoerenteSes
  <2>2. SegueSes(r, n) /\ bloqueada' \in BOOLEAN /\ excluida' \in BOOLEAN
        /\ UNCHANGED <<linhasSes, senha, linksSes, cookie, alarme>>
    BY <1>27 DEF ExcluirLinha
  <2> HIDE DEF n
  <2> QED BY <1>tipos, <2>1, <2>2, Muda DEF linhasSes, linksSes
<1> QED BY <1>1, <1>2, <1>3, <1>4, <1>5, <1>6, <1>7, <1>8, <1>9, <1>10, <1>11, <1>12, <1>13,
           <1>14, <1>15, <1>16, <1>17, <1>18, <1>19, <1>20, <1>21, <1>22, <1>23, <1>24,
           <1>25, <1>26, <1>27
        DEF PassoSessoes

\* Every step keeps it.
LEMMA NextInvSes == InvSes /\ [NextSessoes]_varsSessoes => InvSes'
<1> SUFFICES ASSUME InvSes, [NextSessoes]_varsSessoes PROVE InvSes'
  OBVIOUS
<1>1. CASE UNCHANGED varsSessoes
  BY <1>1 DEF varsSessoes, linhasSes, contaSes, linksSes, InvSes, TypeOKSessoes, RaizUsada
<1> QED BY <1>1, PassoInvSes DEF NextSessoes

\* Type correctness of the sessions, the links and the handlers.
THEOREM TiposSessoes == SpecSessoes => []TypeOKSessoes
<1>1. InvSes => TypeOKSessoes
  BY DEF InvSes
<1> QED BY <1>1, InitInvSes, NextInvSes, PTL DEF SpecSessoes

\* However refreshes, sign-outs, password changes, lost answers and restarts interleave, a
\* family that turned has a spent first session.
THEOREM RaizSempreUsada == SpecSessoes => []RaizUsada
<1>1. InvSes => RaizUsada
  BY DEF InvSes
<1> QED BY <1>1, InitInvSes, NextInvSes, PTL DEF SpecSessoes

-----------------------------------------------------------------------------
(* Cadastro.  Verifying writes by id, on whatever address the account has by then.  It is the  *)
(* address the letter went to, because only a confirmed change gives another, and verifies the *)
(* account with it: an account that is not verified still has the address it was born with, or *)
(* none, and every letter that verifies went there.                                            *)

\* The address of c is e, or it does not matter any more.
Original(c, e, E, V) == c \in V \/ E[c] \in {e, Nada}

\* What a handler of Cadastro holds, of the accounts in C, with addresses E, of which those in V
\* are verified, and the letters in S followed.
Tem(q, C, E, V, S) ==
  /\ q.pc # "livre" => q.conta \in ContaCad
  /\ q.pc \notin {"livre", "exclui"} => q.para \in Endereco
  /\ q.pc \notin {"livre", "cria"} => q.conta \in C
  /\ q.pc \in {"marca", "verifica", "confere", "troca"} => <<q.conta, q.para>> \in S
  /\ \/ q.pc \in {"gasta", "emite", "marca"} /\ q.tipo = "VERIFICAR_EMAIL"
     \/ q.pc = "verifica"
     => Original(q.conta, q.para, E, V)

IInvCad ==
  /\ TypeOKCadastro
  /\ EmailProvado
  /\ verificadas \subseteq contas
  /\ \A c \in contas \ excluidas : email[c] \in Endereco
  /\ IsFiniteSet(cartas)
  /\ \A l \in cartas :
       /\ l.conta \in contas
       /\ l.tipo = "VERIFICAR_EMAIL" => Original(l.conta, l.para, email, verificadas)
  /\ \A r \in ReqCad : Tem(reqCad[r], contas, email, verificadas, seguidas)

\* An idle handler.
LEMMA LivreCadTipo == LivreCad \in HandlerCad /\ \A C, E, V, S : Tem(LivreCad, C, E, V, S)
  BY CartasAssumption DEF LivreCad, HandlerCad, TipoCarta, Tem

\* The invariant holds at the start.
LEMMA InitIInvCad == InitCadastro => IInvCad
<1> SUFFICES ASSUME InitCadastro PROVE IInvCad
  OBVIOUS
<1>1. reqCad \in [ReqCad -> HandlerCad]
      /\ \A r \in ReqCad : Tem(reqCad[r], contas, email, verificadas, seguidas)
  BY LivreCadTipo DEF InitCadastro
<1>2. IsFiniteSet(cartas)
  BY FS_EmptySet DEF InitCadastro
<1> QED BY <1>1, <1>2 DEF InitCadastro, IInvCad, TypeOKCadastro, EmailProvado

\* Nothing a handler holds of the accounts is undone: they stay, what was followed stays, and
\* who is not verified keeps the address.
Fica ==
  /\ contas \subseteq contas' /\ seguidas \subseteq seguidas'
  /\ \A c \in contas, e \in Endereco :
       Original(c, e, email, verificadas) => Original(c, e, email', verificadas')

\* One handler moves, and nothing is undone: the handlers keep what they hold.
LEMMA HandlersCad ==
  ASSUME IInvCad, NEW r \in ReqCad, NEW q \in HandlerCad, SegueCad(r, q), Fica,
         Tem(q, contas', email', verificadas', seguidas')
  PROVE  reqCad' \in [ReqCad -> HandlerCad]
         /\ \A s \in ReqCad : Tem(reqCad[s], contas, email, verificadas, seguidas)'
<1>1. reqCad' \in [ReqCad -> HandlerCad]
  BY DEF IInvCad, TypeOKCadastro, SegueCad
<1>2. ASSUME NEW s \in ReqCad PROVE Tem(reqCad'[s], contas', email', verificadas', seguidas')
  <2>1. CASE s = r
    BY <2>1 DEF IInvCad, TypeOKCadastro, SegueCad
  <2>2. CASE s # r
    <3>1. reqCad'[s] = reqCad[s] /\ Tem(reqCad[s], contas, email, verificadas, seguidas)
          /\ reqCad[s] \in HandlerCad
      BY <2>2 DEF IInvCad, TypeOKCadastro, SegueCad
    <3> QED BY <3>1 DEF Tem, Fica, HandlerCad
  <2> QED BY <2>1, <2>2
<1> QED BY <1>1, <1>2

\* The letters stay where they went.
LEMMA CartasFicam ==
  ASSUME IInvCad, Fica, cartas' = cartas
  PROVE  /\ IsFiniteSet(cartas')
         /\ \A l \in cartas' :
              /\ l.conta \in contas'
              /\ l.tipo = "VERIFICAR_EMAIL" => Original(l.conta, l.para, email', verificadas')
<1>1. \A l \in cartas : l.para \in Endereco /\ l.conta \in contas
  BY DEF IInvCad, TypeOKCadastro, Carta
<1> QED BY <1>1 DEF IInvCad, Fica

\* A step that leaves accounts and letters alone.
LEMMA SoLinksCad ==
  ASSUME IInvCad, NEW r \in ReqCad, NEW q \in HandlerCad, SegueCad(r, q),
         UNCHANGED <<linhasCad, cartas>>, gastas' \subseteq Carta,
         seguidas \subseteq seguidas', seguidas' \subseteq ContaCad \X Endereco,
         Tem(q, contas, email, verificadas, seguidas')
  PROVE  IInvCad'
<1>1. contas' = contas /\ email' = email /\ verificadas' = verificadas
      /\ excluidas' = excluidas /\ cartas' = cartas
  BY DEF linhasCad
<1>2. Fica
  BY <1>1 DEF Fica, Original
<1>3. reqCad' \in [ReqCad -> HandlerCad]
      /\ \A s \in ReqCad : Tem(reqCad[s], contas, email, verificadas, seguidas)'
  BY <1>1, <1>2, HandlersCad
<1>4. EmailProvado'
  BY <1>1 DEF IInvCad, EmailProvado
<1> QED BY <1>1, <1>2, <1>3, <1>4, CartasFicam DEF IInvCad, TypeOKCadastro

\* A step that only moves one handler.
LEMMA SoHandlerCad ==
  ASSUME IInvCad, NEW r \in ReqCad, NEW q \in HandlerCad, SegueCad(r, q),
         UNCHANGED <<linhasCad, linksCad, seguidas>>,
         Tem(q, contas, email, verificadas, seguidas)
  PROVE  IInvCad'
<1>1. UNCHANGED <<linhasCad, cartas>> /\ gastas' = gastas /\ seguidas' = seguidas
  BY DEF linksCad
<1> QED BY <1>1, SoLinksCad DEF IInvCad, TypeOKCadastro

\* A step that writes an account and leaves the letters alone.
LEMMA SoLinhasCad ==
  ASSUME IInvCad, NEW r \in ReqCad, NEW q \in HandlerCad, SegueCad(r, q),
         UNCHANGED <<linksCad, seguidas>>, Fica,
         contas' \subseteq ContaCad, verificadas' \subseteq contas', excluidas' \subseteq ContaCad,
         email' \in [ContaCad -> Endereco \cup {Nada}],
         \A c \in contas' \ excluidas' : email'[c] \in Endereco,
         \A c \in verificadas' : email'[c] # Nada => <<c, email'[c]>> \in seguidas,
         Tem(q, contas', email', verificadas', seguidas)
  PROVE  IInvCad'
<1>1. cartas' = cartas /\ gastas' = gastas /\ seguidas' = seguidas
  BY DEF linksCad
<1>2. reqCad' \in [ReqCad -> HandlerCad]
      /\ \A s \in ReqCad : Tem(reqCad[s], contas, email, verificadas, seguidas)'
  BY <1>1, HandlersCad
<1>3. EmailProvado'
  BY <1>1 DEF EmailProvado
<1> QED BY <1>1, <1>2, <1>3, CartasFicam DEF IInvCad, TypeOKCadastro

\* Each action keeps it.
LEMMA PassoIInvCad ==
  ASSUME IInvCad, NEW r \in ReqCad, PassoCadastro(r) \/ PerderCad(r)
  PROVE  IInvCad'
<1> DEFINE q == reqCad[r]
<1>tem. q \in HandlerCad /\ Tem(q, contas, email, verificadas, seguidas)
  BY DEF IInvCad, TypeOKCadastro
<1>livre. LivreCad \in HandlerCad /\ \A C, E, V, S : Tem(LivreCad, C, E, V, S)
  BY LivreCadTipo
<1>1. ASSUME NEW c \in ContaCad, Reenviar(r, c) PROVE IInvCad'
  <2> DEFINE n == [pc |-> "gasta", n |-> 0, conta |-> c, tipo |-> "VERIFICAR_EMAIL",
                   para |-> email[c]]
  <2>1. n \in HandlerCad /\ Tem(n, contas, email, verificadas, seguidas)
    BY <1>1, CartasAssumption DEF Reenviar, IInvCad, TypeOKCadastro, HandlerCad, TipoCarta, Tem, Original
  <2> QED BY <1>1, <2>1, SoHandlerCad DEF Reenviar, Escreve
<1>2. ASSUME NEW c \in ContaCad, Excluir(r, c) PROVE IInvCad'
  <2> DEFINE n == [pc |-> "exclui", n |-> 0, conta |-> c, tipo |-> "VERIFICAR_EMAIL", para |-> Nada]
  <2>1. c \in contas /\ SegueCad(r, n) /\ UNCHANGED <<linhasCad, linksCad, seguidas>>
    BY <1>2 DEF Excluir, Escreve, LivreCad
  <2>2. n \in HandlerCad /\ Tem(n, contas, email, verificadas, seguidas)
    BY <2>1, CartasAssumption DEF HandlerCad, TipoCarta, Tem
  <2> HIDE DEF n
  <2> QED BY <2>1, <2>2, SoHandlerCad
<1>3. ASSUME NEW c \in ContaCad, NEW e \in Endereco, Cadastrar(r, c, e) PROVE IInvCad'
  <2> DEFINE n == [pc |-> "cria", n |-> 0, conta |-> c, tipo |-> "VERIFICAR_EMAIL", para |-> e]
  <2>1. n \in HandlerCad /\ Tem(n, contas, email, verificadas, seguidas)
    BY CartasAssumption DEF HandlerCad, TipoCarta, Tem
  <2> QED BY <1>3, <2>1, SoHandlerCad DEF Cadastrar, Escreve
<1>4. ASSUME NEW c \in ContaCad, NEW e \in Endereco, PedirTroca(r, c, e) PROVE IInvCad'
  <2> DEFINE n == [pc |-> "gasta", n |-> 0, conta |-> c, tipo |-> "TROCAR_EMAIL", para |-> e]
  <2>1. n \in HandlerCad /\ Tem(n, contas, email, verificadas, seguidas)
    BY <1>4, CartasAssumption DEF PedirTroca, HandlerCad, TipoCarta, Tem
  <2> QED BY <1>4, <2>1, SoHandlerCad DEF PedirTroca, Escreve
<1>5. ASSUME NEW l \in cartas, SeguirCarta(r, l) PROVE IInvCad'
  <2> DEFINE n == [pc |-> "marca", n |-> l.n, conta |-> l.conta, tipo |-> l.tipo, para |-> l.para]
  <2>1. l \in Carta /\ l.conta \in contas
        /\ (l.tipo = "VERIFICAR_EMAIL" => Original(l.conta, l.para, email, verificadas))
    BY DEF IInvCad, TypeOKCadastro
  <2>2. l.n \in 0 .. MaxCartas /\ l.conta \in ContaCad /\ l.tipo \in TipoCarta /\ l.para \in Endereco
    BY <2>1, CartasAssumption DEF Carta
  <2>3. seguidas' = seguidas \cup {<<l.conta, l.para>>} /\ SegueCad(r, n)
        /\ UNCHANGED <<linhasCad, cartas>> /\ gastas' = gastas
    BY <1>5 DEF SeguirCarta, linksCad
  <2>4. n \in HandlerCad /\ Tem(n, contas, email, verificadas, seguidas')
    BY <2>1, <2>2, <2>3 DEF HandlerCad, Tem
  <2>5. seguidas' \subseteq ContaCad \X Endereco /\ gastas' \subseteq Carta
    BY <2>2, <2>3 DEF IInvCad, TypeOKCadastro
  <2> HIDE DEF n
  <2> QED BY <2>3, <2>4, <2>5, SoLinksCad
<1>6. CASE CriarConta(r)
  <2>1. CASE q.conta \in contas \/ Ocupado(q.para)
    <3>1. SegueCad(r, LivreCad) /\ UNCHANGED <<linhasCad, linksCad, seguidas>>
      BY <1>6, <2>1 DEF CriarConta, linhasCad
    <3> QED BY <1>livre, <3>1, SoHandlerCad
  <2>2. CASE ~(q.conta \in contas \/ Ocupado(q.para))
    <3> DEFINE n == [q EXCEPT !.pc = "gasta"]
    <3>1. /\ contas' = contas \cup {q.conta} /\ email' = [email EXCEPT ![q.conta] = q.para]
          /\ SegueCad(r, n) /\ verificadas' = verificadas /\ excluidas' = excluidas
          /\ UNCHANGED <<linksCad, seguidas>> /\ q.pc = "cria" /\ q.conta \notin contas
      BY <1>6, <2>2 DEF CriarConta, VaiCad, EmCad
    <3>2. q.conta \in ContaCad /\ q.para \in Endereco
      BY <1>tem, <3>1 DEF Tem
    <3>3. /\ email' \in [ContaCad -> Endereco \cup {Nada}]
          /\ email'[q.conta] = q.para /\ \A c \in contas : email'[c] = email[c]
      BY <3>1, <3>2 DEF IInvCad, TypeOKCadastro
    <3>4. Fica
      BY <3>1, <3>3 DEF Fica, Original
    <3>5. n \in HandlerCad /\ n.pc = "gasta" /\ n.conta = q.conta /\ n.para = q.para
      BY <1>tem DEF HandlerCad
    <3> HIDE DEF n
    <3>6. Tem(n, contas', email', verificadas', seguidas)
      BY <3>1, <3>2, <3>3, <3>5 DEF Tem, Original
    <3>7. /\ \A c \in contas' \ excluidas' : email'[c] \in Endereco
          /\ \A c \in verificadas' : email'[c] # Nada => <<c, email'[c]>> \in seguidas
      BY <3>1, <3>2, <3>3 DEF IInvCad, EmailProvado
    <3>8. contas' \subseteq ContaCad /\ verificadas' \subseteq contas' /\ excluidas' \subseteq ContaCad
      BY <3>1, <3>2 DEF IInvCad, TypeOKCadastro
    <3> QED BY <3>1, <3>3, <3>4, <3>5, <3>6, <3>7, <3>8, SoLinhasCad
  <2> QED BY <2>1, <2>2
<1>7. CASE GastarCartas(r)
  <2> DEFINE n == [q EXCEPT !.pc = "emite"]
  <2>1. n \in HandlerCad /\ Tem(n, contas, email, verificadas, seguidas)
    BY <1>tem, <1>7 DEF GastarCartas, EmCad, HandlerCad, Tem
  <2>2. SegueCad(r, n) /\ UNCHANGED <<linhasCad, cartas>> /\ seguidas' = seguidas
        /\ gastas' \subseteq Carta
    BY <1>7 DEF GastarCartas, VaiCad, CartasDe, IInvCad, TypeOKCadastro
  <2> HIDE DEF n
  <2> QED BY <2>1, <2>2, SoLinksCad DEF IInvCad, TypeOKCadastro
<1>8. CASE EmitirCarta(r)
  <2> DEFINE n == Cardinality(cartas) + 1
             l == [n |-> n, conta |-> q.conta, tipo |-> q.tipo, para |-> q.para]
  <2>1. /\ q.pc = "emite" /\ n <= MaxCartas /\ cartas' = cartas \cup {l}
        /\ SegueCad(r, LivreCad) /\ UNCHANGED <<linhasCad, gastas, seguidas>>
    BY <1>8 DEF EmitirCarta, EmCad
  <2>2. IsFiniteSet(cartas) /\ n \in 1 .. MaxCartas
    BY <2>1, CartasAssumption, FS_CardinalityType DEF IInvCad
  <2>3. IsFiniteSet(cartas')
    BY <2>1, <2>2, FS_AddElement
  <2>4. /\ q.conta \in ContaCad /\ q.conta \in contas /\ q.para \in Endereco /\ q.tipo \in TipoCarta
        /\ (q.tipo = "VERIFICAR_EMAIL" => Original(q.conta, q.para, email, verificadas))
    BY <1>tem, <2>1 DEF Tem, HandlerCad
  <2> HIDE DEF n
  <2>5. l \in Carta /\ l.conta = q.conta /\ l.tipo = q.tipo /\ l.para = q.para
    BY <2>2, <2>4 DEF Carta
  <2> HIDE DEF l
  <2>6. /\ contas' = contas /\ email' = email /\ verificadas' = verificadas
        /\ excluidas' = excluidas /\ gastas' = gastas /\ seguidas' = seguidas
    BY <2>1 DEF linhasCad
  <2>7. \A k \in cartas' :
          /\ k \in Carta /\ k.conta \in contas'
          /\ k.tipo = "VERIFICAR_EMAIL" => Original(k.conta, k.para, email', verificadas')
    BY <2>1, <2>4, <2>5, <2>6 DEF IInvCad, TypeOKCadastro
  <2>8. Fica
    BY <2>6 DEF Fica
  <2>9. reqCad' \in [ReqCad -> HandlerCad]
        /\ \A s \in ReqCad : Tem(reqCad[s], contas, email, verificadas, seguidas)'
    BY <1>livre, <2>1, <2>8, HandlersCad
  <2>10. EmailProvado'
    BY <2>6 DEF IInvCad, EmailProvado
  <2> QED BY <2>3, <2>6, <2>7, <2>9, <2>10 DEF IInvCad, TypeOKCadastro
<1>9. CASE MarcarCarta(r)
  <2> DEFINE n == [q EXCEPT !.pc = IF q.tipo = "TROCAR_EMAIL" THEN "confere" ELSE "verifica"]
  <2>1. n \in HandlerCad /\ Tem(n, contas, email, verificadas, seguidas)
    BY <1>tem, <1>9 DEF MarcarCarta, EmCad, HandlerCad, TipoCarta, Tem
  <2>2. SegueCad(r, n) /\ UNCHANGED <<linhasCad, cartas>> /\ seguidas' = seguidas
        /\ gastas' \subseteq Carta
    BY <1>9 DEF MarcarCarta, VaiCad, IInvCad, TypeOKCadastro
  <2> HIDE DEF n
  <2> QED BY <2>1, <2>2, SoLinksCad DEF IInvCad, TypeOKCadastro
<1>10. CASE VerificarEmail(r)
  <2>1. /\ verificadas' = verificadas \cup {q.conta} /\ SegueCad(r, LivreCad)
        /\ contas' = contas /\ email' = email /\ excluidas' = excluidas
        /\ UNCHANGED <<linksCad, seguidas>> /\ q.pc = "verifica"
    BY <1>10 DEF VerificarEmail, EmCad
  <2>2. /\ q.conta \in contas /\ <<q.conta, q.para>> \in seguidas
        /\ Original(q.conta, q.para, email, verificadas)
    BY <1>tem, <2>1 DEF Tem
  <2>3. \A c \in verificadas' : email'[c] # Nada => <<c, email'[c]>> \in seguidas
    BY <2>1, <2>2 DEF IInvCad, EmailProvado, Original
  <2>4. Fica
    BY <2>1 DEF Fica, Original
  <2> QED BY <1>livre, <2>1, <2>2, <2>3, <2>4, SoLinhasCad DEF IInvCad, TypeOKCadastro
<1>11. CASE ConferirTroca(r)
  <2> DEFINE n == IF Usado(q.para) THEN LivreCad ELSE [q EXCEPT !.pc = "troca"]
  <2>1. [q EXCEPT !.pc = "troca"] \in HandlerCad
        /\ Tem([q EXCEPT !.pc = "troca"], contas, email, verificadas, seguidas)
    BY <1>tem, <1>11 DEF ConferirTroca, EmCad, HandlerCad, Tem
  <2>2. SegueCad(r, n) /\ UNCHANGED <<linhasCad, linksCad, seguidas>>
    BY <1>11 DEF ConferirTroca, VaiCad
  <2>3. n \in HandlerCad /\ Tem(n, contas, email, verificadas, seguidas)
    BY <1>livre, <2>1
  <2> HIDE DEF n
  <2> QED BY <2>2, <2>3, SoHandlerCad
<1>12. CASE AtualizarEmail(r)
  <2>1. SegueCad(r, LivreCad) /\ contas' = contas /\ excluidas' = excluidas
        /\ UNCHANGED <<linksCad, seguidas>> /\ q.pc = "troca"
    BY <1>12 DEF AtualizarEmail, EmCad
  <2>2. q.conta \in contas /\ q.para \in Endereco /\ <<q.conta, q.para>> \in seguidas
    BY <1>tem, <2>1 DEF Tem
  <2>3. CASE \E c \in contas \ {q.conta} : email[c] = q.para
    <3>1. UNCHANGED <<linhasCad, linksCad, seguidas>>
      BY <1>12, <2>1, <2>3 DEF AtualizarEmail, linhasCad
    <3> QED BY <1>livre, <2>1, <3>1, SoHandlerCad
  <2>4. CASE ~\E c \in contas \ {q.conta} : email[c] = q.para
    <3>1. /\ email' = [email EXCEPT ![q.conta] = q.para]
          /\ verificadas' = verificadas \cup {q.conta}
      BY <1>12, <2>4 DEF AtualizarEmail
    <3>2. /\ contas \subseteq ContaCad /\ email' \in [ContaCad -> Endereco \cup {Nada}]
          /\ email'[q.conta] = q.para /\ \A c \in ContaCad \ {q.conta} : email'[c] = email[c]
      BY <2>2, <3>1 DEF IInvCad, TypeOKCadastro
    <3>3. Fica
      BY <2>1, <3>1, <3>2 DEF Fica, Original
    <3>4. /\ \A c \in contas' \ excluidas' : email'[c] \in Endereco
          /\ \A c \in verificadas' : email'[c] # Nada => <<c, email'[c]>> \in seguidas
      BY <2>1, <2>2, <3>1, <3>2 DEF IInvCad, EmailProvado
    <3> QED BY <1>livre, <2>1, <2>2, <3>1, <3>2, <3>3, <3>4, SoLinhasCad
            DEF IInvCad, TypeOKCadastro
  <2> QED BY <2>3, <2>4
<1>13. CASE ExcluirConta(r)
  <2>1. /\ email' = [email EXCEPT ![q.conta] = Nada] /\ excluidas' = excluidas \cup {q.conta}
        /\ SegueCad(r, LivreCad) /\ contas' = contas /\ verificadas' = verificadas
        /\ UNCHANGED <<linksCad, seguidas>> /\ q.pc = "exclui"
    BY <1>13 DEF ExcluirConta, EmCad
  <2>2. q.conta \in ContaCad
    BY <1>tem, <2>1 DEF Tem
  <2>3. /\ email' \in [ContaCad -> Endereco \cup {Nada}]
        /\ email'[q.conta] = Nada /\ \A c \in ContaCad \ {q.conta} : email'[c] = email[c]
    BY <2>1, <2>2 DEF IInvCad, TypeOKCadastro
  <2>4. Fica
    BY <2>1, <2>3 DEF Fica, Original, IInvCad, TypeOKCadastro
  <2>5. /\ \A c \in contas' \ excluidas' : email'[c] \in Endereco
        /\ \A c \in verificadas' : email'[c] # Nada => <<c, email'[c]>> \in seguidas
    BY <2>1, <2>3 DEF IInvCad, EmailProvado, TypeOKCadastro
  <2> QED BY <1>livre, <2>1, <2>2, <2>3, <2>4, <2>5, SoLinhasCad DEF IInvCad, TypeOKCadastro
<1>14. CASE PerderCad(r)
  BY <1>14, <1>livre, SoHandlerCad DEF PerderCad
<1> QED BY <1>1, <1>2, <1>3, <1>4, <1>5, <1>6, <1>7, <1>8, <1>9, <1>10, <1>11, <1>12, <1>13, <1>14
        DEF PassoCadastro

\* Every step keeps it.
LEMMA NextIInvCad == IInvCad /\ [NextCadastro]_varsCadastro => IInvCad'
<1> SUFFICES ASSUME IInvCad, [NextCadastro]_varsCadastro PROVE IInvCad'
  OBVIOUS
<1>1. CASE UNCHANGED varsCadastro
  BY <1>1 DEF varsCadastro, linhasCad, linksCad, IInvCad, TypeOKCadastro, EmailProvado
<1> QED BY <1>1, PassoIInvCad DEF NextCadastro

\* However sign-ups, letters, changes, exclusions and failures interleave, a verified account has
\* an address whose letter was followed for it.
THEOREM EmailSempreProvado == SpecCadastro => []EmailProvado
<1>1. IInvCad => EmailProvado
  BY DEF IInvCad
<1> QED BY <1>1, InitIInvCad, NextIInvCad, PTL DEF SpecCadastro
=============================================================================
