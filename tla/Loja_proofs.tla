------------------------------ MODULE Loja_proofs ------------------------------
(***************************************************************************)
(* Proofs about the shop, for every size of its constants.                 *)
(*                                                                         *)
(* Codigos: the two bounds that the checks made before the writes still    *)
(* give.  Each bound counts, with the rows, the handlers that have passed  *)
(* the check and have not written yet: a handler that passes it adds one   *)
(* to them, a handler that writes moves one from them to the rows.         *)
(*                                                                         *)
(* Then, for codes, connection, backups, transfers, package and gallery in *)
(* this order, the types, and what MCLoja states of requests that do not   *)
(* overlap (sozinho).  The invariants have one form: while nothing has     *)
(* overlapped, at most one handler that matters is in flight, so what it   *)
(* read still holds when it writes.                                        *)
(***************************************************************************)
EXTENDS MCLoja, Pacote_proofs, Publicacao_proofs

\* A handler that starts from nothing, and one that found a code, are handlers.
LEMMA LivreCodTipo ==
  /\ LivreCod \in HandlerCod
  /\ \A pc \in {"cria", "apaga"} : [LivreCod EXCEPT !.pc = pc] \in HandlerCod
  /\ \A pc \in {"erra", "usa"}, c \in Codigo : [pc |-> pc, cod |-> c] \in HandlerCod
  BY CodigosAssumption DEF LivreCod, HandlerCod, Codigo

\* A count with one more at one place is a count.
LEMMA MaisUm ==
  ASSUME NEW S, NEW f \in [S -> Nat], NEW x
  PROVE  [f EXCEPT ![x] = f[x] + 1] \in [S -> Nat]
<1> DEFINE n == f[x] + 1
           g == [f EXCEPT ![x] = n]
<1>1. ASSUME NEW y \in S PROVE g[y] \in Nat
  <2>1. CASE y = x
    <3>1. n \in Nat
      BY <2>1
    <3> HIDE DEF n
    <3> QED BY <2>1, <3>1
  <2>2. CASE y # x
    <3> HIDE DEF n
    <3> QED BY <2>2
  <2> QED BY <2>1, <2>2
<1>2. g = [y \in S |-> g[y]]
  <2> HIDE DEF n
  <2> QED OBVIOUS
<1>3. g \in [S -> Nat]
  <2> HIDE DEF g
  <2> QED BY <1>1, <1>2
<1> QED BY <1>3

\* Every step keeps the types.
LEMMA PassoTipos ==
  ASSUME TypeOKCodigos, [NextCodigos]_varsCodigos
  PROVE  TypeOKCodigos'
<1> USE CodigosAssumption
<1>1. ASSUME NEW r \in ReqCod, PassoCodigos(r) PROVE TypeOKCodigos'
  <2> USE LivreCodTipo DEF TypeOKCodigos, EmCod, SegueCod, Codigo
  <2>1. CASE PedirCodigo(r)
    BY <2>1 DEF PedirCodigo
  <2>2. CASE CriarCodigo(r)
    BY <2>2 DEF CriarCodigo
  <2>3. ASSUME NEW c \in Codigo, ConfirmarCodigo(r, c) PROVE TypeOKCodigos'
    BY <2>3 DEF ConfirmarCodigo
  <2>4. CASE Errar(r)
    <3>0. tentativas' = [tentativas EXCEPT ![reqCod[r].cod] = tentativas[reqCod[r].cod] + 1]
      BY <2>4 DEF Errar
    <3>1. tentativas' \in [Codigo -> Nat]
      BY <3>0, MaisUm
    <3>2. reqCod' \in [ReqCod -> HandlerCod]
      BY <2>4 DEF Errar
    <3> QED BY <2>4, <3>1, <3>2 DEF Errar
  <2>5. CASE Usar(r)
    <3>1. reqCod[r] \in HandlerCod /\ reqCod[r].cod \in Codigo
      BY <2>5 DEF Usar, HandlerCod
    <3>2. [reqCod[r] EXCEPT !.pc = "entra"] \in HandlerCod
      BY <3>1 DEF HandlerCod
    <3> QED BY <2>5, <3>1, <3>2 DEF Usar
  <2>6. CASE Entrar(r)
    <3>0. entradas' = [entradas EXCEPT ![reqCod[r].cod] = entradas[reqCod[r].cod] + 1]
      BY <2>6 DEF Entrar
    <3>1. entradas' \in [Codigo -> Nat]
      BY <3>0, MaisUm
    <3>2. reqCod' \in [ReqCod -> HandlerCod]
      BY <2>6 DEF Entrar
    <3> QED BY <2>6, <3>1, <3>2 DEF Entrar
  <2>7. CASE AbrirApagar(r)
    BY <2>7 DEF AbrirApagar
  <2>8. CASE ApagarCodigos(r)
    BY <2>8 DEF ApagarCodigos
  <2>9. CASE FalharCod(r)
    BY <2>9 DEF FalharCod
  <2> QED BY <1>1, <2>1, <2>2, <2>3, <2>4, <2>5, <2>6, <2>7, <2>8, <2>9 DEF PassoCodigos
<1>2. ASSUME NEW c \in Codigo, VencerCodigo(c) PROVE TypeOKCodigos'
  BY <1>2 DEF VencerCodigo, TypeOKCodigos
<1>3. CASE UNCHANGED varsCodigos
  BY <1>3 DEF varsCodigos, TypeOKCodigos
<1> QED BY <1>1, <1>2, <1>3 DEF NextCodigos

\* Type correctness of the codes and of the handlers of a buyer's login.
THEOREM TiposCodigos == SpecCodigos => []TypeOKCodigos
<1>1. InitCodigos => TypeOKCodigos
  BY LivreCodTipo, CodigosAssumption DEF InitCodigos, TypeOKCodigos, Codigo
<1>2. TypeOKCodigos /\ [NextCodigos]_varsCodigos => TypeOKCodigos'
  BY PassoTipos
<1> QED BY <1>1, <1>2, PTL DEF SpecCodigos

-----------------------------------------------------------------------------
(* The handlers about to write are at most the slots, the free ones not among them. *)

\* A set of slots is finite and no larger than all of them.
LEMMA Slots ==
  ASSUME NEW S \in SUBSET ReqCod
  PROVE  IsFiniteSet(S) /\ Cardinality(S) \in Nat /\ Cardinality(S) <= Cardinality(ReqCod)
         /\ Cardinality(ReqCod) \in Nat
  BY CodFinitosAssumption, FS_Subset, FS_CardinalityType

\* The window is finite, and one code more is at most one more.
LEMMA Janela ==
  ASSUME TypeOKCodigos
  PROVE  IsFiniteSet(naJanela) /\ Cardinality(naJanela) \in Nat
<1>1. IsFiniteSet(Codigo)
  BY CodigosAssumption, FS_Interval DEF Codigo
<1> QED BY <1>1, FS_Subset, FS_CardinalityType DEF TypeOKCodigos

\* The bound of the guesses, with those that are about to be counted.
LEMMA PassoTentativas ==
  ASSUME TypeOKCodigos, TentativasLimitadas, [NextCodigos]_varsCodigos
  PROVE  TentativasLimitadas'
<1> SUFFICES ASSUME NEW d \in Codigo
             PROVE  tentativas'[d] + Cardinality(Errando(d)')
                      <= Tentativas - 1 + Cardinality(ReqCod)
  BY DEF TentativasLimitadas
<1> USE CodigosAssumption
<1>0. /\ tentativas[d] \in Nat /\ Cardinality(Errando(d)) \in Nat
      /\ tentativas[d] + Cardinality(Errando(d)) <= Tentativas - 1 + Cardinality(ReqCod)
      /\ IsFiniteSet(Errando(d)) /\ Cardinality(ReqCod) \in Nat
  BY Slots DEF TypeOKCodigos, TentativasLimitadas, Errando
\* fewer handlers about to guess, and the same count
<1>1. ASSUME tentativas' = tentativas, Errando(d)' \subseteq Errando(d)
      PROVE  tentativas'[d] + Cardinality(Errando(d)') <= Tentativas - 1 + Cardinality(ReqCod)
  <2>1. Cardinality(Errando(d)') \in Nat /\ Cardinality(Errando(d)') <= Cardinality(Errando(d))
    BY <1>0, <1>1, FS_Subset, FS_CardinalityType
  <2> QED BY <1>0, <1>1, <2>1
<1>2. ASSUME NEW r \in ReqCod, PassoCodigos(r)
      PROVE  tentativas'[d] + Cardinality(Errando(d)') <= Tentativas - 1 + Cardinality(ReqCod)
  <2> USE DEF TypeOKCodigos, Errando, EmCod, SegueCod, LivreCod
  <2>1. CASE PedirCodigo(r)
    BY <1>1, <2>1 DEF PedirCodigo
  <2>2. CASE CriarCodigo(r)
    BY <1>1, <2>2 DEF CriarCodigo
  <2>3. ASSUME NEW c \in Codigo, ConfirmarCodigo(r, c)
        PROVE  tentativas'[d] + Cardinality(Errando(d)') <= Tentativas - 1 + Cardinality(ReqCod)
    <3>1. CASE c = d
      <4>1. tentativas'[d] \in Nat /\ tentativas'[d] <= Tentativas - 1
        BY <1>0, <2>3, <3>1 DEF ConfirmarCodigo
      <4>2. Cardinality(Errando(d)') \in Nat /\ Cardinality(Errando(d)') <= Cardinality(ReqCod)
        BY Slots
      <4> QED BY <1>0, <4>1, <4>2
    <3>2. CASE c # d
      BY <1>1, <2>3, <3>2 DEF ConfirmarCodigo
    <3> QED BY <3>1, <3>2
  <2>4. CASE Errar(r)
    <3>1. CASE reqCod[r].cod = d
      <4>1. r \in Errando(d) /\ Errando(d)' = Errando(d) \ {r}
        BY <2>4, <3>1 DEF Errar
      <4>2. Cardinality(Errando(d)') = Cardinality(Errando(d)) - 1
        <5> HIDE DEF Errando
        <5> QED BY <1>0, <4>1, FS_RemoveElement
      <4>3. tentativas'[d] = tentativas[d] + 1
        BY <2>4, <3>1 DEF Errar
      <4> QED BY <1>0, <4>2, <4>3
    <3>2. CASE reqCod[r].cod # d
      <4>1. tentativas'[d] = tentativas[d] /\ Errando(d)' \subseteq Errando(d)
        BY <2>4, <3>2 DEF Errar
      <4>2. Cardinality(Errando(d)') \in Nat /\ Cardinality(Errando(d)') <= Cardinality(Errando(d))
        BY <1>0, <4>1, FS_Subset, FS_CardinalityType
      <4> QED BY <1>0, <4>1, <4>2
    <3> QED BY <3>1, <3>2
  <2>5. CASE Usar(r)
    BY <1>1, <2>5 DEF Usar
  <2>6. CASE Entrar(r)
    BY <1>1, <2>6 DEF Entrar
  <2>7. CASE AbrirApagar(r)
    BY <1>1, <2>7 DEF AbrirApagar
  <2>8. CASE ApagarCodigos(r)
    BY <1>1, <2>8 DEF ApagarCodigos
  <2>9. CASE FalharCod(r)
    BY <1>1, <2>9 DEF FalharCod
  <2> QED BY <1>2, <2>1, <2>2, <2>3, <2>4, <2>5, <2>6, <2>7, <2>8, <2>9 DEF PassoCodigos
<1>3. ASSUME NEW c \in Codigo, VencerCodigo(c)
      PROVE  tentativas'[d] + Cardinality(Errando(d)') <= Tentativas - 1 + Cardinality(ReqCod)
  BY <1>1, <1>3 DEF VencerCodigo, Errando, EmCod
<1>4. CASE UNCHANGED varsCodigos
  BY <1>1, <1>4 DEF varsCodigos, Errando, EmCod
<1> QED BY <1>2, <1>3, <1>4 DEF NextCodigos

\* However many guesses of one code race between the read of its count and the increment, they
\* are bounded: no code takes more wrong guesses than the limit and the other slots.
THEOREM TentativasNuncaPassam == SpecCodigos => []TentativasLimitadas
<1>1. InitCodigos => TypeOKCodigos /\ TentativasLimitadas
  <2> SUFFICES ASSUME InitCodigos PROVE TypeOKCodigos /\ TentativasLimitadas
    OBVIOUS
  <2>1. TypeOKCodigos
    BY LivreCodTipo, CodigosAssumption DEF InitCodigos, TypeOKCodigos, Codigo
  <2>2. ASSUME NEW c \in Codigo
        PROVE  tentativas[c] + Cardinality(Errando(c)) <= Tentativas - 1 + Cardinality(ReqCod)
    <3>1. tentativas[c] = 0
      BY DEF InitCodigos
    <3>2. Cardinality(Errando(c)) \in Nat /\ Cardinality(Errando(c)) <= Cardinality(ReqCod)
      BY Slots DEF Errando
    <3> QED BY <3>1, <3>2, Slots, CodigosAssumption
  <2> QED BY <2>1, <2>2 DEF TentativasLimitadas
<1>2. TypeOKCodigos /\ TentativasLimitadas /\ [NextCodigos]_varsCodigos
        => TypeOKCodigos' /\ TentativasLimitadas'
  BY PassoTipos, PassoTentativas
<1> QED BY <1>1, <1>2, PTL DEF SpecCodigos

-----------------------------------------------------------------------------
\* The bound of the window, with the codes that are about to be created.
LEMMA PassoJanela ==
  ASSUME TypeOKCodigos, JanelaLimitada, [NextCodigos]_varsCodigos
  PROVE  JanelaLimitada'
<1> DEFINE Teto == PorJanela - 1 + Cardinality(ReqCod)
<1> USE CodigosAssumption
<1>0. /\ Cardinality(naJanela) \in Nat /\ IsFiniteSet(naJanela)
      /\ Cardinality(Criando) \in Nat /\ IsFiniteSet(Criando)
      /\ Cardinality(naJanela) + Cardinality(Criando) <= Teto
      /\ Cardinality(ReqCod) \in Nat
  BY Slots, Janela DEF JanelaLimitada, Criando
\* fewer of both
<1>1. ASSUME naJanela' \subseteq naJanela, Criando' \subseteq Criando
      PROVE  JanelaLimitada'
  <2>1. /\ Cardinality(naJanela') \in Nat /\ Cardinality(naJanela') <= Cardinality(naJanela)
        /\ Cardinality(Criando') \in Nat /\ Cardinality(Criando') <= Cardinality(Criando)
    BY <1>0, <1>1, FS_Subset, FS_CardinalityType
  <2> QED BY <1>0, <2>1 DEF JanelaLimitada
<1>2. ASSUME NEW r \in ReqCod, PassoCodigos(r) PROVE JanelaLimitada'
  <2> USE DEF TypeOKCodigos, Criando, EmCod, SegueCod, LivreCod
  <2>1. CASE PedirCodigo(r)
    <3>1. naJanela' = naJanela /\ Cardinality(naJanela) <= PorJanela - 1
      BY <1>0, <2>1 DEF PedirCodigo
    <3>2. Cardinality(Criando') \in Nat /\ Cardinality(Criando') <= Cardinality(ReqCod)
      BY Slots
    <3> QED BY <1>0, <3>1, <3>2 DEF JanelaLimitada
  <2>2. CASE CriarCodigo(r)
    <3>1. r \in Criando /\ Criando' = Criando \ {r}
      BY <2>2 DEF CriarCodigo
    <3>2. Cardinality(Criando') = Cardinality(Criando) - 1
      <4> HIDE DEF Criando
      <4> QED BY <1>0, <3>1, FS_RemoveElement
    <3>3. naJanela' = naJanela \cup {criados + 1}
      BY <2>2 DEF CriarCodigo
    <3>4. Cardinality(naJanela') \in Nat /\ Cardinality(naJanela') <= Cardinality(naJanela) + 1
      <4> DEFINE novo == criados + 1
      <4>1. naJanela' = naJanela \cup {novo}
        BY <3>3
      <4> HIDE DEF novo
      <4>2. Cardinality(naJanela \cup {novo}) = Cardinality(naJanela)
            \/ Cardinality(naJanela \cup {novo}) = Cardinality(naJanela) + 1
        BY <1>0, FS_AddElement
      <4> QED BY <1>0, <4>1, <4>2
    <3> QED BY <1>0, <3>2, <3>4 DEF JanelaLimitada
  <2>3. ASSUME NEW c \in Codigo, ConfirmarCodigo(r, c) PROVE JanelaLimitada'
    BY <1>1, <2>3 DEF ConfirmarCodigo
  <2>4. CASE Errar(r)
    BY <1>1, <2>4 DEF Errar
  <2>5. CASE Usar(r)
    BY <1>1, <2>5 DEF Usar
  <2>6. CASE Entrar(r)
    BY <1>1, <2>6 DEF Entrar
  <2>7. CASE AbrirApagar(r)
    BY <1>1, <2>7 DEF AbrirApagar
  <2>8. CASE ApagarCodigos(r)
    BY <1>1, <2>8 DEF ApagarCodigos
  <2>9. CASE FalharCod(r)
    BY <1>1, <2>9 DEF FalharCod
  <2> QED BY <1>2, <2>1, <2>2, <2>3, <2>4, <2>5, <2>6, <2>7, <2>8, <2>9 DEF PassoCodigos
<1>3. ASSUME NEW c \in Codigo, VencerCodigo(c) PROVE JanelaLimitada'
  BY <1>1, <1>3 DEF VencerCodigo, Criando, EmCod
<1>4. CASE UNCHANGED varsCodigos
  BY <1>1, <1>4 DEF varsCodigos, Criando, EmCod
<1> QED BY <1>2, <1>3, <1>4 DEF NextCodigos

\* However many codes are asked for at the same time, an address gets in one window no more
\* than the limit and the other slots.
THEOREM JanelaNuncaPassa == SpecCodigos => []JanelaLimitada
<1>1. InitCodigos => TypeOKCodigos /\ JanelaLimitada
  <2> SUFFICES ASSUME InitCodigos PROVE TypeOKCodigos /\ JanelaLimitada
    OBVIOUS
  <2>1. TypeOKCodigos
    BY LivreCodTipo, CodigosAssumption DEF InitCodigos, TypeOKCodigos, Codigo
  <2>2. Cardinality(naJanela) = 0
    BY FS_EmptySet DEF InitCodigos
  <2>3. Cardinality(Criando) \in Nat /\ Cardinality(Criando) <= Cardinality(ReqCod)
    BY Slots DEF Criando
  <2> QED BY <2>1, <2>2, <2>3, Slots, CodigosAssumption DEF JanelaLimitada
<1>2. TypeOKCodigos /\ JanelaLimitada /\ [NextCodigos]_varsCodigos
        => TypeOKCodigos' /\ JanelaLimitada'
  BY PassoTipos, PassoJanela
<1> QED BY <1>1, <1>2, PTL DEF SpecCodigos

\* Neither limit of the buyers' codes is passed by more than the requests in flight.
THEOREM CodigosSempreLimitados == SpecCodigos => []CodigosLimitados
<1>1. TentativasLimitadas /\ JanelaLimitada => CodigosLimitados
  BY DEF CodigosLimitados
<1> QED BY <1>1, TentativasNuncaPassam, JanelaNuncaPassa, PTL
-----------------------------------------------------------------------------
(* Codes of requests that do not overlap. *)

\* A step that adds to what has overlapped takes nothing away.
LEMMA SoMenos == ASSUME NEW ACTION L, So(L), sozinho' PROVE sozinho /\ L
  BY Zenon DEF So

\* What has overlapped stays so.
LEMMA SozinhoAntes == ASSUME [NextLoja]_varsLoja, sozinho' PROVE sozinho
<1>1. CASE NextPac
  BY <1>1, SoMenos DEF NextPac
<1>2. CASE NextPub
  BY <1>2, SoMenos DEF NextPub
<1>3. CASE NextBak
  BY <1>3, SoMenos DEF NextBak
<1>4. CASE NextRep
  BY <1>4, SoMenos DEF NextRep
<1>5. CASE NextCre
  BY <1>5, SoMenos DEF NextCre
<1>6. CASE NextCod
  BY <1>6, SoMenos DEF NextCod
<1>7. CASE UNCHANGED varsLoja
  BY <1>7 DEF varsLoja, historia
<1> QED BY <1>1, <1>2, <1>3, <1>4, <1>5, <1>6, <1>7 DEF NextLoja

\* A step of the shop is a step of the codes, or leaves them alone.
LEMMA LojaCodigos ==
  ASSUME [NextLoja]_varsLoja
  PROVE  NextCod \/ UNCHANGED varsCodigos
  BY DEF NextLoja, NextPac, NextPub, NextBak, NextRep, NextCre, varsLoja, naoPacote

\* One confirmation at a time: the code it found was not used, so it opened nothing, and it is
\* spent before it does.
UmaConfirmacao ==
  /\ \A r, s \in ReqCod : ~EmCod(r, "livre") /\ ~EmCod(s, "livre") => r = s
  /\ \A c \in Codigo : entradas[c] <= 1 /\ (entradas[c] > 0 => c \in gastos)
  /\ \A r \in ReqCod :
       /\ EmCod(r, "usa") => reqCod[r].cod \notin gastos
       /\ EmCod(r, "entra") =>
            reqCod[r].cod \in gastos /\ reqCod[r].cod \in Codigo /\ entradas[reqCod[r].cod] = 0

\* A step of a handler that is alone.
LEMMA PassoUmaConfirmacao ==
  ASSUME TypeOKCodigos, UmaConfirmacao, NEW r \in ReqCod, PassoCodigos(r),
         \A s \in ReqCod \ {r} : EmCod(s, "livre")
  PROVE  UmaConfirmacao'
<1> USE DEF TypeOKCodigos, UmaConfirmacao, EmCod, SegueCod, LivreCod
<1>1. CASE PedirCodigo(r)
  BY <1>1 DEF PedirCodigo
<1>2. CASE CriarCodigo(r)
  BY <1>2 DEF CriarCodigo
<1>3. ASSUME NEW c \in Codigo, ConfirmarCodigo(r, c) PROVE UmaConfirmacao'
  BY <1>3 DEF ConfirmarCodigo, Atual, Validos
<1>4. CASE Errar(r)
  BY <1>4 DEF Errar
<1>5. CASE Usar(r)
  BY <1>5, CodigosAssumption DEF Usar, HandlerCod, Codigo
<1>6. CASE Entrar(r)
  BY <1>6 DEF Entrar
<1>7. CASE AbrirApagar(r)
  BY <1>7 DEF AbrirApagar
<1>8. CASE ApagarCodigos(r)
  BY <1>8 DEF ApagarCodigos
<1>9. CASE FalharCod(r)
  BY <1>9 DEF FalharCod
<1> QED BY <1>1, <1>2, <1>3, <1>4, <1>5, <1>6, <1>7, <1>8, <1>9 DEF PassoCodigos

\* Requests that do not overlap, cut short or not: a code opens one session.
THEOREM CodigoSempreUmaVez == SpecLoja => []CodigoUmaVez
<1> DEFINE I == TypeOKCodigos /\ (sozinho => UmaConfirmacao)
<1>1. InitLoja => I
  <2>1. InitCodigos => TypeOKCodigos
    BY LivreCodTipo, CodigosAssumption DEF InitCodigos, TypeOKCodigos, Codigo
  <2>2. InitCodigos => UmaConfirmacao
    BY DEF InitCodigos, UmaConfirmacao, EmCod, LivreCod
  <2> QED BY <2>1, <2>2 DEF InitLoja
<1>2. I /\ [NextLoja]_varsLoja => I'
  <2> SUFFICES ASSUME I, [NextLoja]_varsLoja PROVE I'
    OBVIOUS
  <2>1. [NextCodigos]_varsCodigos
    BY LojaCodigos DEF NextCod, NextCodigos
  <2>2. TypeOKCodigos'
    BY <2>1, PassoTipos
  <2>3. ASSUME sozinho' PROVE UmaConfirmacao'
    <3>1. UmaConfirmacao
      BY <2>3, SozinhoAntes
    <3>2. ASSUME NEW r \in ReqCod, PassoCodigos(r), So(\A s \in ReqCod \ {r} : EmCod(s, "livre"))
          PROVE  UmaConfirmacao'
      <4>1. \A s \in ReqCod \ {r} : EmCod(s, "livre")
        BY <2>3, <3>2, SoMenos
      <4> QED BY <3>1, <3>2, <4>1, PassoUmaConfirmacao
    <3>3. ASSUME NEW c \in Codigo, VencerCodigo(c) PROVE UmaConfirmacao'
      BY <3>1, <3>3 DEF VencerCodigo, UmaConfirmacao, EmCod
    <3>4. CASE UNCHANGED varsCodigos
      BY <3>1, <3>4 DEF varsCodigos, UmaConfirmacao, EmCod
    <3> QED BY LojaCodigos, <3>2, <3>3, <3>4 DEF NextCod
  <2> QED BY <2>2, <2>3
<1>3. I => CodigoUmaVez
  BY DEF CodigoUmaVez, UmaConfirmacao
<1> QED BY <1>1, <1>2, <1>3, PTL DEF SpecLoja
-----------------------------------------------------------------------------
(* The connection to Mercado Pago: types, and the account it belongs to. *)

\* A handler that starts is a handler, and a row is a row.
LEMMA LivreCredTipo ==
  /\ LivreCred \in HandlerCred
  /\ SemConexao \in Conexao
  /\ LivreCred.pc = "livre"
<1>1. 0 \in 0 .. MaxTokensMp
  BY CredenciaisAssumption
<1> QED BY <1>1 DEF LivreCred, SemConexao, HandlerCred, Conexao, DonoMp

\* The handlers that renew, keep a token or revoke.
LEMMA HandlersCred ==
  ASSUME NEW k \in 0 .. MaxTokensMp, NEW rodou \in BOOLEAN, NEW publica \in BOOLEAN
  PROVE  /\ [LivreCred EXCEPT !.pc = "renova", !.tok = k] \in HandlerCred
         /\ [LivreCred EXCEPT !.pc = "guarda", !.tok = k, !.rodou = rodou, !.publica = publica]
              \in HandlerCred
         /\ [LivreCred EXCEPT !.pc = "revoga"] \in HandlerCred
         /\ \A c \in DonoMp : [pc |-> "conecta", tok |-> k, conta |-> c, rodou |-> rodou,
                               publica |-> publica] \in HandlerCred
<1>1. 0 \in 0 .. MaxTokensMp
  BY CredenciaisAssumption
<1> QED BY <1>1 DEF LivreCred, HandlerCred, DonoMp

\* MP issues a token of an account of its own.
LEMMA EmitirTipos ==
  ASSUME TypeOKCredenciais, NEW c \in DonoMp, NEW S \in SUBSET TokenMp,
         Emitir(c, S) \/ Emitir(c, S \cup {emitidos + 1})
  PROVE  /\ emitidos' \in 0 .. MaxTokensMp /\ emitidos' = emitidos + 1
         /\ donoTok' \in [TokenMp -> DonoMp]
         /\ renovaveis' \subseteq TokenMp
<1>1. emitidos' = emitidos + 1 /\ emitidos + 1 \in TokenMp
  BY DEF Emitir
<1>2. emitidos' \in 0 .. MaxTokensMp
  BY <1>1, CredenciaisAssumption DEF TokenMp
<1>3. donoTok' \in [TokenMp -> DonoMp]
  BY DEF TypeOKCredenciais, Emitir
<1>4. renovaveis' \subseteq TokenMp
  BY <1>1 DEF Emitir
<1> QED BY <1>1, <1>2, <1>3, <1>4

\* Every step keeps the types.
LEMMA CredenciaisTipos ==
  ASSUME TypeOKCredenciais, [NextCredenciais]_varsCredenciais
  PROVE  TypeOKCredenciais'
<1> USE CredenciaisAssumption, LivreCredTipo DEF TypeOKCredenciais, SegueCred, mercadoPago
<1>1. ASSUME NEW r \in ReqCred, PassoCredenciais(r) PROVE TypeOKCredenciais'
  <2>h. reqCred[r] \in HandlerCred
    OBVIOUS
  <2>1. CASE ObterSemRenovar(r)
    BY <2>1 DEF ObterSemRenovar, varsCredenciais
  <2>2. CASE ObterParaRenovar(r)
    <3>1. conexao.refresh \in 0 .. MaxTokensMp
      BY DEF Conexao
    <3> QED BY <2>2, <3>1, HandlersCred DEF ObterParaRenovar
  <2>3. CASE RenovarNoMp(r)
    <3>1. PICK rodou \in BOOLEAN, publica \in BOOLEAN :
            /\ Emitir(donoTok[reqCred[r].tok],
                      IF rodou THEN (renovaveis \ {reqCred[r].tok}) \cup {emitidos + 1}
                      ELSE renovaveis)
            /\ SegueCred(r, [LivreCred EXCEPT !.pc = "guarda", !.tok = emitidos + 1,
                               !.rodou = rodou, !.publica = publica])
      BY <2>3 DEF RenovarNoMp
    <3>2. reqCred[r].tok \in TokenMp
      BY <2>3 DEF RenovarNoMp
    <3>3. donoTok[reqCred[r].tok] \in DonoMp
      BY <3>2
    <3>4. /\ emitidos' \in 0 .. MaxTokensMp /\ emitidos' = emitidos + 1
          /\ donoTok' \in [TokenMp -> DonoMp] /\ renovaveis' \subseteq TokenMp
      <4>1. CASE rodou
        BY <3>1, <3>3, <4>1, EmitirTipos
      <4>2. CASE ~rodou
        BY <3>1, <3>3, <4>2, EmitirTipos
      <4> QED BY <4>1, <4>2
    <3>5. [LivreCred EXCEPT !.pc = "guarda", !.tok = emitidos + 1, !.rodou = rodou,
                            !.publica = publica] \in HandlerCred
      BY <3>4, HandlersCred
    <3>6. reqCred' \in [ReqCred -> HandlerCred]
      BY <3>1, <3>5
    <3> QED BY <2>3, <3>4, <3>6 DEF RenovarNoMp
  <2>4. CASE RecusarRenovacao(r)
    BY <2>4 DEF RecusarRenovacao
  <2>5. CASE GuardarRenovado(r)
    <3>1. conexao' \in Conexao
      BY <2>5, <2>h DEF GuardarRenovado, Conexao, HandlerCred
    <3> QED BY <2>5, <3>1 DEF GuardarRenovado
  <2>6. ASSUME NEW c \in ContaMp, TrocarCodigo(r, c) PROVE TypeOKCredenciais'
    <3>1. PICK rodou \in BOOLEAN, publica \in BOOLEAN :
            /\ Emitir(c, IF rodou THEN renovaveis \cup {emitidos + 1} ELSE renovaveis)
            /\ SegueCred(r, [pc |-> "conecta", tok |-> emitidos + 1, conta |-> c,
                             rodou |-> rodou, publica |-> publica])
      BY <2>6 DEF TrocarCodigo
    <3>2. c \in DonoMp
      BY DEF DonoMp
    <3>4. /\ emitidos' \in 0 .. MaxTokensMp /\ emitidos' = emitidos + 1
          /\ donoTok' \in [TokenMp -> DonoMp] /\ renovaveis' \subseteq TokenMp
      <4>1. CASE rodou
        BY <3>1, <3>2, <4>1, EmitirTipos
      <4>2. CASE ~rodou
        BY <3>1, <3>2, <4>2, EmitirTipos
      <4> QED BY <4>1, <4>2
    <3>5. [pc |-> "conecta", tok |-> emitidos + 1, conta |-> c, rodou |-> rodou,
           publica |-> publica] \in HandlerCred
      BY <3>2, <3>4, HandlersCred
    <3>6. reqCred' \in [ReqCred -> HandlerCred]
      BY <3>1, <3>5
    <3> QED BY <2>6, <3>4, <3>6 DEF TrocarCodigo
  <2>7. CASE SalvarConexao(r)
    <3>0. 0 \in 0 .. MaxTokensMp
      OBVIOUS
    <3>1. conexao' \in Conexao
      BY <2>7, <2>h, <3>0 DEF SalvarConexao, Conexao, HandlerCred
    <3> QED BY <2>7, <3>1 DEF SalvarConexao
  <2>8. CASE AbrirDesconectar(r)
    <3>1. [LivreCred EXCEPT !.pc = "revoga"] \in HandlerCred
      BY DEF LivreCred, HandlerCred
    <3> QED BY <2>8, <3>1 DEF AbrirDesconectar
  <2>9. CASE Revogar(r)
    BY <2>9 DEF Revogar, Conexao
  <2> QED BY <1>1, <2>1, <2>2, <2>3, <2>4, <2>5, <2>6, <2>7, <2>8, <2>9 DEF PassoCredenciais
<1>2. ASSUME NEW r \in ReqCred, FalharCred(r) PROVE TypeOKCredenciais'
  BY <1>2 DEF FalharCred
<1>3. CASE Envelhecer
  BY <1>3 DEF Envelhecer, Conexao
<1>4. CASE UNCHANGED varsCredenciais
  BY <1>4 DEF varsCredenciais
<1> QED BY <1>1, <1>2, <1>3, <1>4 DEF NextCredenciais

\* The start has the types.
LEMMA CredenciaisInit == ASSUME InitCredenciais PROVE TypeOKCredenciais
<1>1. emitidos \in 0 .. MaxTokensMp /\ renovaveis \subseteq TokenMp
  BY CredenciaisAssumption DEF InitCredenciais
<1>2. donoTok \in [TokenMp -> DonoMp]
  BY DEF InitCredenciais, DonoMp
<1> QED BY <1>1, <1>2, LivreCredTipo DEF InitCredenciais, TypeOKCredenciais

\* Type correctness of the connection, of MP's tokens and of the handlers.
THEOREM TiposCredenciais == SpecCredenciais => []TypeOKCredenciais
BY CredenciaisInit, CredenciaisTipos, PTL DEF SpecCredenciais

\* A handler that has a token MP has just issued.
Trouxe(r) == EmCred(r, "guarda") \/ EmCred(r, "conecta")

\* The tokens of the row, and those on their way to it, are of the account connected: a
\* connection being made is alone.  A new token is one nobody else holds, so that nobody has
\* used it up.
UmaContaSo ==
  /\ \A r \in ReqCred : Conectando(r) => \A s \in ReqCred \ {r} : EmCred(s, "livre")
  /\ conexao.acesso <= emitidos /\ conexao.refresh <= emitidos
  /\ conexao.acesso # 0 => donoTok[conexao.acesso] = conexao.usuario
  /\ conexao.refresh # 0 => donoTok[conexao.refresh] = conexao.usuario
  /\ \A r \in ReqCred : Trouxe(r) \/ EmCred(r, "renova") =>
       /\ reqCred[r].tok \in 1 .. emitidos
       /\ donoTok[reqCred[r].tok] = IF Conectando(r) THEN reqCred[r].conta ELSE conexao.usuario
  /\ \A r \in ReqCred : Trouxe(r) =>
       /\ reqCred[r].rodou => reqCred[r].tok \in renovaveis
       /\ reqCred[r].tok # conexao.refresh
       /\ \A s \in ReqCred \ {r} : Trouxe(s) \/ EmCred(s, "renova") =>
            reqCred[s].tok # reqCred[r].tok

\* What the step of a handler must find for the property to say something: no connection beside
\* it.
SemConexaoAoLado(r) ==
  \A s \in ReqCred \ {r} : ~Conectando(s) /\ (Conectando(r) \/ Conectando(r)' => EmCred(s, "livre"))

\* The steps that only move a handler.
LEMMA SoMoveCred ==
  ASSUME TypeOKCredenciais, UmaContaSo, NEW r \in ReqCred, NEW q \in HandlerCred,
         SegueCred(r, q), UNCHANGED <<conexao, mercadoPago>>,
         q.pc \in {"livre", "revoga"} \/ (q.pc = "renova" /\ q.tok = conexao.refresh /\ q.tok # 0),
         SemConexaoAoLado(r)
  PROVE  UmaContaSo'
  BY DEF TypeOKCredenciais, UmaContaSo, Trouxe, Conectando, EmCred, SegueCred, mercadoPago,
         SemConexaoAoLado, Conexao, TokenMp

\* A step of a handler with no connection beside it.
LEMMA PassoUmaContaSo ==
  ASSUME TypeOKCredenciais, UmaContaSo, NEW r \in ReqCred, PassoCredenciais(r) \/ FalharCred(r),
         SemConexaoAoLado(r)
  PROVE  UmaContaSo'
<1> USE CredenciaisAssumption
<1>1. CASE ObterSemRenovar(r)
  BY <1>1 DEF ObterSemRenovar, varsCredenciais, mercadoPago, UmaContaSo, Trouxe, EmCred, Conectando
<1>2. CASE ObterParaRenovar(r)
  <2>1. conexao.refresh \in 0 .. MaxTokensMp /\ conexao.refresh # 0
    BY <1>2 DEF ObterParaRenovar, PedeRenovacao, TypeOKCredenciais, Conexao
  <2> DEFINE q == [LivreCred EXCEPT !.pc = "renova", !.tok = conexao.refresh]
  <2>2. q \in HandlerCred
    BY <2>1, HandlersCred
  <2>3. q.pc = "renova" /\ q.tok = conexao.refresh /\ q.tok # 0
    BY <2>1 DEF LivreCred
  <2>4. SegueCred(r, q) /\ UNCHANGED <<conexao, mercadoPago>>
    BY <1>2 DEF ObterParaRenovar
  <2> QED BY <2>2, <2>3, <2>4, SoMoveCred
<1>3. CASE RenovarNoMp(r)
  BY <1>3 DEF RenovarNoMp, Emitir, TypeOKCredenciais, UmaContaSo, Trouxe, Conectando, EmCred,
              SegueCred, SemConexaoAoLado, Conexao, TokenMp, LivreCred
<1>4. CASE RecusarRenovacao(r)
  BY <1>4, SoMoveCred, LivreCredTipo DEF RecusarRenovacao, LivreCred
<1>5. CASE GuardarRenovado(r)
  BY <1>5 DEF GuardarRenovado, mercadoPago, TypeOKCredenciais, UmaContaSo, Trouxe, Conectando,
              EmCred, SegueCred, SemConexaoAoLado, Conexao, TokenMp, LivreCred
<1>6. ASSUME NEW c \in ContaMp, TrocarCodigo(r, c) PROVE UmaContaSo'
  BY <1>6 DEF TrocarCodigo, Emitir, TypeOKCredenciais, UmaContaSo, Trouxe, Conectando, EmCred,
              SegueCred, SemConexaoAoLado, Conexao, TokenMp
<1>7. CASE SalvarConexao(r)
  BY <1>7 DEF SalvarConexao, mercadoPago, TypeOKCredenciais, UmaContaSo, Trouxe, Conectando,
              EmCred, SegueCred, SemConexaoAoLado, Conexao, TokenMp, LivreCred
<1>8. CASE AbrirDesconectar(r)
  <2> DEFINE q == [LivreCred EXCEPT !.pc = "revoga"]
  <2>1. 0 \in 0 .. MaxTokensMp
    OBVIOUS
  <2>2. q \in HandlerCred /\ q.pc = "revoga"
    BY <2>1, HandlersCred DEF LivreCred
  <2>3. SegueCred(r, q) /\ UNCHANGED <<conexao, mercadoPago>>
    BY <1>8 DEF AbrirDesconectar
  <2> QED BY <2>2, <2>3, SoMoveCred
<1>9. CASE Revogar(r)
  BY <1>9 DEF Revogar, mercadoPago, TypeOKCredenciais, UmaContaSo, Trouxe, Conectando,
              EmCred, SegueCred, SemConexaoAoLado, Conexao, TokenMp, LivreCred
<1>10. CASE FalharCred(r)
  BY <1>10, SoMoveCred, LivreCredTipo DEF FalharCred, LivreCred
<1> QED BY <1>1, <1>2, <1>3, <1>4, <1>5, <1>6, <1>7, <1>8, <1>9, <1>10 DEF PassoCredenciais

\* The clock does not touch the tokens.
LEMMA EnvelhecerUmaContaSo ==
  ASSUME TypeOKCredenciais, UmaContaSo, Envelhecer
  PROVE  UmaContaSo'
BY DEF TypeOKCredenciais, Envelhecer, mercadoPago, Conexao, UmaContaSo, Trouxe, Conectando, EmCred

\* A refresh token that MP replaced is on its way to the row, as long as no handler fails.
LEMMA PassoRefreshVale ==
  ASSUME TypeOKCredenciais, UmaContaSo, RefreshVale, NEW r \in ReqCred, PassoCredenciais(r)
  PROVE  RefreshVale'
<1> USE DEF TypeOKCredenciais, RefreshVale, EmCred, SegueCred, mercadoPago
<1>1. CASE ObterSemRenovar(r)
  BY <1>1 DEF ObterSemRenovar, varsCredenciais
<1>2. CASE ObterParaRenovar(r)
  BY <1>2 DEF ObterParaRenovar
<1>3. CASE RenovarNoMp(r)
  BY <1>3 DEF RenovarNoMp, Emitir, LivreCred
<1>4. CASE RecusarRenovacao(r)
  BY <1>4 DEF RecusarRenovacao
<1>5. CASE GuardarRenovado(r)
  BY <1>5 DEF GuardarRenovado, Conexao, UmaContaSo, Trouxe
<1>6. ASSUME NEW c \in ContaMp, TrocarCodigo(r, c) PROVE RefreshVale'
  BY <1>6 DEF TrocarCodigo, Emitir
<1>7. CASE SalvarConexao(r)
  BY <1>7 DEF SalvarConexao, Conexao, UmaContaSo, Trouxe
<1>8. CASE AbrirDesconectar(r)
  BY <1>8 DEF AbrirDesconectar
<1>9. CASE Revogar(r)
  BY <1>9 DEF Revogar, Conexao
<1> QED BY <1>1, <1>2, <1>3, <1>4, <1>5, <1>6, <1>7, <1>8, <1>9 DEF PassoCredenciais

\* A step of the shop is a step of the connection, or leaves it alone.
LEMMA LojaCredenciais ==
  ASSUME [NextLoja]_varsLoja
  PROVE  NextCre \/ UNCHANGED varsCredenciais
  BY DEF NextLoja, NextPac, NextPub, NextBak, NextRep, NextCod, varsLoja, naoPacote

\* A failure is not forgotten.
LEMMA InteiroAntes == ASSUME [NextLoja]_varsLoja, inteiro' PROVE inteiro
<1>1. CASE NextBak
  BY <1>1, Zenon DEF NextBak
<1>2. CASE NextCre
  BY <1>2, Zenon DEF NextCre
<1>3. CASE NextPac \/ NextPub \/ NextRep \/ NextCod
  BY <1>3, Zenon DEF NextPac, NextPub, NextRep, NextCod
<1>4. CASE UNCHANGED varsLoja
  BY <1>4 DEF varsLoja, historia
<1> QED BY <1>1, <1>2, <1>3, <1>4 DEF NextLoja

\* The connection holds as long as no connection overlaps anything, and the refresh token as
\* long as no handler fails either.
ConexaoInv == TypeOKCredenciais /\ (sozinho => UmaContaSo /\ (inteiro => RefreshVale))

\* However renewals overlap (obter and renovar of credenciais-vendedor.service.ts), unless one
\* overlaps a connection: the row's token is of the account that is connected; unless one is cut
\* short too: MP accepts the refresh token that is kept.
THEOREM ConexaoSempreVale == SpecLoja => []ConexaoVale
<1>1. InitLoja => ConexaoInv
  <2> SUFFICES ASSUME InitLoja PROVE ConexaoInv
    OBVIOUS
  <2>1. InitCredenciais
    BY DEF InitLoja
  <2>2. TypeOKCredenciais
    BY <2>1, CredenciaisInit
  <2>3. \A r \in ReqCred : EmCred(r, "livre")
    BY <2>1, LivreCredTipo DEF InitCredenciais, EmCred
  <2>4. conexao.acesso = 0 /\ conexao.refresh = 0 /\ emitidos = 0
    BY <2>1 DEF InitCredenciais, SemConexao
  <2>5. UmaContaSo
    BY <2>3, <2>4 DEF UmaContaSo, Trouxe, Conectando, EmCred
  <2>6. RefreshVale
    BY <2>4 DEF RefreshVale
  <2> QED BY <2>2, <2>5, <2>6 DEF ConexaoInv
<1>2. ConexaoInv /\ [NextLoja]_varsLoja => ConexaoInv'
  <2> SUFFICES ASSUME ConexaoInv, [NextLoja]_varsLoja PROVE ConexaoInv'
    OBVIOUS
  <2>t. TypeOKCredenciais
    BY DEF ConexaoInv
  <2>1. [NextCredenciais]_varsCredenciais
    BY LojaCredenciais DEF NextCre, NextCredenciais
  <2>2. TypeOKCredenciais'
    BY <2>t, <2>1, CredenciaisTipos
  <2>3. ASSUME sozinho' PROVE UmaContaSo' /\ (inteiro' => RefreshVale')
    <3>1. UmaContaSo /\ (inteiro => RefreshVale)
      BY <2>3, SozinhoAntes DEF ConexaoInv
    <3>2. ASSUME NEW r \in ReqCred,
                 \/ PassoCredenciais(r)
                 \/ FalharCred(r) /\ inteiro' = FALSE,
                 So(\A s \in ReqCred \ {r} :
                      /\ ~Conectando(s)
                      /\ Conectando(r) \/ Conectando(r)' => EmCred(s, "livre"))
          PROVE  UmaContaSo' /\ (inteiro' => RefreshVale')
      <4>1. \A s \in ReqCred \ {r} :
              /\ ~Conectando(s)
              /\ Conectando(r) \/ Conectando(r)' => EmCred(s, "livre")
        BY <2>3, <3>2, SoMenos
      <4>2. SemConexaoAoLado(r)
        BY <4>1 DEF SemConexaoAoLado
      <4>3. UmaContaSo'
        BY <2>t, <3>1, <3>2, <4>2, PassoUmaContaSo
      <4>4. ASSUME inteiro' PROVE RefreshVale'
        <5>1. RefreshVale
          BY <3>1, <4>4, InteiroAntes
        <5>2. PassoCredenciais(r)
          BY <3>2, <4>4
        <5> QED BY <2>t, <3>1, <5>1, <5>2, PassoRefreshVale
      <4> QED BY <4>3, <4>4
    <3>3. CASE Envelhecer
      <4>1. UmaContaSo'
        BY <2>t, <3>1, <3>3, EnvelhecerUmaContaSo
      <4>2. RefreshVale => RefreshVale'
        BY <2>t, <3>3 DEF Envelhecer, mercadoPago, RefreshVale, TypeOKCredenciais, Conexao, EmCred
      <4> QED BY <3>1, <4>1, <4>2, InteiroAntes
    <3>4. CASE UNCHANGED varsCredenciais
      <4>1. UmaContaSo'
        BY <3>1, <3>4 DEF varsCredenciais, mercadoPago, UmaContaSo, Trouxe, Conectando, EmCred
      <4>2. RefreshVale => RefreshVale'
        BY <3>4 DEF varsCredenciais, mercadoPago, RefreshVale, EmCred
      <4> QED BY <3>1, <4>1, <4>2, InteiroAntes
    <3> QED BY LojaCredenciais, <3>2, <3>3, <3>4, Zenon DEF NextCre
  <2> QED BY <2>2, <2>3 DEF ConexaoInv
<1>3. ConexaoInv => ConexaoVale
  BY DEF ConexaoInv, ConexaoVale, MesmaConta, UmaContaSo
<1> QED BY <1>1, <1>2, <1>3, PTL DEF SpecLoja
-----------------------------------------------------------------------------
(* The desktop's backups: the retention, the types, and what is left to restore. *)

\* What the loop starts from, and what it does with a backup b.
VistoNada == [ficam |-> {}, dias |-> {}, semanas |-> {}]

NovoDia(v, b) == DiaDe(b) \notin v.dias /\ Cardinality(v.dias) < DiasGuardados

NovaSemana(v, b) == SemanaDe(b) \notin v.semanas /\ Cardinality(v.semanas) < SemanasGuardadas

VistoMais(v, b) ==
  [ficam |-> IF NovoDia(v, b) \/ NovaSemana(v, b) THEN v.ficam \cup {b} ELSE v.ficam,
   dias |-> IF NovoDia(v, b) THEN v.dias \cup {DiaDe(b)} ELSE v.dias,
   semanas |-> IF NovaSemana(v, b) THEN v.semanas \cup {SemanaDe(b)} ELSE v.semanas]

\* o has the backups of S from the newest to the oldest.
DoMaisNovo(S, o) ==
  /\ o \in [1 .. Cardinality(S) -> S]
  /\ \A i, j \in 1 .. Cardinality(S) : i < j => MaisNovo(o[i], o[j])

Ordem(S) == CHOOSE o \in [1 .. Cardinality(S) -> S] :
              \A i, j \in 1 .. Cardinality(S) : i < j => MaisNovo(o[i], o[j])

\* f tells what was seen along o.
Percorre(f, n, o) ==
  f = [i \in 0 .. n |-> IF i = 0 THEN VistoNada ELSE VistoMais(f[i - 1], o[i])]

Visto(S) == CHOOSE visto : Percorre(visto, Cardinality(S), Ordem(S))

LEMMA FicamVisto == ASSUME NEW S PROVE Ficam(S) = Visto(S)[Cardinality(S)].ficam
BY DEF Ficam, Visto, Ordem, Percorre, VistoNada, VistoMais, NovoDia, NovaSemana

\* The loop can be run over any n backups.
LEMMA PercursoExiste ==
  ASSUME NEW n \in Nat, NEW o
  PROVE  \E f : Percorre(f, n, o)
<1> DEFINE C == {m \in Nat : ~\E f : Percorre(f, m, o)}
<1>1. ASSUME C # {} PROVE FALSE
  <2>1. PICK m \in C : \A k \in C : m <= k
    BY <1>1, MenorDeles
  <2>2. m # 0
    <3>1. Percorre([i \in 0 .. 0 |-> VistoNada], 0, o)
      BY DEF Percorre
    <3> QED BY <3>1
  <2>3. m - 1 \in Nat /\ m - 1 \notin C
    BY <2>1, <2>2
  <2>4. PICK f : Percorre(f, m - 1, o)
    BY <2>3
  <2> DEFINE h == [i \in 0 .. m |-> IF i = m THEN VistoMais(f[m - 1], o[m]) ELSE f[i]]
  <2>5. ASSUME NEW i \in 0 .. m
        PROVE  h[i] = IF i = 0 THEN VistoNada ELSE VistoMais(h[i - 1], o[i])
    <3>1. CASE i = m
      BY <2>2, <3>1
    <3>2. CASE i # m
      <4>1. i \in 0 .. m - 1
        BY <3>2
      <4>2. h[i] = f[i]
        BY <3>2
      <4>3. CASE i = 0
        BY <2>4, <4>1, <4>2, <4>3 DEF Percorre
      <4>4. CASE i # 0
        <5>1. h[i - 1] = f[i - 1]
          BY <4>1, <4>4
        <5> QED BY <2>4, <4>1, <4>2, <4>4, <5>1 DEF Percorre
      <4> QED BY <4>3, <4>4
    <3> QED BY <3>1, <3>2
  <2> HIDE DEF h
  <2>6. Percorre(h, m, o)
    BY <2>5 DEF Percorre, h
  <2> QED BY <2>6
<1> QED BY <1>1

\* The backups concluded are told apart by their order, and the days follow it.
EmOrdem(S) ==
  /\ \A b \in S : feito[b][1] \in Nat /\ feito[b][2] \in Nat
  /\ \A a, b \in S : a # b => feito[a][2] # feito[b][2]
  /\ \A a, b \in S : MaisNovo(a, b) => DiaDe(a) >= DiaDe(b)

\* They can be put in that order.
LEMMA OrdemExiste ==
  ASSUME NEW S, IsFiniteSet(S), EmOrdem(S)
  PROVE  \E o : DoMaisNovo(S, o)
<1> DEFINE C == {m \in Nat : \E T \in SUBSET S : Cardinality(T) = m /\ ~\E o : DoMaisNovo(T, o)}
<1>1. ASSUME C # {} PROVE FALSE
  <2>1. PICK m \in C : \A k \in C : m <= k
    BY <1>1, MenorDeles
  <2>2. PICK T \in SUBSET S : Cardinality(T) = m /\ ~\E o : DoMaisNovo(T, o)
    BY <2>1
  <2>3. IsFiniteSet(T)
    BY FS_Subset
  <2>4. T # {}
    <3>1. ASSUME T = {} PROVE FALSE
      <4>1. Cardinality(T) = 0
        BY <3>1, FS_EmptySet
      <4>2. [i \in {} |-> 0] \in [{} -> {}]
        OBVIOUS
      <4>3. 1 .. 0 = {}
        OBVIOUS
      <4>4. DoMaisNovo(T, [i \in {} |-> 0])
        BY <3>1, <4>1, <4>2, <4>3 DEF DoMaisNovo
      <4> QED BY <2>2, <4>4
    <3> QED BY <3>1
  <2>5. PICK b \in T : \A a \in T : feito[b][2] <= feito[a][2]
    <3> DEFINE N == {feito[a][2] : a \in T}
    <3>1. N \subseteq Nat /\ N # {}
      BY <2>4 DEF EmOrdem
    <3>2. \E x \in N : \A y \in N : x <= y
      <4> HIDE DEF N
      <4> QED BY <3>1, MenorDeles
    <3>3. PICK x \in N : \A y \in N : x <= y
      BY <3>2
    <3>4. PICK b \in T : x = feito[b][2]
      BY <3>3
    <3> QED BY <3>3, <3>4
  <2>6. IsFiniteSet(T \ {b}) /\ Cardinality(T \ {b}) = m - 1
    BY <2>2, <2>3, <2>5, FS_RemoveElement
  <2>7. m \in Nat /\ m # 0 /\ m - 1 \in Nat
    BY <2>3, <2>6, FS_CardinalityType
  <2>8. PICK o : DoMaisNovo(T \ {b}, o)
    <3>1. m - 1 \notin C
      BY <2>1, <2>7
    <3> QED BY <2>6, <2>7, <3>1
  <2> DEFINE h == [i \in 1 .. m |-> IF i = m THEN b ELSE o[i]]
  <2>9. \A i \in 1 .. m : i # m => i \in 1 .. m - 1 /\ h[i] = o[i] /\ o[i] \in T \ {b}
    <3> SUFFICES ASSUME NEW i \in 1 .. m, i # m
                 PROVE  i \in 1 .. m - 1 /\ h[i] = o[i] /\ o[i] \in T \ {b}
      OBVIOUS
    <3>1. i \in 1 .. m - 1
      BY <2>7
    <3>2. o \in [1 .. m - 1 -> T \ {b}]
      BY <2>6, <2>8 DEF DoMaisNovo
    <3> QED BY <3>1, <3>2
  <2>10. h \in [1 .. m -> T]
    BY <2>7, <2>9
  <2>11. ASSUME NEW i \in 1 .. m, NEW j \in 1 .. m, i < j PROVE MaisNovo(h[i], h[j])
    <3>1. i # m /\ i \in 1 .. m - 1 /\ h[i] = o[i] /\ o[i] \in T \ {b}
      BY <2>7, <2>9, <2>11
    <3>2. CASE j = m
      <4>1. h[j] = b
        BY <3>2
      <4>2. feito[b][2] <= feito[o[i]][2] /\ feito[b][2] # feito[o[i]][2]
        BY <2>5, <3>1 DEF EmOrdem
      <4>3. feito[b][2] \in Nat /\ feito[o[i]][2] \in Nat
        BY <3>1 DEF EmOrdem
      <4> QED BY <3>1, <4>1, <4>2, <4>3 DEF MaisNovo
    <3>3. CASE j # m
      <4>1. j \in 1 .. m - 1 /\ h[j] = o[j]
        BY <2>9, <3>3
      <4> QED BY <2>6, <2>8, <2>11, <3>1, <4>1 DEF DoMaisNovo
    <3> QED BY <3>2, <3>3
  <2>12. DoMaisNovo(T, h)
    BY <2>2, <2>10, <2>11 DEF DoMaisNovo
  <2> QED BY <2>2, <2>12
<1>2. Cardinality(S) \in Nat
  BY FS_CardinalityType
<1> QED BY <1>1, <1>2

\* Newest first, every backup is found.
LEMMA OrdemTodos ==
  ASSUME NEW S, IsFiniteSet(S), EmOrdem(S)
  PROVE  /\ DoMaisNovo(S, Ordem(S))
         /\ \A b \in S : \E i \in 1 .. Cardinality(S) : Ordem(S)[i] = b
<1> DEFINE n == Cardinality(S)
           o == Ordem(S)
<1>1. DoMaisNovo(S, o)
  <2>1. \E p \in [1 .. n -> S] : \A i, j \in 1 .. n : i < j => MaisNovo(p[i], p[j])
    BY OrdemExiste DEF DoMaisNovo
  <2> QED BY <2>1, Zenon DEF DoMaisNovo, Ordem
<1>2. n \in Nat
  BY FS_CardinalityType
<1>3. ASSUME NEW i \in 1 .. n, NEW j \in 1 .. n, o[i] = o[j] PROVE i = j
  <2>1. o[i] \in S /\ feito[o[i]][2] \in Nat
    BY <1>1 DEF DoMaisNovo, EmOrdem
  <2>2. ~MaisNovo(o[i], o[i])
    BY <2>1 DEF MaisNovo
  <2>3. ~(i < j) /\ ~(j < i)
    BY <1>1, <1>3, <2>2 DEF DoMaisNovo
  <2> QED BY <1>2, <2>3
<1>4. o \in Injection(1 .. n, S)
  BY <1>1, <1>3 DEF DoMaisNovo, Injection, IsInjective
<1>5. IsFiniteSet(1 .. n) /\ Cardinality(1 .. n) = n
  BY <1>2, FS_Interval
<1>6. o \in Surjection(1 .. n, S)
  BY <1>4, <1>5, FS_Injection
<1> QED BY <1>1, <1>6 DEF Surjection

\* Of the g first keys of the set D, V has those seen.
Vistos(V, D, g) ==
  /\ IsFiniteSet(D) /\ V \subseteq D
  /\ (V = D /\ Cardinality(V) <= g) \/ Cardinality(V) = g

\* A key that was not seen is taken while there is room.
Novo(V, d, g) == d \notin V /\ Cardinality(V) < g

\* What retencao.ts promises for one key of the backups, their day or their week.
Guardado(S, F, g, b) ==
  /\ \A c \in S : F[c] = F[b] => c = b \/ MaisNovo(b, c)
  /\ Cardinality({F[c] : c \in {e \in S : F[e] > F[b]}}) < g

\* One turn of the loop, for one key: it takes the backup as the policy says.
LEMMA UmaVolta ==
  ASSUME NEW S, IsFiniteSet(S), EmOrdem(S), NEW F \in [S -> Nat], NEW g \in Nat \ {0},
         \A a, b \in S : MaisNovo(a, b) => F[a] >= F[b],
         NEW i \in 1 .. Cardinality(S), NEW V,
         NEW b, b = Ordem(S)[i],
         Vistos(V, {F[Ordem(S)[k]] : k \in 1 .. i - 1}, g)
  PROVE  /\ Novo(V, F[b], g) <=> Guardado(S, F, g, b)
         /\ Vistos(IF Novo(V, F[b], g) THEN V \cup {F[b]} ELSE V,
                   {F[Ordem(S)[k]] : k \in 1 .. i}, g)
<1> DEFINE n == Cardinality(S)
           o == Ordem(S)
           d == F[b]
           D == {F[o[k]] : k \in 1 .. i - 1}
           E == {F[o[k]] : k \in 1 .. i}
           M == {F[c] : c \in {e \in S : F[e] > d}}
           novo == d \notin V /\ Cardinality(V) < g
<1> SUFFICES /\ novo <=> Guardado(S, F, g, b)
             /\ Vistos(IF novo THEN V \cup {d} ELSE V, E, g)
  BY DEF Novo
<1>1. n \in Nat /\ i \in 1 .. n
  BY FS_CardinalityType
<1>2. /\ o \in [1 .. n -> S]
      /\ \A k, l \in 1 .. n : k < l => MaisNovo(o[k], o[l]) /\ F[o[k]] >= F[o[l]]
      /\ \A c \in S : \E k \in 1 .. n : o[k] = c
  BY OrdemTodos DEF DoMaisNovo
<1>3. b = o[i] /\ b \in S /\ d \in Nat
  BY <1>1, <1>2
<1>4. E = D \cup {d}
  <2>1. 1 .. i = (1 .. i - 1) \cup {i}
    BY <1>1
  <2> QED BY <1>3, <2>1
<1>5. Vistos(V, D, g)
  OBVIOUS
<1>6. \A k \in 1 .. i - 1 : k \in 1 .. n /\ F[o[k]] >= d /\ MaisNovo(o[k], b) /\ o[k] \in S
  BY <1>1, <1>2, <1>3
<1>7. \A a, c \in S : ~(MaisNovo(a, c) /\ MaisNovo(c, a))
  BY DEF EmOrdem, MaisNovo
<1>8. \A x \in D : x \in Nat /\ x >= d
  BY <1>6
<1>9. IsFiniteSet(D) /\ IsFiniteSet(V) /\ Cardinality(V) \in Nat
  BY <1>5, FS_Subset, FS_CardinalityType DEF Vistos
<1> HIDE DEF o, D, E
<1>10. ASSUME NEW c \in S PROVE c = b \/ (F[c] <= d /\ MaisNovo(b, c)) \/ (F[c] \in D /\ MaisNovo(c, b))
  <2>1. PICK k \in 1 .. n : o[k] = c
    BY <1>2
  <2>2. CASE k < i
    <3>1. k \in 1 .. i - 1
      BY <1>1, <2>2
    <3> QED BY <1>6, <2>1, <3>1 DEF D
  <2>3. CASE k = i
    BY <1>3, <2>1, <2>3
  <2>4. CASE k > i
    BY <1>1, <1>2, <1>3, <2>1, <2>4
  <2> QED BY <1>1, <2>2, <2>3, <2>4
<1>11. d \notin D => M = D
  <2> SUFFICES ASSUME d \notin D PROVE M = D
    OBVIOUS
  <2>1. ASSUME NEW x \in M PROVE x \in D
    <3>1. PICK c \in S : F[c] > d /\ x = F[c]
      OBVIOUS
    <3>2. F[c] \in Nat
      OBVIOUS
    <3> QED BY <1>3, <1>10, <3>1, <3>2
  <2>2. ASSUME NEW x \in D PROVE x \in M
    <3>1. PICK k \in 1 .. i - 1 : x = F[o[k]]
      BY DEF D
    <3>2. F[o[k]] > d /\ o[k] \in S
      BY <1>3, <1>6, <1>8, <3>1
    <3> QED BY <3>1, <3>2
  <2> QED BY <2>1, <2>2
<1>12. d \in D => ~Guardado(S, F, g, b)
  <2> SUFFICES ASSUME d \in D PROVE \E c \in S : F[c] = d /\ c # b /\ ~MaisNovo(b, c)
    BY DEF Guardado
  <2>1. PICK k \in 1 .. i - 1 : d = F[o[k]]
    BY DEF D
  <2>2. o[k] \in S /\ MaisNovo(o[k], b)
    BY <1>6
  <2>3. ~MaisNovo(b, o[k]) /\ o[k] # b
    BY <1>3, <1>7, <2>2
  <2> QED BY <2>1, <2>2, <2>3
<1>13. d \notin D => \A c \in S : F[c] = d => c = b \/ MaisNovo(b, c)
  BY <1>10
<1>14. Guardado(S, F, g, b) <=> (\A c \in S : F[c] = d => c = b \/ MaisNovo(b, c)) /\ Cardinality(M) < g
  BY DEF Guardado
<1> HIDE DEF M, d
<1>15. Cardinality(D) \in Nat
  BY <1>9, FS_CardinalityType
<1>16. CASE d \in D
  <2>1. E = D
    BY <1>4, <1>16
  <2>2. ~novo
    BY <1>5, <1>16 DEF Vistos
  <2> QED BY <1>5, <1>12, <1>16, <2>1, <2>2
<1>17. CASE d \notin D /\ V = D /\ Cardinality(V) < g
  <2>1. novo /\ Guardado(S, F, g, b)
    BY <1>11, <1>13, <1>14, <1>17
  <2>2. IsFiniteSet(E) /\ Cardinality(E) = Cardinality(D) + 1
    BY <1>4, <1>9, <1>17, FS_AddElement
  <2>3. Vistos(V \cup {d}, E, g)
    BY <1>4, <1>9, <1>17, <2>2 DEF Vistos
  <2> QED BY <2>1, <2>3
<1>18. CASE d \notin D /\ Cardinality(V) = g
  <2>1. Cardinality(V) <= Cardinality(D)
    BY <1>5, <1>9, FS_Subset DEF Vistos
  <2>2. ~novo /\ ~Guardado(S, F, g, b)
    BY <1>9, <1>11, <1>14, <1>15, <1>18, <2>1
  <2>3. IsFiniteSet(E)
    BY <1>4, <1>9, FS_AddElement
  <2>4. Vistos(V, E, g)
    BY <1>4, <1>5, <1>18, <2>3 DEF Vistos
  <2> QED BY <2>2, <2>4
<1>19. d \notin D => (V = D /\ Cardinality(V) < g) \/ Cardinality(V) = g
  BY <1>5, <1>9 DEF Vistos
<1> QED BY <1>16, <1>17, <1>18, <1>19

\* The days and the weeks are keys that follow the order.
LEMMA Chaves ==
  ASSUME NEW S, EmOrdem(S)
  PROVE  /\ \A b \in S : DiaDe(b) \in Nat /\ SemanaDe(b) \in Nat
         /\ \A a, b \in S : MaisNovo(a, b) => DiaDe(a) >= DiaDe(b) /\ SemanaDe(a) >= SemanaDe(b)
<1>1. \A x, y \in Nat : x \div DiasDaSemana \in Nat
                        /\ (x >= y => x \div DiasDaSemana >= y \div DiasDaSemana)
  BY BackupsAssumption
<1>2. \A b \in S : DiaDe(b) \in Nat
  BY DEF EmOrdem, DiaDe
<1> QED BY <1>1, <1>2 DEF EmOrdem, SemanaDe

\* The loop keeps exactly what the policy promises of the backups it has passed.
LEMMA RetencaoVale ==
  ASSUME NEW S, IsFiniteSet(S), EmOrdem(S)
  PROVE  Ficam(S) = Prometidos(S)
<1> DEFINE n == Cardinality(S)
           o == Ordem(S)
           f == Visto(S)
           Dia == [b \in S |-> DiaDe(b)]
           Semana == [b \in S |-> SemanaDe(b)]
           Passadas(F, i) == {F[o[k]] : k \in 1 .. i}
           Ate(i) ==
             /\ f[i].ficam = {o[k] : k \in 1 .. i} \cap Prometidos(S)
             /\ Vistos(f[i].dias, Passadas(Dia, i), DiasGuardados)
             /\ Vistos(f[i].semanas, Passadas(Semana, i), SemanasGuardadas)
<1>1. n \in Nat
  BY FS_CardinalityType
<1>2. Percorre(f, n, o)
  BY <1>1, PercursoExiste DEF Visto
<1>3. o \in [1 .. n -> S] /\ \A b \in S : \E k \in 1 .. n : o[k] = b
  BY OrdemTodos DEF DoMaisNovo
<1>4. Dia \in [S -> Nat] /\ Semana \in [S -> Nat]
  BY Chaves
<1>5. \A a, b \in S : MaisNovo(a, b) => Dia[a] >= Dia[b] /\ Semana[a] >= Semana[b]
  BY Chaves
<1>6. \A b \in S : b \in Prometidos(S) <=> Guardado(S, Dia, DiasGuardados, b)
                                         \/ Guardado(S, Semana, SemanasGuardadas, b)
  <2> TAKE b \in S
  <2>1. {Dia[c] : c \in {e \in S : Dia[e] > Dia[b]}}
          = {DiaDe(c) : c \in {e \in S : DiaDe(e) > DiaDe(b)}}
    OBVIOUS
  <2>2. {Semana[c] : c \in {e \in S : Semana[e] > Semana[b]}}
          = {SemanaDe(c) : c \in {e \in S : SemanaDe(e) > SemanaDe(b)}}
    OBVIOUS
  <2>3. Guardado(S, Dia, DiasGuardados, b) <=>
          /\ \A c \in S : DiaDe(c) = DiaDe(b) => c = b \/ MaisNovo(b, c)
          /\ Cardinality({DiaDe(c) : c \in {e \in S : DiaDe(e) > DiaDe(b)}}) < DiasGuardados
    BY <2>1 DEF Guardado
  <2>4. Guardado(S, Semana, SemanasGuardadas, b) <=>
          /\ \A c \in S : SemanaDe(c) = SemanaDe(b) => c = b \/ MaisNovo(b, c)
          /\ Cardinality({SemanaDe(c) : c \in {e \in S : SemanaDe(e) > SemanaDe(b)}})
               < SemanasGuardadas
    BY <2>2 DEF Guardado
  <2> QED BY <2>3, <2>4, Zenon DEF Prometidos
<1>7. Ate(0)
  <2>1. f[0] = VistoNada
    BY <1>1, <1>2 DEF Percorre
  <2>2. Passadas(Dia, 0) = {} /\ Passadas(Semana, 0) = {} /\ {o[k] : k \in 1 .. 0} = {}
    OBVIOUS
  <2>3. IsFiniteSet({}) /\ Cardinality({}) = 0
    BY FS_EmptySet
  <2>4. Vistos({}, {}, DiasGuardados) /\ Vistos({}, {}, SemanasGuardadas)
    BY <2>3, BackupsAssumption DEF Vistos
  <2>5. f[0].ficam = {} /\ f[0].dias = {} /\ f[0].semanas = {}
    BY <2>1 DEF VistoNada
  <2>6. f[0].ficam = {o[k] : k \in 1 .. 0} \cap Prometidos(S)
    BY <2>2, <2>5
  <2> HIDE DEF Passadas, Dia, Semana
  <2> QED BY <2>2, <2>4, <2>5, <2>6
<1>8. ASSUME NEW i \in 1 .. n, Ate(i - 1) PROVE Ate(i)
  <2> DEFINE v == f[i - 1]
             b == o[i]
  <2>1. i \in 0 .. n /\ i # 0 /\ f[i] = VistoMais(v, b)
    BY <1>1, <1>2 DEF Percorre
  <2>2. b \in S /\ Dia[b] = DiaDe(b) /\ Semana[b] = SemanaDe(b)
    BY <1>3
  <2>3. DiasGuardados \in Nat \ {0} /\ SemanasGuardadas \in Nat \ {0}
    BY BackupsAssumption
  <2> HIDE DEF Dia, Semana
  <2>4. /\ NovoDia(v, b) <=> Guardado(S, Dia, DiasGuardados, b)
        /\ Vistos(IF NovoDia(v, b) THEN v.dias \cup {DiaDe(b)} ELSE v.dias, Passadas(Dia, i),
                  DiasGuardados)
    <3>1. Vistos(v.dias, {Dia[o[k]] : k \in 1 .. i - 1}, DiasGuardados)
      BY <1>8
    <3>2. \A a, c \in S : MaisNovo(a, c) => Dia[a] >= Dia[c]
      BY <1>5
    <3>3. /\ Novo(v.dias, Dia[b], DiasGuardados) <=> Guardado(S, Dia, DiasGuardados, b)
          /\ Vistos(IF Novo(v.dias, Dia[b], DiasGuardados) THEN v.dias \cup {Dia[b]} ELSE v.dias,
                    {Dia[o[k]] : k \in 1 .. i}, DiasGuardados)
      BY <1>4, <2>3, <3>1, <3>2, UmaVolta
    <3> QED BY <2>2, <3>3 DEF NovoDia, Novo
  <2>5. /\ NovaSemana(v, b) <=> Guardado(S, Semana, SemanasGuardadas, b)
        /\ Vistos(IF NovaSemana(v, b) THEN v.semanas \cup {SemanaDe(b)} ELSE v.semanas,
                  Passadas(Semana, i), SemanasGuardadas)
    <3>1. Vistos(v.semanas, {Semana[o[k]] : k \in 1 .. i - 1}, SemanasGuardadas)
      BY <1>8
    <3>2. \A a, c \in S : MaisNovo(a, c) => Semana[a] >= Semana[c]
      BY <1>5
    <3>3. /\ Novo(v.semanas, Semana[b], SemanasGuardadas) <=> Guardado(S, Semana, SemanasGuardadas, b)
          /\ Vistos(IF Novo(v.semanas, Semana[b], SemanasGuardadas) THEN v.semanas \cup {Semana[b]} ELSE v.semanas,
                    {Semana[o[k]] : k \in 1 .. i}, SemanasGuardadas)
      BY <1>4, <2>3, <3>1, <3>2, UmaVolta
    <3> QED BY <2>2, <3>3 DEF NovaSemana, Novo
  <2>6. NovoDia(v, b) \/ NovaSemana(v, b) <=> b \in Prometidos(S)
    BY <1>6, <2>2, <2>4, <2>5
  <2>7. {o[k] : k \in 1 .. i} = {o[k] : k \in 1 .. i - 1} \cup {b}
    <3>1. 1 .. i = (1 .. i - 1) \cup {i}
      BY <1>1
    <3> QED BY <3>1
  <2>8. f[i].ficam = {o[k] : k \in 1 .. i} \cap Prometidos(S)
    BY <1>8, <2>1, <2>6, <2>7 DEF VistoMais
  <2> HIDE DEF Passadas
  <2> QED BY <2>1, <2>4, <2>5, <2>8 DEF VistoMais
<1> HIDE DEF Ate
<1>9. Ate(n)
  <2> DEFINE C == {i \in Nat : i <= n /\ ~Ate(i)}
  <2>1. ASSUME C # {} PROVE FALSE
    <3>1. \E m \in C : \A k \in C : m <= k
      <4>1. C \subseteq Nat
        OBVIOUS
      <4> HIDE DEF C
      <4> QED BY <2>1, <4>1, MenorDeles
    <3>2. PICK m \in C : \A k \in C : m <= k
      BY <3>1
    <3>3. m # 0
      BY <1>7, <3>2
    <3>4. m \in 1 .. n /\ m - 1 \in Nat /\ m - 1 <= n
      BY <1>1, <3>2, <3>3
    <3>5. Ate(m - 1)
      BY <3>2, <3>4
    <3> QED BY <1>8, <3>2, <3>4, <3>5
  <2> QED BY <1>1, <2>1
<1>10. Prometidos(S) \subseteq S
  BY DEF Prometidos
<1>11. {o[k] : k \in 1 .. n} = S
  BY <1>3
<1>12. f[n].ficam = Prometidos(S)
  BY <1>9, <1>10, <1>11 DEF Ate
<1> QED BY <1>12, FicamVisto

\* A handler that starts is a handler.
LEMMA LivreBakTipo ==
  /\ LivreBak \in HandlerBak
  /\ LivreBak.pc = "livre" /\ LivreBak.sair = {} /\ LivreBak.bak = 0
<1>1. 0 \in 0 .. MaxBackups
  BY BackupsAssumption
<1> QED BY <1>1 DEF LivreBak, HandlerBak

\* The handlers that abandon, confirm, retain and remove.
LEMMA HandlersBak ==
  ASSUME NEW q \in HandlerBak, NEW b \in 0 .. MaxBackups, NEW S \in SUBSET Backup
  PROVE  /\ [LivreBak EXCEPT !.pc = "abandonados", !.inicia = TRUE] \in HandlerBak
         /\ [LivreBak EXCEPT !.pc = "confere", !.bak = b] \in HandlerBak
         /\ [LivreBak EXCEPT !.pc = "retem"] \in HandlerBak
         /\ [q EXCEPT !.pc = "conclui"] \in HandlerBak
         /\ [q EXCEPT !.pc = "linhas"] \in HandlerBak
         /\ [q EXCEPT !.sair = {}] \in HandlerBak
         /\ Apagando(q, S) \in HandlerBak
<1>1. 0 \in 0 .. MaxBackups
  BY BackupsAssumption
<1>2. LivreBak \in HandlerBak
  BY LivreBakTipo
<1>3. [q EXCEPT !.pc = "arquivos", !.sair = S] \in HandlerBak /\ [q EXCEPT !.pc = "cria"] \in HandlerBak
  BY DEF HandlerBak
<1> QED BY <1>1, <1>2, <1>3 DEF HandlerBak, LivreBak, Apagando

\* The start has the types.
LEMMA BackupsInit == ASSUME InitBackups PROVE TypeOKBackups
<1>1. 0 \in 0 .. MaxBackups /\ 0 \in DiaBak /\ 0 \in Nat
  BY BackupsAssumption DEF DiaBak
<1> QED BY <1>1, LivreBakTipo DEF InitBackups, TypeOKBackups

\* Every step keeps the types.
LEMMA BackupsTipos ==
  ASSUME TypeOKBackups, [NextBackups]_varsBackups
  PROVE  TypeOKBackups'
<1> USE BackupsAssumption, LivreBakTipo DEF TypeOKBackups, SegueBak, linhasBak
<1>0. \A r \in ReqBak : reqBak[r] \in HandlerBak /\ reqBak[r].sair \subseteq Backup
  BY DEF HandlerBak
<1>1. ASSUME NEW r \in ReqBak, PassoBackups(r) PROVE TypeOKBackups'
  <2>1. CASE IniciarBackup(r)
    BY <1>0, <2>1, HandlersBak DEF IniciarBackup
  <2>2. CASE LerAbandonados(r)
    <3>1. {b \in ComStatusBak("ENVIANDO") : desde[b] < diaBak} \in SUBSET Backup
      BY DEF ComStatusBak
    <3> QED BY <1>0, <2>2, <3>1, HandlersBak DEF LerAbandonados
  <2>3. CASE CriarBackup(r)
    BY <2>3 DEF CriarBackup, Backup
  <2>4. ASSUME NEW b \in Backup, ConfirmarBackup(r, b) PROVE TypeOKBackups'
    <3>1. b \in 0 .. MaxBackups
      BY DEF Backup
    <3> QED BY <1>0, <2>4, <3>1, HandlersBak DEF ConfirmarBackup
  <2>5. CASE ConferirArquivo(r)
    BY <1>0, <2>5, HandlersBak DEF ConferirArquivo
  <2>6. CASE ConcluirBackup(r)
    <3>1. linha' \in [Backup -> {"NENHUMA", "ENVIANDO", "CONCLUIDO"}]
      BY <2>6 DEF ConcluirBackup
    <3>2. conclusoes' \in Nat /\ <<diaBak, conclusoes + 1>> \in DiaBak \X Nat
      BY <2>6 DEF ConcluirBackup
    <3>3. feito' \in [Backup -> DiaBak \X Nat]
      BY <2>6, <3>2 DEF ConcluirBackup
    <3>4. reqBak' \in [ReqBak -> HandlerBak]
      BY <1>0, <2>6, HandlersBak DEF ConcluirBackup
    <3> QED BY <2>6, <3>1, <3>2, <3>3, <3>4 DEF ConcluirBackup
  <2>7. CASE Reter(r)
    <3> DEFINE S == ComStatusBak("CONCLUIDO") \ Ficam(ComStatusBak("CONCLUIDO"))
    <3>1. S \in SUBSET Backup
      BY DEF ComStatusBak
    <3>2. Apagando(reqBak[r], S) \in HandlerBak
      BY <1>0, <3>1, HandlersBak
    <3> HIDE DEF S
    <3>3. SegueBak(r, Apagando(reqBak[r], S)) /\ UNCHANGED <<linhasBak, arquivo, diaBak>>
      BY <2>7 DEF Reter, S
    <3> QED BY <3>2, <3>3
  <2>8. CASE ApagarArquivos(r)
    <3>1. arquivo' \subseteq Backup
      BY <2>8 DEF ApagarArquivos
    <3> QED BY <1>0, <2>8, <3>1, HandlersBak DEF ApagarArquivos
  <2>9. CASE ApagarLinhas(r)
    <3>1. linha' \in [Backup -> {"NENHUMA", "ENVIANDO", "CONCLUIDO"}]
      BY <2>9 DEF ApagarLinhas
    <3>2. Apagando([reqBak[r] EXCEPT !.sair = {}], {}) \in HandlerBak
      <4>1. [reqBak[r] EXCEPT !.sair = {}] \in HandlerBak
        BY <1>0 DEF HandlerBak
      <4> QED BY <4>1, HandlersBak
    <3> QED BY <2>9, <3>1, <3>2 DEF ApagarLinhas
  <2> QED BY <1>1, <2>1, <2>2, <2>3, <2>4, <2>5, <2>6, <2>7, <2>8, <2>9 DEF PassoBackups
<1>2. ASSUME NEW r \in ReqBak, FalharBak(r) PROVE TypeOKBackups'
  BY <1>2 DEF FalharBak
<1>3. CASE PassarDiaBak
  BY <1>3 DEF PassarDiaBak, DiaBak
<1>4. ASSUME NEW b \in Backup, EnviarArquivo(b) PROVE TypeOKBackups'
  BY <1>4 DEF EnviarArquivo
<1>5. CASE UNCHANGED varsBackups
  BY <1>5 DEF varsBackups
<1> QED BY <1>1, <1>2, <1>3, <1>4, <1>5 DEF NextBackups, AmbienteBackups

\* Type correctness of the backups, of their files and of the handlers.
THEOREM TiposBackups == SpecBackups => []TypeOKBackups
BY BackupsInit, BackupsTipos, PTL DEF SpecBackups

\* The conclusions are numbered in the order they happen; a backup that was not started has no
\* row and no handler.
Numerados ==
  /\ \A b \in Backup : feito[b][2] <= conclusoes /\ feito[b][1] <= diaBak
  /\ \A a, b \in Backup : feito[a][2] > feito[b][2] => feito[a][1] >= feito[b][1]
  /\ \A a, b \in Backup : a # b /\ feito[a][2] # 0 => feito[a][2] # feito[b][2]
  /\ \A b \in Backup : linha[b] = "CONCLUIDO" => feito[b][2] # 0
  /\ \A b \in Backup : linha[b] # "NENHUMA" => b <= iniciados
  /\ \A r \in ReqBak : EmBak(r, "confere") \/ EmBak(r, "conclui") => reqBak[r].bak \in 1 .. iniciados

\* What a step does to the rows and the handlers, as far as the numbers go.
LEMMA NumeradosPasso ==
  ASSUME TypeOKBackups, Numerados, NEW r \in ReqBak, PassoBackups(r) \/ FalharBak(r)
  PROVE  Numerados'
<1> USE BackupsAssumption DEF TypeOKBackups, Numerados, EmBak, SegueBak, linhasBak
<1>s. ASSUME NEW q, SegueBak(r, q), UNCHANGED <<linhasBak, diaBak>>,
             q.pc \in {"confere", "conclui"} => q.bak \in 1 .. iniciados
      PROVE  Numerados'
  BY <1>s
<1>a. \A q \in HandlerBak : \A S : Apagando(q, S).pc \in {"arquivos", "cria", "livre"}
  BY LivreBakTipo DEF Apagando, HandlerBak
<1>h. reqBak[r] \in HandlerBak
  OBVIOUS
<1>1. CASE IniciarBackup(r)
  BY <1>1, <1>s, LivreBakTipo DEF IniciarBackup, LivreBak
<1>2. CASE LerAbandonados(r)
  BY <1>2, <1>s, <1>a, <1>h DEF LerAbandonados
<1>3. CASE CriarBackup(r)
  BY <1>3, LivreBakTipo DEF CriarBackup, Backup
<1>4. ASSUME NEW b \in Backup, ConfirmarBackup(r, b) PROVE Numerados'
  BY <1>4, <1>s DEF ConfirmarBackup, LivreBak, Backup
<1>5. CASE ConferirArquivo(r)
  BY <1>5, <1>s, <1>h DEF ConferirArquivo, HandlerBak
<1>6. CASE ConcluirBackup(r)
  <2> DEFINE b == reqBak[r].bak
  <2>1. b \in Backup /\ b \in 1 .. iniciados
    BY <1>6 DEF ConcluirBackup, Backup
  <2>2. /\ conclusoes' = conclusoes + 1 /\ conclusoes \in Nat /\ UNCHANGED <<iniciados, diaBak>>
        /\ feito'[b] = <<diaBak, conclusoes + 1>>
        /\ \A c \in Backup \ {b} : feito'[c] = feito[c] /\ linha'[c] = linha[c]
        /\ \A c \in Backup : feito[c] \in DiaBak \X Nat
    BY <1>6, <2>1 DEF ConcluirBackup
  <2>10. \A c \in Backup : feito[c][2] <= conclusoes /\ feito[c][1] <= diaBak
    OBVIOUS
  <2>11. feito'[b][1] = diaBak /\ feito'[b][2] = conclusoes + 1
    BY <2>2
  <2> HIDE DEF b
  <2>3. \A c \in Backup : feito[c][1] \in Nat /\ feito[c][2] \in Nat /\ diaBak \in Nat
    BY <2>2 DEF DiaBak
  <2>4. \A c \in Backup : feito'[c][2] <= conclusoes' /\ feito'[c][1] <= diaBak'
    BY <2>1, <2>2, <2>3, <2>10, <2>11
  <2>5. ASSUME NEW a \in Backup, NEW c \in Backup
        PROVE  /\ feito'[a][2] > feito'[c][2] => feito'[a][1] >= feito'[c][1]
               /\ a # c /\ feito'[a][2] # 0 => feito'[a][2] # feito'[c][2]
    <3>1. /\ feito[a][2] <= conclusoes /\ feito[c][2] <= conclusoes /\ feito[c][1] <= diaBak
          /\ feito[a][2] > feito[c][2] => feito[a][1] >= feito[c][1]
          /\ a # c /\ feito[a][2] # 0 => feito[a][2] # feito[c][2]
      BY <2>10
    <3>2. /\ feito[a][1] \in Nat /\ feito[a][2] \in Nat /\ feito[c][1] \in Nat /\ feito[c][2] \in Nat
          /\ diaBak \in Nat /\ conclusoes \in Nat
      BY <2>2, <2>3
    <3>3. /\ IF a = b THEN feito'[a][1] = diaBak /\ feito'[a][2] = conclusoes + 1
             ELSE feito'[a] = feito[a]
          /\ IF c = b THEN feito'[c][1] = diaBak /\ feito'[c][2] = conclusoes + 1
             ELSE feito'[c] = feito[c]
      BY <2>2, <2>11
    <3> HIDE DEF Numerados, TypeOKBackups
    <3>4. CASE a = b /\ c = b
      BY <3>2, <3>3, <3>4
    <3>5. CASE a = b /\ c # b
      <4>1. /\ feito'[a][1] = diaBak /\ feito'[a][2] = conclusoes + 1
            /\ feito'[c][1] = feito[c][1] /\ feito'[c][2] = feito[c][2]
        BY <3>3, <3>5
      <4> QED BY <3>1, <3>2, <4>1
    <3>6. CASE a # b /\ c = b
      <4>1. /\ feito'[c][2] = conclusoes + 1
            /\ feito'[a][1] = feito[a][1] /\ feito'[a][2] = feito[a][2]
        BY <3>3, <3>6
      <4> QED BY <3>1, <3>2, <4>1
    <3>7. CASE a # b /\ c # b
      BY <3>1, <3>3, <3>7
    <3> QED BY <3>4, <3>5, <3>6, <3>7
  <2>7. \A c \in Backup : linha'[c] = "CONCLUIDO" => feito'[c][2] # 0
    <3>1. conclusoes + 1 # 0
      BY <2>2
    <3> QED BY <2>2, <2>11, <3>1
  <2>8. \A c \in Backup : linha'[c] # "NENHUMA" => c <= iniciados'
    BY <2>1, <2>2
  <2>9. \A s \in ReqBak : EmBak(s, "confere")' \/ EmBak(s, "conclui")' => reqBak'[s].bak \in 1 .. iniciados'
    BY <1>6, LivreBakTipo DEF ConcluirBackup, LivreBak
  <2> QED BY <2>4, <2>5, <2>7, <2>8, <2>9
<1>7. CASE Reter(r)
  BY <1>7, <1>s, <1>a, <1>h DEF Reter
<1>8. CASE ApagarArquivos(r)
  BY <1>8, <1>s, <1>h DEF ApagarArquivos, HandlerBak
<1>9. CASE ApagarLinhas(r)
  <2>1. [reqBak[r] EXCEPT !.sair = {}] \in HandlerBak
    BY <1>h DEF HandlerBak
  <2>2. Apagando([reqBak[r] EXCEPT !.sair = {}], {}).pc \in {"arquivos", "cria", "livre"}
    BY <1>a, <2>1
  <2> QED BY <1>9, <2>2 DEF ApagarLinhas
<1>10. CASE FalharBak(r)
  BY <1>10, <1>s, LivreBakTipo DEF FalharBak
<1> QED BY <1>1, <1>2, <1>3, <1>4, <1>5, <1>6, <1>7, <1>8, <1>9, <1>10 DEF PassoBackups

\* The backups concluded can be put in order, so that the loop keeps what is promised.
LEMMA NumeradosRetencao ==
  ASSUME TypeOKBackups, Numerados
  PROVE  RetencaoCerta
<1>1. IsFiniteSet(Backup)
  BY BackupsAssumption, FS_Interval DEF Backup
<1> SUFFICES ASSUME NEW S \in SUBSET ComStatusBak("CONCLUIDO") PROVE Ficam(S) = Prometidos(S)
  BY DEF RetencaoCerta
<1>2. S \subseteq Backup /\ \A b \in S : linha[b] = "CONCLUIDO"
  BY DEF ComStatusBak
<1>3. IsFiniteSet(S)
  BY <1>1, <1>2, FS_Subset
<1>4. \A b \in S : feito[b][1] \in Nat /\ feito[b][2] \in Nat
  BY <1>2 DEF TypeOKBackups, DiaBak
<1>5. EmOrdem(S)
  BY <1>2, <1>4 DEF EmOrdem, Numerados, MaisNovo, DiaDe
<1> QED BY <1>3, <1>5, RetencaoVale

\* The last backup that was concluded is kept.
LEMMA UltimoFica ==
  ASSUME TypeOKBackups, Numerados, NEW b \in ComStatusBak("CONCLUIDO"), feito[b][2] = conclusoes
  PROVE  b \in Ficam(ComStatusBak("CONCLUIDO"))
<1> DEFINE S == ComStatusBak("CONCLUIDO")
           M == {DiaDe(c) : c \in {e \in S : DiaDe(e) > DiaDe(b)}}
<1>1. Ficam(S) = Prometidos(S)
  BY NumeradosRetencao DEF RetencaoCerta
<1>2. S \subseteq Backup /\ \A c \in S : linha[c] = "CONCLUIDO"
  BY DEF ComStatusBak
<1>3. \A c \in S : feito[c][1] \in Nat /\ feito[c][2] \in Nat
  BY <1>2 DEF TypeOKBackups, DiaBak
<1>4. ASSUME NEW c \in S, c # b PROVE MaisNovo(b, c)
  <2>1. feito[c][2] <= conclusoes /\ feito[c][2] # feito[b][2]
    BY <1>2, <1>4 DEF Numerados
  <2>2. feito[c][2] \in Nat /\ conclusoes \in Nat
    BY <1>3, <1>4 DEF TypeOKBackups
  <2>3. feito[b][2] > feito[c][2]
    BY <2>1, <2>2
  <2> QED BY <2>3 DEF MaisNovo
<1>5. \A c \in S : ~(DiaDe(c) > DiaDe(b))
  BY <1>2, <1>3, <1>4 DEF Numerados, MaisNovo, DiaDe
<1>6. M = {}
  BY <1>5
<1>7. Cardinality(M) < DiasGuardados
  BY <1>6, FS_EmptySet, BackupsAssumption
<1> QED BY <1>1, <1>4, <1>7 DEF Prometidos

\* As long as no handler fails: a backup that is concluded, or is about to be, has its file, or
\* a handler that removed it is about to remove the row.
ArquivoOuSaindo ==
  \A b \in Backup :
    linha[b] = "CONCLUIDO" \/ (linha[b] = "ENVIANDO" /\ \E r \in ReqBak : EmBak(r, "conclui") /\ reqBak[r].bak = b)
      => b \in arquivo \/ \E s \in ReqBak : EmBak(s, "linhas") /\ b \in reqBak[s].sair

\* Removals, confirmations and uploads in any order.
LEMMA PassoArquivo ==
  ASSUME TypeOKBackups, Numerados, ArquivoOuSaindo, NEW r \in ReqBak, PassoBackups(r)
  PROVE  ArquivoOuSaindo'
<1> USE DEF ArquivoOuSaindo, TypeOKBackups, EmBak, SegueBak, linhasBak
<1>h. reqBak[r] \in HandlerBak
  OBVIOUS
<1>a. \A q \in HandlerBak : \A S : Apagando(q, S).pc \in {"arquivos", "cria", "livre"}
  BY LivreBakTipo DEF Apagando, HandlerBak
<1>s. ASSUME NEW q, SegueBak(r, q), UNCHANGED <<linhasBak, arquivo, diaBak>>,
             ~EmBak(r, "linhas"), q.pc = "conclui" => q.bak \in arquivo
      PROVE  ArquivoOuSaindo'
  BY <1>s
<1>1. CASE IniciarBackup(r)
  BY <1>1, <1>s, LivreBakTipo DEF IniciarBackup, LivreBak
<1>2. CASE LerAbandonados(r)
  BY <1>2, <1>s, <1>a, <1>h DEF LerAbandonados
<1>3. CASE CriarBackup(r)
  <2>1. iniciados + 1 \in Backup /\ linha' = [linha EXCEPT ![iniciados + 1] = "ENVIANDO"]
        /\ reqBak' = [reqBak EXCEPT ![r] = LivreBak] /\ arquivo' = arquivo
    BY <1>3 DEF CriarBackup
  <2>2. \A s \in ReqBak : EmBak(s, "conclui") => reqBak[s].bak # iniciados + 1
    BY BackupsAssumption DEF Numerados
  <2>3. ~EmBak(r, "linhas") /\ LivreBak.pc = "livre"
    BY <1>3, LivreBakTipo DEF CriarBackup
  <2> QED BY <2>1, <2>2, <2>3
<1>4. ASSUME NEW b \in Backup, ConfirmarBackup(r, b) PROVE ArquivoOuSaindo'
  BY <1>4, <1>s DEF ConfirmarBackup, LivreBak
<1>5. CASE ConferirArquivo(r)
  BY <1>5, <1>s, <1>h DEF ConferirArquivo, HandlerBak
<1>6. CASE ConcluirBackup(r)
  BY <1>6 DEF ConcluirBackup, LivreBak
<1>7. CASE Reter(r)
  BY <1>7, <1>s, <1>a, <1>h DEF Reter
<1>8. CASE ApagarArquivos(r)
  BY <1>8, <1>h DEF ApagarArquivos, HandlerBak
<1>9. CASE ApagarLinhas(r)
  <2>1. [reqBak[r] EXCEPT !.sair = {}] \in HandlerBak
    BY <1>h DEF HandlerBak
  <2>2. Apagando([reqBak[r] EXCEPT !.sair = {}], {}).pc \in {"arquivos", "cria", "livre"}
    BY <1>a, <2>1
  <2> QED BY <1>9, <2>2 DEF ApagarLinhas
<1> QED BY <1>1, <1>2, <1>3, <1>4, <1>5, <1>6, <1>7, <1>8, <1>9 DEF PassoBackups

\* One handler at a time: the last backup concluded has its file and nobody removes it.
UmBackup ==
  /\ \A r, s \in ReqBak : ~EmBak(r, "livre") /\ ~EmBak(s, "livre") => r = s
  /\ \A r \in ReqBak : EmBak(r, "conclui") => reqBak[r].bak \in arquivo
  /\ \A r \in ReqBak : EmBak(r, "arquivos") \/ EmBak(r, "linhas") =>
       \A b \in reqBak[r].sair : ~(linha[b] = "CONCLUIDO" /\ feito[b][2] = conclusoes)
  /\ conclusoes > 0 =>
       \E b \in Backup : linha[b] = "CONCLUIDO" /\ feito[b][2] = conclusoes /\ b \in arquivo

\* A step of the only handler.
LEMMA PassoUmBackup ==
  ASSUME TypeOKBackups, Numerados, UmBackup, NEW r \in ReqBak, PassoBackups(r) \/ FalharBak(r),
         \A s \in ReqBak \ {r} : EmBak(s, "livre")
  PROVE  UmBackup'
<1> USE DEF UmBackup, TypeOKBackups, EmBak, SegueBak, linhasBak
<1>h. reqBak[r] \in HandlerBak
  OBVIOUS
<1>a. ASSUME NEW q \in HandlerBak, NEW S
      PROVE  Apagando(q, S).pc \in {"arquivos", "cria", "livre"}
             /\ (Apagando(q, S).pc = "arquivos" => Apagando(q, S).sair = S)
  BY LivreBakTipo DEF Apagando, HandlerBak
<1>s. ASSUME NEW q, SegueBak(r, q), UNCHANGED <<linhasBak, arquivo>>,
             q.pc = "conclui" => q.bak \in arquivo,
             q.pc \in {"arquivos", "linhas"} =>
               \A b \in q.sair : ~(linha[b] = "CONCLUIDO" /\ feito[b][2] = conclusoes)
      PROVE  UmBackup'
  BY <1>s
<1>1. CASE IniciarBackup(r)
  BY <1>1, <1>s, LivreBakTipo DEF IniciarBackup, LivreBak
<1>2. CASE LerAbandonados(r)
  <2> DEFINE S == {b \in ComStatusBak("ENVIANDO") : desde[b] < diaBak}
  <2>1. \A b \in S : linha[b] # "CONCLUIDO"
    BY DEF ComStatusBak
  <2> HIDE DEF S
  <2>2. SegueBak(r, Apagando(reqBak[r], S)) /\ UNCHANGED <<linhasBak, arquivo>>
    BY <1>2 DEF LerAbandonados, S
  <2> QED BY <1>s, <1>a, <1>h, <2>1, <2>2
<1>3. CASE CriarBackup(r)
  <2>1. linha[iniciados + 1] = "NENHUMA"
    BY <1>3, BackupsAssumption DEF CriarBackup, Backup, Numerados
  <2> QED BY <1>3, <2>1, LivreBakTipo DEF CriarBackup
<1>4. ASSUME NEW b \in Backup, ConfirmarBackup(r, b) PROVE UmBackup'
  BY <1>4, <1>s DEF ConfirmarBackup, LivreBak
<1>5. CASE ConferirArquivo(r)
  BY <1>5, <1>s, <1>h DEF ConferirArquivo, HandlerBak
<1>6. CASE ConcluirBackup(r)
  <2> DEFINE b == reqBak[r].bak
  <2>1. b \in Backup /\ b \in arquivo
    BY <1>6, BackupsAssumption DEF ConcluirBackup, Backup, Numerados
  <2>2. linha'[b] = "CONCLUIDO" /\ feito'[b][2] = conclusoes' /\ arquivo' = arquivo
    BY <1>6, <2>1 DEF ConcluirBackup
  <2>3. reqBak'[r].pc = "retem" /\ \A s \in ReqBak \ {r} : reqBak'[s] = reqBak[s]
    BY <1>6 DEF ConcluirBackup, LivreBak
  <2> QED BY <2>1, <2>2, <2>3
<1>7. CASE Reter(r)
  <2> DEFINE S == ComStatusBak("CONCLUIDO") \ Ficam(ComStatusBak("CONCLUIDO"))
  <2>1. \A b \in S : ~(linha[b] = "CONCLUIDO" /\ feito[b][2] = conclusoes)
    BY UltimoFica
  <2> HIDE DEF S
  <2>2. SegueBak(r, Apagando(reqBak[r], S)) /\ UNCHANGED <<linhasBak, arquivo>>
    BY <1>7 DEF Reter, S
  <2> QED BY <1>s, <1>a, <1>h, <2>1, <2>2
<1>8. CASE ApagarArquivos(r)
  BY <1>8, <1>h DEF ApagarArquivos, HandlerBak
<1>9. CASE ApagarLinhas(r)
  <2>1. [reqBak[r] EXCEPT !.sair = {}] \in HandlerBak
    BY <1>h DEF HandlerBak
  <2> DEFINE q == Apagando([reqBak[r] EXCEPT !.sair = {}], {})
  <2>2. q.pc \in {"cria", "livre"}
    BY <1>h, LivreBakTipo DEF HandlerBak, Apagando
  <2> HIDE DEF q
  <2>3. /\ SegueBak(r, q) /\ UNCHANGED <<feito, conclusoes, arquivo>>
        /\ linha' = [b \in Backup |-> IF b \in reqBak[r].sair THEN "NENHUMA" ELSE linha[b]]
    BY <1>9 DEF ApagarLinhas, q
  <2> QED BY <1>9, <2>2, <2>3 DEF ApagarLinhas
<1>10. CASE FalharBak(r)
  BY <1>10, <1>s, LivreBakTipo DEF FalharBak
<1> QED BY <1>1, <1>2, <1>3, <1>4, <1>5, <1>6, <1>7, <1>8, <1>9, <1>10 DEF PassoBackups

\* The uploads and the clock take no file away.
LEMMA AmbienteNumerados ==
  ASSUME TypeOKBackups, Numerados, AmbienteBackups
  PROVE  Numerados' /\ (ArquivoOuSaindo => ArquivoOuSaindo') /\ (UmBackup => UmBackup')
<1>1. CASE PassarDiaBak
  BY <1>1 DEF PassarDiaBak, TypeOKBackups, DiaBak, linhasBak, Numerados, ArquivoOuSaindo, UmBackup,
              EmBak
<1>2. ASSUME NEW b \in Backup, EnviarArquivo(b)
      PROVE  Numerados' /\ (ArquivoOuSaindo => ArquivoOuSaindo') /\ (UmBackup => UmBackup')
  BY <1>2 DEF EnviarArquivo, linhasBak, Numerados, ArquivoOuSaindo, UmBackup, EmBak
<1> QED BY <1>1, <1>2 DEF AmbienteBackups

\* A step of the shop is a step of the backups, or leaves them alone.
LEMMA LojaBackups ==
  ASSUME [NextLoja]_varsLoja
  PROVE  NextBak \/ UNCHANGED varsBackups
  BY DEF NextLoja, NextPac, NextPub, NextCod, NextRep, NextCre, varsLoja, naoPacote

\* The backups: the numbers always, the files as long as no handler fails, the last backup as
\* long as requests do not overlap.
BackupInv ==
  TypeOKBackups /\ Numerados /\ (inteiro => ArquivoOuSaindo) /\ (sozinho => UmBackup)

\* backups.service.ts and retencao.ts: the retention keeps exactly what it promises; unless a
\* handler is cut short, a backup the desktop may restore has its file or is being removed; and
\* requests that do not overlap, cut short anywhere, always leave one to restore.
THEOREM BackupSempreRestauravel == SpecLoja => []BackupRestauravel
<1>1. InitLoja => BackupInv
  <2> SUFFICES ASSUME InitLoja PROVE BackupInv
    OBVIOUS
  <2>1. InitBackups
    BY DEF InitLoja
  <2>2. TypeOKBackups
    BY <2>1, BackupsInit
  <2>3. \A r \in ReqBak : EmBak(r, "livre")
    BY <2>1, LivreBakTipo DEF InitBackups, EmBak
  <2>4. Numerados
    BY <2>1, <2>3 DEF InitBackups, Numerados, EmBak
  <2>5. ArquivoOuSaindo
    BY <2>1, <2>3 DEF InitBackups, ArquivoOuSaindo, EmBak
  <2>6. UmBackup
    BY <2>1, <2>3 DEF InitBackups, UmBackup, EmBak
  <2> QED BY <2>2, <2>4, <2>5, <2>6 DEF BackupInv
<1>2. BackupInv /\ [NextLoja]_varsLoja => BackupInv'
  <2> SUFFICES ASSUME BackupInv, [NextLoja]_varsLoja PROVE BackupInv'
    OBVIOUS
  <2>t. TypeOKBackups /\ Numerados
    BY DEF BackupInv
  <2>i. inteiro' => ArquivoOuSaindo
    BY InteiroAntes DEF BackupInv
  <2>s. sozinho' => UmBackup
    BY SozinhoAntes DEF BackupInv
  <2>1. [NextBackups]_varsBackups
    BY LojaBackups DEF NextBak, NextBackups
  <2>2. TypeOKBackups'
    BY <2>t, <2>1, BackupsTipos
  <2>3. ASSUME NEW r \in ReqBak,
               \/ PassoBackups(r)
               \/ FalharBak(r) /\ inteiro' = FALSE,
               So(\A s \in ReqBak \ {r} : EmBak(s, "livre"))
        PROVE  Numerados' /\ (inteiro' => ArquivoOuSaindo') /\ (sozinho' => UmBackup')
    <3>1. Numerados'
      BY <2>t, <2>3, NumeradosPasso
    <3>2. inteiro' => ArquivoOuSaindo'
      BY <2>t, <2>i, <2>3, PassoArquivo
    <3>3. ASSUME sozinho' PROVE UmBackup'
      <4>1. \A s \in ReqBak \ {r} : EmBak(s, "livre")
        BY <2>3, <3>3, SoMenos
      <4> QED BY <2>t, <2>s, <2>3, <3>3, <4>1, PassoUmBackup
    <3> QED BY <3>1, <3>2, <3>3
  <2>4. CASE AmbienteBackups
    BY <2>t, <2>i, <2>s, <2>2, <2>4, AmbienteNumerados DEF BackupInv
  <2>5. CASE UNCHANGED varsBackups
    <3>1. Numerados' /\ (ArquivoOuSaindo => ArquivoOuSaindo') /\ (UmBackup => UmBackup')
      BY <2>t, <2>5 DEF varsBackups, linhasBak, Numerados, ArquivoOuSaindo, UmBackup, EmBak
    <3> QED BY <2>i, <2>s, <2>2, <3>1 DEF BackupInv
  <2>6. CASE \E r \in ReqBak :
               /\ PassoBackups(r) \/ (FalharBak(r) /\ inteiro' = FALSE)
               /\ So(\A s \in ReqBak \ {r} : EmBak(s, "livre"))
    BY <2>2, <2>3, <2>6 DEF BackupInv
  <2> QED BY LojaBackups, <2>4, <2>5, <2>6, Zenon DEF NextBak
<1>3. BackupInv => BackupRestauravel
  <2> SUFFICES ASSUME BackupInv PROVE BackupRestauravel
    OBVIOUS
  <2>1. RetencaoCerta
    BY NumeradosRetencao DEF BackupInv
  <2>2. ConcluidoTemArquivo
    BY DEF BackupInv, ArquivoOuSaindo, ConcluidoTemArquivo, ComStatusBak
  <2>3. RestaUm
    BY DEF BackupInv, UmBackup, RestaUm, ComStatusBak
  <2> QED BY <2>1, <2>2, <2>3 DEF BackupRestauravel
<1> QED BY <1>1, <1>2, <1>3, PTL DEF SpecLoja
-----------------------------------------------------------------------------
(* Sums: what the queries of a balance add up. *)

\* The values of S added up, one at a time.
Soma(f, S) == MapThenSumSet(LAMBDA x : f[x], S)

Um(s) == CHOOSE x \in s : TRUE

\* h has the sum of every one of the sets L.
Somadas(h, f, L) ==
  h = [s \in L |-> IF s = {} THEN 0 ELSE f[Um(s)] + h[s \ {Um(s)}]]

LEMMA SomaDef ==
  ASSUME NEW f, NEW S
  PROVE  Soma(f, S) = (CHOOSE iter : Somadas(iter, f, SUBSET S))[S]
BY DEF Soma, MapThenSumSet, MapThenFoldSet, Somadas, Um

\* The subsets of S that have m elements at most.
Ate(S, m) == {s \in SUBSET S : Cardinality(s) <= m}

LEMMA Menos1 ==
  ASSUME NEW S, IsFiniteSet(S), S # {}
  PROVE  /\ Um(S) \in S /\ IsFiniteSet(S \ {Um(S)})
         /\ Cardinality(S) \in Nat /\ Cardinality(S \ {Um(S)}) \in Nat
         /\ Cardinality(S) = Cardinality(S \ {Um(S)}) + 1
<1>1. Um(S) \in S
  BY DEF Um
<1> HIDE DEF Um
<1>2. /\ IsFiniteSet(S \ {Um(S)}) /\ Cardinality(S \ {Um(S)}) = Cardinality(S) - 1
      /\ Cardinality(S) \in Nat
  BY <1>1, FS_RemoveElement, FS_CardinalityType
<1>3. Cardinality(S \ {Um(S)}) \in Nat
  BY <1>2, FS_CardinalityType
<1> QED BY <1>1, <1>2, <1>3

\* The sums exist.
LEMMA SomasExistem ==
  ASSUME NEW f, NEW S, IsFiniteSet(S)
  PROVE  \E h : Somadas(h, f, SUBSET S)
<1> DEFINE C == {m \in Nat : ~\E h : Somadas(h, f, Ate(S, m))}
<1>1. ASSUME C # {} PROVE FALSE
  <2>1. PICK m \in C : \A k \in C : m <= k
    <3>1. C \subseteq Nat
      OBVIOUS
    <3> HIDE DEF C
    <3> QED BY <1>1, <3>1, MenorDeles
  <2>2. \A s \in SUBSET S : IsFiniteSet(s) /\ Cardinality(s) \in Nat
    BY FS_Subset, FS_CardinalityType
  <2>3. m # 0
    <3>1. \A s \in SUBSET S : Cardinality(s) <= 0 => s = {}
      BY <2>2, FS_EmptySet
    <3>2. Somadas([s \in Ate(S, 0) |-> 0], f, Ate(S, 0))
      BY <3>1 DEF Somadas, Ate
    <3> QED BY <3>2
  <2>4. m - 1 \in Nat /\ m - 1 \notin C
    BY <2>1, <2>3
  <2>5. PICK h : Somadas(h, f, Ate(S, m - 1))
    BY <2>4
  <2> DEFINE g == [s \in Ate(S, m) |->
                     IF s = {} THEN 0 ELSE f[Um(s)] + h[s \ {Um(s)}]]
  <2>6. ASSUME NEW s \in Ate(S, m), s # {} PROVE g[s \ {Um(s)}] = h[s \ {Um(s)}]
    <3> DEFINE t == s \ {Um(s)}
    <3>1. IsFiniteSet(s) /\ Cardinality(s) <= m /\ s \in SUBSET S
      BY <2>2 DEF Ate
    <3>2. t \in SUBSET S /\ Cardinality(t) <= m - 1
      <4>1. /\ Cardinality(s) \in Nat /\ Cardinality(t) \in Nat
            /\ Cardinality(s) = Cardinality(t) + 1
        BY <2>6, <3>1, Menos1
      <4>2. m \in Nat
        BY <2>1
      <4>3. t \in SUBSET S
        BY <3>1
      <4> HIDE DEF t
      <4> QED BY <3>1, <4>1, <4>2, <4>3
    <3>3. t \in Ate(S, m - 1) /\ t \in Ate(S, m)
      BY <2>4, <2>2, <3>2 DEF Ate
    <3> HIDE DEF t
    <3> QED BY <2>5, <3>3 DEF Somadas, t
  <2> HIDE DEF C
  <2>7. Somadas(g, f, Ate(S, m))
    BY <2>6 DEF Somadas
  <2> QED BY <2>1, <2>7 DEF C
<1>2. Cardinality(S) \in Nat
  BY FS_CardinalityType
<1>3. Ate(S, Cardinality(S)) = SUBSET S
  BY FS_Subset DEF Ate
<1>4. \E h : Somadas(h, f, Ate(S, Cardinality(S)))
  BY <1>1, <1>2
<1> QED BY <1>3, <1>4, Zenon

\* They are the same in a larger set.
LEMMA SomasIguais ==
  ASSUME NEW f, NEW S, IsFiniteSet(S), NEW T \in SUBSET S, NEW g, NEW h,
         Somadas(g, f, SUBSET S), Somadas(h, f, SUBSET T)
  PROVE  g[T] = h[T]
<1> DEFINE C == {m \in Nat : \E s \in SUBSET T : Cardinality(s) = m /\ g[s] # h[s]}
<1>1. ASSUME C # {} PROVE FALSE
  <2>1. PICK m \in C : \A k \in C : m <= k
    <3>1. C \subseteq Nat
      OBVIOUS
    <3> HIDE DEF C
    <3> QED BY <1>1, <3>1, MenorDeles
  <2>2. PICK s \in SUBSET T : Cardinality(s) = m /\ g[s] # h[s]
    BY <2>1
  <2>3. IsFiniteSet(s) /\ s \in SUBSET S
    BY FS_Subset
  <2>4. s # {}
    BY <2>2, <2>3 DEF Somadas
  <2> DEFINE t == s \ {Um(s)}
  <2>5. Cardinality(t) \in Nat /\ m = Cardinality(t) + 1 /\ t \in SUBSET T
    BY <2>2, <2>3, <2>4, Menos1
  <2>6. g[t] = h[t]
    <3>1. Cardinality(t) \notin C
      <4>1. ~(m <= Cardinality(t))
        BY <2>5
      <4> HIDE DEF C
      <4> QED BY <2>1, <4>1
    <3> QED BY <2>5, <3>1
  <2>7. g[s] = f[Um(s)] + g[t] /\ h[s] = f[Um(s)] + h[t]
    BY <2>3, <2>4 DEF Somadas
  <2> QED BY <2>2, <2>6, <2>7
<1>2. Cardinality(T) \in Nat
  BY FS_Subset, FS_CardinalityType
<1> QED BY <1>1, <1>2

\* One at a time.
LEMMA SomaPasso ==
  ASSUME NEW f, NEW S, IsFiniteSet(S)
  PROVE  Soma(f, S) = IF S = {} THEN 0 ELSE f[Um(S)] + Soma(f, S \ {Um(S)})
<1> DEFINE h(T) == CHOOSE iter : Somadas(iter, f, SUBSET T)
           T == S \ {Um(S)}
<1>1. IsFiniteSet(T) /\ T \in SUBSET S
  BY FS_Subset
<1>2. Somadas(h(S), f, SUBSET S)
  BY SomasExistem
<1>3. Somadas(h(T), f, SUBSET T)
  BY <1>1, SomasExistem
<1>4. Soma(f, S) = h(S)[S] /\ Soma(f, T) = h(T)[T]
  BY SomaDef
<1> HIDE DEF h
<1>5. h(S)[S] = IF S = {} THEN 0 ELSE f[Um(S)] + h(S)[T]
  BY <1>2 DEF Somadas
<1>6. h(S)[T] = h(T)[T]
  BY <1>1, <1>2, <1>3, SomasIguais
<1> QED BY <1>4, <1>5, <1>6

\* A sum of naturals is one, and depends on nothing but the values.
LEMMA SomaTipo ==
  ASSUME NEW S, IsFiniteSet(S), NEW f, NEW g, \A x \in S : f[x] \in Nat /\ g[x] = f[x]
  PROVE  Soma(f, S) \in Nat /\ Soma(g, S) = Soma(f, S)
<1> DEFINE C == {m \in Nat : \E s \in SUBSET S : /\ Cardinality(s) = m
                                              /\ ~(Soma(f, s) \in Nat /\ Soma(g, s) = Soma(f, s))}
<1>1. ASSUME C # {} PROVE FALSE
  <2>1. PICK m \in C : \A k \in C : m <= k
    <3>1. C \subseteq Nat
      OBVIOUS
    <3> HIDE DEF C
    <3> QED BY <1>1, <3>1, MenorDeles
  <2>2. PICK s \in SUBSET S : /\ Cardinality(s) = m
                              /\ ~(Soma(f, s) \in Nat /\ Soma(g, s) = Soma(f, s))
    BY <2>1
  <2>3. IsFiniteSet(s)
    BY FS_Subset
  <2>4. s # {}
    <3>1. Soma(f, {}) = 0 /\ Soma(g, {}) = 0
      BY SomaPasso, FS_EmptySet
    <3> QED BY <2>2, <3>1
  <2> DEFINE t == s \ {Um(s)}
  <2>5. Cardinality(t) \in Nat /\ m = Cardinality(t) + 1 /\ t \in SUBSET S /\ Um(s) \in S
    BY <2>2, <2>3, <2>4, Menos1
  <2>6. Soma(f, t) \in Nat /\ Soma(g, t) = Soma(f, t)
    BY <2>1, <2>5
  <2>7. Soma(f, s) = f[Um(s)] + Soma(f, t) /\ Soma(g, s) = g[Um(s)] + Soma(g, t)
    BY <2>3, <2>4, SomaPasso
  <2> QED BY <2>2, <2>5, <2>6, <2>7
<1>2. Cardinality(S) \in Nat
  BY FS_CardinalityType
<1> QED BY <1>1, <1>2

\* Whatever the order, one more value adds itself.
LEMMA SomaMais ==
  ASSUME NEW U, IsFiniteSet(U), NEW f, \A y \in U : f[y] \in Nat, NEW x \in U
  PROVE  Soma(f, U) = Soma(f, U \ {x}) + f[x]
<1> DEFINE Bom(s) == \A y \in s : Soma(f, s) = Soma(f, s \ {y}) + f[y]
           C == {m \in Nat : \E s \in SUBSET U : Cardinality(s) = m /\ ~Bom(s)}
<1>0. \A s \in SUBSET U : IsFiniteSet(s) /\ Cardinality(s) \in Nat /\ Soma(f, s) \in Nat
  <2> TAKE s \in SUBSET U
  <2>1. IsFiniteSet(s) /\ Cardinality(s) \in Nat
    BY FS_Subset, FS_CardinalityType
  <2> QED BY <2>1, SomaTipo
<1>1. ASSUME C # {} PROVE FALSE
  <2>1. PICK m \in C : \A k \in C : m <= k
    <3>1. C \subseteq Nat
      OBVIOUS
    <3> HIDE DEF C
    <3> QED BY <1>1, <3>1, MenorDeles
  <2>2. PICK s \in SUBSET U : Cardinality(s) = m /\ ~Bom(s)
    BY <2>1
  <2>3. PICK y \in s : Soma(f, s) # Soma(f, s \ {y}) + f[y]
    BY <2>2
  <2> DEFINE c == Um(s)
             t == s \ {c}
             u == s \ {y}
             v == t \ {y}
  <2>4. c \in s /\ Cardinality(t) \in Nat /\ m = Cardinality(t) + 1
    BY <1>0, <2>2, <2>3, Menos1
  <2>5. Soma(f, s) = f[c] + Soma(f, t)
    BY <1>0, <2>3, SomaPasso
  <2>6. y # c
    <3>1. ASSUME y = c PROVE FALSE
      <4>1. Soma(f, t) \in Nat /\ f[c] \in Nat
        BY <1>0, <2>4
      <4> QED BY <2>3, <2>5, <3>1, <4>1
    <3> QED BY <3>1
  <2>7. IsFiniteSet(s) /\ y \in s /\ Cardinality(u) = m - 1
    BY <1>0, <2>2, <2>3, FS_RemoveElement
  <2>8. Bom(t) /\ Bom(u)
    <3> HIDE DEF Bom
    <3>1. m - 1 \in Nat /\ m - 1 \notin C /\ t \in SUBSET U /\ u \in SUBSET U
      BY <2>1, <2>4
    <3> QED BY <2>4, <2>7, <3>1
  <2>9. Soma(f, t) = Soma(f, v) + f[y]
    BY <2>6, <2>8
  <2>10. v = u \ {c} /\ c \in u
    BY <2>4, <2>6
  <2>11. Soma(f, u) = Soma(f, v) + f[c]
    BY <2>8, <2>10
  <2>12. Soma(f, v) \in Nat /\ f[c] \in Nat /\ f[y] \in Nat
    BY <1>0, <2>4
  <2> QED BY <2>3, <2>5, <2>9, <2>11, <2>12
<1>2. Cardinality(U) \in Nat
  BY FS_CardinalityType
<1>3. Bom(U)
  BY <1>1, <1>2
<1> QED BY <1>3
-----------------------------------------------------------------------------
(* The transfers. *)

\* A handler that starts is a handler.
LEMMA LivreRepTipo ==
  /\ LivreRep \in HandlerRep
  /\ LivreRep.pc = "livre" /\ LivreRep.falta = {}
<1>1. 0 \in 0 .. MaxRepasses /\ 0 \in Nat
  BY RepassesAssumption
<1> QED BY <1>1 DEF LivreRep, HandlerRep

\* The balance: the orders paid and the transfers that count.
Pagas == {v \in Venda : venda[v] = "PAGO"}

LEMMA SaldosSomas == Devido = Soma(ValorVenda, Pagas) /\ Repassado = Soma(valor, Contam)
BY DEF Devido, Repassado, Soma, Pagas

LEMMA Saldos ==
  ASSUME TypeOKRepasses
  PROVE  /\ Devido = Soma(ValorVenda, Pagas) /\ Repassado = Soma(valor, Contam)
         /\ IsFiniteSet(Pagas) /\ IsFiniteSet(Contam)
         /\ \A v \in Venda : ValorVenda[v] \in Nat
         /\ \A t \in Repasse : valor[t] \in Nat
         /\ Devido \in Nat /\ Repassado \in Nat /\ Cardinality(RepassesAbertos) \in Nat
<1>1. Devido = Soma(ValorVenda, Pagas) /\ Repassado = Soma(valor, Contam)
  BY SaldosSomas
<1>2. IsFiniteSet(Pagas)
  BY RepassesAssumption, FS_Subset DEF Pagas
<1>3. IsFiniteSet(Repasse)
  BY RepassesAssumption, FS_Interval DEF Repasse
<1>4. IsFiniteSet(Contam) /\ IsFiniteSet(RepassesAbertos)
  BY <1>3, FS_Subset DEF Contam, RepassesAbertos
<1>5. (\A v \in Venda : ValorVenda[v] \in Nat) /\ (\A t \in Repasse : valor[t] \in Nat)
  BY RepassesAssumption DEF TypeOKRepasses
<1>6. Soma(ValorVenda, Pagas) \in Nat
  BY <1>2, <1>5, SomaTipo DEF Pagas
<1>7. Soma(valor, Contam) \in Nat
  BY <1>4, <1>5, SomaTipo DEF Contam
<1>8. Cardinality(RepassesAbertos) \in Nat
  BY <1>4, FS_CardinalityType
<1> QED BY <1>1, <1>2, <1>4, <1>5, <1>6, <1>7, <1>8

\* The start has the types.
LEMMA RepassesInit == ASSUME InitRepasses PROVE TypeOKRepasses
<1>1. 0 \in 0 .. MaxRepasses /\ 0 \in Nat
  BY RepassesAssumption
<1> QED BY <1>1, LivreRepTipo DEF InitRepasses, TypeOKRepasses

\* Every step keeps the types.
LEMMA RepassesTipos ==
  ASSUME TypeOKRepasses, [NextRepasses]_varsRepasses
  PROVE  TypeOKRepasses'
<1> USE RepassesAssumption, LivreRepTipo DEF TypeOKRepasses, SegueRep, linhasRep
<1>h. \A r \in ReqRep : reqRep[r] \in HandlerRep
  OBVIOUS
<1>1. ASSUME NEW r \in ReqRep, PassoRepasses(r) PROVE TypeOKRepasses'
  <2> DEFINE q == reqRep[r]
  <2>1. ASSUME NEW v \in Parciais, AbrirRepasse(r, v) PROVE TypeOKRepasses'
    <3>1. v \in Nat
      OBVIOUS
    <3>2. [LivreRep EXCEPT !.pc = "saldos", !.pedido = v, !.falta = Leitura] \in HandlerRep
      BY <3>1 DEF HandlerRep
    <3> QED BY <2>1, <3>2 DEF AbrirRepasse
  <2>2. ASSUME NEW x \in Leitura, LerSaldo(r, x) PROVE TypeOKRepasses'
    <3>1. Devido \in Nat /\ Repassado \in Nat /\ Cardinality(RepassesAbertos) \in Nat
      BY Saldos
    <3> DEFINE p == [q EXCEPT !.falta = @ \ {x},
                              !.vendido = IF x = "vendido" THEN Devido ELSE @,
                              !.repassado = IF x = "repassado" THEN Repassado ELSE @,
                              !.abertos = IF x = "abertos" THEN Cardinality(RepassesAbertos) ELSE @,
                              !.pc = IF q.falta = {x} THEN "cria" ELSE "saldos"]
    <3>2. p \in HandlerRep
      BY <1>h, <3>1 DEF HandlerRep
    <3> HIDE DEF p
    <3>3. SegueRep(r, p) /\ UNCHANGED <<venda, linhasRep>>
      BY <2>2 DEF LerSaldo, p
    <3> QED BY <3>2, <3>3
  <2>3. CASE CriarRepasse(r)
    <3>1. Quantia(q) \in Nat
      BY <1>h, <2>3 DEF CriarRepasse, Quantia, HandlerRep
    <3> HIDE DEF q
    <3> QED BY <2>3, <3>1 DEF CriarRepasse, Repasse, q
  <2>4. ASSUME NEW t \in Repasse, AbrirPagar(r, t) \/ AbrirFalha(r, t) PROVE TypeOKRepasses'
    <3>1. t \in 0 .. MaxRepasses
      BY DEF Repasse
    <3>2. \A a \in {"PAGO", "FALHOU"} :
            [LivreRep EXCEPT !.pc = "grava", !.rep = t, !.alvo = a] \in HandlerRep
      BY <3>1 DEF HandlerRep
    <3> QED BY <2>4, <3>2 DEF AbrirPagar, AbrirFalha
  <2>5. CASE GravarRepasse(r)
    <3>1. q.alvo # "NENHUM" => transf' \in [Repasse -> {"NENHUM", "ABERTO", "PAGO", "FALHOU"}]
      BY <1>h, <2>5 DEF GravarRepasse, HandlerRep
    <3>2. q.alvo = "NENHUM" => transf' \in [Repasse -> {"NENHUM", "ABERTO", "PAGO", "FALHOU"}]
      BY <1>h, <2>5 DEF GravarRepasse, HandlerRep
    <3> QED BY <2>5, <3>1, <3>2 DEF GravarRepasse
  <2>6. CASE DesistirRep(r)
    BY <2>6 DEF DesistirRep
  <2> QED BY <1>1, <2>1, <2>2, <2>3, <2>4, <2>5, <2>6 DEF PassoRepasses
<1>2. ASSUME NEW v \in Venda, VenderOuDevolver(v) PROVE TypeOKRepasses'
  BY <1>2 DEF VenderOuDevolver
<1>3. CASE UNCHANGED varsRepasses
  BY <1>3 DEF varsRepasses
<1> QED BY <1>1, <1>2, <1>3 DEF NextRepasses

\* Type correctness of the transfers and of the handlers.
THEOREM TiposRepasses == SpecRepasses => []TypeOKRepasses
BY RepassesInit, RepassesTipos, PTL DEF SpecRepasses

\* No order was returned.
SemDevolucao == \A v \in Venda : venda[v] # "ESTORNADO"

\* One handler at a time, and no sale beside it: what it read of the balance is the balance
\* still; a transfer it is to mark is open, or failed if it is to be paid.
UmRepasse ==
  /\ \A r, s \in ReqRep : ~EmRep(r, "livre") /\ ~EmRep(s, "livre") => r = s
  /\ \A t \in Repasse : t > gerados => transf[t] = "NENHUM"
  /\ \A r \in ReqRep : EmRep(r, "saldos") \/ EmRep(r, "cria") =>
       /\ "vendido" \notin reqRep[r].falta => reqRep[r].vendido = Devido
       /\ "repassado" \notin reqRep[r].falta => reqRep[r].repassado = Repassado
       /\ EmRep(r, "cria") => reqRep[r].falta = {}
  /\ \A r \in ReqRep : EmRep(r, "grava") =>
       /\ reqRep[r].rep \in Repasse
       /\ \/ reqRep[r].alvo = "PAGO" /\ transf[reqRep[r].rep] \in {"ABERTO", "FALHOU"}
          \/ reqRep[r].alvo = "FALHOU" /\ transf[reqRep[r].rep] = "ABERTO"

\* What one more transfer, one less, and one more order do to the balance.
LEMMA SaldosMudam ==
  ASSUME TypeOKRepasses, TypeOKRepasses'
  PROVE  /\ Devido \in Nat /\ Repassado \in Nat /\ Devido' \in Nat /\ Repassado' \in Nat
         /\ UNCHANGED venda => Devido' = Devido
         /\ UNCHANGED <<transf, valor>> => Repassado' = Repassado
         /\ Contam' = Contam /\ UNCHANGED valor => Repassado' = Repassado
         /\ \A t \in Repasse \ Contam :
              Contam' = Contam \cup {t} /\ (\A u \in Contam : valor'[u] = valor[u])
                => Repassado' = Repassado + valor'[t]
         /\ \A t \in Contam : Contam' = Contam \ {t} /\ UNCHANGED valor => Repassado' <= Repassado
         /\ \A v \in Venda \ Pagas : Pagas' = Pagas \cup {v} => Devido <= Devido'
<1>1. /\ Devido = Soma(ValorVenda, Pagas) /\ Repassado = Soma(valor, Contam)
      /\ IsFiniteSet(Pagas) /\ IsFiniteSet(Contam)
      /\ \A v \in Venda : ValorVenda[v] \in Nat
      /\ \A t \in Repasse : valor[t] \in Nat
      /\ Devido \in Nat /\ Repassado \in Nat
  BY Saldos
<1>2. /\ Devido' = Soma(ValorVenda, Pagas') /\ Repassado' = Soma(valor', Contam')
      /\ IsFiniteSet(Pagas') /\ IsFiniteSet(Contam')
      /\ \A t \in Repasse : valor'[t] \in Nat
      /\ Devido' \in Nat /\ Repassado' \in Nat
  <2>1. Devido' = Soma(ValorVenda, Pagas') /\ Repassado' = Soma(valor', Contam')
    <3>1. (Devido = Soma(ValorVenda, Pagas) /\ Repassado = Soma(valor, Contam))'
      BY SaldosSomas, PTL
    <3> QED BY <3>1
  <2>2. IsFiniteSet(Pagas')
    BY RepassesAssumption, FS_Subset DEF Pagas
  <2>3. IsFiniteSet(Repasse)
    BY RepassesAssumption, FS_Interval DEF Repasse
  <2>4. IsFiniteSet(Contam')
    BY <2>3, FS_Subset DEF Contam
  <2>5. \A t \in Repasse : valor'[t] \in Nat
    BY DEF TypeOKRepasses
  <2>6. Soma(ValorVenda, Pagas') \in Nat
    BY <1>1, <2>2, SomaTipo DEF Pagas
  <2>7. Soma(valor', Contam') \in Nat
    BY <2>4, <2>5, SomaTipo DEF Contam
  <2> QED BY <2>1, <2>2, <2>4, <2>5, <2>6, <2>7
<1>3. Pagas \subseteq Venda /\ Pagas' \subseteq Venda /\ Contam \subseteq Repasse /\ Contam' \subseteq Repasse
  BY DEF Pagas, Contam
<1>4. UNCHANGED venda => Devido' = Devido
  BY <1>1, <1>2 DEF Pagas
<1>5. Contam' = Contam /\ UNCHANGED valor => Repassado' = Repassado
  BY <1>1, <1>2
<1>6. UNCHANGED <<transf, valor>> => Repassado' = Repassado
  BY <1>5 DEF Contam
<1>7. ASSUME NEW t \in Repasse \ Contam, Contam' = Contam \cup {t},
             \A u \in Contam : valor'[u] = valor[u]
      PROVE  Repassado' = Repassado + valor'[t]
  <2>1. Soma(valor', Contam') = Soma(valor', Contam' \ {t}) + valor'[t]
    BY <1>2, <1>3, <1>7, SomaMais
  <2>2. Contam' \ {t} = Contam
    BY <1>7
  <2>3. Soma(valor', Contam) = Soma(valor, Contam)
    BY <1>1, <1>3, <1>7, SomaTipo
  <2> QED BY <1>1, <1>2, <2>1, <2>2, <2>3
<1>8. ASSUME NEW t \in Contam, Contam' = Contam \ {t}, UNCHANGED valor
      PROVE  Repassado' <= Repassado
  <2>1. Soma(valor, Contam) = Soma(valor, Contam \ {t}) + valor[t]
    BY <1>1, <1>3, <1>8, SomaMais
  <2>2. valor[t] \in Nat
    BY <1>1, <1>3, <1>8
  <2> QED BY <1>1, <1>2, <1>8, <2>1, <2>2
<1>9. ASSUME NEW v \in Venda \ Pagas, Pagas' = Pagas \cup {v}
      PROVE  Devido <= Devido'
  <2>1. Soma(ValorVenda, Pagas') = Soma(ValorVenda, Pagas' \ {v}) + ValorVenda[v]
    BY <1>1, <1>2, <1>3, <1>9, SomaMais
  <2>2. Pagas' \ {v} = Pagas
    BY <1>9
  <2>3. ValorVenda[v] \in Nat
    BY <1>1, <1>9
  <2> QED BY <1>1, <1>2, <2>1, <2>2, <2>3
<1> QED BY <1>1, <1>2, <1>4, <1>5, <1>6, <1>7, <1>8, <1>9

\* No transfer goes from paid to anything else.
PagoFica == \A t \in Repasse : transf[t] = "PAGO" => transf'[t] = "PAGO"

\* A step of the only handler.
LEMMA PassoUmRepasse ==
  ASSUME TypeOKRepasses, TypeOKRepasses', UmRepasse, NEW r \in ReqRep, PassoRepasses(r),
         \A s \in ReqRep \ {r} : EmRep(s, "livre")
  PROVE  /\ UmRepasse' /\ PagoFica /\ Devido' = Devido
         /\ ((\E t \in Repasse : transf[t] = "FALHOU" /\ transf'[t] = "PAGO")
               \/ Repassado' <= Repassado \/ Repassado' <= Devido)
<1> USE RepassesAssumption DEF SegueRep, EmRep, linhasRep
<1>t. /\ Devido \in Nat /\ Repassado \in Nat /\ reqRep[r] \in HandlerRep
      /\ reqRep \in [ReqRep -> HandlerRep]
      /\ transf \in [Repasse -> {"NENHUM", "ABERTO", "PAGO", "FALHOU"}]
      /\ valor \in [Repasse -> Nat] /\ gerados \in 0 .. MaxRepasses
  BY Saldos DEF TypeOKRepasses
<1>d. UNCHANGED venda
  BY DEF PassoRepasses, AbrirRepasse, LerSaldo, CriarRepasse, AbrirPagar, AbrirFalha, GravarRepasse,
         DesistirRep
<1>v. Devido' = Devido
  BY <1>d, SaldosMudam
<1>s. ASSUME NEW q, SegueRep(r, q), UNCHANGED linhasRep,
             q.pc \in {"saldos", "cria"} =>
               /\ "vendido" \notin q.falta => q.vendido = Devido
               /\ "repassado" \notin q.falta => q.repassado = Repassado
               /\ q.pc = "cria" => q.falta = {},
             q.pc = "grava" =>
               /\ q.rep \in Repasse
               /\ \/ q.alvo = "PAGO" /\ transf[q.rep] \in {"ABERTO", "FALHOU"}
                  \/ q.alvo = "FALHOU" /\ transf[q.rep] = "ABERTO"
      PROVE  UmRepasse' /\ PagoFica /\ Repassado' <= Repassado
  <2>1. Repassado' = Repassado
    BY <1>s, SaldosMudam
  <2>2. reqRep'[r] = q /\ \A s \in ReqRep \ {r} : reqRep'[s] = reqRep[s]
    BY <1>s, <1>t
  <2>3. UmRepasse'
    BY <1>s, <1>v, <2>1, <2>2 DEF UmRepasse
  <2> QED BY <1>s, <1>t, <2>1, <2>3 DEF PagoFica
<1>1. ASSUME NEW v \in Parciais, AbrirRepasse(r, v)
      PROVE  UmRepasse' /\ PagoFica /\ Repassado' <= Repassado
  <2> DEFINE q == [LivreRep EXCEPT !.pc = "saldos", !.pedido = v, !.falta = Leitura]
  <2>1. q.pc = "saldos" /\ q.falta = Leitura
    BY DEF LivreRep
  <2>2. SegueRep(r, q) /\ UNCHANGED linhasRep
    BY <1>1 DEF AbrirRepasse
  <2> HIDE DEF q
  <2> QED BY <1>s, <2>1, <2>2 DEF Leitura
<1>2. ASSUME NEW x \in Leitura, LerSaldo(r, x)
      PROVE  UmRepasse' /\ PagoFica /\ Repassado' <= Repassado
  <2> DEFINE p == reqRep[r]
             q == [p EXCEPT !.falta = @ \ {x},
                            !.vendido = IF x = "vendido" THEN Devido ELSE @,
                            !.repassado = IF x = "repassado" THEN Repassado ELSE @,
                            !.abertos = IF x = "abertos" THEN Cardinality(RepassesAbertos) ELSE @,
                            !.pc = IF p.falta = {x} THEN "cria" ELSE "saldos"]
  <2>1. /\ q.pc = IF p.falta = {x} THEN "cria" ELSE "saldos"
        /\ q.falta = p.falta \ {x}
        /\ q.vendido = IF x = "vendido" THEN Devido ELSE p.vendido
        /\ q.repassado = IF x = "repassado" THEN Repassado ELSE p.repassado
    BY <1>t DEF HandlerRep
  <2>2. SegueRep(r, q) /\ UNCHANGED linhasRep /\ EmRep(r, "saldos")
    BY <1>2 DEF LerSaldo
  <2> HIDE DEF q
  <2>3. /\ "vendido" \notin p.falta => p.vendido = Devido
        /\ "repassado" \notin p.falta => p.repassado = Repassado
    BY <2>2 DEF UmRepasse
  <2> HIDE DEF p
  <2> QED BY <1>s, <2>1, <2>2, <2>3
<1>3. CASE CriarRepasse(r)
  <2> DEFINE q == reqRep[r]
             t == gerados + 1
  <2>1. q.vendido = Devido /\ q.repassado = Repassado
    BY <1>3 DEF UmRepasse, CriarRepasse
  <2>2. /\ Quantia(q) <= Devido - Repassado /\ t \in Repasse /\ gerados' = t
        /\ transf' = [transf EXCEPT ![t] = "ABERTO"] /\ valor' = [valor EXCEPT ![t] = Quantia(q)]
        /\ reqRep' = [reqRep EXCEPT ![r] = LivreRep]
    BY <1>3, <2>1 DEF CriarRepasse
  <2>3. transf[t] = "NENHUM"
    BY <1>t, <2>2 DEF UmRepasse
  <2>4. Quantia(q) \in Int
    BY <1>t DEF Quantia, HandlerRep
  <2> HIDE DEF q, t
  <2>5. t \in Repasse \ Contam /\ Contam' = Contam \cup {t}
    BY <1>t, <2>2, <2>3 DEF Contam
  <2>6. valor'[t] = Quantia(q) /\ \A u \in Contam : valor'[u] = valor[u]
    BY <1>t, <2>2, <2>5 DEF Contam
  <2>7. Repassado' = Repassado + Quantia(q)
    BY <2>5, <2>6, SaldosMudam
  <2>8. Repassado' <= Devido
    BY <1>t, <2>2, <2>4, <2>7
  <2>9. \A u \in Repasse : u > gerados' => transf'[u] = "NENHUM"
    BY <1>t, <2>2 DEF UmRepasse, t, Repasse
  <2>10. \A s \in ReqRep : EmRep(s, "livre")'
    BY <1>t, <2>2, LivreRepTipo
  <2>11. UmRepasse'
    BY <2>9, <2>10 DEF UmRepasse
  <2>12. PagoFica
    BY <1>t, <2>2, <2>3 DEF PagoFica
  <2> QED BY <1>v, <2>8, <2>11, <2>12
<1>4. ASSUME NEW t \in Repasse, AbrirPagar(r, t)
      PROVE  UmRepasse' /\ PagoFica /\ Repassado' <= Repassado
  <2> DEFINE q == [LivreRep EXCEPT !.pc = "grava", !.rep = t, !.alvo = "PAGO"]
  <2>1. q.pc = "grava" /\ q.rep = t /\ q.alvo = "PAGO"
    BY DEF LivreRep
  <2>2. SegueRep(r, q) /\ UNCHANGED linhasRep /\ transf[t] \in {"ABERTO", "FALHOU"}
    BY <1>4 DEF AbrirPagar
  <2> HIDE DEF q
  <2> QED BY <1>s, <2>1, <2>2
<1>5. ASSUME NEW t \in Repasse, AbrirFalha(r, t)
      PROVE  UmRepasse' /\ PagoFica /\ Repassado' <= Repassado
  <2> DEFINE q == [LivreRep EXCEPT !.pc = "grava", !.rep = t, !.alvo = "FALHOU"]
  <2>1. q.pc = "grava" /\ q.rep = t /\ q.alvo = "FALHOU"
    BY DEF LivreRep
  <2>2. SegueRep(r, q) /\ UNCHANGED linhasRep /\ transf[t] = "ABERTO"
    BY <1>5 DEF AbrirFalha
  <2> HIDE DEF q
  <2> QED BY <1>s, <2>1, <2>2
<1>6. CASE GravarRepasse(r)
  <2> DEFINE t == reqRep[r].rep
             a == reqRep[r].alvo
  <2>1. /\ t \in Repasse
        /\ \/ a = "PAGO" /\ transf[t] \in {"ABERTO", "FALHOU"}
           \/ a = "FALHOU" /\ transf[t] = "ABERTO"
    <3>1. EmRep(r, "grava")
      BY <1>6 DEF GravarRepasse
    <3> HIDE DEF EmRep
    <3> QED BY <3>1 DEF UmRepasse
  <2>2. /\ transf' = [transf EXCEPT ![t] = a] /\ UNCHANGED <<gerados, valor>>
        /\ reqRep' = [reqRep EXCEPT ![r] = LivreRep]
    BY <1>6 DEF GravarRepasse
  <2>3. transf[t] # "NENHUM" => ~(t > gerados)
    BY <2>1 DEF UmRepasse
  <2> HIDE DEF t, a
  <2>4. \A u \in Repasse : u > gerados' => transf'[u] = "NENHUM"
    BY <1>t, <2>1, <2>2, <2>3 DEF UmRepasse
  <2>5. \A s \in ReqRep : EmRep(s, "livre")'
    BY <1>t, <2>2, LivreRepTipo
  <2>6. UmRepasse'
    BY <2>4, <2>5 DEF UmRepasse
  <2>7. PagoFica
    BY <1>t, <2>1, <2>2 DEF PagoFica
  <2>8. CASE a = "FALHOU"
    <3>1. t \in Contam /\ Contam' = Contam \ {t}
      BY <1>t, <2>1, <2>2, <2>8 DEF Contam
    <3> QED BY <1>v, <2>2, <2>6, <2>7, <3>1, SaldosMudam
  <2>9. CASE a = "PAGO" /\ transf[t] = "ABERTO"
    <3>1. Contam' = Contam
      BY <1>t, <2>1, <2>2, <2>9 DEF Contam
    <3>2. Repassado' = Repassado
      BY <2>2, <3>1, SaldosMudam
    <3> QED BY <1>t, <1>v, <2>6, <2>7, <3>2
  <2>10. CASE a = "PAGO" /\ transf[t] = "FALHOU"
    <3>1. t \in Repasse /\ transf[t] = "FALHOU" /\ transf'[t] = "PAGO"
      BY <1>t, <2>1, <2>2, <2>10
    <3> QED BY <1>v, <2>6, <2>7, <3>1
  <2> QED BY <2>1, <2>8, <2>9, <2>10
<1>7. CASE DesistirRep(r)
  <2>1. SegueRep(r, LivreRep) /\ UNCHANGED linhasRep
    BY <1>7 DEF DesistirRep
  <2> QED BY <1>s, <1>v, <2>1, LivreRepTipo
<1> QED BY <1>v, <1>1, <1>2, <1>3, <1>4, <1>5, <1>6, <1>7 DEF PassoRepasses

\* A sale, or its return, beside no handler.
LEMMA VendaUmRepasse ==
  ASSUME TypeOKRepasses, TypeOKRepasses', UmRepasse, NEW v \in Venda, VenderOuDevolver(v),
         \A s \in ReqRep : EmRep(s, "livre")
  PROVE  /\ UmRepasse' /\ PagoFica /\ Repassado' = Repassado
         /\ SemDevolucao' => SemDevolucao /\ Devido <= Devido'
<1>1. Repassado' = Repassado
  BY SaldosMudam DEF VenderOuDevolver, linhasRep
<1>2. UmRepasse' /\ PagoFica
  BY DEF UmRepasse, VenderOuDevolver, linhasRep, EmRep, PagoFica
<1>3. ASSUME SemDevolucao' PROVE SemDevolucao /\ Devido <= Devido'
  <2>1. venda \in [Venda -> {"ABERTO", "PAGO", "ESTORNADO"}]
    BY DEF TypeOKRepasses
  <2>2. venda[v] = "ABERTO" /\ venda' = [venda EXCEPT ![v] = "PAGO"]
    BY <1>3, <2>1 DEF VenderOuDevolver, SemDevolucao
  <2>3. v \in Venda \ Pagas /\ Pagas' = Pagas \cup {v}
    BY <2>1, <2>2 DEF Pagas
  <2> QED BY <1>3, <2>1, <2>2, <2>3, SaldosMudam DEF SemDevolucao
<1> QED BY <1>1, <1>2, <1>3

\* A step of the shop is a step of the transfers, or leaves them alone.
LEMMA LojaRepasses ==
  ASSUME [NextLoja]_varsLoja
  PROVE  NextRep \/ UNCHANGED <<varsRepasses, revivido>>
  BY DEF NextLoja, NextPac, NextPub, NextCod, NextBak, NextCre, varsLoja, naoPacote, historia

\* The transfers: what requests that do not overlap leave of the balance.
RepasseInv ==
  /\ TypeOKRepasses
  /\ sozinho => UmRepasse /\ (SemDevolucao /\ ~revivido => Repassado <= Devido)

\* A step keeps it, and what is paid stays paid.
LEMMA PassoRepasseInv ==
  ASSUME RepasseInv, [NextLoja]_varsLoja
  PROVE  RepasseInv' /\ (sozinho' => PagoFica)
<1>t. TypeOKRepasses
  BY DEF RepasseInv
<1>1. [NextRepasses]_varsRepasses
  BY LojaRepasses DEF NextRep, NextRepasses
<1>2. TypeOKRepasses'
  BY <1>t, <1>1, RepassesTipos
<1>n. Devido \in Nat /\ Repassado \in Nat /\ Devido' \in Nat /\ Repassado' \in Nat
  BY <1>t, <1>2, SaldosMudam
<1> SUFFICES ASSUME sozinho'
             PROVE  UmRepasse' /\ PagoFica /\ (SemDevolucao' /\ ~revivido' => Repassado' <= Devido')
  BY <1>2 DEF RepasseInv
<1>3. UmRepasse /\ (SemDevolucao /\ ~revivido => Repassado <= Devido)
  BY SozinhoAntes DEF RepasseInv
<1>4. ASSUME NEW r \in ReqRep, PassoRepasses(r), So(\A s \in ReqRep \ {r} : EmRep(s, "livre")),
             revivido' = (revivido \/ \E t \in Repasse : transf[t] = "FALHOU" /\ transf'[t] = "PAGO")
      PROVE  UmRepasse' /\ PagoFica /\ (SemDevolucao' /\ ~revivido' => Repassado' <= Devido')
  <2>1. \A s \in ReqRep \ {r} : EmRep(s, "livre")
    BY <1>4, SoMenos
  <2>2. /\ UmRepasse' /\ PagoFica /\ Devido' = Devido
        /\ ((\E t \in Repasse : transf[t] = "FALHOU" /\ transf'[t] = "PAGO")
              \/ Repassado' <= Repassado \/ Repassado' <= Devido)
    BY <1>t, <1>2, <1>3, <1>4, <2>1, PassoUmRepasse
  <2>3. UNCHANGED venda
    BY <1>4 DEF PassoRepasses, AbrirRepasse, LerSaldo, CriarRepasse, AbrirPagar, AbrirFalha,
                GravarRepasse, DesistirRep
  <2>4. SemDevolucao' => SemDevolucao
    BY <2>3 DEF SemDevolucao
  <2>5. ~revivido' => ~revivido /\ ~\E t \in Repasse : transf[t] = "FALHOU" /\ transf'[t] = "PAGO"
    BY <1>4, Zenon
  <2> QED BY <1>n, <1>3, <2>2, <2>4, <2>5
<1>5. ASSUME NEW v \in Venda, VenderOuDevolver(v), So(\A s \in ReqRep : EmRep(s, "livre")),
             revivido' = (revivido \/ \E t \in Repasse : transf[t] = "FALHOU" /\ transf'[t] = "PAGO")
      PROVE  UmRepasse' /\ PagoFica /\ (SemDevolucao' /\ ~revivido' => Repassado' <= Devido')
  <2>1. \A s \in ReqRep : EmRep(s, "livre")
    BY <1>5, SoMenos
  <2>2. /\ UmRepasse' /\ PagoFica /\ Repassado' = Repassado
        /\ SemDevolucao' => SemDevolucao /\ Devido <= Devido'
    BY <1>t, <1>2, <1>3, <1>5, <2>1, VendaUmRepasse
  <2>5. ~revivido' => ~revivido
    BY <1>5, Zenon
  <2> QED BY <1>n, <1>3, <2>2, <2>5
<1>6. CASE UNCHANGED <<varsRepasses, revivido>>
  <2>1. UNCHANGED <<venda, gerados, transf, valor, reqRep>>
    BY <1>6 DEF varsRepasses, linhasRep
  <2>2. (SemDevolucao' => SemDevolucao) /\ Devido' = Devido /\ Repassado' = Repassado
    BY <1>t, <1>2, <2>1, SaldosMudam DEF SemDevolucao
  <2>4. UmRepasse' /\ PagoFica
    BY <1>3, <2>1, <2>2 DEF UmRepasse, EmRep, PagoFica
  <2>3. ~revivido' => ~revivido
    BY <1>6
  <2> QED BY <1>3, <2>2, <2>3, <2>4
<1> QED BY <1>4, <1>5, <1>6, LojaRepasses, Zenon DEF NextRep

\* financeiro-admin.service.ts: requests that do not overlap never pay a transfer back into the
\* balance, nor transfer more than the paid orders gave the photographer, unless an order was
\* returned or a failed transfer was marked paid afterwards.
THEOREM RepasseSempreCoberto == SpecLoja => RepasseCoberto
<1>1. InitLoja => RepasseInv
  <2> SUFFICES ASSUME InitLoja PROVE RepasseInv
    OBVIOUS
  <2>1. InitRepasses
    BY DEF InitLoja
  <2>2. TypeOKRepasses
    BY <2>1, RepassesInit
  <2>3. UmRepasse
    BY <2>1, LivreRepTipo DEF InitRepasses, UmRepasse, EmRep
  <2>4. Contam = {}
    BY <2>1 DEF InitRepasses, Contam
  <2>5. Repassado = 0
    BY <2>2, <2>4, Saldos, SomaPasso
  <2>6. Repassado <= Devido
    BY <2>2, <2>5, Saldos
  <2> QED BY <2>2, <2>3, <2>6 DEF RepasseInv
<1>2. RepasseInv /\ [NextLoja]_varsLoja => RepasseInv'
  BY PassoRepasseInv
<1>3. RepasseInv /\ RepasseInv' /\ [NextLoja]_varsLoja
        => [sozinho' =>
             /\ \A t \in Repasse : transf[t] = "PAGO" => transf'[t] = "PAGO"
             /\ (\A v \in Venda : venda'[v] # "ESTORNADO") /\ ~revivido' => Repassado' <= Devido'
           ]_<<varsRepasses, sozinho, revivido>>
  BY PassoRepasseInv DEF RepasseInv, PagoFica, SemDevolucao
<1> QED BY <1>1, <1>2, <1>3, PTL DEF SpecLoja, RepasseCoberto

-----------------------------------------------------------------------------
(* The packages. *)

\* Orders with items were written, and there are finitely many items.
ItensContados == IsFiniteSet(itens) /\ \A i \in itens : status[i[1]] # "INEXISTENTE"

ItensDe(p) == {i \in itens : i[1] = p}
ItensDoPedido(r) == ItensDe(req[r].pedido)

Pedindo(r) == Em(r, "seleciona") \/ Em(r, "cria") \/ Em(r, "libera")

\* What a request read of the package and of the paid orders holds until its order is released.
LeuPacote(r) == Em(r, "seleciona") => req[r].incluidas = incluidas
CabeNoPacote(r) == Em(r, "cria") =>
  req[r].fotos \cap Escolhidas = {} /\ Cardinality(req[r].gratis) <= Restantes(incluidas)
Inedito(r) == Em(r, "libera") =>
  /\ \A i \in ItensDoPedido(r) : i[2] \notin Escolhidas
  /\ Cardinality(ItensDoPedido(r)) <= Restantes(incluidas)

\* One selection at a time.
UmaSelecao ==
  /\ \A r, s \in Req : Pedindo(r) /\ Pedindo(s) => r = s
  /\ \A r \in Req : LeuPacote(r) /\ CabeNoPacote(r) /\ Inedito(r)
  /\ SoGratis => SemRepetida

\* The paid included photos do not pass the package when one more is.
NaMedida == Cardinality(Usadas') > Cardinality(Usadas) => Cardinality(Usadas') <= incluidas

\* The items of a selection.
LEMMA ItensNovos ==
  ASSUME NEW p, NEW F, IsFiniteSet(F)
  PROVE  IsFiniteSet({p} \X F) /\ Cardinality({p} \X F) = Cardinality(F)
<1>1. IsFiniteSet({p}) /\ Cardinality({p}) = 1
  BY FS_Singleton
<1>2. Cardinality(F) \in Nat
  BY FS_CardinalityType
<1> QED BY <1>1, <1>2, FS_Product

\* After a step of the only request that selects.
LEMMA SoUmPede ==
  ASSUME NEW r \in Req, \A s \in Req \ {r} : ~Pedindo(s)',
         LeuPacote(r)', CabeNoPacote(r)', Inedito(r)', SoGratis' => SemRepetida'
  PROVE  UmaSelecao'
<1>1. \A s \in Req \ {r} : (LeuPacote(s) /\ CabeNoPacote(s) /\ Inedito(s))'
  BY DEF Pedindo, LeuPacote, CabeNoPacote, Inedito
<1>2. \A s \in Req : (LeuPacote(s) /\ CabeNoPacote(s) /\ Inedito(s))'
  BY <1>1
<1> QED BY <1>2 DEF UmaSelecao

\* After a step that leaves no request selecting.
LEMMA NinguemPede ==
  ASSUME \A s \in Req : ~Pedindo(s)', SoGratis' => SemRepetida'
  PROVE  UmaSelecao'
<1>1. \A s \in Req : (LeuPacote(s) /\ CabeNoPacote(s) /\ Inedito(s))'
  BY DEF Pedindo, LeuPacote, CabeNoPacote, Inedito
<1> QED BY <1>1 DEF UmaSelecao

\* What a step that keeps the rows of the orders keeps.
LEMMA SoPedidosIguais ==
  ASSUME UNCHANGED <<status, itens, gratis>>
  PROVE  /\ Escolhidas' = Escolhidas /\ Usadas' = Usadas
         /\ (ItensContados => ItensContados') /\ (SemRepetida => SemRepetida')
         /\ SoGratis' = SoGratis /\ \A p : ItensDe(p)' = ItensDe(p)
BY DEF Escolhidas, Usadas, Pago, ItensContados, SemRepetida, SoGratis, ItensDe

LEMMA RestantesIguais ==
  ASSUME UNCHANGED <<incluidas, Usadas>>
  PROVE  Restantes(incluidas)' = Restantes(incluidas)
BY DEF Restantes

\* Orders are of the set; items are of them.
LEMMA PacoteTipos ==
  ASSUME PacoteInv
  PROVE  /\ status \in [Pedido -> StatusPedido] /\ itens \subseteq Pedido \X Foto /\ gratis \subseteq itens
         /\ req \in [Req -> Handler] /\ incluidas \in Nat
         /\ \A r \in Req : Pedindo(r) => req[r].pedido \in Pedido
         /\ \A r \in Req : Em(r, "cria") => req[r].gratis \subseteq req[r].fotos
         /\ \A r \in Req : req[r].fotos \subseteq Foto /\ IsFiniteSet(req[r].fotos)
<1>1. \A r \in Req : req[r] \in Handler
  BY DEF PacoteInv, TypeOK
<1>2. \A r \in Req : req[r].fotos \subseteq Foto /\ IsFiniteSet(req[r].fotos)
  BY <1>1, FotoAssumption, FS_Subset DEF Handler
<1> QED BY <1>2, PacotesAssumption DEF PacoteInv, TypeOK, CoerentePac, Item, Pedindo, Em

\* What was used of the package is a finite number.
LEMMA UsadasFinitas ==
  ASSUME ItensContados, gratis \subseteq itens
  PROVE  IsFiniteSet(Usadas)
<1>1. Usadas \subseteq itens
  BY DEF Usadas
<1> QED BY <1>1, FS_Subset DEF ItensContados

\* criarPedido writes the order: nothing that is paid changes.
LEMMA CriarSelecao ==
  ASSUME PacoteInv, ItensContados, UmaSelecao, NEW r \in Req, Criar(r),
         \A s \in Req \ {r} : ~Pedindo(s)
  PROVE  ItensContados' /\ UmaSelecao' /\ NaMedida /\ (SoGratis' => SemRepetida')
<1> DEFINE q == req[r]
           p == q.pedido
<1>t. /\ status \in [Pedido -> StatusPedido] /\ itens \subseteq Pedido \X Foto /\ gratis \subseteq itens
      /\ p \in Pedido /\ q.gratis \subseteq q.fotos /\ IsFiniteSet(q.fotos) /\ req \in [Req -> Handler]
      /\ q.fotos \subseteq Foto
  BY PacoteTipos DEF Criar, Pedindo
<1>1. /\ status[p] = "INEXISTENTE" /\ status' = [status EXCEPT ![p] = "ABERTO"]
      /\ itens' = itens \cup ({p} \X q.fotos) /\ gratis' = gratis \cup ({p} \X q.gratis)
      /\ incluidas' = incluidas
      /\ Segue(r, IF q.gratis = q.fotos THEN [Livre EXCEPT !.pc = "libera", !.pedido = p] ELSE Livre)
  BY DEF Criar, galeria
<1>2. q.fotos \cap Escolhidas = {} /\ Cardinality(q.gratis) <= Restantes(incluidas)
  BY DEF Criar, UmaSelecao, CabeNoPacote
<1>3. \A i \in itens : i[1] # p
  BY <1>1 DEF ItensContados
<1>r. \A s \in Req \ {r} : req'[s] = req[s]
  BY <1>1, <1>t DEF Segue
<1>l. req'[r] = IF q.gratis = q.fotos THEN [Livre EXCEPT !.pc = "libera", !.pedido = p] ELSE Livre
  BY <1>1, <1>t DEF Segue
<1> HIDE DEF q, p
<1>4. ItensContados'
  <2>1. IsFiniteSet(itens')
    BY <1>1, <1>t, ItensNovos, FS_Union DEF ItensContados
  <2>2. \A i \in itens' : i[1] \in Pedido
    BY <1>1, <1>t
  <2> QED BY <1>1, <1>3, <1>t, <2>1, <2>2 DEF ItensContados
<1>5. \A i \in itens' : Pago(i[1])' <=> i \in itens /\ Pago(i[1])
  <2> TAKE i \in itens'
  <2>1. i \in itens => i[1] \in Pedido /\ i[1] # p
    BY <1>3, <1>t
  <2>2. i \notin itens => i[1] = p
    BY <1>1
  <2> QED BY <1>1, <1>t, <2>1, <2>2 DEF Pago
<1>6. Escolhidas' = Escolhidas
  BY <1>1, <1>5 DEF Escolhidas
<1>7. Usadas' = Usadas
  <2>1. \A i \in {p} \X q.gratis : i \in itens' /\ i \notin itens
    BY <1>1, <1>3, <1>t
  <2>2. \A i \in gratis : i \in itens' /\ i \in itens
    BY <1>1, <1>t
  <2>3. gratis' = gratis \cup ({p} \X q.gratis)
    BY <1>1
  <2>4. \A i : i \in gratis' /\ Pago(i[1])' <=> i \in gratis /\ Pago(i[1])
    BY <1>5, <2>1, <2>2, <2>3
  <2> QED BY <2>4 DEF Usadas
<1>8. Restantes(incluidas)' = Restantes(incluidas)
  BY <1>1, <1>7, RestantesIguais
<1>9. SoGratis' => SoGratis
  <2> SUFFICES ASSUME gratis' = itens', NEW i \in itens PROVE i \in gratis
    BY <1>t DEF SoGratis
  <2>1. i \in gratis'
    BY <1>1
  <2>2. i \notin {p} \X q.gratis
    BY <1>3
  <2> QED BY <1>1, <2>1, <2>2
<1>10. SoGratis' => SemRepetida'
  <2> SUFFICES ASSUME SoGratis', NEW i \in itens', NEW j \in itens', Pago(i[1])', Pago(j[1])', i[2] = j[2]
               PROVE  i = j
    BY DEF SemRepetida
  <2>1. i \in itens /\ Pago(i[1]) /\ j \in itens /\ Pago(j[1])
    BY <1>5
  <2> QED BY <1>9, <2>1 DEF UmaSelecao, SemRepetida
<1>11. ~Em(r, "seleciona")' /\ ~Em(r, "cria")'
  BY <1>l DEF Em, Livre
<1>12. \A s \in Req \ {r} : ~Pedindo(s)'
  BY <1>r DEF Pedindo, Em
<1>13. ASSUME Em(r, "libera")'
       PROVE  (\A i \in ItensDoPedido(r) : i[2] \notin Escolhidas)'
              /\ (Cardinality(ItensDoPedido(r)) <= Restantes(incluidas))'
  <2>1. q.gratis = q.fotos /\ req'[r].pedido = p
    BY <1>13, <1>l DEF Em, Livre
  <2>2. ItensDoPedido(r)' = {i \in itens' : i[1] = p}
    BY <2>1 DEF ItensDoPedido, ItensDe
  <2>3. ItensDoPedido(r)' = {p} \X q.fotos
    BY <1>1, <1>3, <2>2
  <2>4. Cardinality({p} \X q.fotos) = Cardinality(q.gratis)
    BY <1>t, <2>1, ItensNovos
  <2>5. \A i \in {p} \X q.fotos : i[2] \notin Escolhidas
    BY <1>2
  <2> QED BY <1>2, <1>6, <1>8, <2>3, <2>4, <2>5
<1>14. Inedito(r)'
  BY <1>13 DEF Inedito
<1>15. LeuPacote(r)' /\ CabeNoPacote(r)'
  BY <1>11 DEF LeuPacote, CabeNoPacote
<1>16. UmaSelecao'
  BY <1>10, <1>12, <1>14, <1>15, SoUmPede
<1>17. NaMedida
  <2>1. Cardinality(Usadas) \in Nat
    BY <1>t, UsadasFinitas, FS_CardinalityType
  <2> QED BY <1>7, <2>1 DEF NaMedida
<1> QED BY <1>4, <1>10, <1>16, <1>17

\* liberar: what was chosen is what is left, and no photo of it was paid before.
LEMMA LiberarSelecao ==
  ASSUME PacoteInv, ItensContados, UmaSelecao, NEW r \in Req, Liberar(r),
         \A s \in Req \ {r} : ~Pedindo(s)
  PROVE  ItensContados' /\ UmaSelecao' /\ NaMedida
<1> DEFINE p == req[r].pedido
           I == ItensDoPedido(r)
<1>t. /\ status \in [Pedido -> StatusPedido] /\ itens \subseteq Pedido \X Foto /\ gratis \subseteq itens
      /\ p \in Pedido /\ req \in [Req -> Handler] /\ incluidas \in Nat
  BY PacoteTipos DEF Liberar, Pedindo
<1>1. /\ status' = IF status[p] # "PAGO" THEN [status EXCEPT ![p] = "PAGO"] ELSE status
      /\ UNCHANGED <<itens, gratis, incluidas>>
      /\ req' = [req EXCEPT ![r] = Livre]
  BY DEF Liberar, Libera, galeria, Segue
<1>2. (\A i \in I : i[2] \notin Escolhidas) /\ Cardinality(I) <= Restantes(incluidas)
  BY DEF Liberar, UmaSelecao, Inedito
<1>3. \A s \in Req : ~Pedindo(s)'
  BY <1>1, <1>t, LivreTipo DEF Pedindo, Em, Livre
<1>i. I = {i \in itens : i[1] = p}
  BY DEF ItensDoPedido, ItensDe
<1> HIDE DEF p, I
<1>4. \A o \in Pedido : Pago(o)' <=> Pago(o) \/ o = p
  BY <1>1, <1>t DEF Pago
<1>5. ItensContados'
  BY <1>1, <1>t, <1>4 DEF ItensContados, Pago
<1>6. IsFiniteSet(Usadas) /\ IsFiniteSet(Usadas') /\ IsFiniteSet(I)
  <2>1. Usadas \subseteq itens /\ Usadas' \subseteq itens /\ I \subseteq itens
    BY <1>1, <1>t, <1>i DEF Usadas
  <2> QED BY <2>1, FS_Subset DEF ItensContados
<1>7. NaMedida
  <2>1. Usadas' \subseteq Usadas \cup I
    BY <1>1, <1>t, <1>4, <1>i DEF Usadas
  <2>2. IsFiniteSet(Usadas \cup I) /\ Cardinality(Usadas \cup I) <= Cardinality(Usadas) + Cardinality(I)
    <3>1. IsFiniteSet(Usadas \cap I) /\ Cardinality(Usadas \cap I) \in Nat
      BY <1>6, FS_Subset, FS_CardinalityType
    <3>2. Cardinality(Usadas) \in Nat /\ Cardinality(I) \in Nat
      BY <1>6, FS_CardinalityType
    <3>3. /\ IsFiniteSet(Usadas \cup I)
          /\ Cardinality(Usadas \cup I) = Cardinality(Usadas) + Cardinality(I) - Cardinality(Usadas \cap I)
      BY <1>6, FS_Union
    <3> QED BY <3>1, <3>2, <3>3
  <2>3. Cardinality(Usadas') <= Cardinality(Usadas \cup I) /\ Cardinality(Usadas \cup I) \in Nat
    BY <2>1, <2>2, FS_Subset, FS_CardinalityType
  <2>4. Cardinality(Usadas) \in Nat /\ Cardinality(I) \in Nat /\ Cardinality(Usadas') \in Nat
    BY <1>6, FS_CardinalityType
  <2>5. Cardinality(I) > 0 => Cardinality(Usadas) + Cardinality(I) <= incluidas
    BY <1>2, <1>t, <2>4 DEF Restantes
  <2> QED BY <1>t, <2>2, <2>3, <2>4, <2>5 DEF NaMedida
<1>8. SoGratis' => SemRepetida'
  <2> SUFFICES ASSUME SoGratis', NEW i \in itens', NEW j \in itens', Pago(i[1])', Pago(j[1])', i[2] = j[2]
               PROVE  i = j
    BY DEF SemRepetida
  <2>1. SemRepetida
    BY <1>1 DEF UmaSelecao, SoGratis
  <2>2. i \in Pedido \X Foto /\ j \in Pedido \X Foto /\ i \in itens /\ j \in itens
    BY <1>1, <1>t
  <2>3. (i[1] = p => i \in I) /\ (j[1] = p => j \in I)
    BY <2>2, <1>i
  <2>4. (Pago(i[1]) => i[2] \in Escolhidas) /\ (Pago(j[1]) => j[2] \in Escolhidas)
    BY <2>2 DEF Escolhidas
  <2>5. (Pago(i[1]) \/ i[1] = p) /\ (Pago(j[1]) \/ j[1] = p)
    BY <1>4, <2>2
  <2>6. CASE Pago(i[1]) /\ Pago(j[1])
    BY <2>1, <2>2, <2>6 DEF SemRepetida
  <2>7. CASE ~(Pago(i[1]) /\ Pago(j[1]))
    <3>1. i[1] = j[1]
      BY <1>2, <2>3, <2>4, <2>5, <2>7
    <3> QED BY <2>2, <3>1
  <2> QED BY <2>6, <2>7
<1>9. UmaSelecao'
  BY <1>3, <1>8, NinguemPede
<1> QED BY <1>5, <1>7, <1>9

\* The other steps on the orders: a payment makes the property say nothing more, a return takes
\* photos away.
LEMMA PedidoSelecao ==
  ASSUME PacoteInv, ItensContados, UmaSelecao, NEW r \in Req, PassoPedido(r),
         \A s \in Req \ {r} : ~Pedindo(s)
  PROVE  ItensContados' /\ UmaSelecao' /\ (SoGratis' => SemRepetida' /\ NaMedida)
<1>t. /\ status \in [Pedido -> StatusPedido] /\ itens \subseteq Pedido \X Foto /\ gratis \subseteq itens
      /\ req \in [Req -> Handler] /\ incluidas \in Nat
      /\ Cardinality(Usadas) \in Nat /\ IsFiniteSet(Usadas)
  <2>1. IsFiniteSet(Usadas)
    BY PacoteTipos, FS_Subset DEF Usadas, ItensContados
  <2> QED BY <2>1, PacoteTipos, FS_CardinalityType
<1>s. ASSUME NEW q, req' = [req EXCEPT ![r] = q], UNCHANGED <<incluidas, pedidos>>,
             q.pc = "seleciona" => q.incluidas = incluidas,
             q.pc = "cria" => q.fotos \cap Escolhidas = {} /\ Cardinality(q.gratis) <= Restantes(incluidas),
             q.pc # "libera"
      PROVE  ItensContados' /\ UmaSelecao' /\ (SoGratis' => SemRepetida' /\ NaMedida)
  <2>1. UNCHANGED <<status, itens, gratis, incluidas>>
    BY <1>s DEF pedidos
  <2>2. /\ Escolhidas' = Escolhidas /\ Usadas' = Usadas /\ ItensContados'
        /\ (SemRepetida => SemRepetida') /\ SoGratis' = SoGratis
    BY <2>1, SoPedidosIguais
  <2>3. Restantes(incluidas)' = Restantes(incluidas)
    BY <2>1, <2>2, RestantesIguais
  <2>4. req'[r] = q /\ \A s \in Req \ {r} : req'[s] = req[s]
    BY <1>s, <1>t
  <2>5. \A s \in Req \ {r} : ~Pedindo(s)'
    BY <2>4 DEF Pedindo, Em
  <2>6. LeuPacote(r)'
    BY <1>s, <2>1, <2>4 DEF LeuPacote, Em
  <2>7. CabeNoPacote(r)'
    BY <1>s, <2>2, <2>3, <2>4 DEF CabeNoPacote, Em
  <2>8. Inedito(r)'
    BY <1>s, <2>4 DEF Inedito, Em
  <2>9. SoGratis' => SemRepetida'
    BY <2>2 DEF UmaSelecao
  <2>10. NaMedida
    BY <2>2, <1>t DEF NaMedida
  <2> QED BY <2>2, <2>5, <2>6, <2>7, <2>8, <2>9, <2>10, SoUmPede
<1>1. ASSUME NEW p \in Pedido, NEW F \in SUBSET Foto, AbrirGaleria(r, p, F)
      PROVE  ItensContados' /\ UmaSelecao' /\ (SoGratis' => SemRepetida' /\ NaMedida)
  <2> DEFINE q == [Livre EXCEPT !.pc = "seleciona", !.pedido = p, !.fotos = F,
                     !.incluidas = incluidas, !.extra = extra]
  <2>1. q.pc = "seleciona" /\ q.incluidas = incluidas
    BY DEF Livre
  <2>2. req' = [req EXCEPT ![r] = q] /\ UNCHANGED <<incluidas, pedidos>>
    BY <1>1 DEF AbrirGaleria, Segue, galeria
  <2> HIDE DEF q
  <2> QED BY <1>s, <2>1, <2>2
<1>2. CASE Selecionar(r)
  <2>1. PICK I \in SUBSET req[r].fotos :
          /\ Cardinality(I) <= Restantes(req[r].incluidas)
          /\ Segue(r, [req[r] EXCEPT !.pc = "cria", !.gratis = I])
    BY <1>2 DEF Selecionar
  <2> DEFINE q == [req[r] EXCEPT !.pc = "cria", !.gratis = I]
  <2>2. req[r].incluidas = incluidas /\ req[r].fotos \cap Escolhidas = {}
    BY <1>2 DEF Selecionar, UmaSelecao, LeuPacote
  <2>3. q.pc = "cria" /\ q.fotos = req[r].fotos /\ q.gratis = I
    BY <1>t DEF Handler
  <2>4. req' = [req EXCEPT ![r] = q] /\ UNCHANGED <<incluidas, pedidos>>
    BY <1>2, <2>1 DEF Selecionar, Segue, galeria
  <2> HIDE DEF q
  <2> QED BY <1>s, <2>1, <2>2, <2>3, <2>4
<1>3. CASE Criar(r)
  BY <1>3, CriarSelecao
<1>4. CASE Liberar(r)
  BY <1>4, LiberarSelecao DEF UmaSelecao
<1>5. ASSUME NEW p \in Pedido, Pagar(r, p)
      PROVE  ItensContados' /\ UmaSelecao' /\ (SoGratis' => SemRepetida' /\ NaMedida)
  <2>1. UNCHANGED <<itens, gratis, req>> /\ status' = [status EXCEPT ![p] = "PAGO"]
    BY <1>5 DEF Pagar, Libera
  <2>2. ~SoGratis'
    BY <1>5, <2>1 DEF Pagar, SoGratis
  <2>3. \A s \in Req : ~Pedindo(s)'
    BY <1>5, <2>1 DEF Pagar, Pedindo, Em
  <2>4. ItensContados'
    BY <1>t, <2>1 DEF ItensContados
  <2> QED BY <2>2, <2>3, <2>4, NinguemPede
<1>6. ASSUME NEW p \in Pedido, Devolver(r, p)
      PROVE  ItensContados' /\ UmaSelecao' /\ (SoGratis' => SemRepetida' /\ NaMedida)
  <2>1. UNCHANGED <<itens, gratis, req>> /\ status' = [status EXCEPT ![p] = "ESTORNADO"]
    BY <1>6 DEF Devolver
  <2>2. \A s \in Req : ~Pedindo(s)'
    BY <1>6, <2>1 DEF Devolver, Pedindo, Em
  <2>3. ItensContados'
    BY <1>t, <2>1 DEF ItensContados
  <2>4. \A o \in Pedido : Pago(o)' => Pago(o)
    BY <1>t, <2>1 DEF Pago
  <2>5. SoGratis' => SemRepetida'
    BY <1>t, <2>1, <2>4 DEF UmaSelecao, SoGratis, SemRepetida
  <2>6. Usadas' \subseteq Usadas
    BY <1>t, <2>1, <2>4 DEF Usadas
  <2>7. Cardinality(Usadas') <= Cardinality(Usadas) /\ Cardinality(Usadas') \in Nat
    BY <1>t, <2>6, FS_Subset, FS_CardinalityType
  <2>8. NaMedida
    BY <1>t, <2>7 DEF NaMedida
  <2> QED BY <2>2, <2>3, <2>5, <2>8, NinguemPede
<1>7. ASSUME NEW n \in Pacotes, NEW e \in Extras, AlterarPrecos(r, n, e)
      PROVE  ItensContados' /\ UmaSelecao' /\ (SoGratis' => SemRepetida' /\ NaMedida)
  <2>1. UNCHANGED <<status, itens, gratis, req>>
    BY <1>7 DEF AlterarPrecos, pedidos
  <2>2. \A s \in Req : ~Pedindo(s)'
    BY <1>7, <2>1 DEF AlterarPrecos, Pedindo, Em
  <2>3. /\ Usadas' = Usadas /\ ItensContados'
        /\ (SemRepetida => SemRepetida') /\ SoGratis' = SoGratis
    BY <2>1, SoPedidosIguais
  <2>4. NaMedida
    BY <1>t, <2>3 DEF NaMedida
  <2>5. SoGratis' => SemRepetida'
    BY <2>3 DEF UmaSelecao
  <2> QED BY <2>2, <2>3, <2>4, <2>5, NinguemPede
<1> QED BY <1>1, <1>2, <1>3, <1>4, <1>5, <1>6, <1>7 DEF PassoPedido

\* Items stay finitely many, whatever overlaps.
LEMMA PassoContado ==
  ASSUME PacoteInv, ItensContados, NEW r \in Req, PassoPedido(r)
  PROVE  ItensContados'
<1>t. /\ status \in [Pedido -> StatusPedido] /\ itens \subseteq Pedido \X Foto
      /\ \A i \in itens : i[1] \in Pedido
  BY PacoteTipos
<1>1. ASSUME UNCHANGED itens, NEW p, NEW e, e # "INEXISTENTE",
             status' = [status EXCEPT ![p] = e] \/ UNCHANGED status
      PROVE  ItensContados'
  BY <1>t, <1>1 DEF ItensContados
<1>2. ASSUME UNCHANGED <<status, itens>> PROVE ItensContados'
  BY <1>2 DEF ItensContados
<1>3. CASE Criar(r)
  <2> DEFINE q == req[r]
  <2>1. /\ q.pedido \in Pedido /\ q.fotos \subseteq Foto /\ IsFiniteSet(q.fotos)
    BY <1>3, PacoteTipos DEF Criar, Pedindo
  <2>2. /\ status' = [status EXCEPT ![q.pedido] = "ABERTO"]
        /\ itens' = itens \cup ({q.pedido} \X q.fotos)
    BY <1>3 DEF Criar
  <2> HIDE DEF q
  <2>3. IsFiniteSet(itens')
    BY <2>1, <2>2, ItensNovos, FS_Union DEF ItensContados
  <2>4. \A i \in itens' : i[1] \in Pedido /\ (i \in itens \/ i[1] = q.pedido)
    BY <1>t, <2>1, <2>2
  <2> QED BY <1>t, <2>1, <2>2, <2>3, <2>4 DEF ItensContados
<1>4. CASE Liberar(r)
  BY <1>1, <1>4 DEF Liberar, Libera
<1>5. ASSUME NEW p \in Pedido, Pagar(r, p) PROVE ItensContados'
  BY <1>1, <1>5 DEF Pagar, Libera
<1>6. ASSUME NEW p \in Pedido, Devolver(r, p) PROVE ItensContados'
  BY <1>1, <1>6 DEF Devolver
<1>7. CASE Selecionar(r)
  BY <1>2, <1>7 DEF Selecionar, pedidos
<1>8. ASSUME NEW p \in Pedido, NEW F \in SUBSET Foto, AbrirGaleria(r, p, F) PROVE ItensContados'
  BY <1>2, <1>8 DEF AbrirGaleria, pedidos
<1>9. ASSUME NEW n \in Pacotes, NEW e \in Extras, AlterarPrecos(r, n, e) PROVE ItensContados'
  BY <1>2, <1>9 DEF AlterarPrecos, pedidos
<1> QED BY <1>3, <1>4, <1>5, <1>6, <1>7, <1>8, <1>9 DEF PassoPedido

\* Downloads and requests that are cut short touch no order.
LEMMA OutroSelecao ==
  ASSUME PacoteInv, ItensContados, UmaSelecao, NEW r \in Req, PassoDownload(r) \/ Desistir(r)
  PROVE  ItensContados' /\ UmaSelecao' /\ SemRepetida' = SemRepetida /\ NaMedida
<1>t. gratis \subseteq itens /\ req \in [Req -> Handler] /\ Cardinality(Usadas) \in Nat
  BY PacoteTipos, UsadasFinitas, FS_CardinalityType
<1>1. UNCHANGED <<status, itens, gratis, incluidas>>
  BY DEF PassoDownload, AbrirDownload, Contar, ContarSemLink, Desistir, pedidos, galeria
<1>2. \E q : q.pc \in {"livre", "conta"} /\ Segue(r, q)
  <2>1. Livre.pc = "livre" /\ \A p, F : [Livre EXCEPT !.pc = "conta", !.pedido = p, !.fotos = F].pc = "conta"
    BY DEF Livre
  <2>2. ASSUME NEW p \in Pedido, NEW f \in Foto, AbrirDownload(r, p, f)
        PROVE  \E q : q.pc \in {"livre", "conta"} /\ Segue(r, q)
    <3> DEFINE q == [Livre EXCEPT !.pc = "conta", !.pedido = p, !.fotos = {f}]
    <3>1. q.pc = "conta"
      BY <2>1
    <3>2. Segue(r, q)
      BY <2>2 DEF AbrirDownload
    <3> HIDE DEF q
    <3> QED BY <3>1, <3>2
  <2>3. CASE Segue(r, Livre)
    BY <2>1, <2>3
  <2>4. (\E p \in Pedido, f \in Foto : AbrirDownload(r, p, f)) \/ Segue(r, Livre)
    BY DEF PassoDownload, Contar, ContarSemLink, Desistir
  <2> QED BY <2>2, <2>3, <2>4
<1>3. /\ \A s \in Req \ {r} : req'[s] = req[s]
      /\ req'[r].pc \in {"livre", "conta"}
  BY <1>2, <1>t DEF Segue
<1>4. /\ Escolhidas' = Escolhidas /\ Usadas' = Usadas /\ ItensContados' /\ SoGratis' = SoGratis
  BY <1>1, SoPedidosIguais
<1>5. SemRepetida' = SemRepetida
  BY <1>1 DEF SemRepetida, Pago
<1>6. Restantes(incluidas)' = Restantes(incluidas)
  BY <1>1, <1>4, RestantesIguais
<1>7. \A s \in Req : Pedindo(s)' => s # r /\ req'[s] = req[s] /\ Pedindo(s)
  BY <1>3 DEF Pedindo, Em
<1>8. ASSUME NEW s \in Req PROVE LeuPacote(s)' /\ CabeNoPacote(s)' /\ Inedito(s)'
  <2>1. CASE ~Pedindo(s)'
    BY <2>1 DEF Pedindo, LeuPacote, CabeNoPacote, Inedito
  <2>2. CASE Pedindo(s)'
    <3>1. req'[s] = req[s] /\ LeuPacote(s) /\ CabeNoPacote(s) /\ Inedito(s)
      BY <2>2, <1>7 DEF UmaSelecao
    <3>2. ItensDoPedido(s)' = ItensDoPedido(s)
      BY <3>1, <1>1 DEF ItensDoPedido, ItensDe
    <3>3. LeuPacote(s)'
      BY <3>1, <1>1 DEF LeuPacote, Em
    <3>4. CabeNoPacote(s)'
      BY <3>1, <1>4, <1>6 DEF CabeNoPacote, Em
    <3>5. Inedito(s)'
      BY <3>1, <3>2, <1>4, <1>6 DEF Inedito, Em
    <3> QED BY <3>3, <3>4, <3>5
  <2> QED BY <2>1, <2>2
<1>9. UmaSelecao'
  BY <1>4, <1>5, <1>7, <1>8 DEF UmaSelecao
<1>10. NaMedida
  BY <1>4, <1>t DEF NaMedida
<1> QED BY <1>4, <1>5, <1>9, <1>10

\* The shop's steps on the packages.
LEMMA LojaPacote ==
  ASSUME [NextLoja]_varsLoja
  PROVE  NextPac \/ UNCHANGED vars
  BY DEF NextLoja, NextPub, NextBak, NextRep, NextCre, NextCod, varsLoja

\* The packages: what selections that do not overlap leave of them.
SelecaoInv == PacoteInv /\ ItensContados /\ (sozinho => UmaSelecao)

\* A step keeps it, and the paid photos keep to the package.
LEMMA PassoSelecaoInv ==
  ASSUME SelecaoInv, [NextLoja]_varsLoja
  PROVE  SelecaoInv' /\ (sozinho' /\ SoGratis' => SemRepetida' /\ NaMedida)
<1>t. PacoteInv /\ ItensContados
  BY DEF SelecaoInv
<1>1. [Next]_vars
  BY LojaPacote DEF NextPac, Next
<1>2. PacoteInv'
  BY <1>t, <1>1, NextPacoteInv
<1>s. sozinho' => sozinho /\ UmaSelecao
  BY SozinhoAntes DEF SelecaoInv
<1>c. Cardinality(Usadas) \in Nat
  BY <1>t, PacoteTipos, UsadasFinitas, FS_CardinalityType
<1>3. ASSUME NEW r \in Req, PassoPedido(r), So(\A s \in Req \ {r} : Em(s, "livre") \/ Em(s, "conta"))
      PROVE  ItensContados' /\ (sozinho' => UmaSelecao' /\ (SoGratis' => SemRepetida' /\ NaMedida))
  <2>1. ItensContados'
    BY <1>t, <1>3, PassoContado
  <2>2. ASSUME sozinho'
        PROVE  UmaSelecao' /\ (SoGratis' => SemRepetida' /\ NaMedida)
    <3>1. \A s \in Req \ {r} : Em(s, "livre") \/ Em(s, "conta")
      BY <1>3, <2>2, SoMenos
    <3>2. \A s \in Req \ {r} : ~Pedindo(s)
      BY <3>1 DEF Em, Pedindo
    <3> QED BY <1>t, <1>s, <1>3, <2>2, <3>2, PedidoSelecao
  <2> QED BY <2>1, <2>2
<1>4. ASSUME NEW r \in Req, PassoDownload(r) \/ Desistir(r)
      PROVE  ItensContados' /\ (sozinho' => UmaSelecao' /\ (SoGratis' => SemRepetida' /\ NaMedida))
  <2>1. UNCHANGED <<status, itens, gratis>>
    BY <1>4 DEF PassoDownload, AbrirDownload, Contar, ContarSemLink, Desistir, pedidos
  <2>2. ItensContados' /\ SoGratis' = SoGratis
    BY <1>t, <2>1, SoPedidosIguais
  <2>3. ASSUME sozinho'
        PROVE  UmaSelecao' /\ (SoGratis' => SemRepetida' /\ NaMedida)
    BY <1>t, <1>s, <1>4, <2>2, <2>3, OutroSelecao DEF UmaSelecao
  <2> QED BY <2>2, <2>3
<1>5. ASSUME UNCHANGED vars
      PROVE  ItensContados' /\ (sozinho' => UmaSelecao' /\ (SoGratis' => SemRepetida' /\ NaMedida))
  <2>1. UNCHANGED <<status, itens, gratis, incluidas, req>>
    BY <1>5 DEF vars
  <2>2. /\ Escolhidas' = Escolhidas /\ Usadas' = Usadas /\ ItensContados'
        /\ (SemRepetida => SemRepetida') /\ SoGratis' = SoGratis
    BY <1>t, <2>1, SoPedidosIguais
  <2>3. UmaSelecao => UmaSelecao'
    <3>1. Restantes(incluidas)' = Restantes(incluidas)
      BY <2>1, <2>2, RestantesIguais
    <3>2. \A s \in Req : /\ ItensDoPedido(s)' = ItensDoPedido(s) /\ Pedindo(s)' = Pedindo(s)
                         /\ Em(s, "seleciona")' = Em(s, "seleciona") /\ Em(s, "cria")' = Em(s, "cria")
                         /\ Em(s, "libera")' = Em(s, "libera")
      BY <2>1 DEF ItensDoPedido, ItensDe, Pedindo, Em
    <3>3. \A s \in Req : (LeuPacote(s) => LeuPacote(s)') /\ (Inedito(s) => Inedito(s)')
                         /\ (CabeNoPacote(s) => CabeNoPacote(s)')
      BY <2>1, <2>2, <3>1, <3>2 DEF LeuPacote, Inedito, CabeNoPacote
    <3> QED BY <2>2, <3>2, <3>3 DEF UmaSelecao
  <2>4. NaMedida
    BY <2>2, <1>c DEF NaMedida
  <2> QED BY <1>s, <2>2, <2>3, <2>4 DEF UmaSelecao
<1>6. ItensContados' /\ (sozinho' => UmaSelecao' /\ (SoGratis' => SemRepetida' /\ NaMedida))
  BY <1>3, <1>4, <1>5, LojaPacote, Zenon DEF NextPac
<1> QED BY <1>2, <1>6 DEF SelecaoInv

\* vendas.service.ts, criarPedido and liberar: selections that do not overlap never pay for a photo
\* twice, and never take more included photos than the package has.
THEOREM PacoteSempreRespeitado == SpecLoja => PacoteRespeitado
<1>1. InitLoja => SelecaoInv
  <2> SUFFICES ASSUME InitLoja PROVE SelecaoInv
    OBVIOUS
  <2>1. Init
    BY DEF InitLoja
  <2>2. PacoteInv
    BY <2>1, InitPacoteInv
  <2>3. ItensContados
    BY <2>1, FS_EmptySet DEF Init, ItensContados
  <2>4. UmaSelecao
    BY <2>1 DEF Init, UmaSelecao, Pedindo, LeuPacote, CabeNoPacote, Inedito, Em, Livre, SemRepetida
  <2> QED BY <2>2, <2>3, <2>4 DEF SelecaoInv
<1>2. SelecaoInv /\ [NextLoja]_varsLoja => SelecaoInv'
  BY PassoSelecaoInv
<1>3. SelecaoInv /\ [NextLoja]_varsLoja
        => [sozinho' /\ SoGratis' =>
             /\ SemRepetida'
             /\ Cardinality(Usadas') > Cardinality(Usadas) => Cardinality(Usadas') <= incluidas
           ]_<<vars, sozinho>>
  BY PassoSelecaoInv DEF NaMedida
<1> QED BY <1>1, <1>2, <1>3, PTL DEF SpecLoja, PacoteRespeitado

-----------------------------------------------------------------------------
(* The publication. *)

\* What a confirmation alone at work carries over its awaits: the keys it will remove are of other
\* batches, its files are in the bucket, the photos it went through are on show at its keys; then
\* the gallery shows exactly them, and announces their number.
NaVitrine(r) ==
  LET q == reqPub[r]
  IN /\ q.pc \in Confirma => conjunto[q.lote] = q.fotos /\ \A c \in q.antigas : c[2] # q.lote
     /\ q.pc \in Confirma \ {"confere"} => \A f \in q.fotos : <<f, q.lote>> \in bucket
     /\ q.pc \in Confirma \ {"confere", "processa"} =>
          \A f \in q.fotos \ q.faltam : f \in ativas /\ previa[f] = q.lote
     /\ q.pc \in {"confere", "processa"} => q.faltam = q.fotos
     /\ q.pc \in Confirma \ {"confere", "processa", "publica"} => q.faltam = {}
     /\ q.pc \in {"conta", "divulga", "remove", "conclui"} => ativas \subseteq q.fotos
     /\ q.pc = "divulga" => q.total = Cardinality(ativas)
     /\ q.pc \in {"remove", "conclui"} => totalFotos = Cardinality(ativas)
     /\ q.pc = "remove" => capa = {<<Primeira(q.fotos), q.lote>>}

UmaPublicacao ==
  /\ \A r, s \in ReqPub : ~EmPub(r, "livre") /\ ~EmPub(s, "livre") => r = s
  /\ \A r \in ReqPub : NaVitrine(r)
  /\ SemImagemQuebrada

LEMMA LivreNaVitrine ==
  ASSUME NEW r, EmPub(r, "livre")
  PROVE  NaVitrine(r)
  BY DEF EmPub, NaVitrine, Confirma

\* After a step of the only request at work.
LEMMA SoUmaPublica ==
  ASSUME NEW r \in ReqPub, \A s \in ReqPub \ {r} : EmPub(s, "livre")',
         NaVitrine(r)', SemImagemQuebrada'
  PROVE  UmaPublicacao'
<1>1. \A s \in ReqPub \ {r} : NaVitrine(s)'
  BY DEF EmPub, NaVitrine, Confirma
<1> QED BY <1>1 DEF UmaPublicacao

\* A step that concludes no batch.
LEMMA NaoConclui ==
  ASSUME TypeOKPublicacao, NEW l, NEW e, e # "CONCLUIDO",
         lote' = [lote EXCEPT ![l] = e] \/ UNCHANGED lote
  PROVE  ConcluidoExato
  BY DEF ConcluidoExato, TypeOKPublicacao

\* Keys and files that stay keep the pictures.
LEMMA ImagensFicam ==
  ASSUME SemImagemQuebrada, ativas' \subseteq ativas, \A f \in ativas : previa'[f] = previa[f],
         capa' = capa, bucket \subseteq bucket'
  PROVE  SemImagemQuebrada'
  BY DEF SemImagemQuebrada

\* One request alone at work: no broken picture, and what it concludes is on show.
LEMMA PassoUmaPublicacao ==
  ASSUME PublicacaoInv, UmaPublicacao, NEW r \in ReqPub, PassoPublicacao(r),
         \A s \in ReqPub \ {r} : EmPub(s, "livre")
  PROVE  UmaPublicacao' /\ ConcluidoExato
<1> DEFINE q == reqPub[r]
           n == reqPub'[r]
<1>t. /\ TypeOKPublicacao /\ reqPub \in [ReqPub -> HandlerPub] /\ q \in HandlerPub
      /\ previa \in [FotoDesk -> 0 .. MaxLotes] /\ ativas \subseteq FotoDesk
      /\ conjunto \in [Lote -> SUBSET FotoDesk] /\ lote \in [Lote -> StatusLote]
      /\ bucket \subseteq Chave /\ q.antigas \subseteq Chave /\ q.fotos \subseteq FotoDesk
      /\ CoerentePub(q) /\ NaVitrine(r) /\ SemImagemQuebrada
  BY DEF PublicacaoInv, TypeOKPublicacao, HandlerPub, UmaPublicacao
<1>m. ASSUME NEW x, SeguePub(r, x)
      PROVE  n = x /\ \A s \in ReqPub \ {r} : EmPub(s, "livre")'
  BY <1>m, <1>t DEF SeguePub, EmPub
<1>p. ASSUME NEW pc, VaiPub(r, pc)
      PROVE  /\ n.pc = pc /\ n.lote = q.lote /\ n.fotos = q.fotos /\ n.faltam = q.faltam
             /\ n.antigas = q.antigas /\ n.total = q.total
             /\ \A s \in ReqPub \ {r} : EmPub(s, "livre")'
  <2> DEFINE x == [q EXCEPT !.pc = pc]
  <2>1. /\ x.pc = pc /\ x.lote = q.lote /\ x.fotos = q.fotos /\ x.faltam = q.faltam
        /\ x.antigas = q.antigas /\ x.total = q.total
    BY <1>t DEF HandlerPub
  <2>2. SeguePub(r, x)
    BY <1>p DEF VaiPub
  <2> HIDE DEF x, q
  <2> QED BY <1>m, <2>1, <2>2
<1>u. ASSUME UNCHANGED <<fotosPub, capa, nuvem>> PROVE SemImagemQuebrada'
  BY <1>u, <1>t, ImagensFicam DEF fotosPub, nuvem
<1>f. ASSUME NEW pc, n.pc = pc, pc \notin Confirma PROVE NaVitrine(r)'
  BY <1>f DEF NaVitrine, Confirma
<1>n. LivrePub.pc = "livre" /\ "livre" \notin Confirma
  BY DEF LivrePub, Confirma
<1>1. ASSUME NEW l \in Lote, NEW F \in Escolhas, IniciarLote(r, l, F)
      PROVE  UmaPublicacao' /\ ConcluidoExato
  <2> DEFINE x == [LivrePub EXCEPT !.pc = "galeria", !.lote = l, !.fotos = F, !.faltam = F]
  <2>1. SeguePub(r, x) /\ UNCHANGED <<vitrine, fotosPub, lotesPub, nuvem>>
    BY <1>1 DEF IniciarLote
  <2>2. x.pc = "galeria" /\ "galeria" \notin Confirma
    BY DEF LivrePub, Confirma
  <2> HIDE DEF x
  <2>3. NaVitrine(r)'
    BY <1>m, <1>f, <2>1, <2>2
  <2> QED BY <1>t, <1>u, <1>m, <2>1, <2>3, SoUmaPublica, NaoConclui DEF vitrine, lotesPub
<1>2. CASE SalvarGaleria(r)
  <2>1. "lote" \notin Confirma
    BY DEF Confirma
  <2>2. VaiPub(r, "lote") /\ UNCHANGED <<capa, fotosPub, lotesPub, nuvem>>
    BY <1>2 DEF SalvarGaleria
  <2> QED BY <1>t, <1>u, <1>p, <1>f, <2>1, <2>2, SoUmaPublica, NaoConclui DEF lotesPub
<1>3. CASE SalvarLote(r)
  <2>1. "fotos" \notin Confirma
    BY DEF Confirma
  <2>2. VaiPub(r, "fotos") /\ UNCHANGED <<vitrine, fotosPub, nuvem>>
        /\ lote' = [lote EXCEPT ![q.lote] = "RECEBIDO"]
    BY <1>3 DEF SalvarLote
  <2> QED BY <1>t, <1>u, <1>p, <1>f, <2>1, <2>2, SoUmaPublica, NaoConclui DEF vitrine
<1>4. CASE SalvarFoto(r)
  <2> DEFINE f == Primeira(q.faltam)
             x == [q EXCEPT !.faltam = @ \ {f}, !.pc = IF q.faltam = {f} THEN "links" ELSE "fotos"]
  <2>1. /\ previa' = [previa EXCEPT ![f] = IF @ = 0 THEN q.lote ELSE @]
        /\ SeguePub(r, x) /\ UNCHANGED <<vitrine, ativas, lotesPub, nuvem>>
    BY <1>4 DEF SalvarFoto
  <2>2. x.pc \in {"links", "fotos"}
    BY <1>t DEF HandlerPub
  <2>3. x.pc \notin Confirma
    BY <2>2 DEF Confirma
  <2> HIDE DEF f, x
  <2>4. ASSUME NEW g \in ativas PROVE previa'[g] = previa[g]
    <3>1. <<g, previa[g]>> \in Chave
      BY <1>t DEF SemImagemQuebrada
    <3>2. previa[g] # 0
      BY <3>1 DEF Chave, Lote
    <3> QED BY <1>t, <2>1, <3>2
  <2>5. SemImagemQuebrada'
    BY <1>t, <2>1, <2>4, ImagensFicam DEF vitrine, nuvem
  <2>6. NaVitrine(r)'
    BY <1>m, <1>f, <2>1, <2>3
  <2> QED BY <1>t, <1>m, <2>1, <2>5, <2>6, SoUmaPublica, NaoConclui DEF lotesPub
<1>5. CASE EntregarLinks(r)
  <2>1. SeguePub(r, LivrePub) /\ UNCHANGED <<vitrine, fotosPub, lote, nuvem>>
    BY <1>5 DEF EntregarLinks
  <2> QED BY <1>t, <1>u, <1>m, <1>n, <1>f, <2>1, SoUmaPublica, NaoConclui DEF vitrine
<1>6. ASSUME NEW l \in Lote, ConfirmarLote(r, l)
      PROVE  UmaPublicacao' /\ ConcluidoExato
  <2> DEFINE F == conjunto[l]
             A == {<<f, previa[f]>> : f \in {g \in F : previa[g] # l}}
             x == [LivrePub EXCEPT !.pc = "confere", !.lote = l, !.fotos = F, !.faltam = F,
                                   !.antigas = A]
  <2>1. SeguePub(r, x) /\ UNCHANGED <<vitrine, fotosPub, lotesPub, nuvem>>
    BY <1>6 DEF ConfirmarLote
  <2>2. \A c \in A : c[2] # l
    OBVIOUS
  <2> HIDE DEF A
  <2>3. x.pc = "confere" /\ x.lote = l /\ x.fotos = F /\ x.faltam = F /\ x.antigas = A
    BY DEF LivrePub
  <2>4. conjunto' = conjunto
    BY <2>1 DEF lotesPub
  <2> HIDE DEF x
  <2>5. NaVitrine(r)'
    BY <1>m, <2>1, <2>2, <2>3, <2>4 DEF NaVitrine, Confirma
  <2> QED BY <1>t, <1>u, <1>m, <2>1, <2>5, SoUmaPublica, NaoConclui DEF vitrine, lotesPub
<1>7. CASE Conferir(r)
  <2>1. /\ q.pc = "confere" /\ \A f \in q.fotos : <<f, q.lote>> \in bucket
        /\ VaiPub(r, "processa") /\ UNCHANGED <<vitrine, fotosPub, lotesPub, nuvem>>
    BY <1>7 DEF Conferir, EmPub
  <2>2. conjunto' = conjunto /\ bucket' = bucket
    BY <2>1 DEF lotesPub, nuvem
  <2>3. NaVitrine(r)'
    BY <1>t, <1>p, <2>1, <2>2 DEF NaVitrine, Confirma
  <2> QED BY <1>t, <1>u, <1>p, <2>1, <2>3, SoUmaPublica, NaoConclui DEF vitrine, lotesPub
<1>8. CASE Processar(r)
  <2>1. /\ q.pc = "processa" /\ lote' = [lote EXCEPT ![q.lote] = "PROCESSANDO"]
        /\ VaiPub(r, "publica") /\ UNCHANGED <<vitrine, fotosPub, conjunto, nuvem>>
    BY <1>8 DEF Processar, EmPub
  <2>2. bucket' = bucket
    BY <2>1 DEF nuvem
  <2>3. NaVitrine(r)'
    BY <1>t, <1>p, <2>1, <2>2 DEF NaVitrine, Confirma
  <2> QED BY <1>t, <1>u, <1>p, <2>1, <2>3, SoUmaPublica, NaoConclui DEF vitrine
<1>9. CASE PublicarFoto(r)
  <2> DEFINE f == Primeira(q.faltam)
             pc == IF q.faltam = {f} THEN "oculta" ELSE "publica"
             x == [q EXCEPT !.faltam = @ \ {f}, !.pc = pc]
  <2>1. /\ q.pc = "publica" /\ SeguePub(r, x) /\ previa' = [previa EXCEPT ![f] = q.lote]
        /\ ativas' = ativas \cup {f} /\ UNCHANGED <<vitrine, lotesPub, nuvem>>
    BY <1>9 DEF PublicarFoto, EmPub
  <2>2. q.faltam \in SUBSET FotoDesk /\ q.faltam # {} /\ q.faltam \subseteq q.fotos
    BY <1>t, <2>1 DEF CoerentePub
  <2>3. f \in FotoDesk /\ f \in q.fotos
    BY <2>2, PrimeiraDelas
  <2>4. /\ x.lote = q.lote /\ x.fotos = q.fotos /\ x.faltam = q.faltam \ {f} /\ x.antigas = q.antigas
        /\ x.pc \in {"oculta", "publica"} /\ (x.pc = "oculta" => q.faltam \ {f} = {})
    BY <1>t DEF HandlerPub
  <2> HIDE DEF f, x
  <2>5. conjunto' = conjunto /\ bucket' = bucket /\ capa' = capa
    BY <2>1 DEF lotesPub, nuvem, vitrine
  <2>6. \A g \in FotoDesk : previa'[g] = IF g = f THEN q.lote ELSE previa[g]
    BY <1>t, <2>1, <2>3
  <2>7. NaVitrine(r)'
    BY <1>t, <1>m, <2>1, <2>3, <2>4, <2>5, <2>6 DEF NaVitrine, Confirma
  <2>8. \A g \in ativas' : <<g, previa'[g]>> \in bucket
    BY <1>t, <2>1, <2>3, <2>6 DEF NaVitrine, Confirma, SemImagemQuebrada
  <2>9. SemImagemQuebrada'
    BY <1>t, <2>5, <2>8 DEF SemImagemQuebrada
  <2> QED BY <1>t, <1>m, <2>1, <2>7, <2>9, SoUmaPublica, NaoConclui DEF lotesPub
<1>10. CASE Ocultar(r)
  <2>1. /\ q.pc = "oculta" /\ VaiPub(r, "conta") /\ ativas' = ativas \cap q.fotos
        /\ UNCHANGED <<vitrine, previa, lotesPub, nuvem>>
    BY <1>10 DEF Ocultar, EmPub
  <2>2. conjunto' = conjunto /\ bucket' = bucket /\ capa' = capa
    BY <2>1 DEF lotesPub, nuvem, vitrine
  <2>3. NaVitrine(r)'
    BY <1>t, <1>p, <2>1, <2>2 DEF NaVitrine, Confirma
  <2>4. SemImagemQuebrada'
    BY <1>t, <2>1, <2>2, ImagensFicam
  <2> QED BY <1>t, <1>p, <2>1, <2>3, <2>4, SoUmaPublica, NaoConclui DEF lotesPub
<1>11. CASE ContarFotos(r)
  <2> DEFINE c == Cardinality(ativas)
             x == [q EXCEPT !.pc = "divulga", !.total = c]
  <2>1. /\ q.pc = "conta" /\ SeguePub(r, x) /\ UNCHANGED <<vitrine, fotosPub, lotesPub, nuvem>>
    BY <1>11 DEF ContarFotos, EmPub
  <2> HIDE DEF c
  <2>2. /\ x.pc = "divulga" /\ x.lote = q.lote /\ x.fotos = q.fotos /\ x.faltam = q.faltam
        /\ x.antigas = q.antigas /\ x.total = c
    BY <1>t DEF HandlerPub
  <2> HIDE DEF x
  <2>3. conjunto' = conjunto /\ bucket' = bucket /\ previa' = previa /\ ativas' = ativas
    BY <2>1 DEF lotesPub, nuvem, fotosPub
  <2>4. NaVitrine(r)'
    BY <1>t, <1>m, <2>1, <2>2, <2>3 DEF NaVitrine, Confirma, c
  <2> QED BY <1>t, <1>u, <1>m, <2>1, <2>4, SoUmaPublica, NaoConclui DEF vitrine, lotesPub
<1>12. CASE Divulgar(r)
  <2>1. /\ q.pc = "divulga" /\ VaiPub(r, "remove") /\ totalFotos' = q.total
        /\ capa' = {<<Primeira(q.fotos), q.lote>>} /\ UNCHANGED <<fotosPub, lotesPub, nuvem>>
    BY <1>12 DEF Divulgar, EmPub
  <2>2. conjunto' = conjunto /\ bucket' = bucket /\ previa' = previa /\ ativas' = ativas
    BY <2>1 DEF lotesPub, nuvem, fotosPub
  <2>3. Primeira(q.fotos) \in q.fotos
    BY <1>t, <2>1, PrimeiraDelas DEF CoerentePub, Confere
  <2>4. NaVitrine(r)'
    BY <1>t, <1>p, <2>1, <2>2 DEF NaVitrine, Confirma
  <2>5. SemImagemQuebrada'
    BY <1>t, <2>1, <2>2, <2>3 DEF NaVitrine, Confirma, SemImagemQuebrada
  <2> QED BY <1>t, <1>p, <2>1, <2>4, <2>5, SoUmaPublica, NaoConclui DEF lotesPub
<1>13. CASE RemoverAntigas(r)
  <2>1. /\ q.pc = "remove" /\ VaiPub(r, "conclui") /\ (bucket' = bucket \/ bucket' = bucket \ q.antigas)
        /\ UNCHANGED <<vitrine, fotosPub, lotesPub>>
    BY <1>13 DEF RemoverAntigas, EmPub
  <2>2. /\ conjunto' = conjunto /\ previa' = previa /\ ativas' = ativas /\ capa' = capa
        /\ totalFotos' = totalFotos
    BY <2>1 DEF lotesPub, vitrine, fotosPub
  <2>3. Primeira(q.fotos) \in q.fotos
    BY <1>t, <2>1, PrimeiraDelas DEF CoerentePub, Confere
  <2>4. \A f \in q.fotos : <<f, q.lote>> \in bucket /\ <<f, q.lote>> \notin q.antigas
    BY <1>t, <2>1 DEF NaVitrine, Confirma
  <2>5. \A f \in q.fotos : <<f, q.lote>> \in bucket'
    BY <2>1, <2>4
  <2>6. NaVitrine(r)'
    BY <1>t, <1>p, <2>1, <2>2, <2>5 DEF NaVitrine, Confirma
  <2>7. SemImagemQuebrada'
    BY <1>t, <2>1, <2>2, <2>3, <2>5 DEF NaVitrine, Confirma, SemImagemQuebrada
  <2> QED BY <1>t, <1>p, <2>1, <2>6, <2>7, SoUmaPublica, NaoConclui DEF lotesPub
<1>14. CASE ConcluirLote(r)
  <2>1. /\ q.pc = "conclui" /\ lote' = [lote EXCEPT ![q.lote] = "CONCLUIDO"] /\ SeguePub(r, LivrePub)
        /\ UNCHANGED <<vitrine, fotosPub, nuvem>>
    BY <1>14 DEF ConcluirLote, EmPub
  <2>2. ConcluidoExato
    <3> SUFFICES ASSUME NEW l \in Lote, lote'[l] = "CONCLUIDO", lote[l] # "CONCLUIDO"
                 PROVE  /\ ativas' = conjunto[l] /\ totalFotos' = Cardinality(ativas')
                        /\ \A f \in ativas' : previa'[f] = l
      BY DEF ConcluidoExato
    <3>1. l = q.lote
      BY <1>t, <2>1
    <3>2. previa' = previa /\ ativas' = ativas /\ totalFotos' = totalFotos
      BY <2>1 DEF vitrine, fotosPub
    <3>3. /\ conjunto[l] = q.fotos /\ ativas \subseteq q.fotos /\ totalFotos = Cardinality(ativas)
          /\ \A f \in q.fotos : f \in ativas /\ previa[f] = l
      BY <1>t, <2>1, <3>1 DEF NaVitrine, Confirma
    <3> QED BY <3>2, <3>3
  <2>3. UmaPublicacao'
    BY <1>t, <1>u, <1>m, <1>n, <1>f, <2>1, SoUmaPublica DEF vitrine
  <2> QED BY <2>2, <2>3
<1>15. ASSUME NEW s \in {"PUBLICADA", "PAUSADA", "ENCERRADA"}, AbrirGaleriaStatus(r, s)
       PROVE  UmaPublicacao' /\ ConcluidoExato
  <2> DEFINE x == [LivrePub EXCEPT !.pc = "status", !.alvo = s]
  <2>1. SeguePub(r, x) /\ UNCHANGED <<vitrine, fotosPub, lotesPub, nuvem>>
    BY <1>15 DEF AbrirGaleriaStatus
  <2>2. x.pc = "status" /\ "status" \notin Confirma
    BY DEF LivrePub, Confirma
  <2> HIDE DEF x
  <2>3. NaVitrine(r)'
    BY <1>m, <1>f, <2>1, <2>2
  <2> QED BY <1>t, <1>u, <1>m, <2>1, <2>3, SoUmaPublica, NaoConclui DEF vitrine, lotesPub
<1>16. CASE GravarGaleriaStatus(r) \/ FalharPub(r)
  <2>1. SeguePub(r, LivrePub) /\ UNCHANGED <<capa, fotosPub, lotesPub, nuvem>>
    BY <1>16 DEF GravarGaleriaStatus, FalharPub, vitrine
  <2> QED BY <1>t, <1>u, <1>m, <1>n, <1>f, <2>1, SoUmaPublica, NaoConclui DEF lotesPub
<1> QED BY <1>1, <1>2, <1>3, <1>4, <1>5, <1>6, <1>7, <1>8, <1>9, <1>10, <1>11, <1>12, <1>13,
           <1>14, <1>15, <1>16 DEF PassoPublicacao

\* The shop's steps on the publication.
LEMMA LojaPublicacao ==
  ASSUME [NextLoja]_varsLoja
  PROVE  NextPub \/ UNCHANGED varsPublicacao
  BY DEF NextLoja, NextPac, NextBak, NextRep, NextCre, NextCod, varsLoja, naoPacote

\* The publication: what requests that do not overlap leave of it.
VitrineInv == PublicacaoInv /\ (sozinho => UmaPublicacao)

\* A step keeps it, and breaks no picture.
LEMMA PassoVitrineInv ==
  ASSUME VitrineInv, [NextLoja]_varsLoja
  PROVE  VitrineInv' /\ (sozinho' => SemImagemQuebrada' /\ ConcluidoExato)
<1>t. PublicacaoInv /\ TypeOKPublicacao
  BY DEF VitrineInv, PublicacaoInv
<1>1. [NextPublicacao]_varsPublicacao
  BY LojaPublicacao DEF NextPub, NextPublicacao
<1>2. PublicacaoInv'
  BY <1>t, <1>1, NextPublicacaoInv
<1> SUFFICES ASSUME sozinho' PROVE UmaPublicacao' /\ ConcluidoExato
  BY <1>2 DEF VitrineInv, UmaPublicacao
<1>3. UmaPublicacao
  BY SozinhoAntes DEF VitrineInv
<1>4. ASSUME NEW r \in ReqPub, PassoPublicacao(r), So(\A s \in ReqPub \ {r} : EmPub(s, "livre"))
      PROVE  UmaPublicacao' /\ ConcluidoExato
  <2>1. \A s \in ReqPub \ {r} : EmPub(s, "livre")
    BY <1>4, SoMenos
  <2> QED BY <1>t, <1>3, <1>4, <2>1, PassoUmaPublicacao
<1>5. ASSUME bucket \subseteq bucket', UNCHANGED <<vitrine, fotosPub, lotesPub, reqPub>>
      PROVE  UmaPublicacao' /\ ConcluidoExato
  <2>1. /\ previa' = previa /\ ativas' = ativas /\ capa' = capa /\ totalFotos' = totalFotos
        /\ lote' = lote /\ conjunto' = conjunto /\ reqPub' = reqPub
    BY <1>5 DEF vitrine, fotosPub, lotesPub
  <2>2. ConcluidoExato
    BY <1>t, <2>1, NaoConclui
  <2>3. SemImagemQuebrada'
    BY <1>3, <1>5, <2>1, ImagensFicam DEF UmaPublicacao
  <2>4. \A r \in ReqPub : NaVitrine(r)'
    BY <1>3, <1>5, <2>1 DEF UmaPublicacao, NaVitrine, Confirma
  <2> QED BY <1>3, <2>1, <2>2, <2>3, <2>4 DEF UmaPublicacao, EmPub
<1>6. ASSUME NEW f \in FotoDesk, NEW l \in Lote, Enviar(f, l) PROVE UmaPublicacao' /\ ConcluidoExato
  BY <1>5, <1>6 DEF Enviar
<1>7. CASE UNCHANGED varsPublicacao
  BY <1>5, <1>7 DEF varsPublicacao, nuvem
<1> QED BY <1>4, <1>6, <1>7, LojaPublicacao, Zenon DEF NextPub

\* sync.service.ts: batches that do not overlap, cut short anywhere and repeated at will, leave no
\* picture without its file, and a batch is concluded only with exactly its photos on show.
THEOREM VitrineSempreCerta == SpecLoja => VitrineCerta
<1>1. InitLoja => VitrineInv
  <2> SUFFICES ASSUME InitLoja PROVE VitrineInv
    OBVIOUS
  <2>1. InitPublicacao
    BY DEF InitLoja
  <2>2. PublicacaoInv
    BY <2>1, InitPublicacaoInv
  <2>3. UmaPublicacao
    BY <2>1 DEF InitPublicacao, UmaPublicacao, EmPub, LivrePub, NaVitrine, Confirma, SemImagemQuebrada
  <2> QED BY <2>2, <2>3 DEF VitrineInv
<1>2. VitrineInv /\ [NextLoja]_varsLoja => VitrineInv'
  BY PassoVitrineInv
<1>3. VitrineInv /\ [NextLoja]_varsLoja
        => [sozinho' => SemImagemQuebrada' /\ ConcluidoExato]_varsPublicacao
  BY PassoVitrineInv
<1> QED BY <1>1, <1>2, <1>3, PTL DEF SpecLoja, VitrineCerta

-----------------------------------------------------------------------------
(* Types, of the whole. *)

\* Type correctness of every component, whichever of them runs.
THEOREM TiposLoja == SpecLoja => []TypeOKLoja
<1> DEFINE TiposInv == /\ PacoteInv /\ PublicacaoInv /\ TypeOKBackups /\ TypeOKRepasses
                       /\ TypeOKCredenciais /\ TypeOKCodigos
<1>1. InitLoja => TiposInv
  <2> SUFFICES ASSUME InitLoja PROVE TiposInv
    OBVIOUS
  <2>1. TypeOKCodigos
    BY LivreCodTipo, CodigosAssumption DEF InitLoja, InitCodigos, TypeOKCodigos, Codigo
  <2>2. TypeOKBackups /\ TypeOKRepasses /\ TypeOKCredenciais
    BY BackupsInit, RepassesInit, CredenciaisInit DEF InitLoja
  <2> QED BY <2>1, <2>2, InitPacoteInv, InitPublicacaoInv DEF InitLoja
<1>2. TiposInv /\ [NextLoja]_varsLoja => TiposInv'
  <2> SUFFICES ASSUME TiposInv, [NextLoja]_varsLoja PROVE TiposInv'
    OBVIOUS
  <2>1. [Next]_vars
    BY LojaPacote DEF NextPac, Next
  <2>2. [NextPublicacao]_varsPublicacao
    BY LojaPublicacao DEF NextPub, NextPublicacao
  <2>3. [NextBackups]_varsBackups
    BY LojaBackups DEF NextBak, NextBackups
  <2>4. [NextRepasses]_varsRepasses
    BY LojaRepasses DEF NextRep, NextRepasses
  <2>5. [NextCredenciais]_varsCredenciais
    BY LojaCredenciais DEF NextCre, NextCredenciais
  <2>6. [NextCodigos]_varsCodigos
    BY LojaCodigos DEF NextCod, NextCodigos
  <2>7. PacoteInv' /\ PublicacaoInv'
    BY <2>1, <2>2, NextPacoteInv, NextPublicacaoInv
  <2>8. TypeOKBackups' /\ TypeOKRepasses'
    BY <2>3, <2>4, BackupsTipos, RepassesTipos
  <2>9. TypeOKCredenciais' /\ TypeOKCodigos'
    BY <2>5, <2>6, CredenciaisTipos, PassoTipos
  <2> QED BY <2>7, <2>8, <2>9
<1>3. TiposInv => TypeOKLoja
  BY DEF PacoteInv, PublicacaoInv, TypeOKLoja
<1> HIDE DEF TiposInv
<1> QED BY <1>1, <1>2, <1>3, PTL DEF SpecLoja
=============================================================================
