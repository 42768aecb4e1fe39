--------------------------- MODULE Publicacao_proofs ---------------------------
(***************************************************************************)
(* Proofs about Publicacao, for every number of photos, batches and        *)
(* handlers: types, and that nothing is on show without its file.  The     *)
(* second needs what a handler carries over its awaits: once it has        *)
(* checked the files, every photo it has yet to publish was stored under   *)
(* its batch's key (enviados only grows); and that a photo still to write  *)
(* is one of the request's, so that "the first of them" is one of them.    *)
(***************************************************************************)
EXTENDS Publicacao, WellFoundedInduction, FiniteSetTheorems, TLAPS

Confere == {"galeria", "lote", "fotos", "links", "confere", "processa", "publica", "oculta",
            "conta", "divulga", "remove", "conclui"}
Confirma == {"confere", "processa", "publica", "oculta", "conta", "divulga", "remove", "conclui"}

\* A handler of a batch knows its photos; while it goes through them some are left; past the
\* check, all of them were stored.
CoerentePub(q) ==
  /\ q.pc \in Confere => q.lote \in Lote /\ q.fotos # {}
  /\ q.faltam \subseteq q.fotos
  /\ q.pc \in {"galeria", "lote", "fotos", "confere", "processa", "publica"} => q.faltam # {}
  /\ q.pc \in {"processa", "publica"} => \A f \in q.fotos : <<f, q.lote>> \in enviados
  /\ q.pc \in Confirma => conjunto[q.lote] # {}

PublicacaoInv ==
  /\ TypeOKPublicacao
  /\ \A l \in Lote : lote[l] # "NENHUM" => conjunto[l] # {}
  /\ bucket \subseteq enviados
  /\ \A r \in ReqPub : CoerentePub(reqPub[r])

Parada == UNCHANGED <<vitrine, fotosPub, lotesPub, nuvem>>

\* A set of numbers that has one has a least one.
LEMMA MenorDeles ==
  ASSUME NEW S \in SUBSET Nat, S # {}
  PROVE  \E f \in S : \A g \in S : f <= g
<1> DEFINE R == {p \in Nat \X Nat : p[1] < p[2]}
<1>1. IsWellFoundedOn(R, Nat)
  BY Zenon, NatLessThanWellFounded DEF OpToRel
<1> HIDE DEF R
<1>2. PICK f \in S : \A g \in S : <<g, f>> \notin R
  BY <1>1, WFMin
<1>3. ASSUME NEW g \in S PROVE f <= g
  <2>1. ~(g < f)
    BY <1>2 DEF R
  <2> QED BY <2>1
<1> QED BY <1>3

\* The first of some photos is one of them.
LEMMA PrimeiraDelas ==
  ASSUME NEW S \in SUBSET FotoDesk, S # {}
  PROVE  Primeira(S) \in S
<1>1. \E f \in S : \A g \in S : f <= g
  BY MenorDeles DEF FotoDesk
<1> QED BY <1>1 DEF Primeira

\* Some of the photos are no more than all of them.
LEMMA CardinalidadeFotos ==
  ASSUME NEW S \in SUBSET FotoDesk
  PROVE  Cardinality(S) \in 0 .. MaxFotos
<1>1. IsFiniteSet(FotoDesk) /\ Cardinality(FotoDesk) = MaxFotos
  BY PublicacaoAssumption, FS_Interval DEF FotoDesk
<1>2. IsFiniteSet(S) /\ Cardinality(S) <= MaxFotos /\ Cardinality(S) \in Nat
  BY <1>1, FS_Subset, FS_CardinalityType
<1> QED BY <1>2, PublicacaoAssumption

\* An idle handler.
LEMMA LivrePubTipo == LivrePub \in HandlerPub /\ CoerentePub(LivrePub)
  BY PublicacaoAssumption DEF LivrePub, HandlerPub, CoerentePub, Confere, Confirma, StatusGaleria

\* The invariant holds at the start.
LEMMA InitPublicacaoInv == InitPublicacao => PublicacaoInv
  BY LivrePubTipo, PublicacaoAssumption
     DEF InitPublicacao, PublicacaoInv, TypeOKPublicacao, StatusGaleria, StatusLote

\* What a step leaves of the invariant when it moves one handler to q and what it writes keeps
\* the types, the batches and the files.
LEMMA Muda ==
  ASSUME PublicacaoInv, NEW r \in ReqPub, NEW q, q \in HandlerPub, CoerentePub(q), SeguePub(r, q),
         enviados' = enviados, bucket' \subseteq enviados,
         statusGal' \in StatusGaleria, totalFotos' \in 0 .. MaxFotos, capa' \subseteq Chave,
         previa' \in [FotoDesk -> 0 .. MaxLotes], ativas' \subseteq FotoDesk,
         lote' \in [Lote -> StatusLote], conjunto' \in [Lote -> SUBSET FotoDesk],
         comLinks' \subseteq Lote,
         \A l \in Lote : lote'[l] # "NENHUM" => conjunto'[l] # {},
         \A l \in Lote : conjunto[l] # {} => conjunto'[l] # {}
  PROVE  PublicacaoInv'
<1>1. reqPub' \in [ReqPub -> HandlerPub]
  BY DEF PublicacaoInv, TypeOKPublicacao, SeguePub
<1>2. \A s \in ReqPub : CoerentePub(reqPub[s])'
  <2>1. ASSUME NEW n \in HandlerPub, CoerentePub(n) PROVE CoerentePub(n)'
    BY <2>1 DEF CoerentePub, Confere, Confirma
  <2>2. ASSUME NEW s \in ReqPub PROVE reqPub[s]' = q \/ reqPub[s]' = reqPub[s]
    BY DEF PublicacaoInv, TypeOKPublicacao, SeguePub
  <2>3. ASSUME NEW s \in ReqPub PROVE reqPub[s] \in HandlerPub /\ CoerentePub(reqPub[s])
    BY DEF PublicacaoInv, TypeOKPublicacao
  <2>4. CoerentePub(q)'
    BY <2>1
  <2> QED
    <3> SUFFICES ASSUME NEW s \in ReqPub PROVE CoerentePub(reqPub[s])'
      OBVIOUS
    <3>1. CoerentePub(reqPub[s])'
      <4>1. CASE reqPub[s]' = q
        BY <2>4, <4>1 DEF CoerentePub
      <4>2. CASE reqPub[s]' = reqPub[s]
        <5>1. CoerentePub(reqPub[s])
          BY <2>3
        <5>2. reqPub[s] \in HandlerPub
          BY <2>3
        <5> QED BY <4>2, <5>1, <5>2 DEF CoerentePub, Confere, Confirma
      <4> QED BY <2>2, <4>1, <4>2
    <3> QED BY <3>1
<1>3. bucket' \subseteq Chave /\ enviados' \subseteq Chave
  BY DEF PublicacaoInv, TypeOKPublicacao
<1> QED BY <1>1, <1>2, <1>3 DEF PublicacaoInv, TypeOKPublicacao

\* A step that only moves one handler.
LEMMA SoHandlerPub ==
  ASSUME PublicacaoInv, NEW r \in ReqPub, NEW q, q \in HandlerPub, CoerentePub(q), SeguePub(r, q), Parada
  PROVE  PublicacaoInv'
<1>1. /\ enviados' = enviados /\ bucket' = bucket /\ statusGal' = statusGal
      /\ totalFotos' = totalFotos /\ capa' = capa /\ previa' = previa /\ ativas' = ativas
      /\ lote' = lote /\ conjunto' = conjunto /\ comLinks' = comLinks
  BY DEF Parada, vitrine, fotosPub, lotesPub, nuvem
<1> QED BY <1>1, Muda DEF PublicacaoInv, TypeOKPublicacao

\* Every step of a handler keeps it.
LEMMA PassoPublicacaoInv ==
  ASSUME PublicacaoInv, NEW r \in ReqPub, PassoPublicacao(r)
  PROVE  PublicacaoInv'
<1> USE PublicacaoAssumption
<1> DEFINE q == reqPub[r]
<1>0. /\ q \in HandlerPub /\ CoerentePub(q)
      /\ q.fotos \in SUBSET FotoDesk /\ q.faltam \in SUBSET q.fotos
      /\ LivrePub \in HandlerPub /\ CoerentePub(LivrePub)
  BY LivrePubTipo DEF PublicacaoInv, TypeOKPublicacao, HandlerPub, CoerentePub
<1>tipos. /\ statusGal \in StatusGaleria /\ totalFotos \in 0 .. MaxFotos /\ capa \subseteq Chave
          /\ previa \in [FotoDesk -> 0 .. MaxLotes] /\ ativas \subseteq FotoDesk
          /\ lote \in [Lote -> StatusLote] /\ conjunto \in [Lote -> SUBSET FotoDesk]
          /\ comLinks \subseteq Lote /\ bucket \subseteq enviados
          /\ \A l \in Lote : lote[l] # "NENHUM" => conjunto[l] # {}
  BY DEF PublicacaoInv, TypeOKPublicacao
<1> USE DEF EmPub, VaiPub
<1>1. ASSUME NEW l \in Lote, NEW F \in Escolhas, IniciarLote(r, l, F) PROVE PublicacaoInv'
  <2> DEFINE n == [LivrePub EXCEPT !.pc = "galeria", !.lote = l, !.fotos = F, !.faltam = F]
  <2>1. SeguePub(r, n) /\ Parada
    BY <1>1 DEF IniciarLote, Parada
  <2>2. F # {} /\ F \subseteq FotoDesk
    OBVIOUS
  <2>3. l \in 0 .. MaxLotes
    BY DEF Lote
  <2>4. n \in HandlerPub
    BY <1>0, <2>2, <2>3 DEF HandlerPub
  <2>5. n.pc = "galeria" /\ n.lote = l /\ n.fotos = F /\ n.faltam = F
    BY DEF LivrePub
  <2> HIDE DEF n
  <2>6. CoerentePub(n)
    BY <2>2, <2>5 DEF CoerentePub, Confere, Confirma
  <2> QED BY <2>1, <2>4, <2>6, SoHandlerPub
<1>2. CASE SalvarGaleria(r)
  <2> DEFINE n == [q EXCEPT !.pc = "lote"]
  <2>1. n \in HandlerPub /\ CoerentePub(n)
    BY <1>0, <1>2 DEF SalvarGaleria, HandlerPub, CoerentePub, Confere, Confirma
  <2>2. SeguePub(r, n)
    BY <1>2 DEF SalvarGaleria
  <2>3. statusGal' \in StatusGaleria
    BY <1>2, <1>tipos DEF SalvarGaleria, StatusGaleria
  <2> HIDE DEF n
  <2> QED BY <1>2, <1>tipos, <2>1, <2>2, <2>3, Muda DEF SalvarGaleria, fotosPub, lotesPub, nuvem
<1>3. CASE SalvarLote(r)
  <2> DEFINE n == [q EXCEPT !.pc = "fotos"]
  <2>1. n \in HandlerPub /\ CoerentePub(n) /\ q.lote \in Lote /\ q.fotos # {}
    BY <1>0, <1>3 DEF SalvarLote, HandlerPub, CoerentePub, Confere, Confirma
  <2>2. SeguePub(r, n) /\ lote' = [lote EXCEPT ![q.lote] = "RECEBIDO"]
        /\ conjunto' = [conjunto EXCEPT ![q.lote] = q.fotos]
        /\ UNCHANGED <<vitrine, fotosPub, comLinks, nuvem>>
    BY <1>3 DEF SalvarLote
  <2>3. /\ lote' \in [Lote -> StatusLote] /\ conjunto' \in [Lote -> SUBSET FotoDesk]
        /\ \A l \in Lote : lote'[l] # "NENHUM" => conjunto'[l] # {}
    BY <1>0, <1>tipos, <2>1, <2>2 DEF StatusLote
  <2> HIDE DEF n, q
  <2> QED BY <1>tipos, <2>1, <2>2, <2>3, Muda DEF vitrine, fotosPub, nuvem
<1>4. CASE SalvarFoto(r)
  <2> DEFINE f == Primeira(q.faltam)
             pc == IF q.faltam = {f} THEN "links" ELSE "fotos"
             n == [q EXCEPT !.faltam = @ \ {f}, !.pc = pc]
  <2>1. q.pc = "fotos" /\ q.faltam # {} /\ q.lote \in Lote
    BY <1>0, <1>4 DEF SalvarFoto, CoerentePub, Confere
  <2>2. SeguePub(r, n) /\ previa' = [previa EXCEPT ![f] = IF @ = 0 THEN q.lote ELSE @]
        /\ UNCHANGED <<vitrine, ativas, lotesPub, nuvem>>
    BY <1>4 DEF SalvarFoto
  <2>3. f \in FotoDesk
    BY <1>0, <2>1, PrimeiraDelas
  <2> HIDE DEF f
  <2>4. pc \in {"links", "fotos"} /\ (pc = "fotos" => q.faltam \ {f} # {})
    BY <2>1
  <2> HIDE DEF pc
  <2>5. n \in HandlerPub /\ CoerentePub(n)
    BY <1>0, <2>1, <2>4 DEF HandlerPub, CoerentePub, Confere, Confirma
  <2>6. previa' \in [FotoDesk -> 0 .. MaxLotes]
    <3>1. q.lote \in 0 .. MaxLotes
      BY <2>1 DEF Lote
    <3>2. previa' = previa \/ previa' = [previa EXCEPT ![f] = q.lote]
      BY <1>tipos, <2>2, <2>3
    <3> QED BY <1>tipos, <3>1, <3>2
  <2> HIDE DEF n, q
  <2> QED BY <1>tipos, <2>2, <2>5, <2>6, Muda DEF vitrine, lotesPub, nuvem
<1>5. CASE EntregarLinks(r)
  <2>1. q.lote \in Lote
    BY <1>0, <1>5 DEF EntregarLinks, CoerentePub, Confere
  <2> QED BY <1>0, <1>5, <1>tipos, <2>1, Muda DEF EntregarLinks, vitrine, fotosPub, nuvem
<1>6. ASSUME NEW l \in Lote, ConfirmarLote(r, l) PROVE PublicacaoInv'
  <2> DEFINE F == conjunto[l]
             A == {<<f, previa[f]>> : f \in {g \in F : previa[g] # l}}
             n == [LivrePub EXCEPT !.pc = "confere", !.lote = l, !.fotos = F, !.faltam = F,
                                   !.antigas = A]
  <2>1. SeguePub(r, n) /\ Parada /\ F # {} /\ F \in SUBSET FotoDesk
    BY <1>6, <1>tipos DEF ConfirmarLote, Parada
  <2>2. A \subseteq Chave
    BY <1>6, <1>tipos, <2>1 DEF ConfirmarLote, Chave, Lote
  <2> HIDE DEF A, F
  <2>3. l \in 0 .. MaxLotes
    BY DEF Lote
  <2>4. n \in HandlerPub
    BY <1>0, <2>1, <2>2, <2>3 DEF HandlerPub
  <2>5. n.pc = "confere" /\ n.lote = l /\ n.fotos = F /\ n.faltam = F
    BY DEF LivrePub
  <2> HIDE DEF n
  <2>6. CoerentePub(n)
    BY <2>1, <2>5 DEF CoerentePub, Confere, Confirma, F
  <2> QED BY <2>1, <2>4, <2>6, SoHandlerPub
\* the check: whatever is in the bucket was stored
<1>7. CASE Conferir(r)
  <2> DEFINE n == [q EXCEPT !.pc = "processa"]
  <2>1. \A f \in q.fotos : <<f, q.lote>> \in enviados
    BY <1>7, <1>tipos DEF Conferir
  <2>2. n \in HandlerPub /\ CoerentePub(n)
    BY <1>0, <1>7, <2>1 DEF Conferir, HandlerPub, CoerentePub, Confere, Confirma
  <2>3. SeguePub(r, n) /\ Parada
    BY <1>7 DEF Conferir, Parada
  <2> HIDE DEF n
  <2> QED BY <2>2, <2>3, SoHandlerPub
<1>8. CASE Processar(r)
  <2> DEFINE n == [q EXCEPT !.pc = "publica"]
  <2>1. n \in HandlerPub /\ CoerentePub(n) /\ q.lote \in Lote /\ conjunto[q.lote] # {}
    BY <1>0, <1>8 DEF Processar, HandlerPub, CoerentePub, Confere, Confirma
  <2>2. SeguePub(r, n) /\ lote' = [lote EXCEPT ![q.lote] = "PROCESSANDO"]
        /\ UNCHANGED <<vitrine, fotosPub, conjunto, comLinks, nuvem>>
    BY <1>8 DEF Processar
  <2>3. lote' \in [Lote -> StatusLote]
    BY <1>tipos, <2>2 DEF StatusLote
  <2>4. \A l \in Lote : lote'[l] # "NENHUM" => conjunto'[l] # {}
    BY <1>tipos, <2>1, <2>2 DEF StatusLote
  <2> HIDE DEF n, q
  <2> QED BY <1>tipos, <2>1, <2>2, <2>3, <2>4, Muda DEF vitrine, fotosPub, nuvem
<1>9. CASE PublicarFoto(r)
  <2> DEFINE f == Primeira(q.faltam)
             pc == IF q.faltam = {f} THEN "oculta" ELSE "publica"
             n == [q EXCEPT !.faltam = @ \ {f}, !.pc = pc]
  <2>1. /\ q.pc = "publica" /\ q.faltam # {} /\ q.lote \in Lote
        /\ \A g \in q.fotos : <<g, q.lote>> \in enviados
    BY <1>0, <1>9 DEF PublicarFoto, CoerentePub, Confere
  <2>2. SeguePub(r, n) /\ previa' = [previa EXCEPT ![f] = q.lote] /\ ativas' = ativas \cup {f}
        /\ UNCHANGED <<vitrine, lotesPub, nuvem>>
    BY <1>9 DEF PublicarFoto
  <2>3. f \in FotoDesk
    BY <1>0, <2>1, PrimeiraDelas
  <2> HIDE DEF f
  <2>4. pc \in {"oculta", "publica"} /\ (pc = "publica" => q.faltam \ {f} # {})
    BY <2>1
  <2> HIDE DEF pc
  <2>5. n \in HandlerPub /\ CoerentePub(n)
    BY <1>0, <2>1, <2>4 DEF HandlerPub, CoerentePub, Confere, Confirma
  <2>6. previa' \in [FotoDesk -> 0 .. MaxLotes] /\ ativas' \subseteq FotoDesk
    BY <1>tipos, <2>1, <2>2, <2>3 DEF Lote
  <2> HIDE DEF n, q
  <2> QED BY <1>tipos, <2>2, <2>5, <2>6, Muda DEF vitrine, lotesPub, nuvem
<1>10. CASE Ocultar(r)
  <2> DEFINE n == [q EXCEPT !.pc = "conta"]
  <2>1. n \in HandlerPub /\ CoerentePub(n)
    BY <1>0, <1>10 DEF Ocultar, HandlerPub, CoerentePub, Confere, Confirma
  <2>2. SeguePub(r, n) /\ ativas' \subseteq FotoDesk /\ UNCHANGED <<vitrine, previa, lotesPub, nuvem>>
    BY <1>10, <1>tipos DEF Ocultar
  <2> HIDE DEF n, q
  <2> QED BY <1>tipos, <2>1, <2>2, Muda DEF vitrine, lotesPub, nuvem
<1>11. CASE ContarFotos(r)
  <2> DEFINE c == Cardinality(ativas)
             n == [q EXCEPT !.pc = "divulga", !.total = c]
  <2>1. SeguePub(r, n) /\ Parada
    BY <1>11 DEF ContarFotos, Parada
  <2>2. c \in 0 .. MaxFotos
    BY <1>tipos, CardinalidadeFotos
  <2> HIDE DEF c
  <2>3. n \in HandlerPub /\ CoerentePub(n)
    BY <1>0, <1>11, <2>2 DEF ContarFotos, HandlerPub, CoerentePub, Confere, Confirma
  <2> HIDE DEF n
  <2> QED BY <2>1, <2>3, SoHandlerPub
<1>12. CASE Divulgar(r)
  <2> DEFINE n == [q EXCEPT !.pc = "remove"]
             f == Primeira(q.fotos)
  <2>1. n \in HandlerPub /\ CoerentePub(n) /\ q.lote \in Lote /\ q.fotos # {} /\ q.total \in 0 .. MaxFotos
    BY <1>0, <1>12 DEF Divulgar, HandlerPub, CoerentePub, Confere, Confirma
  <2>2. f \in FotoDesk
    BY <1>0, <2>1, PrimeiraDelas
  <2> HIDE DEF f
  <2>3. SeguePub(r, n) /\ statusGal' = "PUBLICADA" /\ totalFotos' = q.total
        /\ capa' = {<<f, q.lote>>} /\ UNCHANGED <<fotosPub, lotesPub, nuvem>>
    BY <1>12 DEF Divulgar, f
  <2>4. statusGal' \in StatusGaleria /\ totalFotos' \in 0 .. MaxFotos /\ capa' \subseteq Chave
    BY <2>1, <2>2, <2>3 DEF StatusGaleria, Chave
  <2> HIDE DEF n, q
  <2> QED BY <1>tipos, <2>1, <2>3, <2>4, Muda DEF fotosPub, lotesPub, nuvem
<1>13. CASE RemoverAntigas(r)
  <2> DEFINE n == [q EXCEPT !.pc = "conclui"]
  <2>1. n \in HandlerPub /\ CoerentePub(n)
    BY <1>0, <1>13 DEF RemoverAntigas, HandlerPub, CoerentePub, Confere, Confirma
  <2>2. SeguePub(r, n) /\ bucket' \subseteq bucket
        /\ UNCHANGED <<vitrine, fotosPub, lotesPub, enviados>>
    BY <1>13 DEF RemoverAntigas
  <2> HIDE DEF n, q
  <2> QED BY <1>tipos, <2>1, <2>2, Muda DEF vitrine, fotosPub, lotesPub
<1>14. CASE ConcluirLote(r)
  <2>1. q.lote \in Lote /\ conjunto[q.lote] # {}
    BY <1>0, <1>14 DEF ConcluirLote, CoerentePub, Confere, Confirma
  <2>2. SeguePub(r, LivrePub) /\ lote' = [lote EXCEPT ![q.lote] = "CONCLUIDO"]
        /\ UNCHANGED <<vitrine, fotosPub, conjunto, comLinks, nuvem>>
    BY <1>14 DEF ConcluirLote
  <2>3. lote' \in [Lote -> StatusLote] /\ \A l \in Lote : lote'[l] # "NENHUM" => conjunto'[l] # {}
    BY <1>tipos, <2>1, <2>2 DEF StatusLote
  <2> HIDE DEF q
  <2> QED BY <1>0, <1>tipos, <2>2, <2>3, Muda DEF vitrine, fotosPub, nuvem
<1>15. ASSUME NEW s \in {"PUBLICADA", "PAUSADA", "ENCERRADA"}, AbrirGaleriaStatus(r, s) PROVE PublicacaoInv'
  <2> DEFINE n == [LivrePub EXCEPT !.pc = "status", !.alvo = s]
  <2>1. SeguePub(r, n) /\ Parada
    BY <1>15 DEF AbrirGaleriaStatus, Parada
  <2>2. n \in HandlerPub /\ CoerentePub(n)
    BY <1>0 DEF LivrePub, HandlerPub, CoerentePub, Confere, Confirma, StatusGaleria
  <2> HIDE DEF n
  <2> QED BY <2>1, <2>2, SoHandlerPub
<1>16. CASE GravarGaleriaStatus(r)
  <2>1. SeguePub(r, LivrePub) /\ statusGal' = q.alvo /\ UNCHANGED <<totalFotos, capa, fotosPub, lotesPub, nuvem>>
    BY <1>16 DEF GravarGaleriaStatus
  <2>2. statusGal' \in StatusGaleria
    BY <1>0, <2>1 DEF HandlerPub
  <2> HIDE DEF q
  <2> QED BY <1>0, <1>tipos, <2>1, <2>2, Muda DEF fotosPub, lotesPub, nuvem
<1>17. CASE FalharPub(r)
  BY <1>0, <1>17, SoHandlerPub DEF FalharPub, Parada
<1> QED BY <1>1, <1>2, <1>3, <1>4, <1>5, <1>6, <1>7, <1>8, <1>9, <1>10, <1>11, <1>12, <1>13,
           <1>14, <1>15, <1>16, <1>17 DEF PassoPublicacao

\* Every step keeps it.
LEMMA NextPublicacaoInv == PublicacaoInv /\ [NextPublicacao]_varsPublicacao => PublicacaoInv'
<1> SUFFICES ASSUME PublicacaoInv, [NextPublicacao]_varsPublicacao PROVE PublicacaoInv'
  OBVIOUS
\* a file more only adds to what was stored
<1>1. ASSUME NEW f \in FotoDesk, NEW l \in Lote, Enviar(f, l) PROVE PublicacaoInv'
  <2>1. /\ bucket' = bucket \cup {<<f, l>>} /\ enviados' = enviados \cup {<<f, l>>}
        /\ UNCHANGED <<vitrine, fotosPub, lotesPub, reqPub>>
    BY <1>1 DEF Enviar
  <2>2. TypeOKPublicacao' /\ (bucket \subseteq enviados)'
        /\ \A k \in Lote : lote'[k] # "NENHUM" => conjunto'[k] # {}
    BY <2>1 DEF PublicacaoInv, TypeOKPublicacao, vitrine, fotosPub, lotesPub, Chave
  <2>3. ASSUME NEW s \in ReqPub PROVE CoerentePub(reqPub[s])'
    BY <2>1 DEF PublicacaoInv, CoerentePub, lotesPub
  <2> QED BY <2>2, <2>3 DEF PublicacaoInv
<1>2. CASE UNCHANGED varsPublicacao
  BY <1>2 DEF varsPublicacao, vitrine, fotosPub, lotesPub, nuvem, PublicacaoInv, TypeOKPublicacao, CoerentePub
<1> QED BY <1>1, <1>2, PassoPublicacaoInv DEF NextPublicacao

\* Type correctness of the gallery, the photos, the batches and the handlers.
THEOREM TiposPublicacao == SpecPublicacao => []TypeOKPublicacao
<1>1. PublicacaoInv => TypeOKPublicacao
  BY DEF PublicacaoInv
<1> QED BY <1>1, InitPublicacaoInv, NextPublicacaoInv, PTL DEF SpecPublicacao

-----------------------------------------------------------------------------
\* The photos on show keep their keys, or are under a key that was stored.
LEMMA PassoConferidas ==
  ASSUME PublicacaoInv, SoConferidas, NEW r \in ReqPub, PassoPublicacao(r)
  PROVE  SoConferidas'
<1> DEFINE q == reqPub[r]
<1>0. /\ q \in HandlerPub /\ CoerentePub(q) /\ previa \in [FotoDesk -> 0 .. MaxLotes]
      /\ ativas \subseteq FotoDesk /\ enviados \subseteq Chave
  BY DEF PublicacaoInv, TypeOKPublicacao
<1>1. CASE UNCHANGED <<fotosPub, enviados>>
  BY <1>1 DEF SoConferidas, fotosPub
\* a photo on show has a key already
<1>2. CASE SalvarFoto(r)
  <2> DEFINE f == Primeira(q.faltam)
  <2>1. /\ previa' = [previa EXCEPT ![f] = IF @ = 0 THEN q.lote ELSE @]
        /\ ativas' = ativas /\ enviados' = enviados
    BY <1>2 DEF SalvarFoto, nuvem
  <2> HIDE DEF f
  <2>2. ASSUME NEW g \in ativas PROVE previa'[g] = previa[g]
    <3>1. <<g, previa[g]>> \in Chave
      BY <1>0 DEF SoConferidas
    <3>2. previa[g] # 0
      BY <3>1 DEF Chave, Lote
    <3> QED BY <1>0, <2>1, <3>2
  <2> QED BY <2>1, <2>2 DEF SoConferidas
\* a photo published was checked
<1>3. CASE PublicarFoto(r)
  <2> DEFINE f == Primeira(q.faltam)
  <2>1. /\ q.faltam # {} /\ q.faltam \in SUBSET FotoDesk /\ q.faltam \subseteq q.fotos
        /\ \A g \in q.fotos : <<g, q.lote>> \in enviados
    BY <1>0, <1>3 DEF PublicarFoto, EmPub, CoerentePub, HandlerPub
  <2>2. /\ previa' = [previa EXCEPT ![f] = q.lote] /\ ativas' = ativas \cup {f}
        /\ enviados' = enviados
    BY <1>3 DEF PublicarFoto, nuvem
  <2>3. f \in q.fotos /\ f \in FotoDesk
    BY <2>1, PrimeiraDelas
  <2> HIDE DEF f, q
  <2> QED BY <1>0, <2>1, <2>2, <2>3 DEF SoConferidas
<1>4. CASE Ocultar(r)
  BY <1>4 DEF Ocultar, SoConferidas, nuvem
<1>5. CASE ~(SalvarFoto(r) \/ PublicarFoto(r) \/ Ocultar(r))
  <2>1. UNCHANGED <<fotosPub, enviados>>
    BY <1>5 DEF PassoPublicacao, IniciarLote, SalvarGaleria, SalvarLote, EntregarLinks,
                ConfirmarLote, Conferir, Processar, ContarFotos, Divulgar, RemoverAntigas,
                ConcluirLote, AbrirGaleriaStatus, GravarGaleriaStatus, FalharPub, nuvem
  <2> QED BY <1>1, <2>1
<1> QED BY <1>2, <1>3, <1>4, <1>5

\* However batches, confirmations and pauses interleave and are cut short, and however many
\* there are, a photo is on show only under a key whose file has been in the bucket.
THEOREM SempreConferidas == SpecPublicacao => []SoConferidas
<1>1. InitPublicacao => SoConferidas
  BY DEF InitPublicacao, SoConferidas
<1>2. PublicacaoInv /\ SoConferidas /\ [NextPublicacao]_varsPublicacao => SoConferidas'
  <2> SUFFICES ASSUME PublicacaoInv, SoConferidas, [NextPublicacao]_varsPublicacao PROVE SoConferidas'
    OBVIOUS
  <2>1. ASSUME NEW f \in FotoDesk, NEW l \in Lote, Enviar(f, l) PROVE SoConferidas'
    BY <2>1 DEF Enviar, SoConferidas, fotosPub
  <2>2. CASE UNCHANGED varsPublicacao
    BY <2>2 DEF varsPublicacao, fotosPub, nuvem, SoConferidas
  <2> QED BY <2>1, <2>2, PassoConferidas DEF NextPublicacao
<1> QED BY <1>1, <1>2, InitPublicacaoInv, NextPublicacaoInv, PTL DEF SpecPublicacao
=============================================================================
