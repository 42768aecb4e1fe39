-------------------------- MODULE Cobranca_proofs --------------------------
(***************************************************************************)
(* Proofs about Cobranca, for every number of rows, charges and handlers.  *)
(*                                                                         *)
(* Whatever overlaps: type correctness, and what MP's money may do.  The   *)
(* index alone makes a charge unique; that it was approved, and belongs to *)
(* the invoice's subscription, rests on what the handlers carry from one   *)
(* await to the next (HandlersCoerentes) and on rows never changing hands  *)
(* (Linhas).                                                               *)
(*                                                                         *)
(* One handler at a time, whatever fails: an answered charge paid, one     *)
(* open invoice, one living subscription with the licence it paid, and     *)
(* nothing goes back.  They rest on each other, and on what the handler in *)
(* flight knows of the rows it is about to write (Certo).                  *)
(***************************************************************************)
EXTENDS MCCobranca, FiniteSetTheorems, WellFoundedInduction, TLAPS

\* Rows that exist belong to a subscription.
Linhas == \A f \in Fatura : fatura[f].assin \in Assinatura <=> fatura[f].status # "INEXISTENTE"

SemDono == {"livre", "criaAssin", "pede", "vence"}
Pagando == {"confere", "cria", "abre", "registra"}

\* What a handler carries: its subscription, its invoice with that subscription, a charge of
\* that subscription, approved once it was checked.
Coerente(q) ==
  /\ q.pc \notin SemDono => q.a \in Assinatura
  /\ q.pc = "solta" => q.velha \in Assinatura
  /\ q.volta \in {"livre", "faturas", "agenda", "desiste", "reativa"}
  /\ \A f \in q.abertas : fatura[f].assin \in Assinatura
  /\ q.pc \in {"abre", "registra"} => q.f \in Fatura
  /\ q.pc \in {"confere", "abre", "registra"} /\ q.f # Nenhuma => fatura[q.f].assin = q.a
  /\ q.pc = "confere" => q.c \in CobrancaMp
  /\ q.pc \in Pagando /\ q.c # Nenhuma =>
       /\ cobr[q.c].assin = q.a
       /\ q.pc # "confere" \/ q.aprovada => cobr[q.c].aprovada

HandlersCoerentes == \A r \in Req : Coerente(req[r])

IInv == TypeOK /\ Linhas /\ CobrancaUnica /\ CobrancaAprovada /\ HandlersCoerentes

FaturaT == [status : StatusFatura, assin : Assinatura \cup {Nenhuma}, venc : Nat,
            cobranca : CobrancaMp \cup {Nenhuma}]
AssinaturaT == [status : StatusAssinatura, fim : Nat, agendada : BOOLEAN, mp : StatusPreapproval]

\* An idle handler.
LEMMA LivreTipo == Livre \in Handler /\ Coerente(Livre)
  BY DEF Livre, Handler, Coerente, StatusPreapproval, Pc, SemDono, Pagando

\* The invariant holds at the start.
LEMMA InitIInv == Init => IInv
<1> SUFFICES ASSUME Init PROVE IInv
  OBVIOUS
<1>1. TypeOK
  BY LivreTipo, BoundsAssumption DEF Init, TypeOK, SemAssinatura, SemFatura, SemCobranca,
     StatusAssinatura, StatusFatura, StatusPreapproval
<1>2. Linhas /\ CobrancaUnica /\ CobrancaAprovada
  BY NenhumaAssumption DEF Init, Linhas, CobrancaUnica, CobrancaAprovada, SemFatura, Assinatura
<1> QED BY <1>1, <1>2, LivreTipo DEF Init, IInv, HandlersCoerentes

-----------------------------------------------------------------------------
\* What a step may do to the invoices, a payment apart: rows keep their subscription and their
\* charge, and a new row has no charge.
Conserva ==
  \A f \in Fatura :
    \/ /\ fatura'[f].assin = fatura[f].assin /\ fatura'[f].cobranca = fatura[f].cobranca
       /\ fatura'[f].status = "INEXISTENTE" <=> fatura[f].status = "INEXISTENTE"
    \/ /\ fatura[f].status = "INEXISTENTE" /\ fatura'[f].status # "INEXISTENTE"
       /\ fatura'[f].assin \in Assinatura /\ fatura'[f].cobranca = Nenhuma

\* Rows keep their subscription, charges their subscription and their approval.
DonosFicam ==
  /\ \A f \in Fatura : fatura[f].assin \in Assinatura => fatura'[f].assin = fatura[f].assin
  /\ \A c \in CobrancaMp : cobr[c].assin \in Assinatura =>
       cobr'[c].assin = cobr[c].assin /\ (cobr[c].aprovada => cobr'[c].aprovada)

\* What a handler carries survives such a step.
LEMMA CoerenteFica ==
  ASSUME DonosFicam, NEW q \in Handler, Coerente(q)
  PROVE  Coerente(q)'
  BY DEF DonosFicam, Coerente, Handler, Pagando, SemDono

LEMMA ConservaDonos ==
  ASSUME IInv, Conserva, UNCHANGED cobr
  PROVE  DonosFicam /\ Linhas' /\ CobrancaUnica' /\ CobrancaAprovada'
<1>1. DonosFicam /\ Linhas'
  BY DEF IInv, Conserva, DonosFicam, Linhas
<1>2. CobrancaUnica'
  BY DEF IInv, Conserva, CobrancaUnica
<1>3. CobrancaAprovada'
  BY DEF IInv, Conserva, CobrancaAprovada
<1> QED BY <1>1, <1>2, <1>3

\* The handlers after a step that moves r to q.
LEMMA Move ==
  ASSUME IInv, DonosFicam, NEW r \in Req, NEW q \in Handler, Coerente(q)', Segue(r, q)
  PROVE  req' \in [Req -> Handler] /\ HandlersCoerentes'
<1>1. req \in [Req -> Handler] /\ \A s \in Req : Coerente(req[s])
  BY DEF IInv, TypeOK, HandlersCoerentes
<1>2. \A s \in Req : s # r => req'[s] = req[s]
  BY <1>1 DEF Segue
<1>3. req'[r] = q /\ req' \in [Req -> Handler]
  BY <1>1 DEF Segue
<1>4. ASSUME NEW s \in Req PROVE Coerente(req[s])'
  <2>1. CASE s = r
    BY <2>1, <1>3 DEF Coerente
  <2>2. CASE s # r
    <3>1. PICK v \in Handler : v = req[s]
      BY <1>1
    <3>2. Coerente(v)'
      BY <3>1, <1>1, CoerenteFica
    <3> QED BY <3>1, <3>2, <2>2, <1>2 DEF Coerente
  <2> QED BY <2>1, <2>2
<1> QED BY <1>3, <1>4 DEF HandlersCoerentes

\* A step that moves one handler and writes rows, a payment apart: q holds after it.
LEMMA EscreveLinha ==
  ASSUME IInv, NEW r \in Req, NEW q \in Handler, Coerente(q)', Segue(r, q), Conserva,
         UNCHANGED <<cobr, hoje>>, pendente' \subseteq CobrancaMp,
         assin' \in [Assinatura -> AssinaturaT], fatura' \in [Fatura -> FaturaT],
         licAte' \in [Assinatura -> Nat]
  PROVE  IInv'
<1>1. DonosFicam /\ Linhas' /\ CobrancaUnica' /\ CobrancaAprovada'
  BY ConservaDonos
<1>2. req' \in [Req -> Handler] /\ HandlersCoerentes'
  BY <1>1, Move
<1>3. TypeOK'
  BY <1>2 DEF IInv, TypeOK, AssinaturaT, FaturaT
<1> QED BY <1>1, <1>2, <1>3 DEF IInv

\* The same, when q holds before it.
LEMMA Escreve ==
  ASSUME IInv, NEW r \in Req, NEW q \in Handler, Coerente(q), Segue(r, q), Conserva,
         UNCHANGED <<cobr, hoje>>, pendente' \subseteq CobrancaMp,
         assin' \in [Assinatura -> AssinaturaT], fatura' \in [Fatura -> FaturaT],
         licAte' \in [Assinatura -> Nat]
  PROVE  IInv'
<1>1. Coerente(q)'
  BY ConservaDonos, CoerenteFica
<1> QED BY <1>1, EscreveLinha

\* A step that only moves one handler.
LEMMA SoHandler ==
  ASSUME IInv, NEW r \in Req, NEW q \in Handler, Coerente(q), Segue(r, q),
         UNCHANGED <<banco, cobr, hoje>>, pendente' \subseteq CobrancaMp
  PROVE  IInv'
<1>1. Conserva
  BY DEF Conserva, banco
<1> QED BY <1>1, Escreve DEF IInv, TypeOK, banco, AssinaturaT, FaturaT

\* The same, MP untouched.
LEMMA SoMove ==
  ASSUME IInv, NEW r \in Req, NEW q \in Handler, Coerente(q), Segue(r, q),
         UNCHANGED <<banco, mercado, hoje>>
  PROVE  IInv'
  BY SoHandler DEF mercado, IInv, TypeOK

\* The handler r, as it is now.
LEMMA Atual ==
  ASSUME IInv, NEW r \in Req
  PROVE  req[r] \in Handler /\ Coerente(req[r])
  BY DEF IInv, TypeOK, HandlersCoerentes

-----------------------------------------------------------------------------
(* Handlers that start, or give up *)

LEMMA AbrirCriarIInv == ASSUME IInv, NEW r \in Req, AbrirCriar(r) PROVE IInv'
<1>1. PICK jaPaga \in BOOLEAN : Segue(r, [Livre EXCEPT !.pc = "criaAssin", !.sim = jaPaga])
  BY DEF AbrirCriar
<1> DEFINE q == [Livre EXCEPT !.pc = "criaAssin", !.sim = jaPaga]
<1>2. q \in Handler /\ Coerente(q)
  BY LivreTipo DEF Livre, Handler, Coerente, Pc, SemDono, Pagando
<1>3. Segue(r, q) /\ UNCHANGED <<banco, mercado, hoje>>
  BY <1>1 DEF AbrirCriar
<1> HIDE DEF q
<1> QED BY <1>2, <1>3, SoMove

LEMMA AbrirAssinarIInv == ASSUME IInv, NEW r \in Req, AbrirAssinar(r) PROVE IInv'
<1>1. UNCHANGED <<banco, mercado, hoje>>
  BY DEF AbrirAssinar
<1>2. CASE Segue(r, [Livre EXCEPT !.pc = "pede"])
  <2> DEFINE q == [Livre EXCEPT !.pc = "pede"]
  <2>1. q \in Handler /\ Coerente(q)
    BY LivreTipo DEF Livre, Handler, Coerente, Pc, SemDono, Pagando
  <2>2. Segue(r, q)
    BY <1>2
  <2> HIDE DEF q
  <2> QED BY <1>1, <2>1, <2>2, SoMove
<1>3. ASSUME NEW v \in Assinatura \cup {Nenhuma}, Segue(r, [Livre EXCEPT !.pc = "pede", !.velha = v])
      PROVE  IInv'
  <2> DEFINE q == [Livre EXCEPT !.pc = "pede", !.velha = v]
  <2>1. q \in Handler /\ Coerente(q)
    BY LivreTipo DEF Livre, Handler, Coerente, Pc, SemDono, Pagando
  <2>2. Segue(r, q)
    BY <1>3
  <2> HIDE DEF q
  <2> QED BY <1>1, <2>1, <2>2, SoMove
<1>4. ASSUME NEW a \in Assinatura, Segue(r, [Livre EXCEPT !.pc = "cartao", !.a = a])
      PROVE  IInv'
  <2> DEFINE q == [Livre EXCEPT !.pc = "cartao", !.a = a]
  <2>1. q \in Handler /\ Coerente(q)
    BY LivreTipo DEF Livre, Handler, Coerente, Pc, SemDono, Pagando
  <2>2. Segue(r, q)
    BY <1>4
  <2> HIDE DEF q
  <2> QED BY <1>1, <2>1, <2>2, SoMove
<1> QED BY <1>2, <1>3, <1>4 DEF AbrirAssinar, Vivas

\* A start that goes to pc, or to MP and then to volta.
LEMMA ComecaNoMp ==
  ASSUME IInv, NEW r \in Req, UNCHANGED <<banco, mercado, hoje>>, NEW a \in Assinatura,
         NEW pc \in {"faturas", "agenda", "desiste", "para"},
         NEW volta \in {"faturas", "agenda", "desiste"}, NEW q \in Handler,
         q.pc = pc, q.volta = volta, q.a = a, q.abertas = {}, Segue(r, q)
  PROVE  IInv'
<1>1. Coerente(q)
  BY DEF Coerente, SemDono, Pagando
<1> QED BY <1>1, SoMove

LEMMA AbrirCancelarIInv ==
  ASSUME IInv, NEW r \in Req, NEW a \in Assinatura, NEW agora \in BOOLEAN, AbrirCancelar(r, a, agora)
  PROVE  IInv'
<1> DEFINE pc == IF assin[a].mp = "manual" THEN "faturas" ELSE "para"
           mp == IF agora THEN "cancelled" ELSE "paused"
           q == [Livre EXCEPT !.pc = pc, !.volta = "faturas", !.a = a, !.sim = agora, !.mp = mp]
<1>1. Segue(r, q) /\ UNCHANGED <<banco, mercado, hoje>>
  BY DEF AbrirCancelar
<1>2. pc \in {"faturas", "para"} /\ mp \in {"cancelled", "paused"}
  OBVIOUS
<1> HIDE DEF pc, mp
<1>3. q \in Handler /\ q.pc = pc /\ q.volta = "faturas" /\ q.a = a /\ q.abertas = {}
  BY <1>2, LivreTipo DEF Livre, Handler, Pc, StatusPreapproval
<1> HIDE DEF q
<1> QED BY <1>1, <1>2, <1>3, ComecaNoMp

LEMMA AbrirCancelarPainelIInv ==
  ASSUME IInv, NEW r \in Req, NEW a \in Assinatura, AbrirCancelarPainel(r, a)
  PROVE  IInv'
<1> DEFINE v == IF assin[a].mp = "manual" \/ Paga(a) THEN "agenda" ELSE "desiste"
           pc == IF assin[a].mp = "manual" THEN v ELSE "para"
           mp == IF v = "agenda" THEN "paused" ELSE "cancelled"
           q == [Livre EXCEPT !.pc = pc, !.volta = v, !.a = a, !.mp = mp]
<1>1. Segue(r, q) /\ UNCHANGED <<banco, mercado, hoje>>
  BY DEF AbrirCancelarPainel
<1>2. v \in {"agenda", "desiste"}
  OBVIOUS
<1> HIDE DEF v
<1>3. pc \in {"agenda", "desiste", "para"} /\ mp \in {"cancelled", "paused"}
  BY <1>2
<1> HIDE DEF pc, mp
<1>4. q \in Handler /\ q.pc = pc /\ q.volta = v /\ q.a = a /\ q.abertas = {}
  BY <1>2, <1>3, LivreTipo DEF Livre, Handler, Pc, StatusPreapproval
<1> HIDE DEF q
<1> QED BY <1>1, <1>2, <1>3, <1>4, ComecaNoMp

LEMMA AbrirReativarIInv ==
  ASSUME IInv, NEW r \in Req, NEW a \in Assinatura, AbrirReativar(r, a)
  PROVE  IInv'
<1> DEFINE q == [Livre EXCEPT !.pc = IF assin[a].mp = "manual" THEN "reativa" ELSE "retoma",
                   !.volta = "reativa", !.a = a, !.fim = assin[a].fim, !.mp = "authorized"]
<1>1. assin[a].fim \in Nat
  BY DEF IInv, TypeOK
<1>2. q \in Handler /\ Coerente(q)
  BY <1>1, LivreTipo DEF Livre, Handler, Coerente, SemDono, Pagando, Pc, StatusPreapproval
<1>3. Segue(r, q) /\ UNCHANGED <<banco, mercado, hoje>>
  BY DEF AbrirReativar
<1> HIDE DEF q
<1> QED BY <1>2, <1>3, SoMove

LEMMA LerPreapprovalIInv ==
  ASSUME IInv, NEW r \in Req, NEW a \in Assinatura, LerPreapproval(r, a)
  PROVE  IInv'
<1> DEFINE q == [Livre EXCEPT !.pc = "espelhaLe", !.a = a, !.mp = assin[a].mp]
<1>1. assin[a].mp \in StatusPreapproval
  BY DEF IInv, TypeOK
<1>2. q \in Handler /\ Coerente(q)
  BY <1>1, LivreTipo DEF Livre, Handler, Coerente, SemDono, Pagando, Pc
<1>3. Segue(r, q) /\ UNCHANGED <<banco, mercado, hoje>>
  BY DEF LerPreapproval
<1> HIDE DEF q
<1> QED BY <1>2, <1>3, SoMove

LEMMA LerCobrancaIInv ==
  ASSUME IInv, NEW r \in Req, NEW c \in CobrancaMp, LerCobranca(r, c)
  PROVE  IInv'
<1> DEFINE a == cobr[c].assin
<1>1. PICK f \in Fatura \cup {Nenhuma} :
        /\ MaisAntiga(f, a)
        /\ Segue(r, [Livre EXCEPT !.pc = "confere", !.a = a, !.f = f, !.c = c,
                        !.fim = assin[a].fim, !.sim = Viva(a), !.aprovada = cobr[c].aprovada])
  BY DEF LerCobranca
<1>2. a \in Assinatura /\ assin[a].fim \in Nat /\ cobr[c].aprovada \in BOOLEAN /\ Viva(a) \in BOOLEAN
  BY DEF LerCobranca, IInv, TypeOK, Viva
<1>3. f # Nenhuma => fatura[f].assin = a
  BY <1>1 DEF MaisAntiga, AbertasDa
<1> DEFINE q == [Livre EXCEPT !.pc = "confere", !.a = a, !.f = f, !.c = c,
                   !.fim = assin[a].fim, !.sim = Viva(a), !.aprovada = cobr[c].aprovada]
<1>4. q \in Handler /\ Coerente(q)
  BY <1>2, <1>3, LivreTipo DEF Livre, Handler, Coerente, SemDono, Pagando, Pc
<1>5. Segue(r, q) /\ UNCHANGED <<banco, mercado, hoje>>
  BY <1>1 DEF LerCobranca
<1> HIDE DEF q
<1> QED BY <1>4, <1>5, SoMove

LEMMA LerVencidasIInv == ASSUME IInv, NEW r \in Req, LerVencidas(r) PROVE IInv'
<1> DEFINE F == {f \in Fatura : fatura[f].status = "PENDENTE" /\ fatura[f].venc < hoje}
           q == IF F = {} THEN Livre ELSE [Livre EXCEPT !.pc = "vence", !.abertas = F]
<1>1. \A f \in F : fatura[f].assin \in Assinatura
  BY DEF IInv, Linhas
<1>2. q \in Handler /\ Coerente(q)
  BY <1>1, LivreTipo DEF Livre, Handler, Coerente, SemDono, Pagando, Pc
<1>3. Segue(r, q) /\ UNCHANGED <<banco, mercado, hoje>>
  BY DEF LerVencidas
<1> HIDE DEF q
<1> QED BY <1>2, <1>3, SoMove

\* An exception, a restart, a refusal of the database.
LEMMA FalharIInv ==
  ASSUME IInv, NEW r \in Req, Falhar(r) \/ FalharUnica(r) \/ FalharSemLinhas(r)
  PROVE  IInv'
  BY LivreTipo, SoMove DEF Falhar, FalharUnica, FalharSemLinhas

-----------------------------------------------------------------------------
(* Handlers that go on without writing rows *)

LEMMA ConferirIInv == ASSUME IInv, NEW r \in Req, Conferir(r) PROVE IInv'
<1>1. CASE ~(req[r].sim /\ req[r].aprovada /\ \A f \in Fatura : fatura[f].cobranca # req[r].c)
  <2>1. Segue(r, Livre) /\ UNCHANGED <<banco, cobr, hoje>> /\ pendente' \subseteq CobrancaMp
    BY <1>1 DEF Conferir, Responde, IInv, TypeOK
  <2> QED BY <2>1, LivreTipo, SoHandler
<1>2. CASE req[r].sim /\ req[r].aprovada /\ \A f \in Fatura : fatura[f].cobranca # req[r].c
  <2> DEFINE pc == IF req[r].f = Nenhuma THEN "cria" ELSE "abre"
             q == [req[r] EXCEPT !.pc = pc]
  <2>1. Segue(r, q) /\ UNCHANGED <<banco, mercado, hoje>>
    BY <1>2 DEF Conferir, mercado
  <2>2. pc \in {"cria", "abre"} /\ (pc = "abre" => req[r].f # Nenhuma)
    OBVIOUS
  <2> HIDE DEF pc
  <2>3. req[r].pc = "confere" /\ req[r].aprovada
    BY <1>2 DEF Conferir, Em
  <2>4. q \in Handler /\ Coerente(q)
    BY <2>2, <2>3, Atual DEF Handler, Coerente, SemDono, Pagando, Pc
  <2> HIDE DEF q
  <2> QED BY <2>1, <2>4, SoMove
<1> QED BY <1>1, <1>2

\* registrarPagamento holds the invoice and its subscription.
LEMMA LePagamentoTipo ==
  ASSUME IInv, NEW f \in Fatura, NEW p \in Handler, p.volta \in {"livre", "faturas", "agenda", "desiste", "reativa"},
         fatura[f].assin \in Assinatura,
         p.c = Nenhuma \/ (cobr[p.c].assin = fatura[f].assin /\ cobr[p.c].aprovada)
  PROVE  LePagamento(f, p) \in Handler /\ Coerente(LePagamento(f, p))
<1> DEFINE a == fatura[f].assin
           fim == FimDoPeriodo(fatura[f].venc)
           agendada == assin[a].agendada
           q == [p EXCEPT !.pc = "registra", !.a = a, !.f = f, !.abertas = {}, !.fim = fim,
                   !.agendada = agendada]
<1>1. a \in Assinatura /\ fim \in Nat /\ agendada \in BOOLEAN
  BY PeriodoAssumption DEF IInv, TypeOK, FimDoPeriodo
<1>2. q = LePagamento(f, p)
  BY DEF LePagamento
<1> HIDE DEF fim, agendada
<1>3. q \in Handler
  BY <1>1 DEF Handler, Pc
<1>4. /\ q.pc = "registra" /\ q.volta = p.volta /\ q.a = a /\ q.f = f /\ q.abertas = {}
      /\ q.c = p.c
  BY DEF Handler
<1>5. Coerente(q)
  BY <1>1, <1>4 DEF Coerente, SemDono, Pagando
<1> QED BY <1>2, <1>3, <1>5

LEMMA AbrirFaturaIInv == ASSUME IInv, NEW r \in Req, AbrirFatura(r) PROVE IInv'
<1>1. PICK p \in Handler : p = req[r]
  BY Atual
<1>2. p.pc = "abre" /\ Coerente(p) /\ UNCHANGED <<banco, mercado, hoje>>
  BY <1>1, Atual DEF AbrirFatura, Em
<1>3. CASE Segue(r, Livre)
  BY <1>2, <1>3, LivreTipo, SoMove
<1>4. CASE Segue(r, LePagamento(p.f, p))
  <2>1. p.f \in Fatura /\ fatura[p.f].assin = p.a /\ p.a \in Assinatura
    BY <1>2, NenhumaAssumption DEF Coerente, SemDono, Fatura
  <2>2. p.c = Nenhuma \/ (cobr[p.c].assin = fatura[p.f].assin /\ cobr[p.c].aprovada)
    BY <1>2, <2>1 DEF Coerente, Pagando
  <2>3. p.volta \in {"livre", "faturas", "agenda", "desiste", "reativa"}
    BY <1>2 DEF Coerente
  <2>4. LePagamento(p.f, p) \in Handler /\ Coerente(LePagamento(p.f, p))
    BY <2>1, <2>2, <2>3, LePagamentoTipo
  <2> QED BY <1>2, <1>4, <2>4, SoMove
<1> QED BY <1>1, <1>3, <1>4 DEF AbrirFatura

LEMMA MarcarFaturaPagaIInv ==
  ASSUME IInv, NEW r \in Req, NEW f \in Fatura, MarcarFaturaPaga(r, f)
  PROVE  IInv'
<1>1. fatura[f].assin \in Assinatura
  BY DEF MarcarFaturaPaga, Aberta, IInv, Linhas
<1>2. LePagamento(f, Livre) \in Handler /\ Coerente(LePagamento(f, Livre))
  BY <1>1, LivreTipo, LePagamentoTipo DEF Livre
<1> QED BY <1>2, SoMove DEF MarcarFaturaPaga

LEMMA LerAssinaturaIInv == ASSUME IInv, NEW r \in Req, LerAssinatura(r) PROVE IInv'
<1>1. PICK p \in Handler : p = req[r]
  BY Atual
<1>2. p.pc = "espelhaLe" /\ Coerente(p) /\ UNCHANGED <<banco, mercado, hoje>> /\ p.a \in Assinatura
  BY <1>1, Atual DEF LerAssinatura, Em, Coerente, SemDono
<1> DEFINE A == AbertasDa(p.a)
           pg == Paga(p.a)
           ag == assin[p.a].agendada
           fim == assin[p.a].fim
           q == [p EXCEPT !.pc = "espelha", !.abertas = A, !.sim = pg, !.agendada = ag, !.fim = fim]
<1>3. A \subseteq Fatura /\ (\A f \in A : fatura[f].assin \in Assinatura)
  BY <1>2 DEF AbertasDa
<1>4. pg \in BOOLEAN /\ ag \in BOOLEAN /\ fim \in Nat
  BY <1>2 DEF Paga, IInv, TypeOK
<1>5. Segue(r, q) \/ Segue(r, Livre)
  BY <1>1 DEF LerAssinatura
<1> HIDE DEF A, pg, ag, fim
<1>6. q \in Handler /\ q.pc = "espelha" /\ q.volta = p.volta /\ q.a = p.a /\ q.abertas = A
  BY <1>2, <1>3, <1>4 DEF Handler, Pc
<1> HIDE DEF q
<1>7. Coerente(q)
  BY <1>2, <1>3, <1>6 DEF Coerente, SemDono, Pagando
<1> QED BY <1>2, <1>5, <1>6, <1>7, LivreTipo, SoMove

LEMMA EspelharNadaIInv == ASSUME IInv, NEW r \in Req, EspelharNada(r) PROVE IInv'
  BY LivreTipo, SoMove DEF EspelharNada

-----------------------------------------------------------------------------
(* Handlers that write rows *)

\* Rows that exist get a status.
LEMMA MudaTipo ==
  ASSUME IInv, NEW F \in SUBSET Fatura, \A f \in F : fatura[f].assin \in Assinatura,
         NEW s \in {"VENCIDA", "CANCELADA"}, fatura' = MudaFaturas(F, s)
  PROVE  fatura' \in [Fatura -> FaturaT] /\ Conserva
<1>1. fatura \in [Fatura -> FaturaT] /\ s \in StatusFatura /\ s # "INEXISTENTE"
  BY DEF IInv, TypeOK, FaturaT, StatusFatura
<1>2. \A f \in F : fatura[f].status # "INEXISTENTE"
  BY DEF IInv, Linhas
<1>3. ASSUME NEW f \in Fatura
      PROVE  /\ fatura'[f] \in FaturaT
             /\ fatura'[f].assin = fatura[f].assin /\ fatura'[f].cobranca = fatura[f].cobranca
             /\ fatura'[f].status = IF f \in F THEN s ELSE fatura[f].status
  BY <1>1 DEF MudaFaturas, FaturaT
<1>4. fatura' \in [Fatura -> FaturaT]
  BY <1>3 DEF MudaFaturas
<1> QED BY <1>1, <1>2, <1>3, <1>4 DEF Conserva

\* A row is created, at the end of the period of a.
LEMMA NovaTipo ==
  ASSUME IInv, NEW f \in Fatura, fatura[f].status = "INEXISTENTE", NEW a \in Assinatura,
         NEW venc \in Nat, fatura' = [fatura EXCEPT ![f] = Pendente(a, venc)]
  PROVE  /\ fatura' \in [Fatura -> FaturaT] /\ Conserva
         /\ fatura'[f].assin = a
  BY DEF IInv, TypeOK, Linhas, Pendente, SemFatura, FaturaT, Conserva, StatusFatura

\* No invoice is touched.
LEMMA MesmaFatura ==
  ASSUME IInv, UNCHANGED fatura
  PROVE  fatura' \in [Fatura -> FaturaT] /\ Conserva
  BY DEF IInv, TypeOK, FaturaT, Conserva

\* Rows of subscriptions keep their type when a status, a flag or MP's status is set.
LEMMA AssinTipo ==
  ASSUME IInv, NEW a \in Assinatura,
         \/ UNCHANGED assin
         \/ \E s \in StatusAssinatura : assin' = [assin EXCEPT ![a].status = s]
         \/ \E s \in StatusPreapproval : assin' = [assin EXCEPT ![a].mp = s]
         \/ \E v \in BOOLEAN : assin' = [assin EXCEPT ![a].agendada = v]
  PROVE  assin' \in [Assinatura -> AssinaturaT]
<1>1. assin \in [Assinatura -> AssinaturaT]
  BY DEF IInv, TypeOK, AssinaturaT
<1>2. CASE UNCHANGED assin
  BY <1>1, <1>2
<1>3. ASSUME NEW s \in StatusAssinatura, assin' = [assin EXCEPT ![a].status = s]
      PROVE  assin' \in [Assinatura -> AssinaturaT]
  BY <1>1, <1>3 DEF AssinaturaT
<1>4. ASSUME NEW s \in StatusPreapproval, assin' = [assin EXCEPT ![a].mp = s]
      PROVE  assin' \in [Assinatura -> AssinaturaT]
  BY <1>1, <1>4 DEF AssinaturaT
<1>5. ASSUME NEW v \in BOOLEAN, assin' = [assin EXCEPT ![a].agendada = v]
      PROVE  assin' \in [Assinatura -> AssinaturaT]
  BY <1>1, <1>5 DEF AssinaturaT
<1> QED BY <1>2, <1>3, <1>4, <1>5

\* A handler that ends, with what it wrote.
LEMMA Termina ==
  ASSUME IInv, NEW r \in Req, Segue(r, Livre), Conserva, UNCHANGED <<cobr, hoje>>,
         pendente' \subseteq CobrancaMp, assin' \in [Assinatura -> AssinaturaT],
         fatura' \in [Fatura -> FaturaT], licAte' \in [Assinatura -> Nat]
  PROVE  IInv'
  BY LivreTipo, Escreve

\* What most of them leave alone.
LEMMA Resto ==
  ASSUME IInv, UNCHANGED <<licAte, mercado, hoje>>
  PROVE  /\ licAte' \in [Assinatura -> Nat] /\ pendente' \subseteq CobrancaMp
         /\ UNCHANGED <<cobr, hoje>>
  BY DEF IInv, TypeOK, mercado

LEMMA CriarFaturaIInv == ASSUME IInv, NEW r \in Req, CriarFatura(r) PROVE IInv'
<1>1. PICK p \in Handler : p = req[r]
  BY Atual
<1>2. p.pc = "cria" /\ Coerente(p) /\ p.a \in Assinatura /\ p.fim \in Nat
  BY <1>1, Atual DEF CriarFatura, Em, Coerente, SemDono, Handler
<1>3. PICK f \in Fatura : /\ NovaFatura(f)
                        /\ fatura' = [fatura EXCEPT ![f] = Pendente(p.a, p.fim)]
                        /\ Segue(r, [p EXCEPT !.pc = "abre", !.f = f])
  BY <1>1 DEF CriarFatura
<1>4. /\ fatura' \in [Fatura -> FaturaT] /\ Conserva
      /\ fatura'[f].assin = p.a
  BY <1>2, <1>3, NovaTipo DEF NovaFatura
<1>5. UNCHANGED <<assin, licAte, mercado, hoje>>
  BY DEF CriarFatura
<1>6. assin' \in [Assinatura -> AssinaturaT]
  BY <1>2, <1>5, AssinTipo
<1> DEFINE q == [p EXCEPT !.pc = "abre", !.f = f]
<1>7. q \in Handler /\ q.pc = "abre" /\ q.f = f /\ q.a = p.a /\ q.abertas = p.abertas
      /\ q.volta = p.volta /\ q.c = p.c /\ q.aprovada = p.aprovada
  BY DEF Handler, Pc
<1>8. Segue(r, q)
  BY <1>3
<1> HIDE DEF q
<1>9. Coerente(p)'
  BY <1>2, <1>4, <1>5, ConservaDonos, CoerenteFica DEF mercado
<1>10. Coerente(q)'
  BY <1>2, <1>4, <1>7, <1>9 DEF Coerente, SemDono, Pagando
<1> QED BY <1>4, <1>5, <1>6, <1>7, <1>8, <1>10, Resto, EscreveLinha

LEMMA VencerIInv == ASSUME IInv, NEW r \in Req, Vencer(r) PROVE IInv'
<1>1. PICK p \in Handler : p = req[r]
  BY Atual
<1>2. p.abertas \in SUBSET Fatura /\ (\A f \in p.abertas : fatura[f].assin \in Assinatura)
  BY <1>1, Atual DEF Coerente, Handler
<1>3. /\ fatura' = MudaFaturas(p.abertas, "VENCIDA") /\ Segue(r, Livre)
      /\ UNCHANGED <<licAte, mercado, hoje>>
  BY <1>1 DEF Vencer
<1>4. assin' \in [Assinatura -> AssinaturaT]
  BY DEF Vencer, IInv, TypeOK, AssinaturaT, StatusAssinatura
<1>5. fatura' \in [Fatura -> FaturaT] /\ Conserva
  BY <1>2, <1>3, MudaTipo
<1> QED BY <1>3, <1>4, <1>5, Resto, Termina

\* The open invoices of a are cancelled.
LEMMA CancelaTipo ==
  ASSUME IInv, NEW a \in Assinatura, fatura' = MudaFaturas(AbertasDa(a), "CANCELADA")
  PROVE  fatura' \in [Fatura -> FaturaT] /\ Conserva
<1>1. AbertasDa(a) \in SUBSET Fatura /\ (\A f \in AbertasDa(a) : fatura[f].assin \in Assinatura)
  BY DEF AbertasDa
<1> QED BY <1>1, MudaTipo

LEMMA CancelarFaturasIInv == ASSUME IInv, NEW r \in Req, CancelarFaturas(r) PROVE IInv'
<1>1. PICK p \in Handler : p = req[r]
  BY Atual
<1>2. p.pc = "faturas" /\ Coerente(p) /\ p.a \in Assinatura
  BY <1>1, Atual DEF CancelarFaturas, Em, Coerente, SemDono
<1>3. UNCHANGED <<assin, licAte, mercado, hoje>>
  BY DEF CancelarFaturas
<1>4. fatura' \in [Fatura -> FaturaT] /\ Conserva
  BY <1>1, <1>2, CancelaTipo DEF CancelarFaturas
<1>5. assin' \in [Assinatura -> AssinaturaT]
  BY <1>2, <1>3, AssinTipo
<1> DEFINE q == [p EXCEPT !.pc = "encerra"]
<1>6. q \in Handler /\ Coerente(q) /\ Segue(r, q)
  BY <1>1, <1>2 DEF CancelarFaturas, Handler, Coerente, Pc, SemDono, Pagando
<1> HIDE DEF q
<1> QED BY <1>3, <1>4, <1>5, <1>6, Resto, Escreve

LEMMA EncerrarIInv == ASSUME IInv, NEW r \in Req, Encerrar(r) PROVE IInv'
<1>1. PICK p \in Handler : p = req[r]
  BY Atual
<1>2. p.pc = "encerra" /\ Coerente(p) /\ p.a \in Assinatura
  BY <1>1, Atual DEF Encerrar, Em, Coerente, SemDono
<1>3. UNCHANGED <<fatura, licAte, mercado, hoje>>
  BY DEF Encerrar
<1>4. assin' \in [Assinatura -> AssinaturaT]
  BY <1>1, <1>2, AssinTipo DEF Encerrar, StatusAssinatura
<1> DEFINE q == [p EXCEPT !.pc = "licenca"]
<1>5. q \in Handler /\ Coerente(q)
  BY <1>2 DEF Handler, Coerente, Pc, SemDono, Pagando
<1>6. Segue(r, q) \/ Segue(r, Livre)
  BY <1>1 DEF Encerrar
<1> HIDE DEF q
<1> QED BY <1>3, <1>4, <1>5, <1>6, MesmaFatura, Resto, Escreve, LivreTipo

LEMMA EncerrarLicencaIInv == ASSUME IInv, NEW r \in Req, EncerrarLicenca(r) PROVE IInv'
<1>1. PICK p \in Handler : p = req[r]
  BY Atual
<1>2. p.a \in Assinatura
  BY <1>1, Atual DEF EncerrarLicenca, Em, Coerente, SemDono
<1>3. licAte' \in [Assinatura -> Nat]
  BY DEF EncerrarLicenca, IInv, TypeOK
<1>4. UNCHANGED <<assin, fatura, cobr, hoje>> /\ pendente' \subseteq CobrancaMp /\ Segue(r, Livre)
  BY DEF EncerrarLicenca, mercado, IInv, TypeOK
<1>5. assin' \in [Assinatura -> AssinaturaT]
  BY <1>2, <1>4, AssinTipo
<1> QED BY <1>3, <1>4, <1>5, MesmaFatura, Termina

LEMMA AgendarIInv == ASSUME IInv, NEW r \in Req, Agendar(r) PROVE IInv'
<1>1. PICK p \in Handler : p = req[r]
  BY Atual
<1>2. p.a \in Assinatura
  BY <1>1, Atual DEF Agendar, Em, Coerente, SemDono
<1>3. fatura' \in [Fatura -> FaturaT] /\ Conserva
  BY <1>1, <1>2, CancelaTipo DEF Agendar
<1>4. assin' \in [Assinatura -> AssinaturaT]
  BY <1>1, <1>2, AssinTipo DEF Agendar
<1> QED BY <1>3, <1>4, Resto, Termina DEF Agendar

LEMMA DesistirIInv == ASSUME IInv, NEW r \in Req, Desistir(r) PROVE IInv'
<1>1. PICK p \in Handler : p = req[r]
  BY Atual
<1>2. p.a \in Assinatura
  BY <1>1, Atual DEF Desistir, Em, Coerente, SemDono
<1>3. fatura' \in [Fatura -> FaturaT] /\ Conserva
  BY <1>1, <1>2, CancelaTipo DEF Desistir
<1>4. assin' \in [Assinatura -> AssinaturaT]
  BY <1>1, <1>2, AssinTipo DEF Desistir, StatusAssinatura
<1> QED BY <1>3, <1>4, Resto, Termina DEF Desistir

LEMMA MudarNoMpIInv == ASSUME IInv, NEW r \in Req, MudarNoMp(r) PROVE IInv'
<1>1. PICK p \in Handler : p = req[r]
  BY Atual
<1>2. p.pc \in {"para", "retoma"} /\ Coerente(p) /\ p.a \in Assinatura /\ p.mp \in StatusPreapproval
  BY <1>1, Atual DEF MudarNoMp, Coerente, SemDono, Handler
<1>3. UNCHANGED <<fatura, licAte, mercado, hoje>>
  BY DEF MudarNoMp
<1>4. assin' \in [Assinatura -> AssinaturaT]
  BY <1>1, <1>2, AssinTipo DEF MudarNoMp
<1>5. CASE Segue(r, Livre)
  BY <1>3, <1>4, <1>5, MesmaFatura, Resto, Termina
<1>6. CASE Segue(r, [p EXCEPT !.pc = p.volta])
  <2> DEFINE q == [p EXCEPT !.pc = p.volta]
  <2>1. q \in Handler /\ Coerente(q)
    BY <1>2, <1>6 DEF Handler, Coerente, SemDono, Pagando
  <2>2. Segue(r, q)
    BY <1>6
  <2> HIDE DEF q
  <2> QED BY <1>3, <1>4, <2>1, <2>2, MesmaFatura, Resto, Escreve
<1> QED BY <1>1, <1>5, <1>6 DEF MudarNoMp

\* A new subscription.
LEMMA NovaAssinTipo == ASSUME IInv PROVE Nova \in AssinaturaT
<1>1. hoje \in Nat
  BY BoundsAssumption DEF IInv, TypeOK
<1>2. hoje + Periodo \in Nat
  BY <1>1, PeriodoAssumption
<1> QED BY <1>2 DEF Nova, SemAssinatura, AssinaturaT, StatusAssinatura, StatusPreapproval

LEMMA CriarAssinaturaIInv == ASSUME IInv, NEW r \in Req, CriarAssinatura(r) PROVE IInv'
<1>1. PICK a \in Assinatura, f \in Fatura :
        /\ NovaFatura(f) /\ assin' = [assin EXCEPT ![a] = Nova]
        /\ fatura' = [fatura EXCEPT ![f] = Pendente(a, hoje)]
        /\ Segue(r, IF req[r].sim THEN [Livre EXCEPT !.pc = "abre", !.a = a, !.f = f] ELSE Livre)
  BY DEF CriarAssinatura
<1>2. UNCHANGED <<licAte, mercado, hoje>> /\ hoje \in Nat
  BY BoundsAssumption DEF CriarAssinatura, IInv, TypeOK
<1>3. /\ fatura' \in [Fatura -> FaturaT] /\ Conserva
      /\ fatura'[f].assin = a
  BY <1>1, <1>2, NovaTipo DEF NovaFatura
<1>4. assin' \in [Assinatura -> AssinaturaT]
  BY <1>1, NovaAssinTipo DEF IInv, TypeOK, AssinaturaT
<1>5. CASE Segue(r, Livre)
  BY <1>2, <1>3, <1>4, <1>5, Resto, Termina
<1>6. CASE Segue(r, [Livre EXCEPT !.pc = "abre", !.a = a, !.f = f])
  <2> DEFINE q == [Livre EXCEPT !.pc = "abre", !.a = a, !.f = f]
  <2>1. /\ q \in Handler /\ q.pc = "abre" /\ q.volta = "livre" /\ q.a = a /\ q.f = f
        /\ q.c = Nenhuma /\ q.abertas = {}
    BY LivreTipo DEF Livre, Handler, Pc
  <2>2. Segue(r, q)
    BY <1>6
  <2> HIDE DEF q
  <2>3. Coerente(q)'
    BY <1>3, <2>1 DEF Coerente, SemDono, Pagando
  <2> QED BY <1>2, <1>3, <1>4, <2>1, <2>2, <2>3, Resto, EscreveLinha
<1> QED BY <1>1, <1>5, <1>6

LEMMA PedirIInv == ASSUME IInv, NEW r \in Req, Pedir(r) PROVE IInv'
<1>1. PICK p \in Handler : p = req[r]
  BY Atual
<1>2. p.pc = "pede" /\ Coerente(p) /\ UNCHANGED <<licAte, mercado, hoje>> /\ hoje \in Nat
  BY <1>1, Atual, BoundsAssumption DEF Pedir, Em, IInv, TypeOK
<1> DEFINE S == {a \in Vivas : ~Paga(a)}
           F == UNION {AbertasDa(b) : b \in S}
<1>3. PICK a \in Assinatura, f \in Fatura :
        /\ NovaFatura(f)
        /\ assin' = [b \in Assinatura |->
                       IF b = a THEN Nova
                       ELSE IF b \in S THEN [assin[b] EXCEPT !.status = "CANCELADA"] ELSE assin[b]]
        /\ fatura' = [MudaFaturas(F, "CANCELADA") EXCEPT ![f] = Pendente(a, hoje)]
        /\ Segue(r, [p EXCEPT !.pc = IF p.velha = Nenhuma THEN "cartao" ELSE "solta",
                       !.volta = "desiste", !.a = a])
  BY <1>1 DEF Pedir
<1>4. assin' \in [Assinatura -> AssinaturaT]
  BY <1>3, NovaAssinTipo DEF IInv, TypeOK, AssinaturaT, StatusAssinatura
<1>5. \A g \in F : g \in Fatura /\ fatura[g].assin \in Assinatura
  BY DEF AbertasDa, Vivas
<1> HIDE DEF F
<1>6. Pendente(a, hoje) \in FaturaT /\ Pendente(a, hoje).assin = a
      /\ Pendente(a, hoje).cobranca = Nenhuma /\ Pendente(a, hoje).status = "PENDENTE"
  BY <1>2 DEF Pendente, SemFatura, FaturaT, StatusFatura
<1>7. \A g \in Fatura \ {f} : fatura'[g] = IF g \in F THEN [fatura[g] EXCEPT !.status = "CANCELADA"]
                                          ELSE fatura[g]
  BY <1>3 DEF MudaFaturas
<1>8. fatura'[f] = Pendente(a, hoje) /\ fatura[f].status = "INEXISTENTE"
  BY <1>3 DEF MudaFaturas, NovaFatura
<1>9. ASSUME NEW g \in Fatura \ {f}
      PROVE  /\ fatura'[g] \in FaturaT /\ fatura'[g].assin = fatura[g].assin
             /\ fatura'[g].cobranca = fatura[g].cobranca
             /\ fatura'[g].status = IF g \in F THEN "CANCELADA" ELSE fatura[g].status
  BY <1>7 DEF IInv, TypeOK, FaturaT, StatusFatura
<1>10. Conserva
  BY <1>5, <1>6, <1>8, <1>9 DEF Conserva, IInv, Linhas
<1>11. fatura' \in [Fatura -> FaturaT]
  <2>1. \A g \in Fatura : fatura'[g] \in FaturaT
    BY <1>6, <1>8, <1>9
  <2> QED BY <2>1, <1>3 DEF MudaFaturas
<1> DEFINE pc == IF p.velha = Nenhuma THEN "cartao" ELSE "solta"
           q == [p EXCEPT !.pc = pc, !.volta = "desiste", !.a = a]
<1>12. pc \in {"cartao", "solta"} /\ (pc = "solta" => p.velha \in Assinatura) /\ Segue(r, q)
  BY <1>3 DEF Handler
<1> HIDE DEF pc
<1>13. q \in Handler /\ Coerente(q)
  BY <1>2, <1>12 DEF Handler, Coerente, Pc, SemDono, Pagando
<1> HIDE DEF q
<1> QED BY <1>2, <1>4, <1>10, <1>11, <1>12, <1>13, Resto, Escreve

LEMMA SoltarNoMpIInv == ASSUME IInv, NEW r \in Req, SoltarNoMp(r) PROVE IInv'
<1>1. PICK p \in Handler : p = req[r]
  BY Atual
<1>2. p.pc = "solta" /\ Coerente(p) /\ p.velha \in Assinatura
  BY <1>1, Atual DEF SoltarNoMp, Em, Coerente
<1>3. assin[p.velha].mp \in StatusPreapproval /\ "cancelled" \in StatusPreapproval
  BY <1>2 DEF IInv, TypeOK, StatusPreapproval
<1>4. assin' \in [Assinatura -> AssinaturaT]
  BY <1>1, <1>2, <1>3, AssinTipo DEF SoltarNoMp
<1> DEFINE q == [p EXCEPT !.pc = "cartao", !.velha = Nenhuma]
<1>5. q \in Handler /\ Coerente(q) /\ Segue(r, q)
  BY <1>1, <1>2 DEF SoltarNoMp, Handler, Coerente, Pc, SemDono, Pagando
<1> HIDE DEF q
<1> QED BY <1>4, <1>5, MesmaFatura, Resto, Escreve DEF SoltarNoMp

LEMMA CadastrarCartaoIInv == ASSUME IInv, NEW r \in Req, CadastrarCartao(r) PROVE IInv'
<1>1. PICK p \in Handler : p = req[r]
  BY Atual
<1>2. /\ p.pc = "cartao" /\ Coerente(p) /\ p.a \in Assinatura
      /\ UNCHANGED <<fatura, licAte, mercado, hoje>>
  BY <1>1, Atual DEF CadastrarCartao, Em, Coerente, SemDono
<1>3. assin' \in [Assinatura -> AssinaturaT]
  BY <1>1, <1>2, AssinTipo DEF CadastrarCartao, StatusPreapproval
<1> DEFINE q == [p EXCEPT !.pc = "desiste"]
<1>4. q \in Handler /\ Coerente(q)
  BY <1>2 DEF Handler, Coerente, Pc, SemDono, Pagando
<1>5. Segue(r, q) \/ Segue(r, Livre)
  BY <1>1 DEF CadastrarCartao
<1> HIDE DEF q
<1> QED BY <1>2, <1>3, <1>4, <1>5, LivreTipo, MesmaFatura, Resto, Escreve

LEMMA RenovarIInv == ASSUME IInv, NEW r \in Req, Renovar(r) PROVE IInv'
<1>1. PICK p \in Handler : p = req[r]
  BY Atual
<1>2. p.a \in Assinatura /\ p.fim \in Nat
  BY <1>1, Atual DEF Renovar, Em, Coerente, SemDono, Handler
<1>3. licAte' \in [Assinatura -> Nat]
  BY <1>1, <1>2 DEF Renovar, IInv, TypeOK
<1>4. UNCHANGED <<assin, fatura, cobr, hoje>> /\ Segue(r, Livre) /\ pendente' \subseteq CobrancaMp
  BY DEF Renovar, Responde, IInv, TypeOK
<1>5. assin' \in [Assinatura -> AssinaturaT]
  BY <1>2, <1>4, AssinTipo
<1> QED BY <1>3, <1>4, <1>5, MesmaFatura, Termina

\* An invoice is created at the end of the period a handler read, or none is.
LEMMA FaturaSeguinte ==
  ASSUME IInv, NEW a \in Assinatura, NEW fim \in Nat,
         \/ UNCHANGED fatura
         \/ \E g \in Fatura : NovaFatura(g) /\ fatura' = [fatura EXCEPT ![g] = Pendente(a, fim)]
  PROVE  fatura' \in [Fatura -> FaturaT] /\ Conserva
  BY MesmaFatura, NovaTipo DEF NovaFatura

LEMMA ReativarIInv == ASSUME IInv, NEW r \in Req, Reativar(r) PROVE IInv'
<1>1. PICK p \in Handler : p = req[r]
  BY Atual
<1>2. p.a \in Assinatura /\ p.fim \in Nat
  BY <1>1, Atual DEF Reativar, Em, Coerente, SemDono, Handler
<1>3. fatura' \in [Fatura -> FaturaT] /\ Conserva
  BY <1>1, <1>2, FaturaSeguinte DEF Reativar
<1>4. assin' \in [Assinatura -> AssinaturaT]
  BY <1>1, <1>2, AssinTipo DEF Reativar
<1>5. UNCHANGED <<licAte, mercado, hoje>> /\ Segue(r, Livre)
  BY DEF Reativar
<1> QED BY <1>3, <1>4, <1>5, Resto, Termina

\* processarAssinatura.
LEMMA EspelharIInv ==
  ASSUME IInv, NEW r \in Req, EspelharFim(r) \/ EspelharPausa(r) \/ EspelharRetomada(r)
  PROVE  IInv'
<1>1. PICK p \in Handler : p = req[r]
  BY Atual
<1>2. /\ p.a \in Assinatura /\ p.fim \in Nat /\ p.abertas \in SUBSET Fatura
      /\ \A f \in p.abertas : fatura[f].assin \in Assinatura
  BY <1>1, Atual DEF EspelharFim, EspelharPausa, EspelharRetomada, Em, Coerente, SemDono, Handler
<1>3. fatura' \in [Fatura -> FaturaT] /\ Conserva
  <2>1. CASE EspelharFim(r) \/ EspelharPausa(r)
    BY <1>1, <1>2, <2>1, MudaTipo DEF EspelharFim, EspelharPausa
  <2>2. CASE EspelharRetomada(r)
    BY <1>1, <1>2, <2>2, FaturaSeguinte DEF EspelharRetomada
  <2> QED BY <2>1, <2>2
<1>4. assin' \in [Assinatura -> AssinaturaT]
  BY <1>1, <1>2, AssinTipo DEF EspelharFim, EspelharPausa, EspelharRetomada, StatusAssinatura
<1>5. UNCHANGED <<licAte, mercado, hoje>> /\ Segue(r, Livre)
  BY DEF EspelharFim, EspelharPausa, EspelharRetomada
<1> QED BY <1>3, <1>4, <1>5, Resto, Termina

-----------------------------------------------------------------------------
(* The payment, and what is not a handler *)

\* The transaction of registrarPagamento: the index keeps the charge unique, and the handler
\* carries one that was approved.
LEMMA RegistrarIInv == ASSUME IInv, NEW r \in Req, Registrar(r) PROVE IInv'
<1>1. PICK p \in Handler : p = req[r]
  BY Atual
<1>2. /\ p.pc = "registra" /\ Coerente(p) /\ p.a \in Assinatura /\ p.f \in Fatura /\ p.fim \in Nat
      /\ Unica(p.c, p.f) /\ UNCHANGED <<licAte, mercado, hoje>>
  BY <1>1, Atual DEF Registrar, Em, Coerente, SemDono, Handler
<1>3. fatura[p.f].assin = p.a /\ p.f # Nenhuma
  BY <1>2, NenhumaAssumption DEF Coerente, Fatura
<1>4. p.c # Nenhuma => p.c \in CobrancaMp /\ cobr[p.c].assin = p.a /\ cobr[p.c].aprovada
  BY <1>2 DEF Coerente, Pagando, Handler
<1> DEFINE c == IF p.c = Nenhuma THEN fatura[p.f].cobranca ELSE p.c
           paga == [fatura EXCEPT ![p.f].status = "PAGA",
                      ![p.f].cobranca = IF p.c = Nenhuma THEN @ ELSE p.c]
<1>5. c \in CobrancaMp \cup {Nenhuma}
  BY <1>2, <1>4 DEF IInv, TypeOK
<1>6. \A f \in Fatura : fatura[f] \in FaturaT
  BY DEF IInv, TypeOK, FaturaT
<1>7. /\ paga \in [Fatura -> FaturaT]
      /\ paga[p.f].assin = p.a /\ paga[p.f].cobranca = c /\ paga[p.f].status = "PAGA"
      /\ \A f \in Fatura \ {p.f} : paga[f] = fatura[f]
  BY <1>2, <1>3, <1>5, <1>6 DEF IInv, TypeOK, FaturaT, StatusFatura
<1>8. PICK g \in Fatura \cup {Nenhuma} :
        \/ g = Nenhuma /\ fatura' = paga
        \/ NovaFatura(g) /\ g # Nenhuma /\ fatura' = [paga EXCEPT ![g] = Pendente(p.a, p.fim)]
  BY <1>1, NenhumaAssumption DEF Registrar, Fatura
<1> HIDE DEF paga, c
<1>9. fatura[p.f].status # "INEXISTENTE"
  BY <1>2, <1>3 DEF IInv, Linhas
<1>10. g # Nenhuma => g \in Fatura /\ g # p.f /\ fatura[g].status = "INEXISTENTE"
  BY <1>8, <1>9 DEF NovaFatura
<1>11. /\ Pendente(p.a, p.fim) \in FaturaT /\ Pendente(p.a, p.fim).assin = p.a
       /\ Pendente(p.a, p.fim).cobranca = Nenhuma /\ Pendente(p.a, p.fim).status = "PENDENTE"
  BY <1>2 DEF Pendente, SemFatura, FaturaT, StatusFatura
<1>12. fatura'[p.f] = paga[p.f] /\ fatura' \in [Fatura -> FaturaT]
  BY <1>2, <1>7, <1>8, <1>10, <1>11
<1>13. \A f \in Fatura \ {p.f} : fatura'[f] = IF f = g THEN Pendente(p.a, p.fim) ELSE fatura[f]
  <2>1. CASE g = Nenhuma
    BY <1>7, <1>8, <2>1, NenhumaAssumption DEF Fatura
  <2>2. CASE g # Nenhuma
    BY <1>7, <1>8, <1>10, <2>2
  <2> QED BY <2>1, <2>2
<1>14. UNCHANGED <<cobr, pendente>>
  BY <1>2 DEF mercado
<1>15. DonosFicam /\ Linhas'
  <2>1. ASSUME NEW f \in Fatura
        PROVE  /\ fatura[f].assin \in Assinatura => fatura'[f].assin = fatura[f].assin
               /\ fatura'[f].assin \in Assinatura <=> fatura'[f].status # "INEXISTENTE"
    <3>1. CASE f = p.f
      BY <3>1, <1>2, <1>3, <1>7, <1>12
    <3>2. CASE f # p.f /\ f = g
      BY <3>2, <1>2, <1>10, <1>11, <1>13, NenhumaAssumption DEF IInv, Linhas, Fatura
    <3>3. CASE f # p.f /\ f # g
      BY <3>3, <1>13 DEF IInv, Linhas
    <3> QED BY <3>1, <3>2, <3>3
  <2> QED BY <2>1, <1>14 DEF DonosFicam, Linhas
<1>16. c # Nenhuma => \A f \in Fatura \ {p.f} : fatura[f].cobranca # c
  BY <1>2 DEF c, Unica, IInv, CobrancaUnica
<1>17. CobrancaUnica'
  BY <1>7, <1>11, <1>12, <1>13, <1>16 DEF CobrancaUnica, IInv
<1>18. c # Nenhuma => cobr[c].aprovada /\ cobr[c].assin = p.a
  BY <1>2, <1>3, <1>4 DEF c, IInv, CobrancaAprovada
<1>19. CobrancaAprovada'
  BY <1>7, <1>11, <1>12, <1>13, <1>14, <1>18 DEF CobrancaAprovada, IInv
<1>20. assin' \in [Assinatura -> AssinaturaT]
  <2>1. assin' = [assin EXCEPT ![p.a].status = "ATIVA", ![p.a].fim = p.fim]
    BY <1>1 DEF Registrar
  <2> QED BY <1>2, <2>1 DEF IInv, TypeOK, AssinaturaT, StatusAssinatura
<1> DEFINE q == [p EXCEPT !.pc = "renova"]
<1>21. q \in Handler /\ Coerente(q) /\ Segue(r, q)
  BY <1>1, <1>2 DEF Registrar, Handler, Coerente, Pc, SemDono, Pagando
<1> HIDE DEF q
<1>22. req' \in [Req -> Handler] /\ HandlersCoerentes'
  BY <1>15, <1>21, CoerenteFica, Move
<1>23. TypeOK'
  BY <1>2, <1>12, <1>14, <1>20, <1>22 DEF IInv, TypeOK, AssinaturaT, FaturaT
<1> QED BY <1>15, <1>17, <1>19, <1>22, <1>23 DEF IInv

\* What handlers carry survives what is not a handler.
LEMMA HandlersFicam ==
  ASSUME IInv, DonosFicam, UNCHANGED req
  PROVE  HandlersCoerentes'
<1>1. ASSUME NEW s \in Req PROVE Coerente(req[s])'
  <2>1. PICK v \in Handler : v = req[s] /\ Coerente(v)
    BY Atual
  <2>2. Coerente(v)'
    BY <2>1, CoerenteFica
  <2> QED BY <2>1, <2>2 DEF Coerente
<1> QED BY <1>1 DEF HandlersCoerentes

\* A charge, or another attempt of one that was refused.
LEMMA MpCobraIInv ==
  ASSUME IInv, NEW c \in CobrancaMp, NEW a \in Assinatura, NEW ok \in BOOLEAN, MpCobra(c, a, ok)
  PROVE  IInv'
<1>1. /\ cobr' = [cobr EXCEPT ![c] = [assin |-> a, aprovada |-> ok, dia |-> hoje]]
      /\ UNCHANGED <<banco, hoje, req>> /\ hoje \in Nat
  BY BoundsAssumption DEF MpCobra, IInv, TypeOK
<1>2. cobr[c].assin \notin Assinatura \/ (cobr[c].assin = a /\ ~cobr[c].aprovada)
  BY NenhumaAssumption DEF MpCobra, SemCobranca, Assinatura
<1>3. ~cobr[c].aprovada
  BY DEF MpCobra, SemCobranca
<1>4. /\ cobr'[c].assin = a /\ cobr'[c].aprovada = ok
      /\ \A d \in CobrancaMp \ {c} : cobr'[d] = cobr[d]
  BY <1>1 DEF IInv, TypeOK
<1>5. DonosFicam
  BY <1>1, <1>2, <1>4 DEF DonosFicam, banco
<1>6. Linhas' /\ CobrancaUnica'
  BY <1>1 DEF IInv, Linhas, CobrancaUnica, banco
<1>7. \A f \in Fatura : fatura[f].cobranca # c
  BY <1>3, NenhumaAssumption DEF IInv, CobrancaAprovada
<1>8. CobrancaAprovada'
  <2>1. \A f \in Fatura : fatura[f].cobranca \in CobrancaMp \cup {Nenhuma}
    BY DEF IInv, TypeOK
  <2> QED BY <1>1, <1>4, <1>7, <2>1 DEF IInv, CobrancaAprovada, banco
<1>9. TypeOK'
  BY <1>1 DEF MpCobra, IInv, TypeOK, banco
<1> QED BY <1>1, <1>5, <1>6, <1>8, <1>9, HandlersFicam DEF IInv

\* MP's site, the calendar, and a stutter.
LEMMA OutrosIInv ==
  ASSUME IInv,
         \/ \E a \in Assinatura, s \in StatusPreapproval : MpMuda(a, s)
         \/ PassarDia
         \/ UNCHANGED vars
  PROVE  IInv'
<1>1. UNCHANGED <<fatura, licAte, cobr, pendente, req>>
  BY DEF MpMuda, PassarDia, vars, banco, mercado
<1>2. DonosFicam /\ Linhas' /\ CobrancaUnica' /\ CobrancaAprovada'
  BY <1>1 DEF DonosFicam, IInv, Linhas, CobrancaUnica, CobrancaAprovada
<1>3. assin' \in [Assinatura -> AssinaturaT] /\ hoje' \in 0 .. UltimoDia
  <2>1. CASE \E a \in Assinatura, s \in StatusPreapproval : MpMuda(a, s)
    BY <2>1, AssinTipo DEF MpMuda, IInv, TypeOK
  <2>2. CASE PassarDia
    BY <2>2, BoundsAssumption DEF PassarDia, banco, IInv, TypeOK, AssinaturaT
  <2>3. CASE UNCHANGED vars
    BY <2>3 DEF vars, IInv, TypeOK, AssinaturaT
  <2> QED BY <2>1, <2>2, <2>3
<1>4. TypeOK'
  BY <1>1, <1>3 DEF IInv, TypeOK, AssinaturaT
<1> QED BY <1>1, <1>2, <1>4, HandlersFicam DEF IInv

\* Every step keeps the invariant.
LEMMA NextIInv == IInv /\ [Next]_vars => IInv'
<1> SUFFICES ASSUME IInv, [Next]_vars PROVE IInv'
  OBVIOUS
<1>1. CASE UNCHANGED vars
  BY <1>1, OutrosIInv
<1>2. CASE Ambiente
  BY <1>2, MpCobraIInv, OutrosIInv DEF Ambiente
<1>3. ASSUME NEW r \in Req, Comecar(r) PROVE IInv'
  BY <1>3, AbrirCriarIInv, AbrirAssinarIInv, AbrirCancelarIInv, AbrirCancelarPainelIInv,
     AbrirReativarIInv, LerPreapprovalIInv, LerCobrancaIInv, MarcarFaturaPagaIInv, LerVencidasIInv
     DEF Comecar
<1>4. ASSUME NEW r \in Req, Passo(r) PROVE IInv'
  BY <1>4, CriarAssinaturaIInv, PedirIInv, SoltarNoMpIInv, CadastrarCartaoIInv, ConferirIInv,
     CriarFaturaIInv, AbrirFaturaIInv, RegistrarIInv, RenovarIInv, FalharIInv, VencerIInv,
     MudarNoMpIInv, CancelarFaturasIInv, EncerrarIInv, EncerrarLicencaIInv, AgendarIInv,
     DesistirIInv, ReativarIInv, LerAssinaturaIInv, EspelharIInv, EspelharNadaIInv
     DEF Passo
<1>5. ASSUME NEW r \in Req, Falhar(r) PROVE IInv'
  BY <1>5, FalharIInv
<1> QED BY <1>1, <1>2, <1>3, <1>4, <1>5 DEF Next

-----------------------------------------------------------------------------
\* The invariant holds in every behaviour, for any number of rows, charges and handlers.
THEOREM InvarianteCobranca == Spec => []IInv
  BY InitIInv, NextIInv, PTL DEF Spec

\* Rows, charges and handlers keep their types.
THEOREM TiposCobranca == Spec => []TypeOK
<1>1. IInv => TypeOK
  BY DEF IInv
<1> QED BY <1>1, InvarianteCobranca, PTL

\* However notifications are repeated, race and fail, a charge of MP is on one invoice at most.
THEOREM CobrancaEmUmaFatura == Spec => []CobrancaUnica
<1>1. IInv => CobrancaUnica
  BY DEF IInv
<1> QED BY <1>1, InvarianteCobranca, PTL

\* The charge on an invoice was approved and belongs to the invoice's subscription.
THEOREM SoCobrancaAprovada == Spec => []CobrancaAprovada
<1>1. IInv => CobrancaAprovada
  BY DEF IInv
<1> QED BY <1>1, InvarianteCobranca, PTL

\* The two together: MP's money pays one period, of the subscription it was charged for.
THEOREM CobrancaSempreCerta == Spec => []CobrancaCerta
<1>1. IInv => CobrancaCerta
  BY DEF IInv, CobrancaCerta
<1> QED BY <1>1, InvarianteCobranca, PTL

-----------------------------------------------------------------------------
(* One handler at a time. *)

SemLinhas == \A f \in Fatura : fatura[f].status # "INEXISTENTE"
Existe(a) == assin[a].status # "INEXISTENTE"

\* What the handler in flight knows of the rows it is about to write.
Certo(q) ==
  /\ q.pc \notin SemDono => Existe(q.a)
  /\ q.pc = "solta" => Existe(q.velha)
  /\ q.pc = "pede" /\ q.velha # Nenhuma => Existe(q.velha)
  /\ q.pc = "criaAssin" => Vivas = {}
  /\ q.pc = "pede" => \A a \in Vivas : ~Paga(a)
  /\ q.pc \in {"solta", "cartao", "para"} /\ q.volta = "desiste" => ~Paga(q.a)
  /\ q.pc = "desiste" => ~Paga(q.a)
  /\ q.pc = "para" => q.volta \in {"faturas", "agenda", "desiste"}
  /\ q.pc = "retoma" => q.volta = "reativa"
  /\ q.pc = "confere" => /\ q.f = Nenhuma => AbertasDa(q.a) = {}
                         /\ q.f # Nenhuma => Aberta(q.f)
                         /\ q.sim <=> Viva(q.a)
  /\ q.pc = "cria" => AbertasDa(q.a) = {}
  /\ q.pc \in {"abre", "registra"} => Aberta(q.f)
  /\ q.pc \in {"cria", "abre", "registra", "renova"} => Viva(q.a)
  /\ q.pc = "registra" => (q.agendada <=> assin[q.a].agendada)
  /\ q.pc \in {"cria", "abre", "registra"} /\ q.c # Nenhuma => \A f \in Fatura : fatura[f].cobranca # q.c
  /\ q.pc = "renova" => Paga(q.a) /\ q.fim = assin[q.a].fim
  /\ q.pc = "renova" /\ q.c # Nenhuma => \E f \in Fatura : fatura[f].cobranca = q.c
  /\ q.pc = "vence" => \A f \in q.abertas : fatura[f].status = "PENDENTE"
  /\ q.pc = "encerra" => AbertasDa(q.a) = {}
  /\ q.pc = "licenca" => ~Viva(q.a)
  /\ q.pc \in {"retoma", "reativa"} => assin[q.a].agendada
  /\ q.pc = "espelha" => /\ q.abertas = AbertasDa(q.a)
                         /\ q.sim <=> Paga(q.a)
                         /\ q.agendada <=> assin[q.a].agendada

\* Invoices and charges belong to subscriptions that exist.
Existem ==
  /\ \A f \in Fatura : fatura[f].assin \in Assinatura => Existe(fatura[f].assin)
  /\ \A c \in CobrancaMp : cobr[c].aprovada => cobr[c].assin \in Assinatura
  /\ \A c \in CobrancaMp : cobr[c].assin \in Assinatura => Existe(cobr[c].assin)
  /\ \A a \in Assinatura : assin[a].mp # "manual" => Existe(a)

UmaViva == \A a, b \in Vivas : a = b

CobradaPaga == \A f \in Fatura : fatura[f].cobranca # Nenhuma => fatura[f].status = "PAGA"

Respondidas == \A c \in CobrancaMp : cobr[c].aprovada /\ c \notin pendente =>
  (\E f \in Fatura : fatura[f].cobranca = c) \/ ~Viva(cobr[c].assin)

AbertaUnica ==
  ~sobrou => \A f, g \in Fatura : Aberta(f) /\ Aberta(g) /\ fatura[f].assin = fatura[g].assin => f = g

\* What does not renew has no open invoice, but one that q is paying.
NaoRenova(q) ==
  ~sobrou => \A a \in Assinatura :
    assin[a].agendada => AbertasDa(a) = {} \/ SemLinhas \/ (q.pc \in {"abre", "registra"} /\ q.a = a)

\* The licence says what was paid, but for what q is about to write.
Licenciada(q) ==
  ~falhou => \A a \in Assinatura :
    /\ Viva(a) /\ Paga(a) => licAte[a] = assin[a].fim \/ (q.pc = "renova" /\ q.a = a)
    /\ ~Viva(a) => licAte[a] = 0 \/ (q.pc = "licenca" /\ q.a = a)
    /\ ~Paga(a) => licAte[a] = 0

Estado == Existem /\ UmaViva /\ CobradaPaga /\ Respondidas /\ AbertaUnica
Bom(q) == Estado /\ Certo(q) /\ NaoRenova(q) /\ Licenciada(q)

Sequencial ==
  /\ \A r, s \in Req : Em(r, "livre") \/ Em(s, "livre") \/ r = s
  /\ (\A r \in Req : Em(r, "livre")) => Bom(Livre)
  /\ \A r \in Req : Em(r, "livre") \/ Bom(req[r])

SInv == IInv /\ (~juntos => Sequencial)

\* The step that is taken, as the specification without the history sees it.
LEMMA PassoDeNext == NextCobranca => Next
<1> SUFFICES ASSUME NextCobranca PROVE Next
  OBVIOUS
<1>1. CASE NextUm
  BY <1>1 DEF NextUm, Next
<1>2. CASE NextJuntos
  BY <1>2 DEF NextJuntos, ComecarJunto, Comecar, Ambiente, Next
<1> QED BY <1>1, <1>2 DEF NextCobranca

\* An idle handler needs nothing: what holds for one holds for another.
OciososIguais == \A u, v : u.pc = "livre" /\ v.pc = "livre" /\ Bom(u) => Bom(v)
LEMMA BomLivre == OciososIguais
  BY DEF OciososIguais, Bom, Certo, NaoRenova, Licenciada, SemDono

\* With the others idle, what holds for the handler that moves is the whole of the invariant.
LEMMA Pousa ==
  ASSUME IInv, NEW r \in Req, Sozinho(r), NEW q, Segue(r, q), Bom(q)'
  PROVE  Sequencial'
<1>1. req \in [Req -> Handler]
  BY DEF IInv, TypeOK
<1>2. req'[r] = q /\ \A s \in Req \ {r} : req'[s] = req[s] /\ req[s].pc = "livre"
  BY <1>1 DEF Segue, Sozinho, Em
<1>3. \A s, t \in Req : Em(s, "livre")' \/ Em(t, "livre")' \/ s = t
  BY <1>2 DEF Em
<1>4. \A s \in Req : Em(s, "livre")' \/ Bom(req[s])'
  BY <1>2 DEF Em
<1>5. ASSUME \A s \in Req : Em(s, "livre")' PROVE Bom(Livre)'
  <2>1. q.pc = "livre" /\ Livre.pc = "livre"
    BY <1>2, <1>5 DEF Em, Livre
  <2>2. OciososIguais'
    BY BomLivre, PTL
  <2> QED BY <2>1, <2>2 DEF OciososIguais
<1> QED BY <1>3, <1>4, <1>5 DEF Sequencial

\* What is known of the handler that moves.
LEMMA Decola ==
  ASSUME Sequencial, NEW r \in Req, Sozinho(r)
  PROVE  Bom(req[r])
<1>1. CASE Em(r, "livre")
  <2>1. \A s \in Req : Em(s, "livre")
    BY <1>1 DEF Sozinho
  <2>2. Bom(Livre) /\ Livre.pc = "livre"
    BY <2>1 DEF Sequencial, Livre
  <2> QED BY <1>1, <2>2, BomLivre DEF Em, OciososIguais
<1>2. CASE ~Em(r, "livre")
  BY <1>2 DEF Sequencial
<1> QED BY <1>1, <1>2
-----------------------------------------------------------------------------
\* What the writes have in common.  Rows that exist keep their subscription, charges and
\* payments stay as they are, and a new row is of a subscription that exists.
FaturasFicam ==
  \A f \in Fatura :
    /\ fatura'[f].cobranca = fatura[f].cobranca
    /\ fatura'[f].status = "PAGA" <=> fatura[f].status = "PAGA"
    /\ fatura[f].status # "INEXISTENTE" =>
         fatura'[f].assin = fatura[f].assin /\ fatura'[f].status # "INEXISTENTE"
    /\ fatura'[f].assin = fatura[f].assin \/ Existe(fatura[f].assin)'

NadaAbre == \A f \in Fatura : Aberta(f)' => Aberta(f) /\ fatura'[f].assin = fatura[f].assin
ExistemFicam ==
  \A a \in Assinatura :
    /\ Existe(a) => Existe(a)'
    /\ assin'[a].mp = assin[a].mp \/ Existe(a)
NadaNasce == \A a \in Assinatura : Viva(a)' => Viva(a)
AssinFica ==
  \A a \in Assinatura : /\ assin'[a].status = assin[a].status
                        /\ assin'[a].fim = assin[a].fim
                        /\ assin'[a].agendada = assin[a].agendada

LEMMA MesmasLinhas ==
  ASSUME UNCHANGED fatura
  PROVE  /\ FaturasFicam /\ NadaAbre
         /\ \A a : AbertasDa(a)' = AbertasDa(a) /\ (Paga(a)' <=> Paga(a))
         /\ \A f \in Fatura : Aberta(f)' <=> Aberta(f)
         /\ SemLinhas' <=> SemLinhas
  BY DEF FaturasFicam, NadaAbre, AbertasDa, Paga, Aberta, SemLinhas

LEMMA MesmasVivas ==
  ASSUME AssinFica
  PROVE  /\ \A a \in Assinatura : (Viva(a)' <=> Viva(a)) /\ (Existe(a)' <=> Existe(a))
         /\ Vivas' = Vivas /\ NadaNasce
<1>1. \A a \in Assinatura : (Viva(a)' <=> Viva(a)) /\ (Existe(a)' <=> Existe(a))
  BY DEF AssinFica, Viva, Existe
<1> QED BY <1>1 DEF Vivas, NadaNasce

\* Paid is what was paid.
LEMMA MesmasPagas ==
  ASSUME IInv, FaturasFicam, NEW a \in Assinatura
  PROVE  Paga(a)' <=> Paga(a)
  BY DEF FaturasFicam, Paga

LEMMA ExistemDepois ==
  ASSUME IInv, Existem, FaturasFicam, ExistemFicam, UNCHANGED cobr
  PROVE  Existem'
<1>1. \A f \in Fatura : fatura'[f].assin \in Assinatura => Existe(fatura[f].assin)'
  BY DEF Existem, FaturasFicam, ExistemFicam, Existe
<1>2. \A c \in CobrancaMp : cobr'[c].aprovada => cobr'[c].assin \in Assinatura
  BY DEF Existem
<1>3. \A c \in CobrancaMp : cobr'[c].assin \in Assinatura => Existe(cobr[c].assin)'
  BY DEF Existem, ExistemFicam, Existe
<1>4. \A a \in Assinatura : assin'[a].mp # "manual" => Existe(a)'
  BY DEF Existem, ExistemFicam, Existe
<1> QED BY <1>1, <1>2, <1>3, <1>4 DEF Existem, Existe

LEMMA UmaVivaDepois == ASSUME UmaViva, NadaNasce PROVE UmaViva'
  BY DEF UmaViva, NadaNasce, Vivas

LEMMA CobradaPagaDepois == ASSUME CobradaPaga, FaturasFicam PROVE CobradaPaga'
  BY DEF CobradaPaga, FaturasFicam

LEMMA RespondidasDepois ==
  ASSUME Existem, Respondidas, FaturasFicam, UNCHANGED <<cobr, pendente>>,
         \A a \in Assinatura : Existe(a) /\ Viva(a)' => Viva(a)
  PROVE  Respondidas'
<1>1. ASSUME NEW c \in CobrancaMp, cobr[c].aprovada, c \notin pendente
      PROVE  (\E f \in Fatura : fatura'[f].cobranca = c) \/ ~Viva(cobr[c].assin)'
  <2>1. cobr[c].assin \in Assinatura /\ Existe(cobr[c].assin)
    BY <1>1 DEF Existem
  <2> QED BY <1>1, <2>1 DEF Respondidas, FaturasFicam
<1> QED BY <1>1 DEF Respondidas, Viva

LEMMA AbertaUnicaDepois ==
  ASSUME AbertaUnica, NadaAbre, sobrou => sobrou'
  PROVE  AbertaUnica'
  BY DEF AbertaUnica, NadaAbre

\* A step that neither starts a subscription nor pays keeps what is known of the rows.
LEMMA EstadoDepois ==
  ASSUME IInv, Estado, FaturasFicam, ExistemFicam, NadaNasce, AbertaUnica',
         UNCHANGED <<cobr, pendente>>
  PROVE  Estado'
  BY ExistemDepois, UmaVivaDepois, CobradaPagaDepois, RespondidasDepois
     DEF Estado, NadaNasce

LEMMA LicenciadaDepois ==
  ASSUME IInv, NEW p, Licenciada(p), NEW q, FaturasFicam, UNCHANGED licAte,
         \A a \in Assinatura : Viva(a)' /\ Paga(a) => Viva(a),
         falhou => falhou',
         \A a \in Assinatura : Viva(a) => assin'[a].fim = assin[a].fim,
         p.pc \in {"renova", "licenca"} => falhou',
         \A a \in Assinatura : Viva(a) /\ ~Viva(a)' => ~Paga(a) \/ (q.pc = "licenca" /\ q.a = a)
  PROVE  Licenciada(q)'
<1>1. \A a \in Assinatura : Paga(a)' <=> Paga(a)
  BY MesmasPagas
<1> SUFFICES ASSUME ~falhou', NEW a \in Assinatura
             PROVE  /\ Viva(a)' /\ Paga(a)' => licAte'[a] = assin'[a].fim
                    /\ ~Viva(a)' => licAte'[a] = 0 \/ (q.pc = "licenca" /\ q.a = a)
                    /\ ~Paga(a)' => licAte'[a] = 0
  BY DEF Licenciada
<1>2. /\ Viva(a) /\ Paga(a) => licAte[a] = assin[a].fim
      /\ ~Viva(a) => licAte[a] = 0
      /\ ~Paga(a) => licAte[a] = 0
  BY DEF Licenciada
<1> QED BY <1>1, <1>2

\* No invoice is opened, and what stops renewing has none.
LEMMA NaoRenovaDepois ==
  ASSUME IInv, NEW p, NaoRenova(p), NEW q, FaturasFicam, NadaAbre, sobrou => sobrou',
         \A a \in Assinatura : assin'[a].agendada => assin[a].agendada \/ AbertasDa(a)' = {},
         p.pc \in {"abre", "registra"} =>
           sobrou' \/ SemLinhas \/ ~assin[p.a].agendada \/ (q.pc \in {"abre", "registra"} /\ q.a = p.a)
  PROVE  NaoRenova(q)'
<1> SUFFICES ASSUME ~sobrou', NEW a \in Assinatura, assin'[a].agendada
             PROVE  AbertasDa(a)' = {} \/ SemLinhas' \/ (q.pc \in {"abre", "registra"} /\ q.a = a)
  BY DEF NaoRenova
<1>1. AbertasDa(a) = {} => AbertasDa(a)' = {}
  BY DEF AbertasDa, NadaAbre
<1>2. SemLinhas => SemLinhas'
  BY DEF SemLinhas, FaturasFicam
<1>3. assin[a].agendada => AbertasDa(a) = {} \/ SemLinhas \/ (p.pc \in {"abre", "registra"} /\ p.a = a)
  BY DEF NaoRenova
<1> QED BY <1>1, <1>2, <1>3

\* A step that changes what none of this reads: a handler goes on, or a row changes its status at MP.
LEMMA Parado ==
  ASSUME IInv, NEW p, Bom(p), NEW q, UNCHANGED <<fatura, licAte, cobr, pendente>>, AssinFica,
         \A a \in Assinatura : assin'[a].mp = assin[a].mp \/ Existe(a),
         falhou => falhou', sobrou => sobrou', Certo(q)',
         p.pc \in {"renova", "licenca"} => falhou',
         p.pc \in {"abre", "registra"} =>
           sobrou' \/ SemLinhas \/ ~assin[p.a].agendada \/ (q.pc \in {"abre", "registra"} /\ q.a = p.a)
  PROVE  Bom(q)'
<1>1. FaturasFicam /\ NadaAbre /\ NadaNasce
  BY MesmasLinhas, MesmasVivas
<1>2. ExistemFicam
  BY MesmasVivas DEF ExistemFicam
<1>3. AbertaUnica'
  BY <1>1, AbertaUnicaDepois DEF Bom, Estado
<1>4. Estado'
  BY <1>1, <1>2, <1>3, EstadoDepois DEF Bom
<1>5. NaoRenova(q)'
  BY <1>1, NaoRenovaDepois DEF Bom, AssinFica
<1>6. Licenciada(q)'
  <2>1. \A a \in Assinatura : assin'[a].fim = assin[a].fim /\ (Viva(a)' <=> Viva(a))
    BY MesmasVivas DEF AssinFica
  <2> QED BY <1>1, <2>1, LicenciadaDepois DEF Bom
<1> QED BY <1>4, <1>5, <1>6 DEF Bom

-----------------------------------------------------------------------------
\* The subscriptions a handler holds.
Dono(q) ==
  /\ q.pc \notin SemDono => q.a \in Assinatura
  /\ q.pc = "solta" => q.velha \in Assinatura
  /\ q.velha # Nenhuma => q.velha \in Assinatura

LEMMA DonoDepois ==
  ASSUME IInv, IInv', NEW r \in Req, NEW q, Segue(r, q)
  PROVE  Dono(q)
<1>1. req'[r] = q
  BY DEF Segue, IInv, TypeOK
<1>2. req'[r] \in Handler /\ Coerente(req[r])'
  BY DEF IInv, TypeOK, HandlersCoerentes
<1> QED BY <1>1, <1>2 DEF Dono, Coerente, Handler

\* What a handler knows, when neither invoices nor subscriptions change.
LEMMA CertoIgual ==
  ASSUME NEW q, Dono(q), Certo(q), UNCHANGED fatura, AssinFica
  PROVE  Certo(q)'
<1>1. /\ \A a : AbertasDa(a)' = AbertasDa(a) /\ (Paga(a)' <=> Paga(a))
      /\ \A f \in Fatura : Aberta(f)' <=> Aberta(f)
  BY MesmasLinhas
<1>2. Vivas' = Vivas /\ \A a \in Assinatura : (Viva(a)' <=> Viva(a)) /\ (Existe(a)' <=> Existe(a))
  BY MesmasVivas
<1>3. \A f : Aberta(f)' <=> Aberta(f)
  BY DEF Aberta
<1>4. q.pc \notin SemDono => /\ Existe(q.a)' <=> Existe(q.a)
                             /\ Viva(q.a)' <=> Viva(q.a)
                             /\ assin'[q.a].agendada = assin[q.a].agendada
                             /\ assin'[q.a].fim = assin[q.a].fim
  BY <1>2 DEF Dono, AssinFica
<1>5. Certo(q)' <=> Certo(q)
  <2>1. q.velha # Nenhuma \/ q.pc = "solta" => (Existe(q.velha)' <=> Existe(q.velha))
    BY <1>2 DEF Dono
  <2>2. CASE q.pc \in SemDono
    BY <1>1, <1>2, <1>3, <2>1, <2>2 DEF Certo, SemDono
  <2>3. CASE q.pc \notin SemDono
    BY <1>1, <1>3, <1>4, <2>1, <2>3 DEF Certo, SemDono
  <2> QED BY <2>2, <2>3
<1> QED BY <1>5

\* A handler that starts.
LEMMA Comecou ==
  ASSUME IInv, IInv', NEW r \in Req, Em(r, "livre"), Bom(req[r]), NEW q, Segue(r, q), Certo(q),
         UNCHANGED <<banco, mercado, falhou, sobrou>>
  PROVE  Bom(q)'
<1>1. AssinFica /\ UNCHANGED <<fatura, assin, licAte, cobr, pendente>>
  BY DEF banco, mercado, AssinFica
<1>2. Certo(q)'
  BY <1>1, DonoDepois, CertoIgual
<1>3. PICK p : p = req[r]
  OBVIOUS
<1>4. p.pc = "livre" /\ Bom(p)
  BY <1>3 DEF Em
<1> QED BY <1>1, <1>2, <1>4, Parado

LEMMA CertoLivre == Certo(Livre)
  BY DEF Certo, Livre, SemDono


LEMMA ComecarBom ==
  ASSUME IInv, IInv', NEW r \in Req, Bom(req[r]), Comecar(r), UNCHANGED <<falhou, sobrou>>
  PROVE  \E q : Segue(r, q) /\ Bom(q)'
<1> SUFFICES \E q : Segue(r, q) /\ Certo(q) /\ Em(r, "livre") /\ UNCHANGED <<banco, mercado>>
  BY Comecou
<1>1. CASE AbrirCriar(r)
  <2>1. PICK jaPaga \in BOOLEAN : Segue(r, [Livre EXCEPT !.pc = "criaAssin", !.sim = jaPaga])
    BY <1>1 DEF AbrirCriar
  <2>2. Certo([Livre EXCEPT !.pc = "criaAssin", !.sim = jaPaga])
    BY <1>1 DEF AbrirCriar, Certo, Livre, SemDono
  <2> QED BY <1>1, <2>1, <2>2 DEF AbrirCriar, Comeca
<1>2. CASE AbrirAssinar(r)
  <2>1. Em(r, "livre") /\ UNCHANGED <<banco, mercado>>
    BY <1>2 DEF AbrirAssinar, Comeca
  <2>2. CASE Vivas = {} /\ Segue(r, [Livre EXCEPT !.pc = "pede"])
    <3>1. Certo([Livre EXCEPT !.pc = "pede"])
      BY <2>2 DEF Certo, Livre, SemDono
    <3> QED BY <2>1, <2>2, <3>1
  <2>3. ASSUME NEW a \in Vivas, ~Paga(a),
               \/ Segue(r, [Livre EXCEPT !.pc = "pede", !.velha = IF assin[a].mp = "manual" THEN Nenhuma ELSE a])
               \/ Segue(r, [Livre EXCEPT !.pc = "cartao", !.a = a])
        PROVE  \E q : Segue(r, q) /\ Certo(q)
    <3>1. Existe(a)
      BY DEF Vivas, Viva, Existe
    <3>2. Certo([Livre EXCEPT !.pc = "cartao", !.a = a])
      BY <3>1 DEF Certo, Livre, SemDono
    <3>3. ASSUME NEW v, v = Nenhuma \/ v = a
          PROVE  Certo([Livre EXCEPT !.pc = "pede", !.velha = v])
      <4>1. \A b \in Vivas : ~Paga(b)
        BY <2>3 DEF Bom, Estado, UmaViva
      <4> QED BY <3>1, <3>3, <4>1 DEF Certo, Livre, SemDono
    <3> QED BY <2>3, <3>2, <3>3
  <2> QED BY <1>2, <2>1, <2>2, <2>3 DEF AbrirAssinar
<1>3. ASSUME NEW a \in Assinatura, AbrirCancelarPainel(r, a)
      PROVE  \E q : Segue(r, q) /\ Certo(q) /\ Em(r, "livre") /\ UNCHANGED <<banco, mercado>>
  <2> DEFINE v == IF assin[a].mp = "manual" \/ Paga(a) THEN "agenda" ELSE "desiste"
             pc == IF assin[a].mp = "manual" THEN v ELSE "para"
             mp == IF v = "agenda" THEN "paused" ELSE "cancelled"
             q == [Livre EXCEPT !.pc = pc, !.volta = v, !.a = a, !.mp = mp]
  <2>1. Segue(r, q) /\ Em(r, "livre") /\ UNCHANGED <<banco, mercado>>
    BY <1>3 DEF AbrirCancelarPainel, Comeca
  <2>2. Existe(a)
    BY <1>3 DEF AbrirCancelarPainel, MaisNova, Vivas, Viva, Existe
  <2>3. v \in {"agenda", "desiste"} /\ (v = "desiste" => ~Paga(a))
    OBVIOUS
  <2> HIDE DEF v
  <2>4. pc \in {v, "para"}
    OBVIOUS
  <2> HIDE DEF pc, mp
  <2>5. q.pc = pc /\ q.volta = v /\ q.a = a
    BY DEF Livre
  <2> HIDE DEF q
  <2>6. Certo(q)
    BY <2>2, <2>3, <2>4, <2>5 DEF Certo, SemDono
  <2> QED BY <2>1, <2>6
<1>4. ASSUME NEW a \in Assinatura, AbrirReativar(r, a)
      PROVE  \E q : Segue(r, q) /\ Certo(q) /\ Em(r, "livre") /\ UNCHANGED <<banco, mercado>>
  <2> DEFINE pc == IF assin[a].mp = "manual" THEN "reativa" ELSE "retoma"
             q == [Livre EXCEPT !.pc = pc, !.volta = "reativa", !.a = a, !.fim = assin[a].fim, !.mp = "authorized"]
  <2>1. Segue(r, q) /\ Em(r, "livre") /\ UNCHANGED <<banco, mercado>> /\ assin[a].agendada
    BY <1>4 DEF AbrirReativar, Comeca
  <2>2. Existe(a)
    BY <1>4 DEF AbrirReativar, MaisNova, Vivas, Viva, Existe
  <2>3. pc \in {"reativa", "retoma"}
    OBVIOUS
  <2> HIDE DEF pc
  <2>4. q.pc = pc /\ q.volta = "reativa" /\ q.a = a
    BY DEF Livre
  <2> HIDE DEF q
  <2>5. Certo(q)
    BY <2>1, <2>2, <2>3, <2>4 DEF Certo, SemDono
  <2> QED BY <2>1, <2>5
<1>5. ASSUME NEW a \in Assinatura, LerPreapproval(r, a)
      PROVE  \E q : Segue(r, q) /\ Certo(q) /\ Em(r, "livre") /\ UNCHANGED <<banco, mercado>>
  <2> DEFINE q == [Livre EXCEPT !.pc = "espelhaLe", !.a = a, !.mp = assin[a].mp]
  <2>1. Existe(a)
    BY <1>5 DEF LerPreapproval, Bom, Estado, Existem
  <2>2. Certo(q)
    BY <2>1 DEF Certo, Livre, SemDono
  <2>3. Segue(r, q) /\ Em(r, "livre") /\ UNCHANGED <<banco, mercado>>
    BY <1>5 DEF LerPreapproval, Comeca
  <2> HIDE DEF q
  <2> QED BY <2>2, <2>3
<1>6. ASSUME NEW a \in Assinatura, NEW agora \in BOOLEAN, AbrirCancelar(r, a, agora)
      PROVE  \E q : Segue(r, q) /\ Certo(q) /\ Em(r, "livre") /\ UNCHANGED <<banco, mercado>>
  <2> DEFINE pc == IF assin[a].mp = "manual" THEN "faturas" ELSE "para"
             mp == IF agora THEN "cancelled" ELSE "paused"
             q == [Livre EXCEPT !.pc = pc, !.volta = "faturas", !.a = a, !.sim = agora, !.mp = mp]
  <2>1. Segue(r, q) /\ Em(r, "livre") /\ UNCHANGED <<banco, mercado>>
    BY <1>6 DEF AbrirCancelar, Comeca
  <2>2. Existe(a)
    BY <1>6 DEF AbrirCancelar, Viva, Existe
  <2>3. pc \in {"faturas", "para"}
    OBVIOUS
  <2> HIDE DEF pc, mp
  <2>4. q.pc = pc /\ q.volta = "faturas" /\ q.a = a
    BY DEF Livre
  <2> HIDE DEF q
  <2>5. Certo(q)
    BY <2>2, <2>3, <2>4 DEF Certo, SemDono
  <2> QED BY <2>1, <2>5
<1>7. ASSUME NEW c \in CobrancaMp, LerCobranca(r, c)
      PROVE  \E q : Segue(r, q) /\ Certo(q) /\ Em(r, "livre") /\ UNCHANGED <<banco, mercado>>
  <2> DEFINE a == cobr[c].assin
  <2>1. PICK f \in Fatura \cup {Nenhuma} :
          /\ MaisAntiga(f, a)
          /\ Segue(r, [Livre EXCEPT !.pc = "confere", !.a = a, !.f = f, !.c = c,
                         !.fim = assin[a].fim, !.sim = Viva(a), !.aprovada = cobr[c].aprovada])
    BY <1>7 DEF LerCobranca
  <2>2. Existe(a)
    BY <1>7 DEF LerCobranca, Bom, Estado, Existem, IInv, TypeOK
  <2>3. (f = Nenhuma => AbertasDa(a) = {}) /\ (f # Nenhuma => Aberta(f))
    BY <2>1, NenhumaAssumption DEF MaisAntiga, AbertasDa, Fatura
  <2> DEFINE q == [Livre EXCEPT !.pc = "confere", !.a = a, !.f = f, !.c = c,
                     !.fim = assin[a].fim, !.sim = Viva(a), !.aprovada = cobr[c].aprovada]
  <2>4. q.pc = "confere" /\ q.a = a /\ q.f = f /\ q.c = c /\ (q.sim = Viva(a))
    BY DEF Livre
  <2>5. Segue(r, q) /\ Em(r, "livre") /\ UNCHANGED <<banco, mercado>>
    BY <1>7, <2>1 DEF LerCobranca, Comeca
  <2> HIDE DEF q
  <2>6. Certo(q)
    BY <2>2, <2>3, <2>4 DEF Certo, SemDono
  <2> QED BY <2>5, <2>6
<1>8. ASSUME NEW f \in Fatura, MarcarFaturaPaga(r, f)
      PROVE  \E q : Segue(r, q) /\ Certo(q) /\ Em(r, "livre") /\ UNCHANGED <<banco, mercado>>
  <2> DEFINE q == LePagamento(f, Livre)
  <2>1. /\ q.pc = "registra" /\ q.a = fatura[f].assin /\ q.f = f /\ q.c = Nenhuma
        /\ q.agendada = assin[fatura[f].assin].agendada
    BY DEF LePagamento, Livre
  <2>2. Segue(r, q) /\ Em(r, "livre") /\ UNCHANGED <<banco, mercado>> /\ Aberta(f) /\ Viva(fatura[f].assin)
    BY <1>8 DEF MarcarFaturaPaga, Comeca
  <2> HIDE DEF q
  <2>3. Certo(q)
    BY <2>1, <2>2 DEF Certo, SemDono, Viva, Existe
  <2> QED BY <2>2, <2>3
<1>9. CASE LerVencidas(r)
  <2> DEFINE F == {f \in Fatura : fatura[f].status = "PENDENTE" /\ fatura[f].venc < hoje}
             q == [Livre EXCEPT !.pc = "vence", !.abertas = F]
  <2>1. Certo(q)
    BY DEF Certo, Livre, SemDono
  <2>2. Segue(r, q) \/ Segue(r, Livre)
    BY <1>9 DEF LerVencidas
  <2>3. Em(r, "livre") /\ UNCHANGED <<banco, mercado>>
    BY <1>9 DEF LerVencidas, Comeca
  <2> HIDE DEF q
  <2> QED BY <2>1, <2>2, <2>3, CertoLivre
<1> QED BY <1>1, <1>2, <1>3, <1>4, <1>5, <1>6, <1>7, <1>8, <1>9 DEF Comecar

-----------------------------------------------------------------------------
\* A handler that goes on, and may have told MP something.
LEMMA Continua ==
  ASSUME IInv, IInv', NEW r \in Req, NEW p, p = req[r], Bom(p), NEW q, Segue(r, q), Certo(q),
         UNCHANGED <<fatura, licAte, mercado>>, AssinFica,
         \A a \in Assinatura : assin'[a].mp = assin[a].mp \/ Existe(a),
         falhou => falhou', sobrou => sobrou',
         p.pc \in {"renova", "licenca"} => falhou',
         p.pc \in {"abre", "registra"} =>
           sobrou' \/ SemLinhas \/ ~assin[p.a].agendada \/ (q.pc \in {"abre", "registra"} /\ q.a = p.a)
  PROVE  \E v : Segue(r, v) /\ Bom(v)'
<1>1. Certo(q)' /\ UNCHANGED <<cobr, pendente>>
  BY DonoDepois, CertoIgual DEF mercado
<1> QED BY <1>1, Parado

LEMMA BancoParado ==
  ASSUME UNCHANGED banco
  PROVE  /\ AssinFica /\ UNCHANGED <<fatura, licAte>>
         /\ \A a \in Assinatura : assin'[a].mp = assin[a].mp \/ Existe(a)
  BY DEF banco, AssinFica

LEMMA MpMudou ==
  ASSUME IInv, NEW a \in Assinatura, Existe(a), NEW s, assin' = [assin EXCEPT ![a].mp = s]
  PROVE  AssinFica /\ \A b \in Assinatura : assin'[b].mp = assin[b].mp \/ Existe(b)
  BY DEF IInv, TypeOK, AssinFica

LEMMA SoltarNoMpBom ==
  ASSUME IInv, IInv', NEW r \in Req, Bom(req[r]), SoltarNoMp(r), UNCHANGED <<falhou, sobrou>>
  PROVE  \E q : Segue(r, q) /\ Bom(q)'
<1>1. PICK p \in Handler : p = req[r]
  BY Atual
<1>2. /\ p.pc = "solta" /\ Coerente(p) /\ p.velha \in Assinatura /\ Bom(p) /\ Existe(p.velha)
      /\ UNCHANGED <<fatura, licAte, mercado>>
  BY <1>1, Atual DEF SoltarNoMp, Em, Coerente, Bom, Certo
<1>3. AssinFica /\ \A b \in Assinatura : assin'[b].mp = assin[b].mp \/ Existe(b)
  BY <1>1, <1>2, MpMudou DEF SoltarNoMp
<1> DEFINE q == [p EXCEPT !.pc = "cartao", !.velha = Nenhuma]
<1>4. Segue(r, q)
  BY <1>1 DEF SoltarNoMp
<1>5. q.pc = "cartao" /\ q.volta = p.volta /\ q.a = p.a
  BY DEF Handler
<1> HIDE DEF q
<1>6. Certo(q)
  BY <1>2, <1>5 DEF Bom, Certo, SemDono
<1> QED BY <1>1, <1>2, <1>3, <1>4, <1>6, Continua

LEMMA CadastrarCartaoBom ==
  ASSUME IInv, IInv', NEW r \in Req, Bom(req[r]), CadastrarCartao(r), UNCHANGED <<falhou, sobrou>>
  PROVE  \E q : Segue(r, q) /\ Bom(q)'
<1>1. PICK p \in Handler : p = req[r]
  BY Atual
<1>2. /\ p.pc = "cartao" /\ p.a \in Assinatura /\ Bom(p) /\ Existe(p.a)
      /\ UNCHANGED <<fatura, licAte, mercado>>
  BY <1>1, Atual DEF CadastrarCartao, Em, Coerente, Bom, Certo, SemDono
<1>3. AssinFica /\ \A b \in Assinatura : assin'[b].mp = assin[b].mp \/ Existe(b)
  <2>1. CASE assin' = [assin EXCEPT ![p.a].mp = "authorized"]
    BY <1>2, <2>1, MpMudou
  <2>2. CASE UNCHANGED assin
    BY <2>2 DEF AssinFica
  <2> QED BY <1>1, <2>1, <2>2 DEF CadastrarCartao
<1> DEFINE q == [p EXCEPT !.pc = "desiste"]
<1>4. Segue(r, Livre) \/ (Segue(r, q) /\ p.volta = "desiste")
  BY <1>1 DEF CadastrarCartao
<1>5. q.pc = "desiste" /\ q.a = p.a
  BY DEF Handler
<1> HIDE DEF q
<1>6. p.volta = "desiste" => Certo(q)
  BY <1>2, <1>5 DEF Bom, Certo, SemDono
<1> QED BY <1>1, <1>2, <1>3, <1>4, <1>6, CertoLivre, Continua

LEMMA MudarNoMpBom ==
  ASSUME IInv, IInv', NEW r \in Req, Bom(req[r]), MudarNoMp(r), UNCHANGED <<falhou, sobrou>>
  PROVE  \E q : Segue(r, q) /\ Bom(q)'
<1>1. PICK p \in Handler : p = req[r]
  BY Atual
<1>2. /\ p.pc \in {"para", "retoma"} /\ p.a \in Assinatura /\ Bom(p) /\ Existe(p.a)
      /\ UNCHANGED <<fatura, licAte, mercado>>
  BY <1>1, Atual DEF MudarNoMp, Coerente, Bom, Certo, SemDono
<1>3. AssinFica /\ \A b \in Assinatura : assin'[b].mp = assin[b].mp \/ Existe(b)
  <2>1. CASE assin' = [assin EXCEPT ![p.a].mp = p.mp]
    BY <1>2, <2>1, MpMudou
  <2>2. CASE UNCHANGED assin
    BY <2>2 DEF AssinFica
  <2> QED BY <1>1, <2>1, <2>2 DEF MudarNoMp
<1> DEFINE q == [p EXCEPT !.pc = p.volta]
<1>4. Segue(r, Livre) \/ Segue(r, q)
  BY <1>1 DEF MudarNoMp
<1>5. q.pc = p.volta /\ q.volta = p.volta /\ q.a = p.a
  BY DEF Handler
<1> HIDE DEF q
<1>6. Certo(q)
  BY <1>2, <1>5 DEF Bom, Certo, SemDono
<1> QED BY <1>1, <1>2, <1>3, <1>4, <1>6, CertoLivre, Continua

LEMMA AbrirFaturaBom ==
  ASSUME IInv, IInv', NEW r \in Req, Bom(req[r]), AbrirFatura(r), UNCHANGED <<falhou, sobrou>>
  PROVE  \E q : Segue(r, q) /\ Bom(q)'
<1>1. PICK p \in Handler : p = req[r]
  BY Atual
<1>2. /\ p.pc = "abre" /\ Bom(p) /\ Aberta(p.f) /\ Viva(p.a) /\ Existe(p.a) /\ fatura[p.f].assin = p.a
      /\ UNCHANGED <<banco, mercado>>
  BY <1>1, Atual, NenhumaAssumption DEF AbrirFatura, Em, Coerente, Bom, Certo, SemDono, Fatura
<1> DEFINE q == LePagamento(p.f, p)
<1>3. /\ q.pc = "registra" /\ q.a = p.a /\ q.f = p.f /\ q.c = p.c
      /\ q.agendada = assin[p.a].agendada
  BY <1>2 DEF LePagamento, Handler
<1>4. Segue(r, q)
  BY <1>1, <1>2 DEF AbrirFatura
<1> HIDE DEF q
<1>5. Certo(q)
  BY <1>2, <1>3 DEF Bom, Certo, SemDono
<1> QED BY <1>1, <1>2, <1>3, <1>4, <1>5, BancoParado, Continua

LEMMA LerAssinaturaBom ==
  ASSUME IInv, IInv', NEW r \in Req, Bom(req[r]), LerAssinatura(r), UNCHANGED <<falhou, sobrou>>
  PROVE  \E q : Segue(r, q) /\ Bom(q)'
<1>1. PICK p \in Handler : p = req[r]
  BY Atual
<1>2. p.pc = "espelhaLe" /\ Bom(p) /\ Existe(p.a) /\ UNCHANGED <<banco, mercado>>
  BY <1>1 DEF LerAssinatura, Em, Bom, Certo, SemDono
<1> DEFINE q == [p EXCEPT !.pc = "espelha", !.abertas = AbertasDa(p.a), !.sim = Paga(p.a),
                   !.agendada = assin[p.a].agendada, !.fim = assin[p.a].fim]
<1>3. /\ q.pc = "espelha" /\ q.a = p.a /\ q.abertas = AbertasDa(p.a) /\ q.sim = Paga(p.a)
      /\ q.agendada = assin[p.a].agendada
  BY DEF Handler
<1>4. Segue(r, q) \/ Segue(r, Livre)
  BY <1>1 DEF LerAssinatura
<1> HIDE DEF q
<1>5. Certo(q)
  BY <1>2, <1>3 DEF Certo, SemDono
<1> QED BY <1>1, <1>2, <1>4, <1>5, CertoLivre, BancoParado, Continua

LEMMA EspelharNadaBom ==
  ASSUME IInv, IInv', NEW r \in Req, Bom(req[r]), EspelharNada(r), UNCHANGED <<falhou, sobrou>>
  PROVE  \E q : Segue(r, q) /\ Bom(q)'
<1>1. PICK p : p = req[r]
  OBVIOUS
<1>2. p.pc = "espelha" /\ Bom(p) /\ UNCHANGED <<banco, mercado>> /\ Segue(r, Livre)
  BY <1>1 DEF EspelharNada, Em
<1> QED BY <1>1, <1>2, CertoLivre, BancoParado, Continua

\* A set of numbers that has one has a least one.
LEMMA MenorDeles ==
  ASSUME NEW S \in SUBSET Nat, S # {}
  PROVE  \E f \in S : \A g \in S : f <= g
<1> DEFINE R == {p \in Nat \X Nat : p[1] < p[2]}
<1>1. IsWellFoundedOn(R, Nat)
  BY Zenon, NatLessThanWellFounded DEF OpToRel
<1> HIDE DEF R
<1>2. PICK f \in S : \A g \in S : <<g, f>> \notin R
  BY <1>1, WFMin
<1>3. ASSUME NEW g \in S PROVE f <= g
  <2>1. ~(g < f)
    BY <1>2 DEF R
  <2> QED BY <2>1
<1> QED BY <1>3

\* When no row can be the next one, they all exist.
LEMMA MenorInexistente ==
  ASSUME \A f \in Fatura : ~NovaFatura(f)
  PROVE  SemLinhas
<1> SUFFICES ASSUME ~SemLinhas PROVE FALSE
  OBVIOUS
<1> DEFINE N == {f \in Fatura : fatura[f].status = "INEXISTENTE"}
<1>1. N \subseteq Nat /\ N # {}
  BY DEF SemLinhas, Fatura
<1>2. PICK f \in N : \A g \in N : f <= g
  <2> HIDE DEF N
  <2> QED BY <1>1, MenorDeles
<1>3. \A g \in 1 .. (f - 1) : g \in Fatura /\ g < f
  BY <1>2, BoundsAssumption DEF Fatura
<1>4. NovaFatura(f)
  <2>1. \A g \in 1 .. (f - 1) : fatura[g].status # "INEXISTENTE"
    <3> SUFFICES ASSUME NEW g \in 1 .. (f - 1), fatura[g].status = "INEXISTENTE" PROVE FALSE
      OBVIOUS
    <3>1. g \in N /\ g < f /\ g \in Int /\ f \in Int
      BY <1>3, <1>2 DEF Fatura
    <3> QED BY <3>1, <1>2
  <2> QED BY <1>2, <2>1 DEF NovaFatura
<1> QED BY <1>2, <1>4

\* An exception or a restart; the index, which refuses nothing here; no row left.
LEMMA FalharBom ==
  ASSUME IInv, IInv', NEW r \in Req, Bom(req[r]),
         \/ Falhar(r) /\ falhou' = TRUE /\ sobrou' = (sobrou \/ Cortada(r))
         \/ (FalharUnica(r) \/ FalharSemLinhas(r)) /\ UNCHANGED <<falhou, sobrou>>
  PROVE  \E q : Segue(r, q) /\ Bom(q)'
<1>1. PICK p : p = req[r] /\ Bom(p)
  OBVIOUS
<1>2. Segue(r, Livre) /\ UNCHANGED <<banco, mercado>>
  BY DEF Falhar, FalharUnica, FalharSemLinhas
<1>3. CASE Falhar(r) /\ falhou' = TRUE /\ sobrou' = (sobrou \/ Cortada(r))
  <2>1. p.pc \in {"abre", "registra"} => sobrou' \/ ~assin[p.a].agendada
    BY <1>1, <1>3 DEF Cortada
  <2> QED BY <1>1, <1>2, <1>3, <2>1, CertoLivre, BancoParado, Continua
<1>4. CASE FalharUnica(r)
  <2>1. p.pc = "registra" /\ ~Unica(p.c, p.f)
    BY <1>1, <1>4 DEF FalharUnica, Em
  <2> QED BY <1>1, <2>1 DEF Bom, Certo, Unica
<1>5. CASE FalharSemLinhas(r) /\ UNCHANGED <<falhou, sobrou>>
  <2>1. p.pc \notin {"renova", "licenca", "abre"}
    BY <1>1, <1>5 DEF FalharSemLinhas
  <2>2. p.pc = "registra" => SemLinhas
    BY <1>1, <1>5, MenorInexistente DEF FalharSemLinhas
  <2> QED BY <1>1, <1>2, <1>5, <2>1, <2>2, CertoLivre, BancoParado, Continua
<1> QED BY <1>3, <1>4, <1>5

-----------------------------------------------------------------------------
(* Writes that open nothing. *)

\* Open invoices of F are cancelled.
LEMMA FechaLinhas ==
  ASSUME IInv, NEW F \in SUBSET Fatura, \A f \in F : Aberta(f), fatura' = MudaFaturas(F, "CANCELADA")
  PROVE  /\ FaturasFicam /\ NadaAbre
         /\ \A f \in Fatura : Aberta(f)' <=> Aberta(f) /\ f \notin F
         /\ \A f \in Fatura : fatura'[f].assin = fatura[f].assin
<1>1. ASSUME NEW f \in Fatura
      PROVE  /\ fatura'[f].assin = fatura[f].assin /\ fatura'[f].cobranca = fatura[f].cobranca
             /\ fatura'[f].status = IF f \in F THEN "CANCELADA" ELSE fatura[f].status
  BY DEF MudaFaturas, IInv, TypeOK
<1>2. \A f \in F : fatura[f].status \in {"PENDENTE", "VENCIDA"}
  BY DEF Aberta
<1> QED BY <1>1, <1>2 DEF FaturasFicam, NadaAbre, Aberta

LEMMA FechaDela ==
  ASSUME IInv, NEW a \in Assinatura, fatura' = MudaFaturas(AbertasDa(a), "CANCELADA")
  PROVE  FaturasFicam /\ NadaAbre /\ AbertasDa(a)' = {}
<1>1. AbertasDa(a) \in SUBSET Fatura /\ \A f \in AbertasDa(a) : Aberta(f)
  BY DEF AbertasDa
<1>2. /\ FaturasFicam /\ NadaAbre
      /\ \A f \in Fatura : Aberta(f)' <=> Aberta(f) /\ f \notin AbertasDa(a)
      /\ \A f \in Fatura : fatura'[f].assin = fatura[f].assin
  BY <1>1, FechaLinhas
<1>3. \A f \in Fatura : ~(fatura'[f].assin = a /\ Aberta(f)')
  BY <1>2 DEF AbertasDa
<1> QED BY <1>2, <1>3 DEF AbertasDa

\* A subscription gets a status or a flag.
LEMMA AssinMuda ==
  ASSUME IInv, NEW a \in Assinatura, Existe(a),
         \/ UNCHANGED assin
         \/ assin' = [assin EXCEPT ![a].status = "CANCELADA"]
         \/ \E v \in BOOLEAN : assin' = [assin EXCEPT ![a].agendada = v]
  PROVE  /\ ExistemFicam /\ NadaNasce
         /\ \A b \in Assinatura : assin'[b].fim = assin[b].fim
         /\ \A b \in Assinatura \ {a} : assin'[b] = assin[b]
<1>1. assin \in [Assinatura -> AssinaturaT]
  BY DEF IInv, TypeOK, AssinaturaT
<1>2. CASE UNCHANGED assin
  BY <1>2 DEF ExistemFicam, NadaNasce, Existe, Viva
<1>3. CASE assin' = [assin EXCEPT ![a].status = "CANCELADA"]
  BY <1>1, <1>3 DEF ExistemFicam, NadaNasce, Existe, Viva, AssinaturaT
<1>4. ASSUME NEW v \in BOOLEAN, assin' = [assin EXCEPT ![a].agendada = v]
      PROVE  /\ ExistemFicam /\ NadaNasce
             /\ \A b \in Assinatura : assin'[b].fim = assin[b].fim
             /\ \A b \in Assinatura \ {a} : assin'[b] = assin[b]
  BY <1>1, <1>4 DEF ExistemFicam, NadaNasce, Existe, Viva, AssinaturaT
<1> QED BY <1>2, <1>3, <1>4

LEMMA Escreveu ==
  ASSUME IInv, NEW p, Bom(p), NEW q, Certo(q)', FaturasFicam, NadaAbre, ExistemFicam, NadaNasce,
         UNCHANGED <<licAte, cobr, pendente, falhou, sobrou>>,
         p.pc \notin {"renova", "licenca", "abre", "registra"},
         \A a \in Assinatura : assin'[a].fim = assin[a].fim,
         \A a \in Assinatura : assin'[a].agendada => assin[a].agendada \/ AbertasDa(a)' = {},
         \A a \in Assinatura : Viva(a) /\ ~Viva(a)' => ~Paga(a) \/ (q.pc = "licenca" /\ q.a = a)
  PROVE  Bom(q)'
<1>1. AbertaUnica'
  BY AbertaUnicaDepois DEF Bom, Estado
<1>2. Estado'
  BY <1>1, EstadoDepois DEF Bom
<1>3. NaoRenova(q)'
  BY NaoRenovaDepois DEF Bom
<1>4. Licenciada(q)'
  BY LicenciadaDepois DEF Bom, NadaNasce
<1> QED BY <1>2, <1>3, <1>4 DEF Bom

CertoLivreSempre == Certo(Livre)
LEMMA LivreDepois == Certo(Livre)'
<1>1. CertoLivreSempre
  BY CertoLivre DEF CertoLivreSempre
<1>2. CertoLivreSempre'
  BY <1>1, PTL
<1> QED BY <1>2 DEF CertoLivreSempre

LEMMA VencerBom ==
  ASSUME IInv, NEW r \in Req, Bom(req[r]), Vencer(r), UNCHANGED <<falhou, sobrou>>
  PROVE  \E q : Segue(r, q) /\ Bom(q)'
<1>1. PICK p \in Handler : p = req[r]
  BY Atual
<1>2. /\ p.pc = "vence" /\ Bom(p) /\ p.abertas \in SUBSET Fatura
      /\ \A f \in p.abertas : fatura[f].status = "PENDENTE"
      /\ Segue(r, Livre) /\ UNCHANGED <<licAte, mercado>>
  BY <1>1 DEF Vencer, Em, Bom, Certo, Handler
<1>3. ASSUME NEW f \in Fatura
      PROVE  /\ fatura'[f].assin = fatura[f].assin /\ fatura'[f].cobranca = fatura[f].cobranca
             /\ fatura'[f].status = IF f \in p.abertas THEN "VENCIDA" ELSE fatura[f].status
  BY <1>1, <1>2 DEF Vencer, MudaFaturas, IInv, TypeOK
<1>4. FaturasFicam /\ NadaAbre
  BY <1>2, <1>3 DEF FaturasFicam, NadaAbre, Aberta
<1>5. ASSUME NEW a \in Assinatura
      PROVE  /\ assin'[a].fim = assin[a].fim /\ assin'[a].agendada = assin[a].agendada
             /\ assin'[a].mp = assin[a].mp
             /\ \/ assin'[a].status = assin[a].status
                \/ assin[a].status = "ATIVA" /\ assin'[a].status = "INADIMPLENTE"
  BY DEF Vencer, IInv, TypeOK
<1>6. ExistemFicam /\ NadaNasce /\ \A a \in Assinatura : Viva(a) => Viva(a)'
  BY <1>5 DEF ExistemFicam, NadaNasce, Existe, Viva
<1>7. UNCHANGED <<cobr, pendente>>
  BY <1>2 DEF mercado
<1>8. Bom(Livre)'
  BY <1>2, <1>4, <1>5, <1>6, <1>7, LivreDepois, Escreveu
<1> QED BY <1>2, <1>8

LEMMA CancelarFaturasBom ==
  ASSUME IInv, NEW r \in Req, Bom(req[r]), CancelarFaturas(r), UNCHANGED <<falhou, sobrou>>
  PROVE  \E q : Segue(r, q) /\ Bom(q)'
<1>1. PICK p \in Handler : p = req[r]
  BY Atual
<1>2. /\ p.pc = "faturas" /\ Bom(p) /\ p.a \in Assinatura /\ Existe(p.a)
      /\ UNCHANGED <<assin, licAte, cobr, pendente>>
  BY <1>1, Atual DEF CancelarFaturas, Em, Bom, Certo, SemDono, Coerente, mercado
<1>3. FaturasFicam /\ NadaAbre /\ AbertasDa(p.a)' = {}
  BY <1>1, <1>2, FechaDela DEF CancelarFaturas
<1>4. PICK q : q = [p EXCEPT !.pc = "encerra"]
  OBVIOUS
<1>5. q.pc = "encerra" /\ q.a = p.a /\ Segue(r, q)
  BY <1>1, <1>4 DEF CancelarFaturas, Handler
<1>6. ExistemFicam /\ NadaNasce
  BY <1>2, AssinMuda
<1>7. Existe(p.a)'
  BY <1>2, <1>6 DEF ExistemFicam
<1>8. Certo(q)'
  BY <1>3, <1>5, <1>7 DEF Certo, SemDono
<1>9. \A a \in Assinatura : Viva(a)' <=> Viva(a)
  BY <1>2 DEF Viva
<1>10. Bom(q)'
  BY <1>2, <1>3, <1>6, <1>8, <1>9, Escreveu
<1> QED BY <1>5, <1>10

LEMMA EncerrarBom ==
  ASSUME IInv, NEW r \in Req, Bom(req[r]), Encerrar(r), UNCHANGED <<falhou, sobrou>>
  PROVE  \E q : Segue(r, q) /\ Bom(q)'
<1>1. PICK p \in Handler : p = req[r]
  BY Atual
<1>2. /\ p.pc = "encerra" /\ Bom(p) /\ p.a \in Assinatura /\ Existe(p.a) /\ AbertasDa(p.a) = {}
      /\ UNCHANGED <<fatura, licAte, cobr, pendente>>
  BY <1>1, Atual DEF Encerrar, Em, Bom, Certo, SemDono, Coerente, mercado
<1>3. FaturasFicam /\ NadaAbre /\ AbertasDa(p.a)' = {}
  BY <1>2, MesmasLinhas
<1>4. /\ ExistemFicam /\ NadaNasce
      /\ \A b \in Assinatura : assin'[b].fim = assin[b].fim
      /\ \A b \in Assinatura \ {p.a} : assin'[b] = assin[b]
  BY <1>1, <1>2, AssinMuda DEF Encerrar
<1>5. CASE ~p.sim
  <2>1. Segue(r, Livre) /\ assin' = [assin EXCEPT ![p.a].agendada = TRUE]
    BY <1>1, <1>5 DEF Encerrar
  <2>2. \A b \in Assinatura : assin'[b].status = assin[b].status
    BY <1>4, <2>1 DEF IInv, TypeOK
  <2>3. Bom(Livre)'
    <3>1. \A b \in Assinatura : assin'[b].agendada => assin[b].agendada \/ AbertasDa(b)' = {}
      BY <1>3, <1>4
    <3>2. \A b \in Assinatura : Viva(b) => Viva(b)'
      BY <2>2 DEF Viva
    <3> QED BY <1>2, <1>3, <1>4, <3>1, <3>2, LivreDepois, Escreveu
  <2> QED BY <2>1, <2>3
<1>6. CASE p.sim
  <2>1. PICK q : q = [p EXCEPT !.pc = "licenca"]
    OBVIOUS
  <2>2. Segue(r, q) /\ assin' = [assin EXCEPT ![p.a].status = "CANCELADA"] /\ q.pc = "licenca" /\ q.a = p.a
    BY <1>1, <1>6, <2>1 DEF Encerrar, Handler
  <2>3. ~Viva(p.a)' /\ Existe(p.a)' /\ \A b \in Assinatura : assin'[b].agendada = assin[b].agendada
    BY <1>2, <1>4, <2>2 DEF Viva, Existe, IInv, TypeOK
  <2>4. Certo(q)'
    BY <2>2, <2>3 DEF Certo, SemDono
  <2>5. \A b \in Assinatura : Viva(b) /\ ~Viva(b)' => b = p.a
    BY <1>4 DEF Viva
  <2>6. Bom(q)'
    BY <1>2, <1>3, <1>4, <2>2, <2>3, <2>4, <2>5, Escreveu
  <2> QED BY <2>2, <2>6
<1> QED BY <1>5, <1>6

\* A subscription stops renewing, its open invoices cancelled.
LEMMA DeixaDeRenovar ==
  ASSUME IInv, NEW p, Bom(p), p.pc \in {"agenda", "espelha"}, p.a \in Assinatura,
         fatura' = MudaFaturas(AbertasDa(p.a), "CANCELADA"),
         assin' = [assin EXCEPT ![p.a].agendada = TRUE],
         UNCHANGED <<licAte, mercado, falhou, sobrou>>
  PROVE  Bom(Livre)'
<1>1. Existe(p.a) /\ UNCHANGED <<cobr, pendente>>
  BY DEF Bom, Certo, SemDono, mercado
<1>2. FaturasFicam /\ NadaAbre /\ AbertasDa(p.a)' = {}
  BY FechaDela
<1>3. /\ ExistemFicam /\ NadaNasce
      /\ \A b \in Assinatura : assin'[b].fim = assin[b].fim
      /\ \A b \in Assinatura \ {p.a} : assin'[b] = assin[b]
  BY <1>1, AssinMuda
<1>4. \A b \in Assinatura : Viva(b) => Viva(b)'
  BY DEF Viva, IInv, TypeOK
<1>5. \A b \in Assinatura : assin'[b].agendada => assin[b].agendada \/ AbertasDa(b)' = {}
  BY <1>2, <1>3
<1> QED BY <1>1, <1>2, <1>3, <1>4, <1>5, LivreDepois, Escreveu

\* A subscription that was never paid ends.
LEMMA Acaba ==
  ASSUME IInv, NEW p, Bom(p), p.pc \in {"desiste", "espelha"}, p.a \in Assinatura, ~Paga(p.a),
         fatura' = MudaFaturas(AbertasDa(p.a), "CANCELADA"),
         assin' = [assin EXCEPT ![p.a].status = "CANCELADA"],
         UNCHANGED <<licAte, mercado, falhou, sobrou>>
  PROVE  Bom(Livre)'
<1>1. Existe(p.a) /\ UNCHANGED <<cobr, pendente>>
  BY DEF Bom, Certo, SemDono, mercado
<1>2. FaturasFicam /\ NadaAbre
  BY FechaDela
<1>3. /\ ExistemFicam /\ NadaNasce
      /\ \A b \in Assinatura : assin'[b].fim = assin[b].fim
      /\ \A b \in Assinatura \ {p.a} : assin'[b] = assin[b]
  BY <1>1, AssinMuda
<1>4. \A b \in Assinatura : Viva(b) /\ ~Viva(b)' => b = p.a
  BY <1>3 DEF Viva
<1>5. \A b \in Assinatura : assin'[b].agendada => assin[b].agendada
  BY <1>3 DEF IInv, TypeOK
<1> QED BY <1>1, <1>2, <1>3, <1>4, <1>5, LivreDepois, Escreveu

LEMMA FimBom ==
  ASSUME IInv, NEW r \in Req, Bom(req[r]), UNCHANGED <<falhou, sobrou>>,
         Agendar(r) \/ Desistir(r) \/ EspelharFim(r) \/ EspelharPausa(r)
  PROVE  \E q : Segue(r, q) /\ Bom(q)'
<1>1. PICK p \in Handler : p = req[r]
  BY Atual
<1>2. Bom(p) /\ p.pc \in {"agenda", "desiste", "espelha"} /\ p.a \in Assinatura
  BY <1>1, Atual DEF Agendar, Desistir, EspelharFim, EspelharPausa, Em, SemDono, Coerente
<1>3. Segue(r, Livre) /\ UNCHANGED <<licAte, mercado>>
  BY DEF Agendar, Desistir, EspelharFim, EspelharPausa
<1>4. CASE Agendar(r)
  BY <1>1, <1>2, <1>3, <1>4, DeixaDeRenovar DEF Agendar, Em
<1>5. CASE Desistir(r)
  BY <1>1, <1>2, <1>3, <1>5, Acaba DEF Desistir, Em, Bom, Certo
<1>6. CASE EspelharFim(r)
  BY <1>1, <1>2, <1>3, <1>6, Acaba DEF EspelharFim, Em, Bom, Certo
<1>7. CASE EspelharPausa(r)
  BY <1>1, <1>2, <1>3, <1>7, DeixaDeRenovar DEF EspelharPausa, Em, Bom, Certo
<1> QED BY <1>4, <1>5, <1>6, <1>7

-----------------------------------------------------------------------------
(* Writes that create. *)

\* An invoice of a is created.
LEMMA CriaLinha ==
  ASSUME IInv, CobradaPaga, NEW g \in Fatura, NovaFatura(g), NEW a \in Assinatura, NEW venc \in Nat,
         Existe(a)', fatura' = [fatura EXCEPT ![g] = Pendente(a, venc)]
  PROVE  /\ FaturasFicam
         /\ fatura'[g].assin = a /\ Aberta(g)' /\ \A f \in Fatura \ {g} : fatura'[f] = fatura[f]
         /\ \A f \in Fatura : fatura'[f].cobranca = fatura[f].cobranca
<1>1. fatura[g].cobranca = Nenhuma /\ fatura[g].status = "INEXISTENTE"
  BY DEF CobradaPaga, NovaFatura
<1>2. /\ fatura'[g].assin = a /\ fatura'[g].cobranca = Nenhuma /\ fatura'[g].status = "PENDENTE"
      /\ \A f \in Fatura \ {g} : fatura'[f] = fatura[f]
  BY DEF IInv, TypeOK, Pendente, SemFatura
<1> QED BY <1>1, <1>2 DEF FaturasFicam, Aberta

\* It is the only open one of a, when none was open.
LEMMA AbertaUnicaCria ==
  ASSUME IInv, AbertaUnica, NEW g \in Fatura, NovaFatura(g), NEW a \in Assinatura,
         fatura'[g].assin = a, \A f \in Fatura \ {g} : fatura'[f] = fatura[f],
         ~sobrou => AbertasDa(a) = {}, UNCHANGED sobrou
  PROVE  /\ AbertaUnica'
         /\ \A b \in Assinatura \ {a} : AbertasDa(b)' = AbertasDa(b)
<1>1. ~Aberta(g) /\ fatura[g].assin \notin Assinatura
  BY DEF NovaFatura, Aberta, IInv, Linhas
<1>2. \A f \in Fatura \ {g} : Aberta(f)' <=> Aberta(f)
  BY DEF Aberta
<1>3. AbertaUnica'
  BY <1>1, <1>2 DEF AbertaUnica, AbertasDa
<1>4. \A b \in Assinatura \ {a} : AbertasDa(b)' = AbertasDa(b)
  BY <1>1, <1>2 DEF AbertasDa
<1> QED BY <1>3, <1>4

LEMMA NaoRenovaCria ==
  ASSUME NEW p, NaoRenova(p), p.pc \notin {"abre", "registra"}, NEW q, NEW a \in Assinatura,
         ~SemLinhas, \A b \in Assinatura \ {a} : AbertasDa(b)' = AbertasDa(b),
         \A b \in Assinatura \ {a} : assin'[b].agendada => assin[b].agendada,
         ~assin'[a].agendada \/ (q.pc \in {"abre", "registra"} /\ q.a = a), UNCHANGED sobrou
  PROVE  NaoRenova(q)'
<1> SUFFICES ASSUME ~sobrou, NEW b \in Assinatura, assin'[b].agendada
             PROVE  AbertasDa(b)' = {} \/ (q.pc \in {"abre", "registra"} /\ q.a = b)
  BY DEF NaoRenova
<1> QED BY DEF NaoRenova

LEMMA CriarFaturaBom ==
  ASSUME IInv, NEW r \in Req, Bom(req[r]), CriarFatura(r), UNCHANGED <<falhou, sobrou>>
  PROVE  \E q : Segue(r, q) /\ Bom(q)'
<1>1. PICK p \in Handler : p = req[r]
  BY Atual
<1>2. /\ p.pc = "cria" /\ Bom(p) /\ p.a \in Assinatura /\ p.fim \in Nat /\ Existe(p.a) /\ Viva(p.a)
      /\ AbertasDa(p.a) = {} /\ UNCHANGED <<assin, licAte, cobr, pendente>>
      /\ (p.c # Nenhuma => \A f \in Fatura : fatura[f].cobranca # p.c)
  BY <1>1, Atual DEF CriarFatura, Em, Bom, Certo, SemDono, Coerente, Handler, mercado
<1>3. PICK g \in Fatura : /\ NovaFatura(g)
                        /\ fatura' = [fatura EXCEPT ![g] = Pendente(p.a, p.fim)]
                        /\ Segue(r, [p EXCEPT !.pc = "abre", !.f = g])
  BY <1>1 DEF CriarFatura
<1>4. PICK q : q = [p EXCEPT !.pc = "abre", !.f = g]
  OBVIOUS
<1>5. q.pc = "abre" /\ q.a = p.a /\ q.f = g /\ q.c = p.c /\ Segue(r, q)
  BY <1>3, <1>4 DEF Handler
<1>6. \A a \in Assinatura : (Viva(a)' <=> Viva(a)) /\ (Existe(a)' <=> Existe(a))
  BY <1>2 DEF Viva, Existe
<1>7. /\ FaturasFicam
      /\ fatura'[g].assin = p.a /\ Aberta(g)' /\ \A f \in Fatura \ {g} : fatura'[f] = fatura[f]
      /\ \A f \in Fatura : fatura'[f].cobranca = fatura[f].cobranca
  BY <1>2, <1>3, <1>6, CriaLinha DEF Bom, Estado
<1>8. AbertaUnica' /\ \A b \in Assinatura \ {p.a} : AbertasDa(b)' = AbertasDa(b)
  BY <1>2, <1>3, <1>7, AbertaUnicaCria DEF Bom, Estado
<1>9. Certo(q)'
  BY <1>2, <1>5, <1>6, <1>7 DEF Certo, SemDono
<1>10. ExistemFicam /\ NadaNasce
  BY <1>2, <1>6, AssinMuda
<1>11. Estado'
  BY <1>2, <1>7, <1>8, <1>10, EstadoDepois DEF Bom
<1>12. ~SemLinhas
  BY <1>3 DEF SemLinhas, NovaFatura
<1>13. NaoRenova(q)'
  BY <1>2, <1>5, <1>8, <1>12, NaoRenovaCria DEF Bom
<1>14. Licenciada(q)'
  BY <1>2, <1>6, <1>7, LicenciadaDepois DEF Bom
<1> QED BY <1>5, <1>9, <1>11, <1>13, <1>14 DEF Bom

\* A subscription renews again, with an invoice if none is open.
LEMMA VoltaARenovar ==
  ASSUME IInv, NEW p, Bom(p), p.pc \in {"reativa", "espelha"}, p.a \in Assinatura, p.fim \in Nat,
         assin[p.a].agendada, assin' = [assin EXCEPT ![p.a].agendada = FALSE],
         \/ UNCHANGED fatura
         \/ \E g \in Fatura : NovaFatura(g) /\ fatura' = [fatura EXCEPT ![g] = Pendente(p.a, p.fim)],
         UNCHANGED <<licAte, mercado, falhou, sobrou>>
  PROVE  Bom(Livre)'
<1>1. Existe(p.a) /\ UNCHANGED <<cobr, pendente>>
  BY DEF Bom, Certo, SemDono, mercado
<1>2. /\ ExistemFicam /\ NadaNasce
      /\ \A b \in Assinatura : assin'[b].fim = assin[b].fim
      /\ \A b \in Assinatura \ {p.a} : assin'[b] = assin[b]
  BY <1>1, AssinMuda
<1>3. \A b \in Assinatura : (Viva(b)' <=> Viva(b)) /\ (assin'[b].agendada => assin[b].agendada)
  BY DEF Viva, IInv, TypeOK
<1>4. CASE UNCHANGED fatura
  <2>1. FaturasFicam /\ NadaAbre
    BY <1>4, MesmasLinhas
  <2> QED BY <1>1, <1>2, <1>3, <2>1, LivreDepois, Escreveu
<1>5. ASSUME NEW g \in Fatura, NovaFatura(g), fatura' = [fatura EXCEPT ![g] = Pendente(p.a, p.fim)]
      PROVE  Bom(Livre)'
  <2>1. Existe(p.a)'
    BY <1>1, <1>2 DEF ExistemFicam
  <2>2. /\ FaturasFicam
        /\ fatura'[g].assin = p.a /\ Aberta(g)' /\ \A f \in Fatura \ {g} : fatura'[f] = fatura[f]
    BY <1>5, <2>1, CriaLinha DEF Bom, Estado
  <2>3. ~SemLinhas
    BY <1>5 DEF SemLinhas, NovaFatura
  <2>4. ~sobrou => AbertasDa(p.a) = {}
    BY <2>3 DEF Bom, NaoRenova
  <2>5. AbertaUnica' /\ \A b \in Assinatura \ {p.a} : AbertasDa(b)' = AbertasDa(b)
    BY <1>5, <2>2, <2>4, AbertaUnicaCria DEF Bom, Estado
  <2>6. Estado'
    BY <1>1, <1>2, <2>2, <2>5, EstadoDepois DEF Bom
  <2>7. ~assin'[p.a].agendada
    BY DEF IInv, TypeOK
  <2>8. NaoRenova(Livre)'
    BY <1>3, <2>3, <2>5, <2>7, NaoRenovaCria DEF Bom
  <2>9. Licenciada(Livre)'
    BY <1>2, <1>3, <2>2, LicenciadaDepois DEF Bom
  <2> QED BY <2>6, <2>8, <2>9, LivreDepois DEF Bom
<1> QED BY <1>4, <1>5

LEMMA VoltarBom ==
  ASSUME IInv, NEW r \in Req, Bom(req[r]), UNCHANGED <<falhou, sobrou>>,
         Reativar(r) \/ EspelharRetomada(r)
  PROVE  \E q : Segue(r, q) /\ Bom(q)'
<1>1. PICK p \in Handler : p = req[r]
  BY Atual
<1>2. /\ Bom(p) /\ p.pc \in {"reativa", "espelha"} /\ p.a \in Assinatura /\ p.fim \in Nat
      /\ Segue(r, Livre) /\ UNCHANGED <<licAte, mercado>>
  BY <1>1, Atual DEF Reativar, EspelharRetomada, Em, SemDono, Coerente, Handler
<1>3. assin[p.a].agendada /\ assin' = [assin EXCEPT ![p.a].agendada = FALSE]
  BY <1>1, <1>2 DEF Reativar, EspelharRetomada, Em, Bom, Certo
<1>4. \/ UNCHANGED fatura
      \/ \E g \in Fatura : NovaFatura(g) /\ fatura' = [fatura EXCEPT ![g] = Pendente(p.a, p.fim)]
  BY <1>1 DEF Reativar, EspelharRetomada
<1>5. Bom(Livre)'
  BY <1>2, <1>3, <1>4, VoltaARenovar
<1> QED BY <1>2, <1>5

-----------------------------------------------------------------------------
\* A subscription is born, with the invoice g, while the living ones end and their open invoices
\* with them.
LEMMA Nasce ==
  ASSUME IInv, NEW p, Bom(p), p.pc \in {"criaAssin", "pede"}, \A b \in Vivas : ~Paga(b),
         NEW a \in Assinatura, NovaAssinatura(a), NEW g \in Fatura, NovaFatura(g), NEW q, Certo(q)',
         FaturasFicam, fatura'[g].assin = a,
         \A f \in Fatura \ {g} : Aberta(f)' => Aberta(f) /\ fatura'[f].assin = fatura[f].assin,
         assin'[a] = Nova,
         \A b \in Assinatura \ {a} :
           /\ assin'[b].fim = assin[b].fim /\ assin'[b].agendada = assin[b].agendada
           /\ assin'[b].mp = assin[b].mp
           /\ assin'[b].status = IF Viva(b) THEN "CANCELADA" ELSE assin[b].status,
         UNCHANGED <<licAte, mercado, falhou, sobrou>>
  PROVE  Bom(q)'
<1>1. ~Existe(a) /\ ~Viva(a) /\ assin[a].mp = "manual"
  <2>1. ~Existe(a) /\ ~Viva(a)
    BY DEF NovaAssinatura, Existe, Viva
  <2> QED BY <2>1 DEF Bom, Estado, Existem
<1>2. Nova.status = "ATIVA" /\ Nova.mp = "manual" /\ Nova.agendada = FALSE
  BY DEF Nova, SemAssinatura
<1>3. Viva(a)' /\ Existe(a)' /\ ~assin'[a].agendada /\ assin'[a].mp = assin[a].mp
  BY <1>1, <1>2 DEF Viva, Existe
<1>4. \A b \in Assinatura \ {a} : ~Viva(b)'
  BY DEF Viva
<1>5. ExistemFicam
  BY <1>3 DEF ExistemFicam, Existe, Viva
<1>6. UNCHANGED <<cobr, pendente>>
  BY DEF mercado
<1>7. \A f \in Fatura : fatura[f].assin # a
  BY <1>1 DEF Bom, Estado, Existem
<1>8. ~Paga(a) /\ \A b \in Assinatura : Paga(b)' <=> Paga(b)
  BY <1>7, MesmasPagas DEF Paga
<1>9. UmaViva'
  BY <1>4 DEF UmaViva, Vivas
<1>10. Respondidas'
  BY <1>1, <1>4, <1>6, RespondidasDepois DEF Bom, Estado
<1>11. \A f \in Fatura \ {g} : Aberta(f)' => fatura'[f].assin # a
  BY <1>7
<1>12. AbertaUnica'
  BY <1>11 DEF AbertaUnica, Bom, Estado
<1>13. Estado'
  BY <1>5, <1>6, <1>9, <1>10, <1>12, ExistemDepois, CobradaPagaDepois DEF Bom, Estado
<1>14. NaoRenova(q)'
  <2> SUFFICES ASSUME ~sobrou, NEW b \in Assinatura, assin'[b].agendada
               PROVE  AbertasDa(b)' = {}
    BY DEF NaoRenova
  <2>1. b # a /\ assin[b].agendada
    BY <1>3
  <2>2. ~SemLinhas
    BY DEF SemLinhas, NovaFatura
  <2>3. AbertasDa(b) = {}
    BY <2>1, <2>2 DEF Bom, NaoRenova
  <2> QED BY <2>1, <2>3 DEF AbertasDa
<1>15. Licenciada(q)'
  <2> SUFFICES ASSUME ~falhou, NEW b \in Assinatura
               PROVE  /\ Viva(b)' /\ Paga(b)' => licAte'[b] = assin'[b].fim
                      /\ ~Viva(b)' => licAte'[b] = 0
                      /\ ~Paga(b)' => licAte'[b] = 0
    BY DEF Licenciada
  <2>1. (~Viva(b) => licAte[b] = 0) /\ (~Paga(b) => licAte[b] = 0)
    BY DEF Bom, Licenciada
  <2>2. Viva(b) => ~Paga(b)
    BY DEF Vivas
  <2>3. licAte'[b] = 0
    BY <2>1, <2>2
  <2>4. Viva(b)' => b = a
    BY <1>4
  <2> QED BY <1>8, <2>3, <2>4
<1> QED BY <1>13, <1>14, <1>15 DEF Bom

LEMMA CriarAssinaturaBom ==
  ASSUME IInv, NEW r \in Req, Bom(req[r]), CriarAssinatura(r), UNCHANGED <<falhou, sobrou>>
  PROVE  \E q : Segue(r, q) /\ Bom(q)'
<1>1. PICK p \in Handler : p = req[r]
  BY Atual
<1>2. /\ p.pc = "criaAssin" /\ Bom(p) /\ Vivas = {} /\ UNCHANGED <<licAte, mercado>>
      /\ hoje \in Nat
  BY <1>1, BoundsAssumption DEF CriarAssinatura, Em, Bom, Certo, IInv, TypeOK
<1>3. PICK a \in Assinatura, g \in Fatura :
        /\ NovaAssinatura(a) /\ NovaFatura(g)
        /\ assin' = [assin EXCEPT ![a] = Nova]
        /\ fatura' = [fatura EXCEPT ![g] = Pendente(a, hoje)]
        /\ Segue(r, IF p.sim THEN [Livre EXCEPT !.pc = "abre", !.a = a, !.f = g] ELSE Livre)
  BY <1>1 DEF CriarAssinatura
<1>4. assin'[a] = Nova /\ \A b \in Assinatura \ {a} : assin'[b] = assin[b] /\ ~Viva(b)
  BY <1>2, <1>3 DEF IInv, TypeOK, Vivas
<1>5. Existe(a)' /\ Viva(a)'
  BY <1>4 DEF Existe, Viva, Nova, SemAssinatura
<1>6. /\ FaturasFicam
      /\ fatura'[g].assin = a /\ Aberta(g)' /\ \A f \in Fatura \ {g} : fatura'[f] = fatura[f]
  BY <1>2, <1>3, <1>5, CriaLinha DEF Bom, Estado
<1>7. PICK q : q = IF p.sim THEN [Livre EXCEPT !.pc = "abre", !.a = a, !.f = g] ELSE Livre
  OBVIOUS
<1>8. Certo(q)'
  <2>1. CASE q = Livre
    BY <2>1, LivreDepois
  <2>2. CASE q = [Livre EXCEPT !.pc = "abre", !.a = a, !.f = g]
    <3>1. q.pc = "abre" /\ q.a = a /\ q.f = g /\ q.c = Nenhuma
      BY <2>2 DEF Livre
    <3> QED BY <1>5, <1>6, <3>1 DEF Certo, SemDono
  <2> QED BY <1>7, <2>1, <2>2
<1>9. \A f \in Fatura \ {g} : Aberta(f)' => Aberta(f) /\ fatura'[f].assin = fatura[f].assin
  BY <1>6 DEF Aberta
<1>10. \A b \in Vivas : ~Paga(b)
  BY <1>2
<1>11. Bom(q)'
  BY <1>2, <1>3, <1>4, <1>6, <1>8, <1>9, <1>10, Nasce
<1> QED BY <1>3, <1>7, <1>11

LEMMA PedirBom ==
  ASSUME IInv, NEW r \in Req, Bom(req[r]), Pedir(r), UNCHANGED <<falhou, sobrou>>
  PROVE  \E q : Segue(r, q) /\ Bom(q)'
<1>1. PICK p \in Handler : p = req[r]
  BY Atual
<1>2. /\ p.pc = "pede" /\ Bom(p) /\ (\A b \in Vivas : ~Paga(b)) /\ UNCHANGED <<licAte, mercado>>
      /\ (p.velha # Nenhuma => p.velha \in Assinatura /\ Existe(p.velha))
  BY <1>1 DEF Pedir, Em, Bom, Certo, Handler
<1> DEFINE F == UNION {AbertasDa(b) : b \in Vivas}
<1>3. {a \in Vivas : ~Paga(a)} = Vivas
  BY <1>2
<1>4. PICK a \in Assinatura, g \in Fatura :
        /\ NovaAssinatura(a) /\ NovaFatura(g)
        /\ assin' = [b \in Assinatura |->
                       IF b = a THEN Nova
                       ELSE IF b \in Vivas THEN [assin[b] EXCEPT !.status = "CANCELADA"] ELSE assin[b]]
        /\ fatura' = [MudaFaturas(F, "CANCELADA") EXCEPT ![g] = Pendente(a, hoje)]
        /\ Segue(r, [p EXCEPT !.pc = IF p.velha = Nenhuma THEN "cartao" ELSE "solta",
                       !.volta = "desiste", !.a = a])
  BY <1>1, <1>3 DEF Pedir
<1>5. F \in SUBSET Fatura /\ \A f \in F : Aberta(f)
  BY DEF AbertasDa
<1> HIDE DEF F
<1>6. assin'[a] = Nova /\ Existe(a)'
  BY <1>4 DEF Existe, Nova, SemAssinatura
<1>7. \A b \in Assinatura \ {a} :
           /\ assin'[b].fim = assin[b].fim /\ assin'[b].agendada = assin[b].agendada
           /\ assin'[b].mp = assin[b].mp
           /\ assin'[b].status = IF Viva(b) THEN "CANCELADA" ELSE assin[b].status
  BY <1>4 DEF Vivas, IInv, TypeOK
<1>8. ASSUME NEW f \in Fatura \ {g}
      PROVE  /\ fatura'[f].assin = fatura[f].assin /\ fatura'[f].cobranca = fatura[f].cobranca
             /\ fatura'[f].status = IF f \in F THEN "CANCELADA" ELSE fatura[f].status
  BY <1>4 DEF MudaFaturas, IInv, TypeOK
<1>9. /\ fatura'[g].assin = a /\ fatura'[g].cobranca = Nenhuma /\ fatura'[g].status = "PENDENTE"
  BY <1>4 DEF MudaFaturas, Pendente, SemFatura
<1>10. fatura[g].cobranca = Nenhuma /\ fatura[g].status = "INEXISTENTE"
  BY <1>2, <1>4 DEF Bom, Estado, CobradaPaga, NovaFatura
<1>11. FaturasFicam
  <2>1. \A f \in F : fatura[f].status \in {"PENDENTE", "VENCIDA"}
    BY <1>5 DEF Aberta
  <2> QED BY <1>6, <1>8, <1>9, <1>10, <2>1 DEF FaturasFicam
<1>12. \A f \in Fatura \ {g} : Aberta(f)' => Aberta(f) /\ fatura'[f].assin = fatura[f].assin
  BY <1>8 DEF Aberta
<1>13. PICK q : q = [p EXCEPT !.pc = IF p.velha = Nenhuma THEN "cartao" ELSE "solta",
                       !.volta = "desiste", !.a = a]
  OBVIOUS
<1>14. /\ q.pc \in {"cartao", "solta"} /\ (q.pc = "solta" => p.velha # Nenhuma)
       /\ q.volta = "desiste" /\ q.a = a /\ q.velha = p.velha
  BY <1>13 DEF Handler
<1>15. ~Paga(a)'
  <2>1. \A f \in Fatura : fatura[f].assin # a
    BY <1>2, <1>4 DEF Bom, Estado, Existem, NovaAssinatura, Existe
  <2> QED BY <2>1, MesmasPagas, <1>11 DEF Paga
<1>16. q.pc = "solta" => Existe(q.velha)'
  <2>1. \A b \in Assinatura \ {a} : Existe(b) => Existe(b)'
    BY <1>7 DEF Existe
  <2> QED BY <1>2, <1>6, <1>14, <2>1
<1>17. Certo(q)'
  BY <1>6, <1>14, <1>15, <1>16 DEF Certo, SemDono
<1>18. Bom(q)'
  BY <1>2, <1>4, <1>6, <1>7, <1>9, <1>11, <1>12, <1>17, Nasce
<1> QED BY <1>4, <1>13, <1>18

-----------------------------------------------------------------------------
(* The answer to MP, and the payment *)

\* What is answered is known to have been paid, or of a subscription that is over.
LEMMA Respondeu ==
  ASSUME IInv, NEW r \in Req, NEW p \in Handler, p = req[r], Respondidas, Responde(r),
         \A f \in Fatura : fatura'[f].cobranca = fatura[f].cobranca,
         \A a \in Assinatura : Viva(a)' => Viva(a), UNCHANGED cobr, Existem,
         p.c \in CobrancaMp /\ cobr[p.c].aprovada /\ p.aprovada =>
           (\E f \in Fatura : fatura[f].cobranca = p.c) \/ ~Viva(cobr[p.c].assin)
  PROVE  Respondidas'
<1> SUFFICES ASSUME NEW c \in CobrancaMp, cobr[c].aprovada, c \notin pendente'
             PROVE  (\E f \in Fatura : fatura[f].cobranca = c) \/ ~Viva(cobr[c].assin)'
  BY DEF Respondidas
<1>1. cobr[c].assin \in Assinatura
  BY DEF Existem
<1>2. CASE c \notin pendente
  BY <1>1, <1>2 DEF Respondidas
<1>3. CASE c \in pendente
  <2>1. c = p.c /\ p.aprovada
    BY <1>3 DEF Responde
  <2> QED BY <1>1, <2>1
<1> QED BY <1>2, <1>3

LEMMA ConferirBom ==
  ASSUME IInv, IInv', NEW r \in Req, Bom(req[r]), Conferir(r), UNCHANGED <<falhou, sobrou>>
  PROVE  \E q : Segue(r, q) /\ Bom(q)'
<1>1. PICK p \in Handler : p = req[r]
  BY Atual
<1>2. /\ p.pc = "confere" /\ Bom(p) /\ Coerente(p) /\ p.a \in Assinatura /\ Existe(p.a)
      /\ UNCHANGED <<banco, cobr, hoje>>
  BY <1>1, Atual DEF Conferir, Em, Bom, Certo, SemDono, Coerente
<1>3. CASE p.sim /\ p.aprovada /\ \A f \in Fatura : fatura[f].cobranca # p.c
  <2>1. PICK q : q = [p EXCEPT !.pc = IF p.f = Nenhuma THEN "cria" ELSE "abre"]
    OBVIOUS
  <2>2. Segue(r, q) /\ UNCHANGED pendente
    BY <1>1, <1>3, <2>1 DEF Conferir
  <2>3. /\ q.pc = (IF p.f = Nenhuma THEN "cria" ELSE "abre")
        /\ q.a = p.a /\ q.f = p.f /\ q.c = p.c
    BY <2>1 DEF Handler
  <2>4. Certo(q)
    <3>1. CASE p.f = Nenhuma
      BY <1>2, <1>3, <2>3, <3>1 DEF Bom, Certo, SemDono
    <3>2. CASE p.f # Nenhuma
      BY <1>2, <1>3, <2>3, <3>2 DEF Bom, Certo, SemDono
    <3> QED BY <3>1, <3>2
  <2> QED BY <1>1, <1>2, <2>2, <2>4, BancoParado, Continua DEF mercado
<1>4. CASE ~(p.sim /\ p.aprovada /\ \A f \in Fatura : fatura[f].cobranca # p.c)
  <2>1. Segue(r, Livre) /\ Responde(r)
    BY <1>1, <1>4 DEF Conferir
  <2>2. AssinFica /\ UNCHANGED <<fatura, licAte, assin>>
    BY <1>2, BancoParado DEF banco
  <2>3. FaturasFicam /\ NadaAbre /\ NadaNasce
    BY <2>2, MesmasLinhas, MesmasVivas
  <2>4. ExistemFicam
    BY <2>2 DEF ExistemFicam, Existe
  <2>5. p.c \in CobrancaMp /\ cobr[p.c].aprovada /\ p.aprovada =>
           (\E f \in Fatura : fatura[f].cobranca = p.c) \/ ~Viva(cobr[p.c].assin)
    <3>1. p.c \in CobrancaMp /\ cobr[p.c].assin = p.a
      BY <1>2, NenhumaAssumption DEF Coerente, Pagando
    <3> QED BY <1>2, <1>4, <3>1 DEF Bom, Certo
  <2>6. Respondidas'
    BY <1>1, <1>2, <2>1, <2>2, <2>3, <2>5, Respondeu DEF Bom, Estado, NadaNasce
  <2>7. Estado'
    BY <1>2, <2>3, <2>4, <2>6, ExistemDepois, UmaVivaDepois, CobradaPagaDepois, AbertaUnicaDepois
       DEF Bom, Estado
  <2>8. NaoRenova(Livre)'
    BY <1>2, <2>2, <2>3, NaoRenovaDepois DEF Bom
  <2>9. Licenciada(Livre)'
    <3>1. \A a \in Assinatura : assin'[a].fim = assin[a].fim /\ (Viva(a)' <=> Viva(a))
      BY <2>2, MesmasVivas
    <3> QED BY <1>2, <2>2, <2>3, <3>1, LicenciadaDepois DEF Bom
  <2> QED BY <2>1, <2>7, <2>8, <2>9, LivreDepois DEF Bom
<1> QED BY <1>3, <1>4

LEMMA RenovarBom ==
  ASSUME IInv, NEW r \in Req, Bom(req[r]), Renovar(r), UNCHANGED <<falhou, sobrou>>
  PROVE  \E q : Segue(r, q) /\ Bom(q)'
<1>1. PICK p \in Handler : p = req[r]
  BY Atual
<1>2. /\ p.pc = "renova" /\ Bom(p) /\ p.a \in Assinatura /\ Viva(p.a) /\ Paga(p.a)
      /\ p.fim = assin[p.a].fim
      /\ (p.c # Nenhuma => \E f \in Fatura : fatura[f].cobranca = p.c)
      /\ Segue(r, Livre) /\ Responde(r) /\ UNCHANGED <<assin, fatura, cobr>>
  BY <1>1, Atual DEF Renovar, Em, Bom, Certo, SemDono, Coerente
<1>3. AssinFica /\ FaturasFicam /\ NadaAbre /\ NadaNasce
  BY <1>2, MesmasLinhas, MesmasVivas DEF AssinFica
<1>4. ExistemFicam
  BY <1>2 DEF ExistemFicam, Existe
<1>5. Respondidas'
  BY <1>1, <1>2, <1>3, NenhumaAssumption, Respondeu DEF Bom, Estado, NadaNasce
<1>6. Estado'
  BY <1>2, <1>3, <1>4, <1>5, ExistemDepois, UmaVivaDepois, CobradaPagaDepois, AbertaUnicaDepois
     DEF Bom, Estado
<1>7. NaoRenova(Livre)'
  BY <1>2, <1>3, NaoRenovaDepois DEF Bom
<1>8. Licenciada(Livre)'
  <2> SUFFICES ASSUME ~falhou, NEW b \in Assinatura
               PROVE  /\ Viva(b) /\ Paga(b) => licAte'[b] = assin[b].fim
                      /\ ~Viva(b) => licAte'[b] = 0
                      /\ ~Paga(b) => licAte'[b] = 0
    <3>1. \A b \in Assinatura : (Viva(b)' <=> Viva(b)) /\ (Paga(b)' <=> Paga(b))
      BY <1>2 DEF Viva, Paga
    <3> QED BY <1>2, <3>1 DEF Licenciada
  <2>1. (~Viva(b) => licAte[b] = 0) /\ (~Paga(b) => licAte[b] = 0)
    BY <1>2 DEF Bom, Licenciada
  <2>2. licAte'[b] = IF b = p.a THEN p.fim ELSE IF licAte[p.a] = 0 THEN 0 ELSE licAte[b]
    BY <1>1 DEF Renovar
  <2>3. CASE b = p.a
    BY <1>2, <2>2, <2>3
  <2>4. CASE b # p.a
    <3>1. ~Viva(b)
      BY <1>2, <2>4 DEF Bom, Estado, UmaViva, Vivas
    <3> QED BY <2>1, <2>2, <2>4, <3>1
  <2> QED BY <2>3, <2>4
<1> QED BY <1>2, <1>6, <1>7, <1>8, LivreDepois DEF Bom

LEMMA EncerrarLicencaBom ==
  ASSUME IInv, NEW r \in Req, Bom(req[r]), EncerrarLicenca(r), UNCHANGED <<falhou, sobrou>>
  PROVE  \E q : Segue(r, q) /\ Bom(q)'
<1>1. PICK p \in Handler : p = req[r]
  BY Atual
<1>2. /\ p.pc = "licenca" /\ Bom(p) /\ p.a \in Assinatura /\ ~Viva(p.a)
      /\ Segue(r, Livre) /\ UNCHANGED <<assin, fatura, cobr, pendente>>
      /\ licAte' = [licAte EXCEPT ![p.a] = 0]
  BY <1>1, Atual DEF EncerrarLicenca, Em, Bom, Certo, SemDono, Coerente, mercado
<1>3. AssinFica /\ FaturasFicam /\ NadaAbre /\ NadaNasce
  BY <1>2, MesmasLinhas, MesmasVivas DEF AssinFica
<1>4. ExistemFicam
  BY <1>2 DEF ExistemFicam, Existe
<1>5. Estado'
  BY <1>2, <1>3, <1>4, EstadoDepois, AbertaUnicaDepois DEF Bom, Estado
<1>6. NaoRenova(Livre)'
  BY <1>2, <1>3, NaoRenovaDepois DEF Bom
<1>7. Licenciada(Livre)'
  <2> SUFFICES ASSUME ~falhou, NEW b \in Assinatura
               PROVE  /\ Viva(b) /\ Paga(b) => licAte'[b] = assin[b].fim
                      /\ ~Viva(b) => licAte'[b] = 0
                      /\ ~Paga(b) => licAte'[b] = 0
    <3>1. \A b \in Assinatura : (Viva(b)' <=> Viva(b)) /\ (Paga(b)' <=> Paga(b))
      BY <1>2 DEF Viva, Paga
    <3> QED BY <1>2, <3>1 DEF Licenciada
  <2>1. /\ Viva(b) /\ Paga(b) => licAte[b] = assin[b].fim
        /\ ~Viva(b) => licAte[b] = 0 \/ b = p.a
        /\ ~Paga(b) => licAte[b] = 0
    BY <1>2 DEF Bom, Licenciada
  <2>2. licAte'[b] = IF b = p.a THEN 0 ELSE licAte[b]
    BY <1>2 DEF IInv, TypeOK
  <2> QED BY <1>2, <2>1, <2>2
<1> QED BY <1>2, <1>5, <1>6, <1>7, LivreDepois DEF Bom

\* The payment: its invoice is the only open one, so what is open afterwards is the next one.
LEMMA RegistrarBom ==
  ASSUME IInv, NEW r \in Req, Bom(req[r]), Registrar(r), UNCHANGED <<falhou, sobrou>>
  PROVE  \E q : Segue(r, q) /\ Bom(q)'
<1>1. PICK p \in Handler : p = req[r]
  BY Atual
<1>2. /\ p.pc = "registra" /\ Bom(p) /\ p.a \in Assinatura /\ p.f \in Fatura
      /\ fatura[p.f].assin = p.a /\ Aberta(p.f) /\ Viva(p.a) /\ Existe(p.a)
      /\ (p.agendada <=> assin[p.a].agendada)
  BY <1>1, Atual, NenhumaAssumption DEF Registrar, Em, Bom, Certo, SemDono, Coerente, Fatura
<1>3. UNCHANGED <<licAte, cobr, pendente>>
  BY DEF Registrar, mercado
<1>4. assin' = [assin EXCEPT ![p.a].status = "ATIVA", ![p.a].fim = p.fim]
  BY <1>1 DEF Registrar
<1>5. /\ assin'[p.a].status = "ATIVA" /\ assin'[p.a].fim = p.fim
      /\ \A b \in Assinatura \ {p.a} : assin'[b] = assin[b]
      /\ \A b \in Assinatura : assin'[b].agendada = assin[b].agendada /\ assin'[b].mp = assin[b].mp
  BY <1>2, <1>4 DEF IInv, TypeOK
<1>6. \A b \in Assinatura : (Viva(b)' <=> Viva(b)) /\ (Existe(b)' <=> Existe(b))
  BY <1>2, <1>5 DEF Viva, Existe
<1>7. fatura[p.f].cobranca = Nenhuma /\ fatura[p.f].status \in {"PENDENTE", "VENCIDA"}
  BY <1>2 DEF Bom, Estado, CobradaPaga, Aberta
<1> DEFINE paga == [fatura EXCEPT ![p.f].status = "PAGA",
                      ![p.f].cobranca = IF p.c = Nenhuma THEN @ ELSE p.c]
<1>8. PICK g \in Fatura \cup {Nenhuma} :
        \/ g = Nenhuma /\ p.agendada /\ fatura' = paga
        \/ g # Nenhuma /\ ~p.agendada /\ NovaFatura(g) /\ fatura' = [paga EXCEPT ![g] = Pendente(p.a, p.fim)]
  BY <1>1, NenhumaAssumption DEF Registrar, Fatura
<1>9. /\ paga[p.f].assin = p.a /\ paga[p.f].cobranca = p.c /\ paga[p.f].status = "PAGA"
      /\ \A f \in Fatura \ {p.f} : paga[f] = fatura[f]
      /\ DOMAIN paga = Fatura
  BY <1>2, <1>7 DEF IInv, TypeOK
<1> HIDE DEF paga
<1>10. g # Nenhuma => g \in Fatura /\ g # p.f /\ fatura[g].status = "INEXISTENTE" /\ fatura[g].cobranca = Nenhuma
                      /\ fatura[g].assin \notin Assinatura
  BY <1>2, <1>7, <1>8 DEF NovaFatura, Bom, Estado, CobradaPaga, IInv, Linhas
<1>11. fatura'[p.f] = paga[p.f] /\ \A f \in Fatura \ {p.f, g} : fatura'[f] = fatura[f]
  BY <1>2, <1>8, <1>9, <1>10
<1>12. g # Nenhuma => /\ fatura'[g].assin = p.a /\ fatura'[g].cobranca = Nenhuma
                      /\ fatura'[g].status = "PENDENTE"
  BY <1>8, <1>9, <1>10 DEF Pendente, SemFatura
<1>13. \A f \in Fatura : f = p.f \/ (f = g /\ g # Nenhuma) \/ (f \notin {p.f, g})
  BY NenhumaAssumption DEF Fatura
<1>14. \A f \in Fatura \ {p.f, g} : Aberta(f)' <=> Aberta(f)
  BY <1>11 DEF Aberta
<1>15. ~Aberta(p.f)'
  BY <1>9, <1>11 DEF Aberta
<1>16. Existem'
  <2>1. \A f \in Fatura : fatura'[f].assin \in Assinatura => Existe(fatura[f].assin)'
    <3> SUFFICES ASSUME NEW f \in Fatura, fatura'[f].assin \in Assinatura
                 PROVE  Existe(fatura[f].assin)'
      OBVIOUS
    <3>1. CASE f = p.f \/ (f = g /\ g # Nenhuma)
      <4>1. fatura'[f].assin = p.a /\ Existe(p.a)'
        BY <1>2, <1>6, <1>9, <1>11, <1>12, <3>1
      <4> QED BY <4>1 DEF Existe
    <3>2. CASE f \notin {p.f, g}
      <4>1. fatura'[f].assin = fatura[f].assin /\ Existe(fatura[f].assin)
        BY <1>2, <1>11, <3>2 DEF Bom, Estado, Existem
      <4> QED BY <1>6, <4>1 DEF Existe
    <3> QED BY <1>13, <3>1, <3>2
  <2>2. \A c \in CobrancaMp : cobr'[c].assin \in Assinatura => Existe(cobr[c].assin)'
    BY <1>2, <1>3, <1>6 DEF Bom, Estado, Existem, Existe
  <2>3. \A a \in Assinatura : assin'[a].mp # "manual" => Existe(a)'
    BY <1>2, <1>5, <1>6 DEF Bom, Estado, Existem
  <2> QED BY <1>2, <1>3, <2>1, <2>2, <2>3 DEF Bom, Estado, Existem, Existe
<1>17. UmaViva'
  BY <1>2, <1>6 DEF Bom, Estado, UmaViva, Vivas
<1>18. CobradaPaga'
  BY <1>2, <1>9, <1>11, <1>12, <1>13 DEF Bom, Estado, CobradaPaga
<1>19. Respondidas'
  <2> SUFFICES ASSUME NEW c \in CobrancaMp, cobr[c].aprovada, c \notin pendente, Viva(cobr[c].assin)'
               PROVE  \E f \in Fatura : fatura'[f].cobranca = c
    BY <1>3 DEF Respondidas
  <2>1. cobr[c].assin \in Assinatura
    BY <1>2 DEF Bom, Estado, Existem
  <2>2. Viva(cobr[c].assin)
    BY <1>3, <1>6, <2>1 DEF Viva
  <2>3. PICK f \in Fatura : fatura[f].cobranca = c
    BY <1>2, <2>2 DEF Bom, Estado, Respondidas
  <2>4. c # Nenhuma
    BY NenhumaAssumption
  <2>5. f \notin {p.f, g}
    BY <1>7, <1>10, <1>13, <2>3, <2>4
  <2> QED BY <1>11, <2>3, <2>5
<1>20. ~sobrou => \A f \in Fatura \ {p.f} : Aberta(f) => fatura[f].assin # p.a
  BY <1>2 DEF Bom, Estado, AbertaUnica
<1>21. ~sobrou => \A f \in Fatura \ {p.f, g} : Aberta(f)' => fatura'[f].assin # p.a
  BY <1>11, <1>14, <1>20
<1>22. AbertaUnica'
  <2> SUFFICES ASSUME ~sobrou, NEW f \in Fatura, NEW h \in Fatura, Aberta(f)', Aberta(h)',
                      fatura'[f].assin = fatura'[h].assin
               PROVE  f = h
    BY DEF AbertaUnica
  <2>1. f # p.f /\ h # p.f
    BY <1>15
  <2>2. CASE f \notin {p.f, g} /\ h \notin {p.f, g}
    BY <1>2, <1>11, <1>14, <2>2 DEF Bom, Estado, AbertaUnica
  <2>3. CASE f = g /\ h \notin {p.f, g}
    BY <1>12, <1>13, <1>21, <2>1, <2>3
  <2>4. CASE h = g /\ f \notin {p.f, g}
    BY <1>12, <1>13, <1>21, <2>1, <2>4
  <2> QED BY <2>1, <2>2, <2>3, <2>4
<1>23. PICK q : q = [p EXCEPT !.pc = "renova"]
  OBVIOUS
<1>24. q.pc = "renova" /\ q.a = p.a /\ q.c = p.c /\ q.fim = p.fim /\ Segue(r, q)
  BY <1>1, <1>23 DEF Registrar, Handler
<1>25. Paga(p.a)' /\ (p.c # Nenhuma => \E f \in Fatura : fatura'[f].cobranca = p.c)
  BY <1>2, <1>9, <1>11 DEF Paga
<1>26. Certo(q)'
  BY <1>2, <1>5, <1>6, <1>24, <1>25 DEF Certo, SemDono
<1>27. NaoRenova(q)'
  <2> SUFFICES ASSUME ~sobrou, NEW b \in Assinatura, assin'[b].agendada
               PROVE  AbertasDa(b)' = {} \/ SemLinhas'
    BY DEF NaoRenova
  <2>1. CASE b = p.a
    <3>1. p.agendada
      BY <1>2, <1>5, <2>1
    <3>2. g = Nenhuma
      BY <1>8, <3>1
    <3>3. \A f \in Fatura : ~(fatura'[f].assin = b /\ Aberta(f)')
      BY <1>13, <1>15, <1>21, <2>1, <3>2
    <3> QED BY <3>3 DEF AbertasDa
  <2>2. CASE b # p.a
    <3>1. AbertasDa(b) = {} \/ SemLinhas
      BY <1>2, <1>5, <2>2 DEF Bom, NaoRenova
    <3>2. SemLinhas => SemLinhas'
      <4>1. SemLinhas => g = Nenhuma
        BY <1>10 DEF SemLinhas
      <4> QED BY <1>9, <1>11, <1>13, <4>1 DEF SemLinhas
    <3>3. AbertasDa(b) = {} => AbertasDa(b)' = {}
      <4>1. \A f \in Fatura : fatura'[f].assin = b /\ Aberta(f)' => f \notin {p.f, g}
        BY <1>9, <1>11, <1>12, <1>13, <2>2
      <4> QED BY <1>11, <1>14, <4>1 DEF AbertasDa
    <3> QED BY <3>1, <3>2, <3>3
  <2> QED BY <2>1, <2>2
<1>28. Licenciada(q)'
  <2> SUFFICES ASSUME ~falhou, NEW b \in Assinatura, b # p.a
               PROVE  /\ Viva(b)' /\ Paga(b)' => licAte'[b] = assin'[b].fim
                      /\ ~Viva(b)' => licAte'[b] = 0
                      /\ ~Paga(b)' => licAte'[b] = 0
    BY <1>2, <1>6, <1>24, <1>25 DEF Licenciada
  <2>1. /\ Viva(b) /\ Paga(b) => licAte[b] = assin[b].fim
        /\ ~Viva(b) => licAte[b] = 0
        /\ ~Paga(b) => licAte[b] = 0
    BY <1>2 DEF Bom, Licenciada
  <2>2. Paga(b)' <=> Paga(b)
    <3>1. \A f \in Fatura \ {p.f, g} : fatura'[f] = fatura[f]
      BY <1>11
    <3>2. ~(fatura'[p.f].assin = b) /\ ~(fatura[p.f].assin = b)
      BY <1>2, <1>9, <1>11
    <3>3. g # Nenhuma => ~(fatura'[g].assin = b) /\ ~(fatura[g].assin = b)
      BY <1>10, <1>12
    <3> QED BY <1>13, <3>1, <3>2, <3>3 DEF Paga
  <2> QED BY <1>3, <1>5, <1>6, <2>1, <2>2
<1> QED BY <1>16, <1>17, <1>18, <1>19, <1>22, <1>24, <1>26, <1>27, <1>28 DEF Bom, Estado

-----------------------------------------------------------------------------
(* What is not a handler, and the whole step *)

\* A charge, a change at MP's site, a day, or nothing.
LEMMA AmbienteBom ==
  ASSUME IInv, NEW q, Dono(q), Bom(q), Ambiente \/ UNCHANGED vars, UNCHANGED <<falhou, sobrou>>
  PROVE  Bom(q)'
<1>1. UNCHANGED <<fatura, licAte>>
  BY DEF Ambiente, MpCobra, MpMuda, PassarDia, vars, banco
<1>2. /\ AssinFica
      /\ \A a \in Assinatura : assin'[a].mp = assin[a].mp \/ Existe(a)
  <2>1. ASSUME NEW a \in Assinatura, NEW s \in StatusPreapproval, MpMuda(a, s)
        PROVE  AssinFica /\ \A b \in Assinatura : assin'[b].mp = assin[b].mp \/ Existe(b)
    <3>1. Existe(a)
      BY <2>1 DEF MpMuda, Bom, Estado, Existem
    <3> QED BY <2>1, <3>1, MpMudou DEF MpMuda
  <2>2. CASE UNCHANGED assin
    BY <2>2 DEF AssinFica
  <2> QED BY <2>1, <2>2 DEF Ambiente, MpCobra, PassarDia, vars, banco
<1>3. Certo(q)'
  BY <1>1, <1>2, CertoIgual DEF Bom
<1>4. /\ FaturasFicam /\ NadaAbre /\ NadaNasce
      /\ \A a : AbertasDa(a)' = AbertasDa(a) /\ (Paga(a)' <=> Paga(a))
      /\ SemLinhas' <=> SemLinhas
      /\ \A a \in Assinatura : (Viva(a)' <=> Viva(a)) /\ (Existe(a)' <=> Existe(a))
  BY <1>1, <1>2, MesmasLinhas, MesmasVivas
<1>5. ExistemFicam
  BY <1>2, <1>4 DEF ExistemFicam
<1>6. NaoRenova(q)' /\ Licenciada(q)'
  BY <1>1, <1>2, <1>4 DEF Bom, NaoRenova, Licenciada, AssinFica
<1>7. UmaViva' /\ CobradaPaga' /\ AbertaUnica'
  BY <1>4, UmaVivaDepois, CobradaPagaDepois, AbertaUnicaDepois DEF Bom, Estado
<1>8. CASE UNCHANGED <<cobr, pendente>>
  BY <1>3, <1>4, <1>5, <1>6, <1>7, <1>8, EstadoDepois DEF Bom
<1>9. ASSUME NEW c \in CobrancaMp, NEW a \in Assinatura, NEW ok \in BOOLEAN, MpCobra(c, a, ok)
      PROVE  Bom(q)'
  <2>1. /\ Existe(a) /\ UNCHANGED <<fatura, assin>> /\ pendente' = pendente \cup {c}
        /\ cobr'[c].assin = a /\ cobr'[c].aprovada = ok
        /\ \A d \in CobrancaMp \ {c} : cobr'[d] = cobr[d]
    BY <1>9 DEF MpCobra, banco, Bom, Estado, Existem, IInv, TypeOK
  <2>2. Existem'
    <3>1. \A f \in Fatura : fatura'[f].assin \in Assinatura => Existe(fatura[f].assin)'
      BY <2>1 DEF Bom, Estado, Existem, Existe
    <3>2. \A d \in CobrancaMp : cobr'[d].aprovada => cobr'[d].assin \in Assinatura
      BY <2>1 DEF Bom, Estado, Existem
    <3>3. \A d \in CobrancaMp : cobr'[d].assin \in Assinatura => Existe(cobr'[d].assin)
      BY <2>1 DEF Bom, Estado, Existem
    <3>4. \A b \in Assinatura : assin'[b].mp # "manual" => Existe(b)'
      BY <2>1, <1>4 DEF Bom, Estado, Existem
    <3> QED BY <2>1, <3>1, <3>2, <3>3, <3>4 DEF Existem, Existe
  <2>3. Respondidas'
    BY <2>1 DEF Bom, Estado, Respondidas, Viva
  <2> QED BY <1>3, <1>6, <1>7, <2>2, <2>3 DEF Bom, Estado
<1> QED BY <1>8, <1>9 DEF Ambiente, MpMuda, PassarDia, vars, mercado

LEMMA AmbienteSequencial ==
  ASSUME IInv, Sequencial, Ambiente \/ UNCHANGED vars, UNCHANGED <<falhou, sobrou>>
  PROVE  Sequencial'
<1>1. UNCHANGED req
  BY DEF Ambiente, MpCobra, MpMuda, PassarDia, vars
<1>2. \A r, s \in Req : Em(r, "livre")' \/ Em(s, "livre")' \/ r = s
  BY <1>1 DEF Sequencial, Em
<1>3. ASSUME \A r \in Req : Em(r, "livre")' PROVE Bom(Livre)'
  <2>1. Bom(Livre)
    BY <1>1, <1>3 DEF Sequencial, Em
  <2>2. Dono(Livre)
    BY DEF Dono, Livre, SemDono
  <2> QED BY <2>1, <2>2, AmbienteBom
<1>4. ASSUME NEW r \in Req, ~Em(r, "livre")' PROVE Bom(req[r])'
  <2>1. PICK q \in Handler : q = req[r] /\ Coerente(q)
    BY Atual
  <2>2. Bom(q) /\ Dono(q)
    BY <1>1, <1>4, <2>1 DEF Sequencial, Em, Dono, Coerente, Handler
  <2>3. Bom(q)'
    BY <2>2, AmbienteBom
  <2> QED BY <1>1, <2>1, <2>3
<1> QED BY <1>2, <1>3, <1>4 DEF Sequencial

LEMMA PassoBom ==
  ASSUME IInv, IInv', NEW r \in Req, Bom(req[r]),
         \/ (Comecar(r) \/ Passo(r)) /\ UNCHANGED <<falhou, sobrou>>
         \/ Falhar(r) /\ falhou' = TRUE /\ sobrou' = (sobrou \/ Cortada(r))
  PROVE  \E q : Segue(r, q) /\ Bom(q)'
<1>1. CASE Comecar(r) /\ UNCHANGED <<falhou, sobrou>>
  BY <1>1, ComecarBom
<1>2. CASE Falhar(r) /\ falhou' = TRUE /\ sobrou' = (sobrou \/ Cortada(r))
  BY <1>2, FalharBom
<1>3. CASE Passo(r) /\ UNCHANGED <<falhou, sobrou>>
  BY <1>3, CriarAssinaturaBom, PedirBom, SoltarNoMpBom, CadastrarCartaoBom, ConferirBom,
     CriarFaturaBom, AbrirFaturaBom, RegistrarBom, RenovarBom, FalharBom, VencerBom, MudarNoMpBom,
     CancelarFaturasBom, EncerrarBom, EncerrarLicencaBom, FimBom, VoltarBom, LerAssinaturaBom,
     EspelharNadaBom DEF Passo
<1> QED BY <1>1, <1>2, <1>3

LEMMA InitSInv == InitCobranca => SInv
<1> SUFFICES ASSUME InitCobranca PROVE SInv
  OBVIOUS
<1>1. IInv
  BY InitIInv DEF InitCobranca
<1>2. /\ \A f \in Fatura : ~Aberta(f) /\ fatura[f].status = "INEXISTENTE"
                         /\ fatura[f].assin = Nenhuma /\ fatura[f].cobranca = Nenhuma
      /\ \A a \in Assinatura : ~Viva(a) /\ assin[a].mp = "manual" /\ ~assin[a].agendada /\ licAte[a] = 0
      /\ \A c \in CobrancaMp : ~cobr[c].aprovada /\ cobr[c].assin = Nenhuma
      /\ Nenhuma \notin Assinatura
  BY NenhumaAssumption DEF InitCobranca, Init, Aberta, Viva, SemAssinatura, SemFatura, SemCobranca, Assinatura
<1>3. Existem /\ UmaViva /\ CobradaPaga /\ Respondidas /\ AbertaUnica
  BY <1>2 DEF Existem, UmaViva, Vivas, CobradaPaga, Respondidas, AbertaUnica
<1>4. NaoRenova(Livre) /\ Licenciada(Livre)
  BY <1>2 DEF NaoRenova, Licenciada, Paga
<1>5. Bom(Livre)
  BY <1>3, <1>4, CertoLivre DEF Bom, Estado
<1>6. \A r \in Req : Em(r, "livre")
  BY DEF InitCobranca, Init, Em, Livre
<1> QED BY <1>1, <1>5, <1>6 DEF SInv, Sequencial

\* Every step keeps the invariant.
LEMMA NextSInv == SInv /\ [NextCobranca]_<<vars, historia>> => SInv'
<1> SUFFICES ASSUME SInv, [NextCobranca]_<<vars, historia>> PROVE SInv'
  OBVIOUS
<1>1. IInv'
  BY PassoDeNext, NextIInv DEF SInv
<1>2. UNCHANGED juntos
  BY DEF NextCobranca, historia
<1>3. ASSUME ~juntos PROVE Sequencial'
  <2>1. Sequencial /\ IInv
    BY <1>3 DEF SInv
  <2>2. CASE UNCHANGED <<vars, historia>>
    BY <2>1, <2>2, AmbienteSequencial DEF historia
  <2>3. CASE Ambiente /\ UNCHANGED <<falhou, sobrou>>
    BY <2>1, <2>3, AmbienteSequencial
  <2>4. ASSUME NEW r \in Req, Sozinho(r),
               \/ (Comecar(r) \/ Passo(r)) /\ UNCHANGED <<falhou, sobrou>>
               \/ Falhar(r) /\ falhou' = TRUE /\ sobrou' = (sobrou \/ Cortada(r))
        PROVE  Sequencial'
    <3>1. Bom(req[r])
      BY <2>1, <2>4, Decola
    <3>2. PICK q : Segue(r, q) /\ Bom(q)'
      BY <1>1, <2>1, <2>4, <3>1, PassoBom
    <3> QED BY <2>1, <2>4, <3>2, Pousa
  <2> QED BY <1>3, <2>2, <2>3, <2>4 DEF NextCobranca, NextUm, NextJuntos
<1> QED BY <1>1, <1>2, <1>3 DEF SInv

\* One handler at a time, the rows and what the handler carries agree, whatever fails.
THEOREM InvarianteSequencial == SpecCobranca => []SInv
  BY InitSInv, NextSInv, PTL DEF SpecCobranca

-----------------------------------------------------------------------------
(* What it says *)

LEMMA EstadoVale == ASSUME SInv, ~juntos PROVE Estado
<1>1. Sequencial
  BY DEF SInv
<1>2. CASE \A r \in Req : Em(r, "livre")
  BY <1>1, <1>2 DEF Sequencial, Bom
<1>3. CASE \E r \in Req : ~Em(r, "livre")
  BY <1>1, <1>3 DEF Sequencial, Bom
<1> QED BY <1>2, <1>3

LEMMA AteUm ==
  ASSUME NEW S, \A x, y \in S : x = y
  PROVE  Cardinality(S) <= 1
<1>1. CASE S = {}
  BY <1>1, FS_EmptySet
<1>2. CASE S # {}
  <2>1. PICK x : S = {x}
    BY <1>2
  <2>2. Cardinality(S) = 1
    BY <2>1, FS_Singleton
  <2> QED BY <2>2
<1> QED BY <1>1, <1>2

LEMMA SInvRespondida == SInv => RespondidaPaga
<1> SUFFICES ASSUME SInv, ~juntos, NEW c \in CobrancaMp, cobr[c].aprovada, c \notin pendente
             PROVE  \/ \E f \in Fatura : fatura[f].cobranca = c /\ fatura[f].status = "PAGA"
                    \/ ~Viva(cobr[c].assin)
  BY DEF RespondidaPaga
<1>1. c # Nenhuma
  BY NenhumaAssumption
<1> QED BY <1>1, EstadoVale DEF Estado, Respondidas, CobradaPaga

LEMMA SInvAberta == SInv => FaturaAbertaUnica
<1> SUFFICES ASSUME SInv, ~juntos, ~sobrou, NEW a \in Assinatura
             PROVE  Cardinality(AbertasDa(a)) <= 1
  BY DEF FaturaAbertaUnica, UmaFaturaAberta
<1>1. \A f, g \in AbertasDa(a) : f = g
  BY EstadoVale DEF Estado, AbertaUnica, AbertasDa
<1> QED BY <1>1, AteUm

LEMMA SInvConta == SInv => ContaCoerente
<1> SUFFICES ASSUME SInv, ~juntos PROVE Cardinality(Vivas) <= 1 /\ LicencaPaga
  BY DEF ContaCoerente
<1>1. Cardinality(Vivas) <= 1
  BY EstadoVale, AteUm DEF Estado, UmaViva
<1>2. LicencaPaga
  <2> SUFFICES ASSUME ~falhou, \A r \in Req : Em(r, "livre"), NEW a \in Assinatura
               PROVE  /\ Viva(a) /\ Paga(a) => licAte[a] = assin[a].fim
                      /\ ~Viva(a) => licAte[a] = 0
    BY DEF LicencaPaga
  <2>1. Bom(Livre)
    BY DEF SInv, Sequencial
  <2> QED BY <2>1 DEF Bom, Licenciada, Livre
<1> QED BY <1>1, <1>2

\* While no two handlers overlap, an approved charge that was answered has paid an invoice, or its
\* subscription was over, whatever fails and however often the notification comes.
THEOREM RespondidaSemprePaga == SpecCobranca => []RespondidaPaga
  BY SInvRespondida, InvarianteSequencial, PTL

\* While no two handlers overlap, a subscription has one open invoice at most, unless a failure cut
\* short the payment of one that does not renew.
THEOREM SempreUmaFaturaAberta == SpecCobranca => []FaturaAbertaUnica
  BY SInvAberta, InvarianteSequencial, PTL

\* While no two handlers overlap, the account has one living subscription at most, and its licence
\* says what was paid until something fails.
THEOREM ContaSempreCoerente == SpecCobranca => []ContaCoerente
  BY SInvConta, InvarianteSequencial, PTL

-----------------------------------------------------------------------------
(* What never goes back *)

PagasFicam == \A f \in Fatura : fatura[f].status = "PAGA" => fatura'[f].status = "PAGA"
CanceladasFicam == \A a \in Assinatura : assin[a].status = "CANCELADA" => assin'[a].status = "CANCELADA"

LEMMA PagasMudadas ==
  ASSUME IInv, NEW F, \A f \in F : fatura[f].status # "PAGA", NEW s, fatura' = MudaFaturas(F, s)
  PROVE  PagasFicam
  BY DEF PagasFicam, MudaFaturas, IInv, TypeOK

LEMMA PagasMaisUma ==
  ASSUME IInv, \/ UNCHANGED fatura
               \/ \E g \in Fatura : \E l : NovaFatura(g) /\ fatura' = [fatura EXCEPT ![g] = l]
  PROVE  PagasFicam
  BY DEF PagasFicam, NovaFatura, IInv, TypeOK

LEMMA PassoPagas ==
  ASSUME IInv, NEW r \in Req, Bom(req[r]), Comecar(r) \/ Passo(r) \/ Falhar(r)
  PROVE  PagasFicam
<1>1. PICK p \in Handler : p = req[r] /\ Coerente(p) /\ Bom(p)
  BY Atual
<1>2. CASE Comecar(r) \/ Falhar(r)
  BY <1>2, PagasMaisUma DEF Comecar, AbrirCriar, AbrirAssinar, AbrirCancelarPainel, AbrirReativar,
     LerPreapproval, AbrirCancelar, LerCobranca, MarcarFaturaPaga, LerVencidas, Falhar, banco
<1>3. CASE \/ SoltarNoMp(r) \/ CadastrarCartao(r) \/ Conferir(r) \/ AbrirFatura(r) \/ Renovar(r)
           \/ FalharUnica(r) \/ FalharSemLinhas(r) \/ MudarNoMp(r) \/ Encerrar(r)
           \/ EncerrarLicenca(r) \/ LerAssinatura(r) \/ EspelharNada(r)
  BY <1>3, PagasMaisUma DEF SoltarNoMp, CadastrarCartao, Conferir, AbrirFatura, Renovar,
     FalharUnica, FalharSemLinhas, MudarNoMp, Encerrar, EncerrarLicenca, LerAssinatura,
     EspelharNada, banco
<1>4. CASE CriarAssinatura(r) \/ CriarFatura(r) \/ Reativar(r) \/ EspelharRetomada(r)
  BY <1>4, PagasMaisUma DEF CriarAssinatura, CriarFatura, Reativar, EspelharRetomada
<1>5. CASE CancelarFaturas(r) \/ Agendar(r) \/ Desistir(r) \/ EspelharFim(r) \/ EspelharPausa(r)
  <2>1. \A a : \A f \in AbertasDa(a) : fatura[f].status # "PAGA"
    BY DEF AbertasDa, Aberta
  <2>2. p.pc = "espelha" => p.abertas = AbertasDa(p.a)
    BY <1>1 DEF Bom, Certo
  <2>3. fatura' = MudaFaturas(AbertasDa(p.a), "CANCELADA")
    BY <1>1, <1>5, <2>2 DEF CancelarFaturas, Agendar, Desistir, EspelharFim, EspelharPausa, Em
  <2> QED BY <2>1, <2>3, PagasMudadas
<1>6. CASE Vencer(r)
  <2>1. \A f \in p.abertas : fatura[f].status # "PAGA"
    BY <1>1, <1>6 DEF Vencer, Em, Bom, Certo
  <2> QED BY <1>1, <1>6, <2>1, PagasMudadas DEF Vencer
<1>7. CASE Pedir(r)
  <2> DEFINE F == UNION {AbertasDa(b) : b \in {a \in Vivas : ~Paga(a)}}
  <2>1. \A f \in F : fatura[f].status # "PAGA"
    BY DEF AbertasDa, Aberta
  <2>2. \E a \in Assinatura, g \in Fatura :
          NovaFatura(g) /\ fatura' = [MudaFaturas(F, "CANCELADA") EXCEPT ![g] = Pendente(a, hoje)]
    BY <1>7 DEF Pedir
  <2> HIDE DEF F
  <2>3. PICK a \in Assinatura, g \in Fatura :
          NovaFatura(g) /\ fatura' = [MudaFaturas(F, "CANCELADA") EXCEPT ![g] = Pendente(a, hoje)]
    BY <2>2
  <2>4. ASSUME NEW f \in Fatura, fatura[f].status = "PAGA" PROVE fatura'[f].status = "PAGA"
    <3>1. f # g /\ f \notin F
      BY <2>1, <2>3, <2>4 DEF NovaFatura
    <3>2. fatura'[f] = fatura[f]
      BY <2>3, <3>1 DEF MudaFaturas
    <3> QED BY <2>4, <3>2
  <2> QED BY <2>4 DEF PagasFicam
<1>8. CASE Registrar(r)
  <2> DEFINE paga == [fatura EXCEPT ![p.f].status = "PAGA",
                        ![p.f].cobranca = IF p.c = Nenhuma THEN @ ELSE p.c]
  <2>1. \/ fatura' = paga
        \/ \E g \in Fatura : NovaFatura(g) /\ fatura' = [paga EXCEPT ![g] = Pendente(p.a, p.fim)]
    BY <1>1, <1>8 DEF Registrar
  <2>2. \A f \in Fatura : fatura[f].status = "PAGA" => paga[f].status = "PAGA"
    BY DEF IInv, TypeOK
  <2>3. DOMAIN paga = Fatura
    BY DEF IInv, TypeOK
  <2> HIDE DEF paga
  <2> QED BY <2>1, <2>2, <2>3 DEF PagasFicam, NovaFatura
<1> QED BY <1>2, <1>3, <1>4, <1>5, <1>6, <1>7, <1>8 DEF Passo

LEMMA PassoCanceladas ==
  ASSUME IInv, NEW r \in Req, Bom(req[r]), Comecar(r) \/ Passo(r) \/ Falhar(r)
  PROVE  CanceladasFicam
<1>1. PICK p \in Handler : p = req[r] /\ Coerente(p) /\ Bom(p)
  BY Atual
<1>2. CASE Comecar(r) \/ Falhar(r)
  BY <1>2 DEF Comecar, AbrirCriar, AbrirAssinar, AbrirCancelarPainel, AbrirReativar,
     LerPreapproval, AbrirCancelar, LerCobranca, MarcarFaturaPaga, LerVencidas, Falhar, banco,
     CanceladasFicam
<1>3. CASE \/ CriarFatura(r) \/ Conferir(r) \/ AbrirFatura(r) \/ Renovar(r)
           \/ FalharUnica(r) \/ FalharSemLinhas(r) \/ CancelarFaturas(r)
           \/ EncerrarLicenca(r) \/ LerAssinatura(r) \/ EspelharNada(r)
  BY <1>3 DEF CriarFatura, Conferir, AbrirFatura, Renovar, CancelarFaturas,
     FalharUnica, FalharSemLinhas, EncerrarLicenca, LerAssinatura,
     EspelharNada, banco, CanceladasFicam
<1>4. CASE SoltarNoMp(r) \/ CadastrarCartao(r) \/ MudarNoMp(r)
  <2>1. PICK a, s : UNCHANGED assin \/ assin' = [assin EXCEPT ![a].mp = s]
    BY <1>4 DEF SoltarNoMp, CadastrarCartao, MudarNoMp
  <2> QED BY <2>1 DEF CanceladasFicam, IInv, TypeOK
<1>5. CASE \/ Encerrar(r) \/ Agendar(r) \/ Desistir(r) \/ EspelharFim(r) \/ EspelharPausa(r)
           \/ Reativar(r) \/ EspelharRetomada(r)
  <2>1. PICK v \in BOOLEAN : \/ assin' = [assin EXCEPT ![p.a].status = "CANCELADA"]
                             \/ assin' = [assin EXCEPT ![p.a].agendada = v]
    BY <1>1, <1>5 DEF Encerrar, Agendar, Desistir, EspelharFim, EspelharPausa, Reativar,
       EspelharRetomada
  <2> QED BY <2>1 DEF CanceladasFicam, IInv, TypeOK
<1>6. CASE Vencer(r)
  BY <1>6 DEF Vencer, CanceladasFicam, IInv, TypeOK
<1>7. CASE CriarAssinatura(r)
  BY <1>7 DEF CriarAssinatura, NovaAssinatura, CanceladasFicam, IInv, TypeOK
<1>8. CASE Pedir(r)
  BY <1>8 DEF Pedir, NovaAssinatura, Vivas, Viva, CanceladasFicam, IInv, TypeOK
<1>9. CASE Registrar(r)
  <2>1. p.pc = "registra" /\ Viva(p.a)
    BY <1>1, <1>9 DEF Registrar, Em, Bom, Certo
  <2>2. assin' = [assin EXCEPT ![p.a].status = "ATIVA", ![p.a].fim = p.fim]
    BY <1>1, <1>9 DEF Registrar
  <2> QED BY <2>1, <2>2 DEF Viva, CanceladasFicam, IInv, TypeOK
<1> QED BY <1>2, <1>3, <1>4, <1>5, <1>6, <1>7, <1>8, <1>9 DEF Passo

\* While no two handlers overlap, a paid invoice stays paid and a cancelled subscription is over.
THEOREM NadaSempreVolta == SpecCobranca => NadaVolta
<1>1. ASSUME SInv, [NextCobranca]_<<vars, historia>>, ~juntos PROVE PagasFicam /\ CanceladasFicam
  <2>1. Sequencial /\ IInv
    BY <1>1 DEF SInv
  <2>2. CASE UNCHANGED <<fatura, licAte, req>>
             /\ (UNCHANGED assin \/ \E a \in Assinatura, s \in StatusPreapproval : MpMuda(a, s))
    BY <2>1, <2>2 DEF PagasFicam, CanceladasFicam, MpMuda, IInv, TypeOK
  <2>3. ASSUME NEW r \in Req, Sozinho(r), Comecar(r) \/ Passo(r) \/ Falhar(r)
        PROVE  PagasFicam /\ CanceladasFicam
    <3>1. Bom(req[r])
      BY <2>1, <2>3, Decola
    <3> QED BY <2>1, <2>3, <3>1, PassoPagas, PassoCanceladas
  <2>4. CASE Ambiente \/ UNCHANGED vars
    BY <2>2, <2>4 DEF Ambiente, MpCobra, MpMuda, PassarDia, vars, banco
  <2> QED BY <1>1, <2>3, <2>4 DEF NextCobranca, NextUm, NextJuntos
<1>2. SInv /\ [NextCobranca]_<<vars, historia>> =>
        [~juntos =>
           /\ \A f \in Fatura : fatura[f].status = "PAGA" => fatura'[f].status = "PAGA"
           /\ \A a \in Assinatura : assin[a].status = "CANCELADA" => assin'[a].status = "CANCELADA"]_vars
  BY <1>1 DEF PagasFicam, CanceladasFicam
<1> QED BY <1>2, InvarianteSequencial, PTL DEF SpecCobranca, NadaVolta
=============================================================================
