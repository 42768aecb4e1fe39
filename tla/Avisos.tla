-------------------------------- MODULE Avisos --------------------------------
(***************************************************************************)
(* The daily routine's e-mails: three days before a period ends, for whom  *)
(* has to act, and once it ended unpaid, on the days that follow.  A row   *)
(* of the audit trail says that one was sent; checking it, sending and     *)
(* writing it are three steps, and neither e-mail nor audit ever throws.   *)
(*                                                                         *)
(* One subscription per account, paid before.  A payment is one step       *)
(* (Cobranca has its own), time is the day, and restarts start the         *)
(* routine again on the same day.                                          *)
(***************************************************************************)
EXTENDS Integers, FiniteSets

CONSTANTS
  AssinaturaAv,   \* the subscriptions
  ReqAv,          \* executions of the routine that may overlap
  Ciclo,          \* days of a period
  UltimoDiaAv,    \* bound: the last day
  MaxMortes       \* bound: executions that die and rows that are lost

ASSUME AvisosAssumption ==
  /\ Ciclo \in Nat /\ Ciclo > 3
  /\ UltimoDiaAv \in Nat /\ MaxMortes \in Nat
ASSUME AvisosFinitosAssumption == IsFiniteSet(ReqAv)

VARIABLES
  diaAv,       \* today
  sitAv,       \* Assinatura.status
  inicioAv,    \* periodoAtualInicio
  fimAv,       \* periodoAtualFim, the due day of the next invoice
  cartaoAv,    \* those that Mercado Pago charges
  agendadaAv,  \* subscriptions with cancelaNoFimDoPeriodo
  auditAv,     \* the day of the last row of each kind and subscription, -1 for none
  enviadosAv,  \* e-mails sent, by kind, subscription and end of period
  mortesAv,    \* executions that died and rows that were lost
  ultimaAv,    \* the day the last complete execution began
  pontualAv,   \* executions came one after the other, complete, four days apart at most
  reqAv        \* the executions in flight

linhasAv == <<sitAv, inicioAv, fimAv, cartaoAv, agendadaAv>>
contasAv == <<enviadosAv, mortesAv, ultimaAv, pontualAv>>
varsAvisos == <<diaAv, linhasAv, auditAv, contasAv, reqAv>>

Tipos == {"pre", "vencido"}
Dias == 0 .. (UltimoDiaAv + Ciclo)

\* a row as a list read it
Lido == [a : AssinaturaAv, inicio : Dias, fim : Dias]

\* an execution: where it is, the day it began, the day of its lists, which one it goes
\* through, what is left of it and the item in its hands
LivreAv == [pc |-> "livre", comeco |-> 0, hoje |-> 0, tipo |-> "pre", itens |-> {}, item |-> {}]

InitAvisos ==
  /\ diaAv = 0
  /\ sitAv = [a \in AssinaturaAv |-> "ATIVA"]
  /\ inicioAv = [a \in AssinaturaAv |-> 0]
  /\ fimAv = [a \in AssinaturaAv |-> Ciclo]
  /\ cartaoAv \in SUBSET AssinaturaAv
  /\ agendadaAv = {} /\ auditAv = [x \in Tipos \X AssinaturaAv |-> -1]
  /\ enviadosAv = [x \in Tipos \X AssinaturaAv \X Dias |-> 0]
  /\ mortesAv = 0 /\ ultimaAv = 0 /\ pontualAv = TRUE
  /\ reqAv = [r \in ReqAv |-> LivreAv]

-----------------------------------------------------------------------------
EmAv(r, pc) == reqAv[r].pc = pc
SegueAv(r, q) == reqAv' = [reqAv EXCEPT ![r] = q]
SoLeAv(r, q) == SegueAv(r, q) /\ UNCHANGED <<diaAv, linhasAv, auditAv, contasAv>>

Lidos(as) == {[a |-> a, inicio |-> inicioAv[a], fim |-> fimAv[a]] : a \in as}

Atrasadas == {a \in AssinaturaAv \ agendadaAv : fimAv[a] < diaAv /\ sitAv[a] = "ATIVA"}

\* what pontualAv asks for has been broken
Impontual == pontualAv' = FALSE /\ ultimaAv' = 0

\* marcarFaturasVencidas reads: an invoice is open until the period is left to end
Comecar(r) ==
  /\ EmAv(r, "livre")
  /\ SegueAv(r, [LivreAv EXCEPT !.pc = IF Atrasadas = {} THEN "lista" ELSE "marca",
                   !.comeco = diaAv, !.hoje = diaAv, !.itens = Lidos(Atrasadas)])
  /\ IF \A s \in ReqAv : EmAv(s, "livre") THEN UNCHANGED <<pontualAv, ultimaAv>> ELSE Impontual
  /\ UNCHANGED <<diaAv, linhasAv, auditAv, enviadosAv, mortesAv>>

\* and writes, by id
MarcarVencidas(r) ==
  /\ EmAv(r, "marca")
  /\ sitAv' = [a \in AssinaturaAv |->
                 IF \E i \in reqAv[r].itens : i.a = a THEN "INADIMPLENTE" ELSE sitAv[a]]
  /\ SegueAv(r, [reqAv[r] EXCEPT !.pc = "lista", !.hoje = diaAv])
  /\ UNCHANGED <<diaAv, inicioAv, fimAv, cartaoAv, agendadaAv, auditAv, contasAv>>

PrestesAVencer(q) ==
  {a \in AssinaturaAv : /\ sitAv[a] = "ATIVA" /\ fimAv[a] = q.hoje + 3
                        /\ a \notin cartaoAv \/ a \in agendadaAv}

\* fault: the end of the period is asked, not the status
VencidasPelaData(q) == {a \in AssinaturaAv : fimAv[a] \in (q.hoje - 4) .. q.hoje}

Vencidas(q) ==
  {a \in AssinaturaAv : sitAv[a] = "INADIMPLENTE" /\ fimAv[a] \in (q.hoje - 4) .. (q.hoje - 1)}

Listar(r) ==
  LET q == reqAv[r]
  IN /\ EmAv(r, "lista")
     /\ SoLeAv(r, [q EXCEPT !.pc = "confere",
                     !.itens = Lidos(IF q.tipo = "pre" THEN PrestesAVencer(q) ELSE Vencidas(q))])

\* fault: only today's rows are asked for
JaEnviadoHoje(tipo, i) == auditAv[<<tipo, i.a>>] = diaAv

\* a row since the period began, or since it ended
JaEnviado(tipo, i) == auditAv[<<tipo, i.a>>] >= IF tipo = "pre" THEN i.inicio ELSE i.fim

Conferir(r) ==
  /\ EmAv(r, "confere")
  /\ \E i \in reqAv[r].itens :
       SoLeAv(r, [reqAv[r] EXCEPT !.itens = @ \ {i},
                    !.pc = IF JaEnviado(reqAv[r].tipo, i) THEN "confere" ELSE "envia",
                    !.item = IF JaEnviado(reqAv[r].tipo, i) THEN {} ELSE {i}])

Enviar(r) ==
  LET q == reqAv[r]
  IN /\ EmAv(r, "envia")
     /\ \E i \in q.item : enviadosAv' = [enviadosAv EXCEPT ![<<q.tipo, i.a, i.fim>>] = @ + 1]
     /\ SegueAv(r, [q EXCEPT !.pc = "anota"])
     /\ UNCHANGED <<diaAv, linhasAv, auditAv, mortesAv, ultimaAv, pontualAv>>

Anotar(r) ==
  LET q == reqAv[r]
  IN /\ EmAv(r, "anota")
     /\ \E i \in q.item : auditAv' = [auditAv EXCEPT ![<<q.tipo, i.a>>] = diaAv]
     /\ SegueAv(r, [q EXCEPT !.pc = "confere", !.item = {}])
     /\ UNCHANGED <<diaAv, linhasAv, contasAv>>

\* the list is over: the other one, or the end of the execution
Terminar(r) ==
  LET q == reqAv[r]
  IN /\ EmAv(r, "confere") /\ q.itens = {}
     /\ \/ q.tipo = "pre" /\ SoLeAv(r, [q EXCEPT !.pc = "lista", !.tipo = "vencido"])
        \/ /\ q.tipo = "vencido"
           /\ SegueAv(r, LivreAv)
           /\ ultimaAv' = IF pontualAv /\ q.comeco > ultimaAv THEN q.comeco ELSE ultimaAv
           /\ UNCHANGED <<diaAv, linhasAv, auditAv, enviadosAv, mortesAv, pontualAv>>

-----------------------------------------------------------------------------
(* Faults: the process dies, or the row is lost (a refused e-mail looks sent) *)

Perde == mortesAv < MaxMortes /\ mortesAv' = mortesAv + 1

AnotarEmVao(r) ==
  /\ EmAv(r, "anota") /\ Perde /\ Impontual
  /\ SegueAv(r, [reqAv[r] EXCEPT !.pc = "confere", !.item = {}])
  /\ UNCHANGED <<diaAv, linhasAv, auditAv, enviadosAv>>

Morrer(r) ==
  /\ ~EmAv(r, "livre") /\ Perde /\ Impontual
  /\ SegueAv(r, LivreAv)
  /\ UNCHANGED <<diaAv, linhasAv, auditAv, enviadosAv>>

-----------------------------------------------------------------------------
(* Around the routine *)

\* registrarPagamento: from the due day, or from today when that period is over too
PagarPeriodo(a) ==
  LET novo == IF fimAv[a] + Ciclo <= diaAv THEN diaAv ELSE fimAv[a]
  IN /\ a \notin agendadaAv /\ fimAv[a] <= UltimoDiaAv
     /\ sitAv' = [sitAv EXCEPT ![a] = "ATIVA"]
     /\ inicioAv' = [inicioAv EXCEPT ![a] = novo]
     /\ fimAv' = [fimAv EXCEPT ![a] = novo + Ciclo]
     /\ UNCHANGED <<diaAv, cartaoAv, agendadaAv, auditAv, contasAv, reqAv>>

\* cancelarNoFimDoPeriodo: its open invoice is cancelled, so that it is never overdue
AgendarCancelamento(a) ==
  /\ a \notin agendadaAv
  /\ agendadaAv' = agendadaAv \cup {a}
  /\ UNCHANGED <<diaAv, sitAv, inicioAv, fimAv, cartaoAv, auditAv, contasAv, reqAv>>

\* bound: an execution lasts one midnight at most
PassarDiaAv ==
  /\ diaAv < UltimoDiaAv
  /\ \A r \in ReqAv : EmAv(r, "livre") \/ reqAv[r].comeco = diaAv
  /\ diaAv' = diaAv + 1
  /\ IF pontualAv /\ diaAv + 1 - ultimaAv <= 4 THEN UNCHANGED <<pontualAv, ultimaAv>> ELSE Impontual
  /\ UNCHANGED <<linhasAv, auditAv, enviadosAv, mortesAv, reqAv>>

PassoAvisos(r) ==
  \/ Comecar(r) \/ MarcarVencidas(r) \/ Listar(r) \/ Conferir(r) \/ Enviar(r) \/ Anotar(r)
  \/ Terminar(r)

FalhaAvisos(r) == AnotarEmVao(r) \/ Morrer(r)

ClienteAvisos == \E a \in AssinaturaAv : PagarPeriodo(a) \/ AgendarCancelamento(a)

-----------------------------------------------------------------------------
\* Type invariant.
TypeOKAvisos ==
  /\ diaAv \in 0 .. UltimoDiaAv
  /\ sitAv \in [AssinaturaAv -> {"ATIVA", "INADIMPLENTE"}]
  /\ inicioAv \in [AssinaturaAv -> Dias] /\ fimAv \in [AssinaturaAv -> Dias]
  /\ cartaoAv \subseteq AssinaturaAv /\ agendadaAv \subseteq AssinaturaAv
  /\ auditAv \in [Tipos \X AssinaturaAv -> -1 .. UltimoDiaAv]
  /\ enviadosAv \in [Tipos \X AssinaturaAv \X Dias -> Nat]
  /\ mortesAv \in 0 .. MaxMortes /\ ultimaAv \in 0 .. diaAv /\ pontualAv \in BOOLEAN
  /\ \A r \in ReqAv :
       /\ reqAv[r].pc \in {"livre", "marca", "lista", "confere", "envia", "anota"}
       /\ reqAv[r].comeco \in 0 .. diaAv /\ reqAv[r].hoje \in 0 .. diaAv
       /\ reqAv[r].tipo \in Tipos
       /\ reqAv[r].itens \subseteq Lido /\ reqAv[r].item \subseteq Lido

\* However executions overlap, die and lose their rows, and whatever is paid meanwhile: a
\* warning of one period goes out at most once for each execution at work and once more for
\* each that died or lost its row, on whatever days.
AvisoLimitado ==
  \A x \in DOMAIN enviadosAv : enviadosAv[x] <= Cardinality(ReqAv) + mortesAv
=============================================================================
