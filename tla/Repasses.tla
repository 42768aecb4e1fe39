------------------------------- MODULE Repasses -------------------------------
(***************************************************************************)
(* FinanceiroAdminService: what the platform owes one photographer.  The   *)
(* balance is no column: it is what the paid orders say is the             *)
(* photographer's, less the transfers already made or open.  An            *)
(* administrator generates a transfer, sends the Pix by hand and marks it  *)
(* paid or failed.  Handlers are cut at each await; saldos reads the       *)
(* orders, the transfers and the open ones at once, each read on its own.  *)
(*                                                                         *)
(* Left out: SOLICITADO, which nothing writes; the period, the reference,  *)
(* audit and lists.  How an order is paid or returned is in Vendas.        *)
(***************************************************************************)
EXTENDS Integers, FiniteSets, FiniteSetsExt

CONSTANTS
  Venda,        \* the photographer's orders
  ValorVenda,   \* repasseCentavos of each order
  MaxRepasses,  \* bound: transfers, numbered as they are created
  Parciais,     \* the amounts an administrator may type; 0 for the whole balance
  ReqRep        \* request slots

ASSUME RepassesAssumption ==
  /\ IsFiniteSet(Venda) /\ ValorVenda \in [Venda -> Nat]
  /\ MaxRepasses \in Nat /\ Parciais \subseteq Nat

VARIABLES
  venda,       \* Pedido.status
  gerados,     \* transfers created so far
  transf,      \* Repasse.status
  valor,       \* Repasse.valorCentavos
  reqRep       \* the handlers in flight

linhasRep == <<gerados, transf, valor>>
varsRepasses == <<venda, linhasRep, reqRep>>

Repasse == 1 .. MaxRepasses
Leitura == {"vendido", "repassado", "abertos"}

\* a handler: where it is, the amount typed, what saldos has still to read and what it has
\* read, the transfer, the status it is to have
HandlerRep == [pc : {"livre", "saldos", "cria", "grava"}, pedido : Nat, falta : SUBSET Leitura,
               vendido : Nat, repassado : Nat, abertos : Nat, rep : 0 .. MaxRepasses,
               alvo : {"NENHUM", "PAGO", "FALHOU"}]

LivreRep == [pc |-> "livre", pedido |-> 0, falta |-> {}, vendido |-> 0, repassado |-> 0,
             abertos |-> 0, rep |-> 0, alvo |-> "NENHUM"]

InitRepasses ==
  /\ venda = [v \in Venda |-> "ABERTO"]
  /\ gerados = 0
  /\ transf = [t \in Repasse |-> "NENHUM"]
  /\ valor = [t \in Repasse |-> 0]
  /\ reqRep = [r \in ReqRep |-> LivreRep]

-----------------------------------------------------------------------------
EmRep(r, pc) == reqRep[r].pc = pc
SegueRep(r, q) == reqRep' = [reqRep EXCEPT ![r] = q]

\* the sums of the three queries
Devido == MapThenSumSet(LAMBDA v : ValorVenda[v], {v \in Venda : venda[v] = "PAGO"})
Contam == {t \in Repasse : transf[t] \in {"ABERTO", "PAGO"}}
Repassado == MapThenSumSet(LAMBDA t : valor[t], Contam)
RepassesAbertos == {t \in Repasse : transf[t] = "ABERTO"}

-----------------------------------------------------------------------------
(* gerarRepasse *)

AbrirRepasse(r, v) ==
  /\ EmRep(r, "livre")
  /\ SegueRep(r, [LivreRep EXCEPT !.pc = "saldos", !.pedido = v, !.falta = Leitura])
  /\ UNCHANGED <<venda, linhasRep>>

\* Promise.all: in any order
LerSaldo(r, x) ==
  LET q == reqRep[r]
  IN /\ EmRep(r, "saldos")
     /\ x \in q.falta
     /\ SegueRep(r,
          [q EXCEPT !.falta = @ \ {x},
                    !.vendido = IF x = "vendido" THEN Devido ELSE @,
                    !.repassado = IF x = "repassado" THEN Repassado ELSE @,
                    !.abertos = IF x = "abertos" THEN Cardinality(RepassesAbertos) ELSE @,
                    !.pc = IF q.falta = {x} THEN "cria" ELSE "saldos"])
     /\ UNCHANGED <<venda, linhasRep>>

Quantia(q) == IF q.pedido = 0 THEN q.vendido - q.repassado ELSE q.pedido

\* fault: the amount typed is taken as it is
CriarRepasseDigitado(r) ==
  LET q == reqRep[r]
      t == gerados + 1
  IN /\ EmRep(r, "cria")
     /\ q.abertos = 0 /\ Quantia(q) > 0
     /\ t \in Repasse
     /\ gerados' = t
     /\ transf' = [transf EXCEPT ![t] = "ABERTO"]
     /\ valor' = [valor EXCEPT ![t] = Quantia(q)]
     /\ SegueRep(r, LivreRep)
     /\ UNCHANGED venda

CriarRepasse(r) ==
  LET q == reqRep[r]
      t == gerados + 1
  IN /\ EmRep(r, "cria")
     /\ q.abertos = 0
     /\ Quantia(q) > 0 /\ Quantia(q) <= q.vendido - q.repassado
     /\ t \in Repasse
     /\ gerados' = t
     /\ transf' = [transf EXCEPT ![t] = "ABERTO"]
     /\ valor' = [valor EXCEPT ![t] = Quantia(q)]
     /\ SegueRep(r, LivreRep)
     /\ UNCHANGED venda

-----------------------------------------------------------------------------
(* pagarRepasse and falhaRepasse: the status is read, then written by id *)

AbrirPagar(r, t) ==
  /\ EmRep(r, "livre")
  /\ transf[t] \in {"ABERTO", "FALHOU"}
  /\ SegueRep(r, [LivreRep EXCEPT !.pc = "grava", !.rep = t, !.alvo = "PAGO"])
  /\ UNCHANGED <<venda, linhasRep>>

AbrirFalha(r, t) ==
  /\ EmRep(r, "livre")
  /\ transf[t] = "ABERTO"
  /\ SegueRep(r, [LivreRep EXCEPT !.pc = "grava", !.rep = t, !.alvo = "FALHOU"])
  /\ UNCHANGED <<venda, linhasRep>>

GravarRepasse(r) ==
  /\ EmRep(r, "grava")
  /\ transf' = [transf EXCEPT ![reqRep[r].rep] = reqRep[r].alvo]
  /\ SegueRep(r, LivreRep)
  /\ UNCHANGED <<venda, gerados, valor>>

-----------------------------------------------------------------------------
\* refused, an exception or a restart
DesistirRep(r) ==
  /\ ~EmRep(r, "livre")
  /\ SegueRep(r, LivreRep)
  /\ UNCHANGED <<venda, linhasRep>>

\* the sale, by Vendas
VenderOuDevolver(v) ==
  /\ \/ venda[v] = "ABERTO" /\ venda' = [venda EXCEPT ![v] = "PAGO"]
     \/ venda[v] = "PAGO" /\ venda' = [venda EXCEPT ![v] = "ESTORNADO"]
  /\ UNCHANGED <<linhasRep, reqRep>>

PassoRepasses(r) ==
  \/ \E v \in Parciais : AbrirRepasse(r, v)
  \/ \E x \in Leitura : LerSaldo(r, x)
  \/ CriarRepasse(r)
  \/ \E t \in Repasse : AbrirPagar(r, t) \/ AbrirFalha(r, t)
  \/ GravarRepasse(r) \/ DesistirRep(r)

NextRepasses ==
  \/ \E r \in ReqRep : PassoRepasses(r)
  \/ \E v \in Venda : VenderOuDevolver(v)

SpecRepasses == InitRepasses /\ [][NextRepasses]_varsRepasses
-----------------------------------------------------------------------------
(* Properties *)

\* Type invariant.
TypeOKRepasses ==
  /\ venda \in [Venda -> {"ABERTO", "PAGO", "ESTORNADO"}]
  /\ gerados \in 0 .. MaxRepasses
  /\ transf \in [Repasse -> {"NENHUM", "ABERTO", "PAGO", "FALHOU"}]
  /\ valor \in [Repasse -> Nat]
  /\ reqRep \in [ReqRep -> HandlerRep]
=============================================================================
