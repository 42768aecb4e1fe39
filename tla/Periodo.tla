-------------------------------- MODULE Periodo --------------------------------
(***************************************************************************)
(* The calendar of a subscription: periods are added month by month, or    *)
(* year by year, with JavaScript's dates, which carry the days a month     *)
(* does not have into the next one; each invoice is due where the last     *)
(* period ended, and a payment that comes after its whole period starts a  *)
(* new one that day.  Dates are days since the first of PrimeiroAno.       *)
(***************************************************************************)
EXTENDS Integers, FiniteSets

CONSTANTS
  PrimeiroAno,     \* the first year of the calendar
  Anos,            \* bound: years in which invoices are paid
  AnosDeInicio,    \* bound: years in which subscriptions begin, from the first one
  MaxPagamentos,   \* bound: payments of a subscription
  Atrasos          \* days from a due date to its payment

ASSUME PeriodoAssumption ==
  /\ PrimeiroAno \in Nat /\ Anos \in Nat /\ AnosDeInicio \in 1 .. Anos
  /\ MaxPagamentos \in Nat \ {0} /\ Atrasos \subseteq Int

VARIABLES
  anual,       \* Plano.periodicidade = ANUAL
  ancora,      \* the day the chain of periods began
  pagosPer,    \* payments since then
  inicioPer,   \* the period in course
  fimPer,
  ultimoPag    \* the day of the last payment

varsPeriodo == <<anual, ancora, pagosPer, inicioPer, fimPer, ultimoPag>>

-----------------------------------------------------------------------------
(* The calendar: a date is a year, a month from 0 to 11 and a day *)

Bissexto(ano) == ano % 4 = 0 /\ (ano % 100 # 0 \/ ano % 400 = 0)
DiasNoMes(ano, mes) ==
  CASE mes = 1 -> IF Bissexto(ano) THEN 29 ELSE 28
    [] mes \in {3, 5, 8, 10} -> 30
    [] OTHER -> 31

AnoDe(m) == PrimeiroAno + m \div 12

\* the day on which a month begins, and the month of a day
Acumulado == <<0, 31, 59, 90, 120, 151, 181, 212, 243, 273, 304, 334>>
PrimeiroDe(m) ==
  365 * (m \div 12) + Acumulado[(m % 12) + 1]
    + Cardinality({y \in PrimeiroAno .. AnoDe(m) : Bissexto(y) /\ (y < AnoDe(m) \/ m % 12 > 1)})

MesDe(d) == CHOOSE m \in (d \div 31) .. (d \div 28) :
              PrimeiroDe(m) <= d /\ d < PrimeiroDe(m) + DiasNoMes(AnoDe(m), m % 12)
DiaDoMes(d) == d - PrimeiroDe(MesDe(d)) + 1

\* the same day of a later month, or its last
MesmoDia(d, meses) ==
  LET m == MesDe(d) + meses
      ultimo == DiasNoMes(AnoDe(m), m % 12)
  IN PrimeiroDe(m) + (IF DiaDoMes(d) > ultimo THEN ultimo ELSE DiaDoMes(d)) - 1

-----------------------------------------------------------------------------
MesesDoPeriodo == IF anual THEN 12 ELSE 1

\* fault: thirty days
SomarTrintaDias(inicio) == inicio + (IF anual THEN 365 ELSE 30)

\* somarPeriodo: setUTCMonth and setUTCFullYear keep the day's number, whatever the month
SomarPeriodo(inicio) == PrimeiroDe(MesDe(inicio) + MesesDoPeriodo) + DiaDoMes(inicio) - 1

\* a request: its first invoice is due that day, and paid then
InitPeriodo ==
  /\ anual \in BOOLEAN
  /\ ancora \in 0 .. (PrimeiroDe(12 * AnosDeInicio) - 1)
  /\ pagosPer = 1 /\ inicioPer = ancora /\ ultimoPag = ancora
  /\ fimPer = SomarPeriodo(ancora)

\* fim <= diaPagamento
PeriodoPassou(cheio, dia) == cheio <= dia

\* registrarPagamento; time runs forward
PagarEm(dia) ==
  LET cheio == SomarPeriodo(fimPer)
  IN /\ pagosPer < MaxPagamentos /\ ultimoPag <= dia /\ dia < PrimeiroDe(12 * Anos)
     /\ ultimoPag' = dia
     /\ IF PeriodoPassou(cheio, dia)
        THEN /\ inicioPer' = dia /\ fimPer' = SomarPeriodo(dia)
             /\ ancora' = dia /\ pagosPer' = 1
        ELSE /\ inicioPer' = fimPer /\ fimPer' = cheio
             /\ pagosPer' = pagosPer + 1 /\ UNCHANGED ancora
     /\ UNCHANGED anual

PagamentoPeriodo == \E d \in Atrasos : PagarEm(fimPer + d)

-----------------------------------------------------------------------------
\* Type invariant.
TypeOKPeriodo ==
  /\ anual \in BOOLEAN
  /\ {ancora, inicioPer, fimPer, ultimoPag} \subseteq Nat
  /\ pagosPer \in 1 .. MaxPagamentos

\* the due day against the day its months add up to
Deriva == fimPer - MesmoDia(ancora, pagosPer * MesesDoPeriodo)

\* However many invoices are paid one after the other, on whatever day of whatever month the
\* subscription began: its end is never before the day its months add up to, what the short
\* months carry over is three days at most, once and not at each of them, and a subscription
\* that began on a day every month has is always due on that day.
DerivaLimitada == Deriva \in 0 .. 3 /\ (DiaDoMes(ancora) <= 28 => Deriva = 0)

\* The calendar drifts no further, and a payment always buys days to come and never a day that
\* was paid before: the new period ends after it and begins no earlier than the last one ended.
PeriodoJusto ==
  [][<<inicioPer, fimPer>>' # <<inicioPer, fimPer>> =>
       DerivaLimitada' /\ fimPer' > ultimoPag' /\ inicioPer' >= fimPer]_varsPeriodo
=============================================================================
