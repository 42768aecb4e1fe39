------------------------------- MODULE MCFalhas -------------------------------
(* What comes through although messages are lost: MP's notifications reach the order, and the  *)
(* paid orders reach the desktop.  The two share no step here, so each behaviour runs one.     *)
EXTENDS MCWebhooks, PuxarPedidos

VARIABLES
  vez,   \* the component this behaviour runs
  fora   \* an order was committed not after, in (atualizadoEm, id), all those committed

historia == <<vez, fora>>

InitFalhas ==
  /\ InitWebhooks /\ InitPuxar
  /\ vez \in {"webhooks", "puxar"}
  /\ fora = FALSE

NextWeb == vez = "webhooks" /\ NextWebhooks /\ UNCHANGED <<varsPuxar, historia>>

ComitaFora(p) == \E q \in Fechados : ~Antes(MarcaDe(q), <<escrevendo[p][2], p>>)

NextPux ==
  /\ vez = "puxar"
  /\ \/ (Relogio \/ Puxar \/ PuxarVazio \/ ReceberPagina \/ PerderPagina) /\ UNCHANGED fora
     \/ \E p \in PedidoPux, s \in Situacao : Escrever(p, s) /\ UNCHANGED fora
     \/ \E p \in PedidoPux : Comitar(p) /\ fora' = (fora \/ ComitaFora(p))
  /\ UNCHANGED <<todas, vez>>

SpecFalhas ==
  InitFalhas /\ [][NextWeb \/ NextPux]_<<todas, varsPuxar, historia>>
             /\ JusticaWebhooks /\ JusticaPuxar
-----------------------------------------------------------------------------
(* Properties *)

\* Type invariant.
TypeOKFalhas == TypeOKWebhooks /\ TypeOKPuxar

\* The cursor passes no order over: while orders commit in the order of their instants, the desktop
\* has every order its cursor is not before, and has it as it is.
CursorNaoPula ==
  fora \/ \A p \in Fechados : Antes(cursor, MarcaDe(p)) \/ copia[p] = situacao[p]

\* The desktop goes on asking and some answer arrives: what was paid reaches it, however writers,
\* pages and lost answers interleave, so that the cursor passes no order over, unless one
\* committed before others that came first.
ChegaNoDesktop == \A p \in PedidoPux : situacao[p] = "PAGO" ~> (copia[p] # "ABERTO" \/ fora)
=============================================================================
