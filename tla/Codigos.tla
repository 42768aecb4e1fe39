-------------------------------- MODULE Codigos --------------------------------
(***************************************************************************)
(* The buyer signs in with a code sent by e-mail: how many codes one       *)
(* address gets in a window, how many wrong guesses a code takes, and that *)
(* it opens one session.  Every check is a read some awaits before the     *)
(* write it protects.                                                      *)
(*                                                                         *)
(* Left out: the e-mail itself, the buyer's profile, the session's JWT.    *)
(***************************************************************************)
EXTENDS Integers, FiniteSets

CONSTANTS
  ReqCod,       \* request slots
  MaxCodigos,   \* bound: codes, numbered as they are created
  PorJanela,    \* CODIGOS_POR_JANELA
  Tentativas    \* TENTATIVAS_POR_CODIGO

ASSUME CodigosAssumption ==
  MaxCodigos \in Nat /\ PorJanela \in Nat \ {0} /\ Tentativas \in Nat \ {0}
ASSUME CodFinitosAssumption == IsFiniteSet(ReqCod)

VARIABLES
  criados,     \* codes created so far
  apagadosAte, \* the rows up to here were deleted
  naJanela,    \* the rows whose 15 minutes are not over
  tentativas,  \* CodigoComprador.tentativas
  gastos,      \* CodigoComprador.usadoEm
  entradas,    \* how many sessions each code opened
  reqCod       \* the handlers in flight

varsCodigos == <<criados, apagadosAte, naJanela, tentativas, gastos, entradas, reqCod>>

Codigo == 1 .. MaxCodigos

\* a handler: where it is and the code it found
HandlerCod == [pc : {"livre", "cria", "erra", "usa", "entra", "apaga"}, cod : 0 .. MaxCodigos]
LivreCod == [pc |-> "livre", cod |-> 0]

InitCodigos ==
  /\ criados = 0 /\ apagadosAte = 0
  /\ naJanela = {}
  /\ tentativas = [c \in Codigo |-> 0]
  /\ gastos = {}
  /\ entradas = [c \in Codigo |-> 0]
  /\ reqCod = [r \in ReqCod |-> LivreCod]

-----------------------------------------------------------------------------
EmCod(r, pc) == reqCod[r].pc = pc
SegueCod(r, q) == reqCod' = [reqCod EXCEPT ![r] = q]

\* the codes confirmarCodigo may find, and the one it finds: the newest
Validos == naJanela \ gastos
Atual(c) == c \in Validos /\ \A d \in Validos : d <= c

\* the handlers about to create a code, or to count a wrong guess of c
Criando == {r \in ReqCod : EmCod(r, "cria")}
Errando(c) == {r \in ReqCod : EmCod(r, "erra") /\ reqCod[r].cod = c}

-----------------------------------------------------------------------------
(* pedirCodigo *)

\* recentes >= CODIGOS_POR_JANELA refuses
PedirCodigo(r) ==
  /\ EmCod(r, "livre")
  /\ Cardinality(naJanela) < PorJanela
  /\ SegueCod(r, [LivreCod EXCEPT !.pc = "cria"])
  /\ UNCHANGED <<criados, apagadosAte, naJanela, tentativas, gastos, entradas>>

CriarCodigo(r) ==
  /\ EmCod(r, "cria")
  /\ criados < MaxCodigos
  /\ criados' = criados + 1
  /\ naJanela' = naJanela \cup {criados + 1}
  /\ SegueCod(r, LivreCod)
  /\ UNCHANGED <<apagadosAte, tentativas, gastos, entradas>>

-----------------------------------------------------------------------------
(* confirmarCodigo *)

\* fault: one guess more
ConfirmarCodigoMaisUma(r, c) ==
  /\ EmCod(r, "livre")
  /\ Atual(c) /\ tentativas[c] <= Tentativas
  /\ \E pc \in {"erra", "usa"} : SegueCod(r, [pc |-> pc, cod |-> c])
  /\ UNCHANGED <<criados, apagadosAte, naJanela, tentativas, gastos, entradas>>

\* findFirst; the code typed is right or wrong
ConfirmarCodigo(r, c) ==
  /\ EmCod(r, "livre")
  /\ Atual(c) /\ tentativas[c] < Tentativas
  /\ \E pc \in {"erra", "usa"} : SegueCod(r, [pc |-> pc, cod |-> c])
  /\ UNCHANGED <<criados, apagadosAte, naJanela, tentativas, gastos, entradas>>

\* increment, of a row that is still there
Errar(r) ==
  LET c == reqCod[r].cod
  IN /\ EmCod(r, "erra")
     /\ c > apagadosAte
     /\ tentativas' = [tentativas EXCEPT ![c] = @ + 1]
     /\ SegueCod(r, LivreCod)
     /\ UNCHANGED <<criados, apagadosAte, naJanela, gastos, entradas>>

\* fault: the code stays unused
UsarNada(r) ==
  /\ EmCod(r, "usa")
  /\ SegueCod(r, [reqCod[r] EXCEPT !.pc = "entra"])
  /\ UNCHANGED <<criados, apagadosAte, naJanela, tentativas, gastos, entradas>>

\* usadoEm is written by id, whoever wrote it before
Usar(r) ==
  /\ EmCod(r, "usa")
  /\ reqCod[r].cod > apagadosAte
  /\ gastos' = gastos \cup {reqCod[r].cod}
  /\ SegueCod(r, [reqCod[r] EXCEPT !.pc = "entra"])
  /\ UNCHANGED <<criados, apagadosAte, naJanela, tentativas, entradas>>

\* entrar
Entrar(r) ==
  /\ EmCod(r, "entra")
  /\ entradas' = [entradas EXCEPT ![reqCod[r].cod] = @ + 1]
  /\ SegueCod(r, LivreCod)
  /\ UNCHANGED <<criados, apagadosAte, naJanela, tentativas, gastos>>

-----------------------------------------------------------------------------
(* apagarMeusDados: the e-mail is read, then the codes and the address go together *)

AbrirApagar(r) ==
  /\ EmCod(r, "livre")
  /\ \E c \in Codigo : entradas[c] > 0
  /\ SegueCod(r, [LivreCod EXCEPT !.pc = "apaga"])
  /\ UNCHANGED <<criados, apagadosAte, naJanela, tentativas, gastos, entradas>>

ApagarCodigos(r) ==
  /\ EmCod(r, "apaga")
  /\ naJanela' = {}
  /\ apagadosAte' = criados
  /\ SegueCod(r, LivreCod)
  /\ UNCHANGED <<criados, tentativas, gastos, entradas>>

\* an exception (a deleted row among others) or a restart
FalharCod(r) ==
  /\ ~EmCod(r, "livre")
  /\ SegueCod(r, LivreCod)
  /\ UNCHANGED <<criados, apagadosAte, naJanela, tentativas, gastos, entradas>>

\* CODIGO_VALE_MS: the oldest first
VencerCodigo(c) ==
  /\ c \in naJanela /\ \A d \in naJanela : c <= d
  /\ naJanela' = naJanela \ {c}
  /\ UNCHANGED <<criados, apagadosAte, tentativas, gastos, entradas, reqCod>>

PassoCodigos(r) ==
  \/ PedirCodigo(r) \/ CriarCodigo(r)
  \/ \E c \in Codigo : ConfirmarCodigo(r, c)
  \/ Errar(r) \/ Usar(r) \/ Entrar(r)
  \/ AbrirApagar(r) \/ ApagarCodigos(r) \/ FalharCod(r)

NextCodigos ==
  \/ \E r \in ReqCod : PassoCodigos(r)
  \/ \E c \in Codigo : VencerCodigo(c)

SpecCodigos == InitCodigos /\ [][NextCodigos]_varsCodigos
-----------------------------------------------------------------------------
(* Properties *)

\* Type invariant.
TypeOKCodigos ==
  /\ criados \in 0 .. MaxCodigos /\ apagadosAte \in 0 .. MaxCodigos
  /\ naJanela \subseteq Codigo
  /\ tentativas \in [Codigo -> Nat]
  /\ gastos \subseteq Codigo
  /\ entradas \in [Codigo -> Nat]
  /\ reqCod \in [ReqCod -> HandlerCod]

\* Guesses sent at the same time all read the count before any adds to it: a code takes at
\* most one guess more per other handler in flight, never an unbounded number.
TentativasLimitadas ==
  \A c \in Codigo :
    tentativas[c] + Cardinality(Errando(c)) <= Tentativas - 1 + Cardinality(ReqCod)

\* Codes asked for at the same time all count before any is created: a window holds at most
\* one code more per other handler in flight.
JanelaLimitada ==
  Cardinality(naJanela) + Cardinality(Criando) <= PorJanela - 1 + Cardinality(ReqCod)

\* Neither limit of the codes is passed by more than the handlers in flight.
CodigosLimitados == TentativasLimitadas /\ JanelaLimitada
=============================================================================
