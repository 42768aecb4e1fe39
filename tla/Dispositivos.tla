----------------------------- MODULE Dispositivos -----------------------------
(***************************************************************************)
(* The machines of one account that run the desktop program: each holds a  *)
(* token, and the licence limits how many are connected at a time.  Linking*)
(* reads whether the machine is connected, counts the connected ones, and  *)
(* only then writes; the transaction that swaps the token revokes what it  *)
(* saw when its statement began (READ COMMITTED) and commits later.        *)
(*                                                                         *)
(* Left out: the password, the trial a first link emits (Licencas), a      *)
(* licence that changes, an account without a limit.                       *)
(***************************************************************************)
EXTENDS Integers, FiniteSets

CONSTANTS
  Maquina,     \* fingerprints
  ReqDisp,     \* request slots
  LimiteDisp,  \* recursos.limite_dispositivos
  MaxTokens,   \* bound: tokens, numbered as they are created
  SemMaquina      \* no machine

ASSUME DispAssumption == LimiteDisp \in Nat \ {0} /\ MaxTokens \in Nat /\ SemMaquina \notin Maquina
ASSUME DispFinitosAssumption == IsFiniteSet(Maquina) /\ IsFiniteSet(ReqDisp)

VARIABLES
  tokens,   \* TokenApi rows created so far
  maquina,  \* TokenApi.dispositivoId
  token,    \* what each token is: "vivo", "vencido" or "revogado"
  reqDisp   \* the handlers in flight

varsDispositivos == <<tokens, maquina, token, reqDisp>>

TokenApi == 1 .. MaxTokens

\* a handler: where it is, the machine it serves, the tokens its transaction sees alive, the
\* token it uses
HandlerDisp == [pc : {"livre", "conta", "linha", "troca", "grava", "revoga", "usa"},
                maq : Maquina \cup {SemMaquina}, vistos : SUBSET TokenApi, tok : 0 .. MaxTokens]

LivreDisp == [pc |-> "livre", maq |-> SemMaquina, vistos |-> {}, tok |-> 0]

InitDispositivos ==
  /\ tokens = 0
  /\ maquina = [t \in TokenApi |-> SemMaquina]
  /\ token = [t \in TokenApi |-> "vivo"]
  /\ reqDisp = [r \in ReqDisp |-> LivreDisp]

-----------------------------------------------------------------------------
EmDisp(r, pc) == reqDisp[r].pc = pc
SegueDisp(r, q) == reqDisp' = [reqDisp EXCEPT ![r] = q]

\* tokenVivo, of a machine or of any
VivosDa(m) == {t \in 1 .. tokens : maquina[t] = m /\ token[t] = "vivo"}
Conectadas == {m \in Maquina : VivosDa(m) # {}}
NaoRevogados(m) == {t \in 1 .. tokens : maquina[t] = m /\ token[t] # "revogado"}
Revoga(T) == token' = [t \in TokenApi |-> IF t \in T THEN "revogado" ELSE token[t]]

-----------------------------------------------------------------------------
(* vincularDispositivo *)

\* porFingerprint: a machine still connected takes no new place
Vincular(r, m) ==
  /\ EmDisp(r, "livre")
  /\ SegueDisp(r, [LivreDisp EXCEPT !.pc = IF m \in Conectadas THEN "linha" ELSE "conta",
                     !.maq = m])
  /\ UNCHANGED <<tokens, maquina, token>>

\* fault: the limit itself is let through
ContarConectadosAteOLimite(r) ==
  /\ EmDisp(r, "conta")
  /\ SegueDisp(r, IF Cardinality(Conectadas) <= LimiteDisp
                  THEN [reqDisp[r] EXCEPT !.pc = "linha"] ELSE LivreDisp)
  /\ UNCHANGED <<tokens, maquina, token>>

\* contarConectados >= limite refuses
ContarConectados(r) ==
  /\ EmDisp(r, "conta")
  /\ SegueDisp(r, IF Cardinality(Conectadas) < LimiteDisp
                  THEN [reqDisp[r] EXCEPT !.pc = "linha"] ELSE LivreDisp)
  /\ UNCHANGED <<tokens, maquina, token>>

\* the upsert of the machine's row
SalvarMaquina(r) ==
  /\ EmDisp(r, "linha")
  /\ SegueDisp(r, [reqDisp[r] EXCEPT !.pc = "troca"])
  /\ UNCHANGED <<tokens, maquina, token>>

\* trocarTokenDoDispositivo: updateMany sees the rows committed by now
TrocarToken(r) ==
  /\ EmDisp(r, "troca")
  /\ SegueDisp(r, [reqDisp[r] EXCEPT !.pc = "grava", !.vistos = NaoRevogados(reqDisp[r].maq)])
  /\ UNCHANGED <<tokens, maquina, token>>

\* trocarTokenDoDispositivo: create, commit
GravarToken(r) ==
  LET q == reqDisp[r]
      t == tokens + 1
  IN /\ EmDisp(r, "grava")
     /\ t \in TokenApi
     /\ tokens' = t
     /\ maquina' = [maquina EXCEPT ![t] = q.maq]
     /\ Revoga(q.vistos)
     /\ SegueDisp(r, LivreDisp)

-----------------------------------------------------------------------------
(* revogarDispositivo, revogarTodosDaConta *)

\* porIdDaConta
AbrirRevogacao(r, m) ==
  /\ EmDisp(r, "livre")
  /\ \E t \in 1 .. tokens : maquina[t] = m
  /\ SegueDisp(r, [LivreDisp EXCEPT !.pc = "revoga", !.maq = m])
  /\ UNCHANGED <<tokens, maquina, token>>

RevogarMaquina(r) ==
  /\ EmDisp(r, "revoga")
  /\ Revoga(NaoRevogados(reqDisp[r].maq))
  /\ SegueDisp(r, LivreDisp)
  /\ UNCHANGED <<tokens, maquina>>

RevogarTodas(r) ==
  /\ EmDisp(r, "livre")
  /\ tokens > 0
  /\ Revoga(1 .. tokens)
  /\ UNCHANGED <<tokens, maquina, reqDisp>>

-----------------------------------------------------------------------------
(* TokenApiGuard: read, then push the expiry by id *)

UsarToken(r, t) ==
  /\ EmDisp(r, "livre")
  /\ t <= tokens /\ token[t] = "vivo"
  /\ SegueDisp(r, [LivreDisp EXCEPT !.pc = "usa", !.tok = t, !.maq = maquina[t]])
  /\ UNCHANGED <<tokens, maquina, token>>

\* registrarUso: a token in its last half that ran out meanwhile is valid again
RegistrarUso(r) ==
  /\ EmDisp(r, "usa")
  /\ token' = [token EXCEPT ![reqDisp[r].tok] = IF @ = "vencido" THEN "vivo" ELSE @]
  /\ SegueDisp(r, LivreDisp)
  /\ UNCHANGED <<tokens, maquina>>

-----------------------------------------------------------------------------
\* an exception or a restart; the transaction rolls back
FalharDisp(r) ==
  /\ ~EmDisp(r, "livre")
  /\ SegueDisp(r, LivreDisp)
  /\ UNCHANGED <<tokens, maquina, token>>

\* TOKEN_API_DIAS without a use
VencerToken(t) ==
  /\ t <= tokens /\ token[t] = "vivo"
  /\ token' = [token EXCEPT ![t] = "vencido"]
  /\ UNCHANGED <<tokens, maquina, reqDisp>>

PassoDispositivos(r) ==
  \/ \E m \in Maquina : Vincular(r, m) \/ AbrirRevogacao(r, m)
  \/ ContarConectados(r) \/ SalvarMaquina(r) \/ TrocarToken(r) \/ GravarToken(r)
  \/ RevogarMaquina(r) \/ RevogarTodas(r)
  \/ \E t \in TokenApi : UsarToken(r, t)
  \/ RegistrarUso(r) \/ FalharDisp(r)

NextDispositivos ==
  \/ \E r \in ReqDisp : PassoDispositivos(r)
  \/ \E t \in TokenApi : VencerToken(t)

SpecDispositivos == InitDispositivos /\ [][NextDispositivos]_varsDispositivos
-----------------------------------------------------------------------------
(* Properties *)

\* Type invariant.
TypeOKDispositivos ==
  /\ tokens \in 0 .. MaxTokens
  /\ maquina \in [TokenApi -> Maquina \cup {SemMaquina}]
  /\ token \in [TokenApi -> {"vivo", "vencido", "revogado"}]
  /\ reqDisp \in [ReqDisp -> HandlerDisp]

\* the machines whose place a handler in flight has already been given
EmVoo == {r \in ReqDisp : reqDisp[r].pc \in {"linha", "troca", "grava", "usa"}}
ComVaga == {reqDisp[r].maq : r \in EmVoo}

\* However links, revocations, uses and expiries interleave, the count that comes before the
\* write lets through at most one machine too many per other handler in flight: never more
\* than the limit and |ReqDisp| - 1 connected at a time.
EstouroLimitado ==
  Cardinality(Conectadas \cup ComVaga) <= LimiteDisp - 1 + Cardinality(ReqDisp)
=============================================================================
