---------------------------- MODULE Administradores ----------------------------
(***************************************************************************)
(* The administrators of the platform: who blocks whom, who excludes the   *)
(* own account, and the second factor of each, from the QR code to the     *)
(* recovery codes.  Everything is read first and written by id some awaits *)
(* later, and a write names only the columns it is about.                  *)
(*                                                                         *)
(* Left out: how an administrator is made (criar, scripts/criar-admin.ts:  *)
(* those of Admin are there from the start), the password, the sessions a  *)
(* block or an exclusion ends (Sessoes), the option that demands a second  *)
(* factor, how a code is computed: a six-digit code is right for the       *)
(* secret it was made from.                                                *)
(***************************************************************************)
EXTENDS Integers, FiniteSets

CONSTANTS
  Admin,        \* administrators
  ReqAdm,       \* request slots
  MaxSegredos,  \* bound: TOTP secrets generated
  MaxLotes,     \* bound: batches of recovery codes
  PorLote,      \* codes in a batch
  Ninguem       \* no administrator

ASSUME AdminAssumption ==
  MaxSegredos \in Nat /\ MaxLotes \in Nat /\ PorLote \in Nat /\ Ninguem \notin Admin
\* scripts/criar-admin.ts makes the first one
ASSUME AlguemAssumption == Admin # {}

VARIABLES
  bloqueados,   \* Conta.status = BLOQUEADA
  excluidosAdm, \* Conta.excluidoEm
  segredo,      \* Conta.totpSegredo, 0 for none
  ativado,      \* Conta.totpAtivadoEm
  confirmado,   \* the secret whose code the administrator has typed, 0 for none
  recuperacao,  \* Conta.codigosRecuperacao
  segredos,     \* secrets generated so far
  lotes,        \* batches generated so far
  entradasAdm,  \* how many logins each recovery code opened
  reqAdm        \* the handlers in flight

contasAdm == <<bloqueados, excluidosAdm, segredo, ativado, confirmado, recuperacao>>
geradosAdm == <<segredos, lotes>>
varsAdministradores == <<contasAdm, geradosAdm, entradasAdm, reqAdm>>

Segredo == 1 .. MaxSegredos
CodigoRec == (1 .. MaxLotes) \X (1 .. PorLote)

\* a handler: where it is, whose account it writes, the status it will write, the secret and
\* the codes it read, the recovery code typed
HandlerAdm == [pc : {"livre", "status", "zera", "segredo", "ativa", "regera", "desativa",
                     "consome", "entra", "exclui"},
               alvo : Admin \cup {Ninguem}, bloqueia : BOOLEAN, segredo : 0 .. MaxSegredos,
               lista : SUBSET CodigoRec, cod : SUBSET CodigoRec]

LivreAdm == [pc |-> "livre", alvo |-> Ninguem, bloqueia |-> FALSE, segredo |-> 0,
             lista |-> {}, cod |-> {}]

InitAdministradores ==
  /\ bloqueados = {} /\ excluidosAdm = {}
  /\ segredo = [a \in Admin |-> 0]
  /\ ativado = {}
  /\ confirmado = [a \in Admin |-> 0]
  /\ recuperacao = [a \in Admin |-> {}]
  /\ segredos = 0 /\ lotes = 0
  /\ entradasAdm = [c \in CodigoRec |-> 0]
  /\ reqAdm = [r \in ReqAdm |-> LivreAdm]

-----------------------------------------------------------------------------
EmAdm(r, pc) == reqAdm[r].pc = pc
SegueAdm(r, q) == reqAdm' = [reqAdm EXCEPT ![r] = q]
Le(r, q) == SegueAdm(r, q) /\ UNCHANGED <<contasAdm, geradosAdm, entradasAdm>>

\* who gets a request through: JwtGuard refuses the blocked and does not find the excluded
Entram == Admin \ (bloqueados \cup excluidosAdm)

Atende(r, a) == EmAdm(r, "livre") /\ a \in Entram

-----------------------------------------------------------------------------
(* AdminsAdminService: alterarStatus (of an excluded account too), zerar2fa *)

\* fault: an administrator may be the target of the own request
AbrirStatusDeSi(r, a, b, s) ==
  /\ Atende(r, a)
  /\ s # (b \in bloqueados)
  /\ Le(r, [LivreAdm EXCEPT !.pc = "status", !.alvo = b, !.bloqueia = s])

AbrirStatusAdmin(r, a, b, s) ==
  /\ Atende(r, a)
  /\ a # b
  /\ s # (b \in bloqueados)
  /\ Le(r, [LivreAdm EXCEPT !.pc = "status", !.alvo = b, !.bloqueia = s])

GravarStatusAdmin(r) ==
  LET q == reqAdm[r]
  IN /\ EmAdm(r, "status")
     /\ bloqueados' = IF q.bloqueia THEN bloqueados \cup {q.alvo} ELSE bloqueados \ {q.alvo}
     /\ SegueAdm(r, LivreAdm)
     /\ UNCHANGED <<excluidosAdm, segredo, ativado, confirmado, recuperacao, geradosAdm, entradasAdm>>

AbrirZerar2fa(r, a, b) ==
  /\ Atende(r, a)
  /\ a # b
  /\ Le(r, [LivreAdm EXCEPT !.pc = "zera", !.alvo = b])

\* zerar2fa and desativar: one update of three columns
Apagar2fa(r) ==
  LET a == reqAdm[r].alvo
  IN /\ EmAdm(r, "zera") \/ EmAdm(r, "desativa")
     /\ segredo' = [segredo EXCEPT ![a] = 0]
     /\ ativado' = ativado \ {a}
     /\ recuperacao' = [recuperacao EXCEPT ![a] = {}]
     /\ SegueAdm(r, LivreAdm)
     /\ UNCHANGED <<bloqueados, excluidosAdm, confirmado, geradosAdm, entradasAdm>>

-----------------------------------------------------------------------------
(* ContasService.excluir: any account excludes itself, an administrator's too *)

AbrirExclusao(r, a) ==
  /\ Atende(r, a)
  /\ Le(r, [LivreAdm EXCEPT !.pc = "exclui", !.alvo = a])

GravarExclusao(r) ==
  LET a == reqAdm[r].alvo
  IN /\ EmAdm(r, "exclui")
     /\ bloqueados' = bloqueados \cup {a}
     /\ excluidosAdm' = excluidosAdm \cup {a}
     /\ SegueAdm(r, LivreAdm)
     /\ UNCHANGED <<segredo, ativado, confirmado, recuperacao, geradosAdm, entradasAdm>>

-----------------------------------------------------------------------------
(* SegurancaAdminService: iniciar, confirmar, novosCodigos, desativar *)

AbrirIniciar(r, a) ==
  /\ Atende(r, a)
  /\ a \notin ativado
  /\ Le(r, [LivreAdm EXCEPT !.pc = "segredo", !.alvo = a])

GravarSegredo(r) ==
  /\ EmAdm(r, "segredo")
  /\ segredos < MaxSegredos
  /\ segredos' = segredos + 1
  /\ segredo' = [segredo EXCEPT ![reqAdm[r].alvo] = segredos + 1]
  /\ SegueAdm(r, LivreAdm)
  /\ UNCHANGED <<bloqueados, excluidosAdm, ativado, confirmado, recuperacao, lotes, entradasAdm>>

\* the code typed is one of the secret read
AbrirConfirmar(r, a) ==
  /\ Atende(r, a)
  /\ a \notin ativado /\ segredo[a] # 0
  /\ Le(r, [LivreAdm EXCEPT !.pc = "ativa", !.alvo = a, !.segredo = segredo[a]])

NovoLote == {lotes + 1} \X (1 .. PorLote)

\* totpAtivadoEm and the codes: the secret is not written again
Ativar2fa(r) ==
  LET q == reqAdm[r]
  IN /\ EmAdm(r, "ativa")
     /\ lotes < MaxLotes
     /\ lotes' = lotes + 1
     /\ ativado' = ativado \cup {q.alvo}
     /\ confirmado' = [confirmado EXCEPT ![q.alvo] = q.segredo]
     /\ recuperacao' = [recuperacao EXCEPT ![q.alvo] = NovoLote]
     /\ SegueAdm(r, LivreAdm)
     /\ UNCHANGED <<bloqueados, excluidosAdm, segredo, segredos, entradasAdm>>

\* exigirCodigo
AbrirNovosCodigos(r, a) ==
  /\ Atende(r, a)
  /\ a \in ativado /\ segredo[a] # 0
  /\ Le(r, [LivreAdm EXCEPT !.pc = "regera", !.alvo = a])

GravarNovosCodigos(r) ==
  /\ EmAdm(r, "regera")
  /\ lotes < MaxLotes
  /\ lotes' = lotes + 1
  /\ recuperacao' = [recuperacao EXCEPT ![reqAdm[r].alvo] = NovoLote]
  /\ SegueAdm(r, LivreAdm)
  /\ UNCHANGED <<bloqueados, excluidosAdm, segredo, ativado, confirmado, segredos, entradasAdm>>

AbrirDesativar(r, a) ==
  /\ Atende(r, a)
  /\ a \in ativado /\ segredo[a] # 0
  /\ Le(r, [LivreAdm EXCEPT !.pc = "desativa", !.alvo = a])

-----------------------------------------------------------------------------
(* AuthService.confirmar2fa with a recovery code *)

AbrirRecuperacao(r, a, c) ==
  /\ Atende(r, a)
  /\ segredo[a] # 0
  /\ c \in recuperacao[a]
  /\ Le(r, [LivreAdm EXCEPT !.pc = "consome", !.alvo = a, !.lista = recuperacao[a],
              !.cod = {c}])

\* consumirCodigoRecuperacao writes the list read, less the code
Consumir(r) ==
  LET q == reqAdm[r]
  IN /\ EmAdm(r, "consome")
     /\ recuperacao' = [recuperacao EXCEPT ![q.alvo] = q.lista \ q.cod]
     /\ SegueAdm(r, [q EXCEPT !.pc = "entra"])
     /\ UNCHANGED <<bloqueados, excluidosAdm, segredo, ativado, confirmado, geradosAdm, entradasAdm>>

\* abrirSessao
EntrarAdmin(r) ==
  /\ EmAdm(r, "entra")
  /\ entradasAdm' = [c \in CodigoRec |->
                       IF c \in reqAdm[r].cod THEN entradasAdm[c] + 1 ELSE entradasAdm[c]]
  /\ SegueAdm(r, LivreAdm)
  /\ UNCHANGED <<contasAdm, geradosAdm>>

-----------------------------------------------------------------------------
\* an exception or a restart
FalharAdm(r) == ~EmAdm(r, "livre") /\ Le(r, LivreAdm)

PassoAdministradores(r) ==
  \/ \E a, b \in Admin : \/ \E s \in BOOLEAN : AbrirStatusAdmin(r, a, b, s)
                         \/ AbrirZerar2fa(r, a, b)
  \/ \E a \in Admin : \/ AbrirIniciar(r, a) \/ AbrirConfirmar(r, a)
                      \/ AbrirNovosCodigos(r, a) \/ AbrirDesativar(r, a)
                      \/ AbrirExclusao(r, a)
                      \/ \E c \in CodigoRec : AbrirRecuperacao(r, a, c)
  \/ GravarStatusAdmin(r) \/ GravarExclusao(r) \/ Apagar2fa(r) \/ GravarSegredo(r) \/ Ativar2fa(r)
  \/ GravarNovosCodigos(r) \/ Consumir(r) \/ EntrarAdmin(r) \/ FalharAdm(r)

NextAdministradores == \E r \in ReqAdm : PassoAdministradores(r)

SpecAdministradores == InitAdministradores /\ [][NextAdministradores]_varsAdministradores
-----------------------------------------------------------------------------
(* Properties *)

\* Type invariant.
TypeOKAdministradores ==
  /\ bloqueados \subseteq Admin /\ excluidosAdm \subseteq Admin /\ ativado \subseteq Admin
  /\ segredo \in [Admin -> 0 .. MaxSegredos] /\ confirmado \in [Admin -> 0 .. MaxSegredos]
  /\ recuperacao \in [Admin -> SUBSET CodigoRec]
  /\ segredos \in 0 .. MaxSegredos /\ lotes \in 0 .. MaxLotes
  /\ entradasAdm \in [CodigoRec -> Nat]
  /\ reqAdm \in [ReqAdm -> HandlerAdm]
=============================================================================
