------------------------------- MODULE Sessoes -------------------------------
(***************************************************************************)
(* The web sessions of one account and one browser: login, the rotation of *)
(* the refresh token, sign-out, the password change by link or by panel,   *)
(* the exclusion of the account, and the administrator that blocks it.     *)
(* Each tab asks on its own, with the one cookie they share; handlers run  *)
(* in slots of ReqSes and are cut at each await; an answer may be lost.    *)
(*                                                                         *)
(* Left out: the access token (15 minutes, in memory), expiry, the second  *)
(* factor, the limits by address and by e-mail.                            *)
(***************************************************************************)
EXTENDS Integers, FiniteSets

CONSTANTS
  ReqSes,      \* request slots
  MaxSessoes,  \* bound: sessions, numbered as they are opened
  MaxLinks,    \* bound: links to reset the password
  MaxSenha     \* bound: changes of the password

ASSUME SessoesAssumption == MaxSessoes \in Nat /\ MaxLinks \in Nat /\ MaxSenha \in Nat

VARIABLES
  abertas,    \* sessions opened so far
  familia,    \* SessaoWeb.familia: the session the login opened
  usadas,     \* SessaoWeb.usadaEm
  revogadas,  \* SessaoWeb.revogadaEm
  deSenha,    \* the password each family was opened with
  senha,      \* Conta.senhaHash, as a version
  bloqueada,  \* Conta.status = BLOQUEADA
  excluida,   \* Conta.excluidoEm
  links,      \* TokenVerificacao: links[k] is "novo", "vivo" or "usado"
  trocas,     \* how often each link changed the password
  cookie,     \* the browser's cookie, 0 for none
  alarme,     \* families revoked because a spent token came back
  reqSes      \* the handlers in flight

linhasSes == <<abertas, familia, usadas, revogadas, deSenha>>
contaSes == <<senha, bloqueada, excluida>>
linksSes == <<links, trocas>>
varsSessoes == <<linhasSes, contaSes, linksSes, cookie, alarme, reqSes>>

Sessao == 1 .. MaxSessoes
Link == 1 .. MaxLinks
Rodando == {"le", "conta", "usa", "gira", "acusa"}

\* a handler: where it is, the session of its cookie, the family it serves, the session it
\* opened, the password it read, the link it follows, whether it opens a session at the end
HandlerSes == [pc : {"livre", "entra", "abre", "responde", "nega", "sai", "encerra", "emite",
                     "cria", "marca", "grava", "derruba", "bloqueia", "libera", "despede",
                     "exclui"} \cup Rodando,
               tok : 0 .. MaxSessoes, fam : 0 .. MaxSessoes, novo : 0 .. MaxSessoes,
               versao : 0 .. MaxSenha, link : 0 .. MaxLinks, volta : BOOLEAN]

LivreSes == [pc |-> "livre", tok |-> 0, fam |-> 0, novo |-> 0, versao |-> 0, link |-> 0,
             volta |-> FALSE]

InitSessoes ==
  /\ abertas = 0
  /\ familia = [t \in Sessao |-> 0]
  /\ usadas = {} /\ revogadas = {}
  /\ deSenha = [t \in Sessao |-> 0]
  /\ senha = 0 /\ bloqueada = FALSE /\ excluida = FALSE
  /\ links = [k \in Link |-> "novo"]
  /\ trocas = [k \in Link |-> 0]
  /\ cookie = 0
  /\ alarme = {}
  /\ reqSes = [r \in ReqSes |-> LivreSes]

-----------------------------------------------------------------------------
EmSes(r, pc) == reqSes[r].pc = pc
SegueSes(r, q) == reqSes' = [reqSes EXCEPT ![r] = q]
VaiSes(r, pc) == SegueSes(r, [reqSes[r] EXCEPT !.pc = pc])
ParadosSes == \A r \in ReqSes : EmSes(r, "livre")

\* porEmail and porId find the account, and its status lets it in
ContaAtende == ~bloqueada /\ ~excluida

Viva(t) == t \in 1 .. abertas /\ t \notin usadas \cup revogadas
DaFamilia(f) == {t \in 1 .. abertas : familia[t] = f}

\* abrirSessao: a new row, in the family f or (f = 0) in one of its own
Abre(r, f, versao) ==
  LET t == abertas + 1
  IN /\ t \in Sessao
     /\ abertas' = t
     /\ familia' = [familia EXCEPT ![t] = IF f = 0 THEN t ELSE f]
     /\ deSenha' = [deSenha EXCEPT ![t] = IF f = 0 THEN versao ELSE deSenha[f]]
     /\ SegueSes(r, [reqSes[r] EXCEPT !.pc = "responde", !.novo = t])
     /\ UNCHANGED <<usadas, revogadas>>

-----------------------------------------------------------------------------
(* login: autenticar reads the account, abrirSessao comes after the hash is checked *)

Autenticar(r) ==
  /\ EmSes(r, "livre")
  /\ ContaAtende
  /\ SegueSes(r, [LivreSes EXCEPT !.pc = "abre", !.versao = senha])
  /\ UNCHANGED <<linhasSes, contaSes, linksSes, cookie, alarme>>

AbrirSessao(r) ==
  /\ EmSes(r, "abre")
  /\ Abre(r, 0, reqSes[r].versao)
  /\ UNCHANGED <<contaSes, linksSes, cookie, alarme>>

\* responderSessao: the browser keeps the newest answer's cookie
Responder(r) ==
  /\ EmSes(r, "responde")
  /\ cookie' = reqSes[r].novo
  /\ SegueSes(r, LivreSes)
  /\ UNCHANGED <<linhasSes, contaSes, linksSes, alarme>>

-----------------------------------------------------------------------------
(* renovar *)

\* a tab opens, or got a 401: the browser sends the cookie it has now
PedirRenovacao(r) ==
  /\ EmSes(r, "livre")
  /\ cookie # 0
  /\ SegueSes(r, [LivreSes EXCEPT !.pc = "le", !.tok = cookie])
  /\ UNCHANGED <<linhasSes, contaSes, linksSes, cookie, alarme>>

\* porTokenHash
LerSessao(r) ==
  LET t == reqSes[r].tok
  IN /\ EmSes(r, "le")
     /\ VaiSes(r, IF t \in revogadas THEN "nega" ELSE IF t \in usadas THEN "acusa" ELSE "conta")
     /\ UNCHANGED <<linhasSes, contaSes, linksSes, cookie, alarme>>

\* the spent token came back: the whole family is revoked
Acusar(r) ==
  LET f == familia[reqSes[r].tok]
  IN /\ EmSes(r, "acusa")
     /\ revogadas' = revogadas \cup DaFamilia(f)
     /\ alarme' = alarme \cup {f}
     /\ VaiSes(r, "nega")
     /\ UNCHANGED <<abertas, familia, usadas, deSenha, contaSes, linksSes, cookie>>

\* contas.porId
LerContaSes(r) ==
  /\ EmSes(r, "conta")
  /\ VaiSes(r, IF ContaAtende THEN "usa" ELSE "nega")
  /\ UNCHANGED <<linhasSes, contaSes, linksSes, cookie, alarme>>

\* fault: the session goes on being usable
MarcarUsadaNada(r) ==
  /\ EmSes(r, "usa")
  /\ SegueSes(r, [reqSes[r] EXCEPT !.pc = "gira", !.fam = familia[reqSes[r].tok]])
  /\ UNCHANGED <<linhasSes, contaSes, linksSes, cookie, alarme>>

\* marcarUsada writes by id, whatever the session is by now
MarcarUsada(r) ==
  /\ EmSes(r, "usa")
  /\ usadas' = usadas \cup {reqSes[r].tok}
  /\ SegueSes(r, [reqSes[r] EXCEPT !.pc = "gira", !.fam = familia[reqSes[r].tok]])
  /\ UNCHANGED <<abertas, familia, revogadas, deSenha, contaSes, linksSes, cookie, alarme>>

Girar(r) ==
  /\ EmSes(r, "gira")
  /\ Abre(r, reqSes[r].fam, 0)
  /\ UNCHANGED <<contaSes, linksSes, cookie, alarme>>

\* limparCookieSessao: of every refused refresh, of the sign-out and of the exclusion
Negar(r) ==
  /\ EmSes(r, "nega")
  /\ cookie' = 0
  /\ SegueSes(r, LivreSes)
  /\ UNCHANGED <<linhasSes, contaSes, linksSes, alarme>>

-----------------------------------------------------------------------------
(* sair *)

PedirSaida(r) ==
  /\ EmSes(r, "livre")
  /\ cookie # 0
  /\ SegueSes(r, [LivreSes EXCEPT !.pc = "sai", !.tok = cookie])
  /\ UNCHANGED <<linhasSes, contaSes, linksSes, cookie, alarme>>

LerSaida(r) ==
  /\ EmSes(r, "sai")
  /\ VaiSes(r, IF reqSes[r].tok \in revogadas THEN "nega" ELSE "encerra")
  /\ UNCHANGED <<linhasSes, contaSes, linksSes, cookie, alarme>>

EncerrarFamilia(r) ==
  /\ EmSes(r, "encerra")
  /\ revogadas' = revogadas \cup DaFamilia(familia[reqSes[r].tok])
  /\ VaiSes(r, "nega")
  /\ UNCHANGED <<abertas, familia, usadas, deSenha, contaSes, linksSes, cookie, alarme>>

-----------------------------------------------------------------------------
(* recuperarSenha (emitir: the old link is spent, then the new one is made), redefinirSenha *)

RecuperarSenha(r) ==
  /\ EmSes(r, "livre")
  /\ ContaAtende
  /\ SegueSes(r, [LivreSes EXCEPT !.pc = "emite"])
  /\ UNCHANGED <<linhasSes, contaSes, linksSes, cookie, alarme>>

GastarLinks(r) ==
  /\ EmSes(r, "emite")
  /\ links' = [k \in Link |-> IF links[k] = "vivo" THEN "usado" ELSE links[k]]
  /\ VaiSes(r, "cria")
  /\ UNCHANGED <<linhasSes, contaSes, trocas, cookie, alarme>>

CriarLink(r) ==
  /\ EmSes(r, "cria")
  /\ \E k \in Link :
       /\ links[k] = "novo" /\ \A j \in 1 .. k - 1 : links[j] # "novo"
       /\ links' = [links EXCEPT ![k] = "vivo"]
  /\ SegueSes(r, LivreSes)
  /\ UNCHANGED <<linhasSes, contaSes, trocas, cookie, alarme>>

\* consumirTokenVerificacao: read
SeguirLink(r, k) ==
  /\ EmSes(r, "livre")
  /\ links[k] = "vivo"
  /\ SegueSes(r, [LivreSes EXCEPT !.pc = "marca", !.link = k])
  /\ UNCHANGED <<linhasSes, contaSes, linksSes, cookie, alarme>>

\* fault: the link is not spent
MarcarLinkNada(r) ==
  /\ EmSes(r, "marca")
  /\ VaiSes(r, "grava")
  /\ UNCHANGED <<linhasSes, contaSes, linksSes, cookie, alarme>>

\* consumirTokenVerificacao: marcarUsado
MarcarLink(r) ==
  /\ EmSes(r, "marca")
  /\ links' = [links EXCEPT ![reqSes[r].link] = "usado"]
  /\ VaiSes(r, "grava")
  /\ UNCHANGED <<linhasSes, contaSes, trocas, cookie, alarme>>

\* alterarSenha of the panel: the guard and the current password, then a login with the new one
AlterarSenha(r) ==
  /\ EmSes(r, "livre")
  /\ ContaAtende
  /\ SegueSes(r, [LivreSes EXCEPT !.pc = "grava", !.volta = TRUE])
  /\ UNCHANGED <<linhasSes, contaSes, linksSes, cookie, alarme>>

\* trocarSenha: atualizarSenha
GravarSenha(r) ==
  LET q == reqSes[r]
  IN /\ EmSes(r, "grava")
     /\ senha < MaxSenha
     /\ senha' = senha + 1
     /\ trocas' = [k \in Link |-> IF k = q.link THEN trocas[k] + 1 ELSE trocas[k]]
     /\ SegueSes(r, [q EXCEPT !.pc = "derruba", !.versao = senha + 1])
     /\ UNCHANGED <<linhasSes, bloqueada, excluida, links, cookie, alarme>>

\* fault: only the sessions nobody has used fall
DerrubarFamiliasNovas(r) ==
  /\ EmSes(r, "derruba")
  /\ revogadas' = revogadas \cup {t \in 1 .. abertas : familia[t] = t}
  /\ SegueSes(r, IF reqSes[r].volta THEN [reqSes[r] EXCEPT !.pc = "entra"] ELSE LivreSes)
  /\ UNCHANGED <<abertas, familia, usadas, deSenha, contaSes, linksSes, cookie, alarme>>

\* revogarTudo: revogarTodasDaConta
DerrubarTudo(r) ==
  /\ EmSes(r, "derruba")
  /\ revogadas' = revogadas \cup 1 .. abertas
  /\ SegueSes(r, IF reqSes[r].volta THEN [reqSes[r] EXCEPT !.pc = "entra"] ELSE LivreSes)
  /\ UNCHANGED <<abertas, familia, usadas, deSenha, contaSes, linksSes, cookie, alarme>>

\* alterarSenha: login with the password just written
Reentrar(r) ==
  /\ EmSes(r, "entra")
  /\ SegueSes(r, IF reqSes[r].versao = senha /\ ContaAtende
                 THEN [reqSes[r] EXCEPT !.pc = "abre"] ELSE LivreSes)
  /\ UNCHANGED <<linhasSes, contaSes, linksSes, cookie, alarme>>

-----------------------------------------------------------------------------
(* the administrator: alterarStatus of an account, excluded or not *)

\* BLOQUEADA for an account that is not; ATIVA and SUSPENSA also replace each other
AlterarConta(r, bloqueia) ==
  /\ EmSes(r, "livre")
  /\ bloqueia => ~bloqueada
  /\ VaiSes(r, IF bloqueia THEN "bloqueia" ELSE "libera")
  /\ UNCHANGED <<linhasSes, contaSes, linksSes, cookie, alarme>>

\* the status decided before the await
GravarConta(r) ==
  /\ EmSes(r, "bloqueia") \/ EmSes(r, "libera")
  /\ bloqueada' = EmSes(r, "bloqueia")
  /\ SegueSes(r, IF EmSes(r, "bloqueia") THEN [LivreSes EXCEPT !.pc = "derruba"] ELSE LivreSes)
  /\ UNCHANGED <<linhasSes, senha, excluida, linksSes, cookie, alarme>>

-----------------------------------------------------------------------------
(* excluir: the guard and the password, every session falls, then the row, then the cookie *)

PedirExclusao(r) ==
  /\ EmSes(r, "livre")
  /\ ContaAtende
  /\ VaiSes(r, "despede")
  /\ UNCHANGED <<linhasSes, contaSes, linksSes, cookie, alarme>>

DespedirSessoes(r) ==
  /\ EmSes(r, "despede")
  /\ revogadas' = revogadas \cup 1 .. abertas
  /\ VaiSes(r, "exclui")
  /\ UNCHANGED <<abertas, familia, usadas, deSenha, contaSes, linksSes, cookie, alarme>>

\* repo.excluir: one update of excluidoEm and status
ExcluirLinha(r) ==
  /\ EmSes(r, "exclui")
  /\ excluida' = TRUE /\ bloqueada' = TRUE
  /\ VaiSes(r, "nega")
  /\ UNCHANGED <<linhasSes, senha, linksSes, cookie, alarme>>

-----------------------------------------------------------------------------
\* the answer is lost, or the process restarts: the browser keeps the cookie it had
PerderSes(r) ==
  /\ ~EmSes(r, "livre")
  /\ SegueSes(r, LivreSes)
  /\ UNCHANGED <<linhasSes, contaSes, linksSes, cookie, alarme>>

\* an exception inside renovar: the controller clears the cookie and throws on
FalharRenovacao(r) ==
  /\ reqSes[r].pc \in Rodando
  /\ VaiSes(r, "nega")
  /\ UNCHANGED <<linhasSes, contaSes, linksSes, cookie, alarme>>

PassoSessoes(r) ==
  \/ Autenticar(r) \/ AbrirSessao(r) \/ Responder(r)
  \/ PedirRenovacao(r) \/ LerSessao(r) \/ Acusar(r) \/ LerContaSes(r) \/ MarcarUsada(r)
  \/ Girar(r) \/ Negar(r)
  \/ PedirSaida(r) \/ LerSaida(r) \/ EncerrarFamilia(r)
  \/ RecuperarSenha(r) \/ GastarLinks(r) \/ CriarLink(r)
  \/ \E k \in Link : SeguirLink(r, k)
  \/ MarcarLink(r) \/ AlterarSenha(r) \/ GravarSenha(r) \/ DerrubarTudo(r) \/ Reentrar(r)
  \/ \E b \in BOOLEAN : AlterarConta(r, b)
  \/ GravarConta(r) \/ PedirExclusao(r) \/ DespedirSessoes(r) \/ ExcluirLinha(r)

FalhaSessoes(r) == PerderSes(r) \/ FalharRenovacao(r)

NextSessoes == \E r \in ReqSes : PassoSessoes(r) \/ FalhaSessoes(r)

SpecSessoes == InitSessoes /\ [][NextSessoes]_varsSessoes
-----------------------------------------------------------------------------
(* Properties *)

\* Type invariant.
TypeOKSessoes ==
  /\ abertas \in 0 .. MaxSessoes
  /\ familia \in [Sessao -> 0 .. MaxSessoes]
  /\ usadas \subseteq Sessao /\ revogadas \subseteq Sessao
  /\ deSenha \in [Sessao -> 0 .. MaxSenha]
  /\ senha \in 0 .. MaxSenha /\ bloqueada \in BOOLEAN /\ excluida \in BOOLEAN
  /\ links \in [Link -> {"novo", "vivo", "usado"}]
  /\ trocas \in [Link -> Nat]
  /\ cookie \in 0 .. MaxSessoes
  /\ alarme \subseteq Sessao
  /\ reqSes \in [ReqSes -> HandlerSes]

\* However refreshes, sign-outs and password changes interleave and fail, a session that came
\* from a rotation is in a family whose first session is spent: the token of the login never
\* lives on beside its successors.
RaizUsada ==
  \A t \in 1 .. abertas : familia[t] # t => familia[t] \in usadas
=============================================================================
