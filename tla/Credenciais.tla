------------------------------ MODULE Credenciais ------------------------------
(***************************************************************************)
(* The connection of a photographer to Mercado Pago (MP): FinanceiroService*)
(* connects and disconnects, CredenciaisVendedorService hands the token to *)
(* every sale and renews it when it is old or the public key is missing.   *)
(* A refresh token may be good for one renewal only; MP says so by giving  *)
(* another one with the new token.  Handlers are cut at each await.        *)
(*                                                                         *)
(* Left out: the state of the authorization URL, the simulated mode of     *)
(* development, encryption, the settings of fees.  Tokens are numbered as  *)
(* MP issues them.                                                         *)
(***************************************************************************)
EXTENDS Integers

CONSTANTS
  ContaMp,     \* the photographer's accounts at MP
  MaxTokensMp, \* bound: tokens issued
  ReqCred,     \* request slots
  SemContaMp   \* no account

ASSUME CredenciaisAssumption == MaxTokensMp \in Nat /\ SemContaMp \notin ContaMp

VARIABLES
  conexao,   \* the ConexaoPagamento row
  emitidos,  \* tokens MP has issued
  donoTok,   \* whose each is
  renovaveis,\* those whose refresh token MP accepts
  reqCred    \* the handlers in flight

mercadoPago == <<emitidos, donoTok, renovaveis>>
varsCredenciais == <<conexao, mercadoPago, reqCred>>

TokenMp == 1 .. MaxTokensMp
DonoMp == ContaMp \cup {SemContaMp}

\* usuario: provedorUsuarioId; acesso, refresh: the tokens, 0 for none; perto: tokenExpiraEm is
\* a week away or less; publica: publicKey is there
Conexao == [usuario : DonoMp, revogada : BOOLEAN, acesso : 0 .. MaxTokensMp,
            refresh : 0 .. MaxTokensMp, perto : BOOLEAN, publica : BOOLEAN]

SemConexao == [usuario |-> SemContaMp, revogada |-> FALSE, acesso |-> 0, refresh |-> 0,
               perto |-> FALSE, publica |-> FALSE]

\* a handler: where it is, the token it asks MP with or got, whether the answer brought a
\* refresh token and a public key
HandlerCred == [pc : {"livre", "renova", "guarda", "conecta", "revoga"},
                tok : 0 .. MaxTokensMp, conta : DonoMp, rodou : BOOLEAN, publica : BOOLEAN]

LivreCred == [pc |-> "livre", tok |-> 0, conta |-> SemContaMp, rodou |-> FALSE,
              publica |-> FALSE]

InitCredenciais ==
  /\ conexao = SemConexao
  /\ emitidos = 0
  /\ donoTok = [k \in TokenMp |-> SemContaMp]
  /\ renovaveis = {}
  /\ reqCred = [r \in ReqCred |-> LivreCred]

-----------------------------------------------------------------------------
EmCred(r, pc) == reqCred[r].pc = pc
SegueCred(r, q) == reqCred' = [reqCred EXCEPT ![r] = q]

Conectada == conexao.usuario # SemContaMp /\ ~conexao.revogada

\* MP issues the next token, of account c; S are the refresh tokens it accepts from now on
Emitir(c, S) ==
  /\ emitidos + 1 \in TokenMp
  /\ emitidos' = emitidos + 1
  /\ donoTok' = [donoTok EXCEPT ![emitidos + 1] = c]
  /\ renovaveis' = S

-----------------------------------------------------------------------------
(* obter and renovar *)

PedeRenovacao == Conectada /\ (conexao.perto \/ ~conexao.publica) /\ conexao.refresh # 0

\* the sale is refused, or a token that is good is handed out
ObterSemRenovar(r) == EmCred(r, "livre") /\ ~PedeRenovacao /\ UNCHANGED varsCredenciais

ObterParaRenovar(r) ==
  /\ EmCred(r, "livre")
  /\ PedeRenovacao
  /\ SegueCred(r, [LivreCred EXCEPT !.pc = "renova", !.tok = conexao.refresh])
  /\ UNCHANGED <<conexao, mercadoPago>>

\* MP renews, and gives another refresh token or lets the old one serve; its answer may be lost
RenovarNoMp(r) ==
  LET q == reqCred[r]
  IN /\ EmCred(r, "renova")
     /\ q.tok \in renovaveis
     /\ \E rodou, publica \in BOOLEAN :
          /\ Emitir(donoTok[q.tok], IF rodou THEN (renovaveis \ {q.tok}) \cup {emitidos + 1}
                                    ELSE renovaveis)
          /\ SegueCred(r, [LivreCred EXCEPT !.pc = "guarda", !.tok = emitidos + 1,
                             !.rodou = rodou, !.publica = publica])
     /\ UNCHANGED conexao

\* a refresh token already used: the sale goes on with the token it has
RecusarRenovacao(r) ==
  /\ EmCred(r, "renova")
  /\ reqCred[r].tok \notin renovaveis
  /\ SegueCred(r, LivreCred)
  /\ UNCHANGED <<conexao, mercadoPago>>

\* fault: the new refresh token is not kept
GuardarSoAcesso(r) ==
  LET q == reqCred[r]
  IN /\ EmCred(r, "guarda")
     /\ conexao' = [conexao EXCEPT !.acesso = q.tok, !.perto = FALSE,
                                   !.publica = @ \/ q.publica]
     /\ SegueCred(r, LivreCred)
     /\ UNCHANGED mercadoPago

\* update by id: the account and the revocation stay as they are by now
GuardarRenovado(r) ==
  LET q == reqCred[r]
  IN /\ EmCred(r, "guarda")
     /\ conexao' = [conexao EXCEPT !.acesso = q.tok, !.refresh = IF q.rodou THEN q.tok ELSE @,
                                   !.perto = FALSE, !.publica = @ \/ q.publica]
     /\ SegueCred(r, LivreCred)
     /\ UNCHANGED mercadoPago

-----------------------------------------------------------------------------
(* processarCallbackMercadoPago *)

TrocarCodigo(r, c) ==
  /\ EmCred(r, "livre")
  /\ \E rodou, publica \in BOOLEAN :
       /\ Emitir(c, IF rodou THEN renovaveis \cup {emitidos + 1} ELSE renovaveis)
       /\ SegueCred(r, [pc |-> "conecta", tok |-> emitidos + 1, conta |-> c, rodou |-> rodou,
                        publica |-> publica])
  /\ UNCHANGED conexao

\* salvarConexao: the upsert of the whole row
SalvarConexao(r) ==
  LET q == reqCred[r]
  IN /\ EmCred(r, "conecta")
     /\ conexao' = [usuario |-> q.conta, revogada |-> FALSE, acesso |-> q.tok,
                    refresh |-> IF q.rodou THEN q.tok ELSE 0,
                    perto |-> FALSE, publica |-> q.publica]
     /\ SegueCred(r, LivreCred)
     /\ UNCHANGED mercadoPago

(* desconectarMercadoPago *)

AbrirDesconectar(r) ==
  /\ EmCred(r, "livre")
  /\ Conectada
  /\ SegueCred(r, [LivreCred EXCEPT !.pc = "revoga"])
  /\ UNCHANGED <<conexao, mercadoPago>>

\* updateMany: whatever connection is there by now
Revogar(r) ==
  /\ EmCred(r, "revoga")
  /\ conexao' = [conexao EXCEPT !.revogada = TRUE]
  /\ SegueCred(r, LivreCred)
  /\ UNCHANGED mercadoPago

-----------------------------------------------------------------------------
\* an exception, an answer of MP that is lost, or a restart
FalharCred(r) ==
  /\ ~EmCred(r, "livre")
  /\ SegueCred(r, LivreCred)
  /\ UNCHANGED <<conexao, mercadoPago>>

\* the clock: the token has a week left
Envelhecer ==
  /\ conexao.usuario # SemContaMp /\ ~conexao.perto
  /\ conexao' = [conexao EXCEPT !.perto = TRUE]
  /\ UNCHANGED <<mercadoPago, reqCred>>

PassoCredenciais(r) ==
  \/ ObterSemRenovar(r) \/ ObterParaRenovar(r) \/ RenovarNoMp(r) \/ RecusarRenovacao(r)
  \/ GuardarRenovado(r)
  \/ \E c \in ContaMp : TrocarCodigo(r, c)
  \/ SalvarConexao(r) \/ AbrirDesconectar(r) \/ Revogar(r)

NextCredenciais == (\E r \in ReqCred : PassoCredenciais(r) \/ FalharCred(r)) \/ Envelhecer

SpecCredenciais == InitCredenciais /\ [][NextCredenciais]_varsCredenciais
-----------------------------------------------------------------------------
(* Properties *)

\* Type invariant.
TypeOKCredenciais ==
  /\ conexao \in Conexao
  /\ emitidos \in 0 .. MaxTokensMp
  /\ donoTok \in [TokenMp -> DonoMp]
  /\ renovaveis \subseteq TokenMp
  /\ reqCred \in [ReqCred -> HandlerCred]
=============================================================================
