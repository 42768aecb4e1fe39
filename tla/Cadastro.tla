------------------------------ MODULE Cadastro ------------------------------
(***************************************************************************)
(* The e-mail of an account: sign-up, the link that verifies it, the       *)
(* change that waits for a link to the new address, and the exclusion that *)
(* frees it (auth.service.ts, contas.service.ts).  Several accounts ask    *)
(* for the same addresses; handlers run in slots of ReqCad and are cut at  *)
(* each await.                                                             *)
(*                                                                         *)
(* An account is called by its slug, unique and never freed.  The trial of *)
(* the sign-up is in Licencas; sessions, and what the exclusion does to    *)
(* them, are in Sessoes.  Left out: the age of a link (a living one need   *)
(* not be followed), names, profiles, the accounts the seed makes.         *)
(***************************************************************************)
EXTENDS Integers, FiniteSets

CONSTANTS
  ContaCad,   \* accounts, by slug
  Endereco,   \* e-mail addresses
  ReqCad,     \* request slots
  MaxCartas,  \* bound: letters with a link
  Nada        \* no address, no account

ASSUME CartasAssumption == MaxCartas \in Nat
ASSUME NadaAssumption == Nada \notin Endereco /\ Nada \notin ContaCad

VARIABLES
  contas,       \* the rows of Conta
  email,        \* Conta.email; the exclusion's `excluida+id@fotoraw.invalid' is Nada
  verificadas,  \* Conta.emailVerificadoEm
  excluidas,    \* Conta.excluidoEm
  cartas,       \* TokenVerificacao, and the letter that carries it
  gastas,       \* TokenVerificacao.usadoEm
  seguidas,     \* <<account, address>>: a letter to that address was followed
  reqCad        \* the handlers in flight

linhasCad == <<contas, email, verificadas, excluidas>>
linksCad == <<cartas, gastas>>
varsCadastro == <<linhasCad, linksCad, seguidas, reqCad>>

TipoCarta == {"VERIFICAR_EMAIL", "TROCAR_EMAIL"}

\* its number, whose it is, what for, and where it went
Carta == [n : 1 .. MaxCartas, conta : ContaCad, tipo : TipoCarta, para : Endereco]

\* a handler: where it is, and the letter it writes (n = 0) or follows
HandlerCad == [pc : {"livre", "cria", "gasta", "emite", "marca", "verifica", "confere", "troca",
                     "exclui"},
               n : 0 .. MaxCartas, conta : ContaCad \cup {Nada}, tipo : TipoCarta,
               para : Endereco \cup {Nada}]

LivreCad == [pc |-> "livre", n |-> 0, conta |-> Nada, tipo |-> "VERIFICAR_EMAIL", para |-> Nada]

InitCadastro ==
  /\ contas = {} /\ verificadas = {} /\ excluidas = {}
  /\ email = [c \in ContaCad |-> Nada]
  /\ cartas = {} /\ gastas = {} /\ seguidas = {}
  /\ reqCad = [r \in ReqCad |-> LivreCad]

-----------------------------------------------------------------------------
EmCad(r, pc) == reqCad[r].pc = pc
SegueCad(r, q) == reqCad' = [reqCad EXCEPT ![r] = q]
VaiCad(r, pc) == SegueCad(r, [reqCad[r] EXCEPT !.pc = pc])
Escreve(r, pc, c, t, e) ==
  SegueCad(r, [pc |-> pc, n |-> 0, conta |-> c, tipo |-> t, para |-> e])

CartasDe(c, t) == {l \in cartas : l.conta = c /\ l.tipo = t}

\* porEmail leaves out who was excluded; the unique index does not
Usado(e) == \E c \in contas \ excluidas : email[c] = e
Ocupado(e) == \E c \in contas : email[c] = e

-----------------------------------------------------------------------------
(* cadastrar, reenviarVerificacao *)

\* existeEmailOuSlug
Cadastrar(r, c, e) ==
  /\ EmCad(r, "livre")
  /\ c \notin contas /\ ~Ocupado(e)
  /\ Escreve(r, "cria", c, "VERIFICAR_EMAIL", e)
  /\ UNCHANGED <<linhasCad, linksCad, seguidas>>

\* contas.criar: the indexes refuse the second of two sign-ups
CriarConta(r) ==
  LET q == reqCad[r]
  IN /\ EmCad(r, "cria")
     /\ IF q.conta \in contas \/ Ocupado(q.para)
        THEN SegueCad(r, LivreCad) /\ UNCHANGED <<contas, email>>
        ELSE /\ contas' = contas \cup {q.conta}
             /\ email' = [email EXCEPT ![q.conta] = q.para]
             /\ VaiCad(r, "gasta")
     /\ UNCHANGED <<verificadas, excluidas, linksCad, seguidas>>

Reenviar(r, c) ==
  /\ EmCad(r, "livre")
  /\ c \in contas \ (excluidas \cup verificadas)
  /\ Escreve(r, "gasta", c, "VERIFICAR_EMAIL", email[c])
  /\ UNCHANGED <<linhasCad, linksCad, seguidas>>

-----------------------------------------------------------------------------
(* emitir: the letters before are spent, then there is a new one *)

\* fault: the letters before stay alive
GastarNenhuma(r) ==
  /\ EmCad(r, "gasta")
  /\ VaiCad(r, "emite")
  /\ UNCHANGED <<linhasCad, linksCad, seguidas>>

GastarCartas(r) ==
  /\ EmCad(r, "gasta")
  /\ gastas' = gastas \cup CartasDe(reqCad[r].conta, reqCad[r].tipo)
  /\ VaiCad(r, "emite")
  /\ UNCHANGED <<linhasCad, cartas, seguidas>>

EmitirCarta(r) ==
  LET q == reqCad[r]
      n == Cardinality(cartas) + 1
  IN /\ EmCad(r, "emite")
     /\ n <= MaxCartas
     /\ cartas' = cartas \cup {[n |-> n, conta |-> q.conta, tipo |-> q.tipo, para |-> q.para]}
     /\ SegueCad(r, LivreCad)
     /\ UNCHANGED <<linhasCad, gastas, seguidas>>

-----------------------------------------------------------------------------
(* verificarEmail, confirmarTrocaEmail *)

\* consumirTokenVerificacao: read, by whoever reads the mail of that address
SeguirCarta(r, l) ==
  /\ EmCad(r, "livre")
  /\ l \in cartas \ gastas
  /\ SegueCad(r, [pc |-> "marca", n |-> l.n, conta |-> l.conta, tipo |-> l.tipo, para |-> l.para])
  /\ seguidas' = seguidas \cup {<<l.conta, l.para>>}
  /\ UNCHANGED <<linhasCad, linksCad>>

\* consumirTokenVerificacao: marcarUsado
MarcarCarta(r) ==
  /\ EmCad(r, "marca")
  /\ gastas' = gastas \cup {l \in cartas : l.n = reqCad[r].n}
  /\ VaiCad(r, IF reqCad[r].tipo = "TROCAR_EMAIL" THEN "confere" ELSE "verifica")
  /\ UNCHANGED <<linhasCad, cartas, seguidas>>

\* marcarEmailVerificado, by id: nobody asks which address it is by now
VerificarEmail(r) ==
  /\ EmCad(r, "verifica")
  /\ verificadas' = verificadas \cup {reqCad[r].conta}
  /\ SegueCad(r, LivreCad)
  /\ UNCHANGED <<contas, email, excluidas, linksCad, seguidas>>

\* porEmail of the new address: when it is taken the letter was spent for nothing
ConferirTroca(r) ==
  /\ EmCad(r, "confere")
  /\ IF Usado(reqCad[r].para) THEN SegueCad(r, LivreCad) ELSE VaiCad(r, "troca")
  /\ UNCHANGED <<linhasCad, linksCad, seguidas>>

\* fault: the address is changed before its letter is followed
PedirTrocaDireta(r, c, e) ==
  /\ EmCad(r, "livre")
  /\ c \in contas \ excluidas
  /\ email[c] # e /\ ~Usado(e)
  /\ Escreve(r, "troca", c, "TROCAR_EMAIL", e)
  /\ UNCHANGED <<linhasCad, linksCad, seguidas>>

\* pedirTrocaEmail, of atualizar
PedirTroca(r, c, e) ==
  /\ EmCad(r, "livre")
  /\ c \in contas \ excluidas
  /\ email[c] # e /\ ~Usado(e)
  /\ Escreve(r, "gasta", c, "TROCAR_EMAIL", e)
  /\ UNCHANGED <<linhasCad, linksCad, seguidas>>

\* atualizarEmail, by id and verified; the index has the last word
AtualizarEmail(r) ==
  LET q == reqCad[r]
  IN /\ EmCad(r, "troca")
     /\ IF \E c \in contas \ {q.conta} : email[c] = q.para
        THEN UNCHANGED <<email, verificadas>>
        ELSE /\ email' = [email EXCEPT ![q.conta] = q.para]
             /\ verificadas' = verificadas \cup {q.conta}
     /\ SegueCad(r, LivreCad)
     /\ UNCHANGED <<contas, excluidas, linksCad, seguidas>>

-----------------------------------------------------------------------------
(* excluir: the guard and the password, then (after revogarTudo) the row *)

Excluir(r, c) ==
  /\ EmCad(r, "livre")
  /\ c \in contas \ excluidas
  /\ Escreve(r, "exclui", c, LivreCad.tipo, Nada)
  /\ UNCHANGED <<linhasCad, linksCad, seguidas>>

ExcluirConta(r) ==
  LET c == reqCad[r].conta
  IN /\ EmCad(r, "exclui")
     /\ email' = [email EXCEPT ![c] = Nada]
     /\ excluidas' = excluidas \cup {c}
     /\ SegueCad(r, LivreCad)
     /\ UNCHANGED <<contas, verificadas, linksCad, seguidas>>

-----------------------------------------------------------------------------
\* an exception, or a restart
PerderCad(r) ==
  /\ ~EmCad(r, "livre")
  /\ SegueCad(r, LivreCad)
  /\ UNCHANGED <<linhasCad, linksCad, seguidas>>

PassoCadastro(r) ==
  \/ \E c \in ContaCad :
       \/ Reenviar(r, c) \/ Excluir(r, c)
       \/ \E e \in Endereco : Cadastrar(r, c, e) \/ PedirTroca(r, c, e)
  \/ \E l \in cartas : SeguirCarta(r, l)
  \/ CriarConta(r) \/ GastarCartas(r) \/ EmitirCarta(r)
  \/ MarcarCarta(r) \/ VerificarEmail(r) \/ ConferirTroca(r) \/ AtualizarEmail(r)
  \/ ExcluirConta(r)

NextCadastro == \E r \in ReqCad : PassoCadastro(r) \/ PerderCad(r)

SpecCadastro == InitCadastro /\ [][NextCadastro]_varsCadastro
-----------------------------------------------------------------------------
(* Properties *)

\* Type invariant.
TypeOKCadastro ==
  /\ contas \subseteq ContaCad /\ verificadas \subseteq ContaCad /\ excluidas \subseteq ContaCad
  /\ email \in [ContaCad -> Endereco \cup {Nada}]
  /\ cartas \subseteq Carta /\ gastas \subseteq Carta
  /\ seguidas \subseteq ContaCad \X Endereco
  /\ reqCad \in [ReqCad -> HandlerCad]

\* `e-mail novo fica pendente até o clique no link': however sign-ups, letters sent again, changes
\* and exclusions interleave and fail, an account that counts as verified has an address whose
\* letter somebody followed for that account, though verifying asks for no address.
EmailProvado ==
  \A c \in verificadas : email[c] # Nada => <<c, email[c]>> \in seguidas
=============================================================================
