-------------------------------- MODULE MCLoja --------------------------------
(* What a photographer's shop is made of besides the sale itself: packages, the publication    *)
(* from the desktop, its backups, the transfers, the connection to Mercado Pago and the login  *)
(* codes of its buyers.  The components share no row and no step, so each behaviour runs one   *)
(* of them, and the checks add up instead of multiplying.                                      *)
EXTENDS Pacote, Publicacao, Backups, Repasses, Credenciais, Codigos, TLC

VARIABLES
  vez,      \* the component this behaviour runs
  sozinho,  \* no handler took a step while another one that matters to it was in flight
  inteiro,  \* no handler failed
  revivido  \* a transfer marked as failed was marked paid afterwards

naoPacote == <<varsPublicacao, varsBackups, varsRepasses, varsCredenciais, varsCodigos>>
historia == <<vez, sozinho, inteiro, revivido>>
varsLoja == <<vars, naoPacote, historia>>

CONSTANT v1
UmaVenda == v1 :> 2

InitLoja ==
  /\ Init /\ InitPublicacao /\ InitBackups /\ InitRepasses /\ InitCredenciais
  /\ InitCodigos
  /\ vez \in {"pacote", "publicacao", "backups", "repasses", "credenciais", "codigos"}
  /\ sozinho = TRUE /\ inteiro = TRUE /\ revivido = FALSE

\* a handler takes a step: the others are free, or it is not alone
So(livres) == sozinho' = (sozinho /\ livres)

\* downloads and sales do not disturb each other
NextPac ==
  /\ vez = "pacote"
  /\ \E r \in Req :
       \/ PassoPedido(r) /\ So(\A s \in Req \ {r} : Em(s, "livre") \/ Em(s, "conta"))
       \/ (PassoDownload(r) \/ Desistir(r)) /\ UNCHANGED sozinho
  /\ UNCHANGED <<naoPacote, vez, inteiro, revivido>>

NextPub ==
  /\ vez = "publicacao"
  /\ \/ \E r \in ReqPub : PassoPublicacao(r) /\ So(\A s \in ReqPub \ {r} : EmPub(s, "livre"))
     \/ \E f \in FotoDesk, l \in Lote : Enviar(f, l) /\ UNCHANGED sozinho
  /\ UNCHANGED <<vars, varsBackups, varsRepasses, varsCredenciais, varsCodigos, vez, inteiro, revivido>>

NextBak ==
  /\ vez = "backups"
  /\ \/ \E r \in ReqBak :
          /\ \/ PassoBackups(r) /\ UNCHANGED inteiro
             \/ FalharBak(r) /\ inteiro' = FALSE
          /\ So(\A s \in ReqBak \ {r} : EmBak(s, "livre"))
     \/ AmbienteBackups /\ UNCHANGED <<sozinho, inteiro>>
  /\ UNCHANGED <<vars, varsPublicacao, varsRepasses, varsCredenciais, varsCodigos, vez, revivido>>

\* an order that is sold or returned disturbs a balance being read
NextRep ==
  /\ vez = "repasses"
  /\ \/ \E r \in ReqRep : PassoRepasses(r) /\ So(\A s \in ReqRep \ {r} : EmRep(s, "livre"))
     \/ \E v \in Venda : VenderOuDevolver(v) /\ So(\A s \in ReqRep : EmRep(s, "livre"))
  /\ revivido' = (revivido \/ \E t \in Repasse : transf[t] = "FALHOU" /\ transf'[t] = "PAGO")
  /\ UNCHANGED <<vars, varsPublicacao, varsBackups, varsCredenciais, varsCodigos, vez, inteiro>>

Conectando(r) == EmCred(r, "conecta")

\* sales and their renewals may overlap each other and a disconnection, not a connection
NextCre ==
  /\ vez = "credenciais"
  /\ \/ \E r \in ReqCred :
          /\ \/ PassoCredenciais(r) /\ UNCHANGED inteiro
             \/ FalharCred(r) /\ inteiro' = FALSE
          /\ So(\A s \in ReqCred \ {r} :
                  /\ ~Conectando(s)
                  /\ Conectando(r) \/ Conectando(r)' => EmCred(s, "livre"))
     \/ Envelhecer /\ UNCHANGED <<sozinho, inteiro>>
  /\ UNCHANGED <<vars, varsPublicacao, varsBackups, varsRepasses, varsCodigos, vez, revivido>>

NextCod ==
  /\ vez = "codigos"
  /\ \/ \E r \in ReqCod : PassoCodigos(r) /\ So(\A s \in ReqCod \ {r} : EmCod(s, "livre"))
     \/ \E c \in Codigo : VencerCodigo(c) /\ UNCHANGED sozinho
  /\ UNCHANGED <<vars, varsPublicacao, varsBackups, varsRepasses, varsCredenciais, vez, inteiro,
                 revivido>>

NextLoja == NextPac \/ NextPub \/ NextBak \/ NextRep \/ NextCre \/ NextCod

SpecLoja == InitLoja /\ [][NextLoja]_varsLoja

\* bounds: once two requests have overlapped, one order, one batch, two
\* backups, one transfer, two tokens, and no failure of what is checked without
LimiteLoja ==
  \/ sozinho
  \/ /\ Cardinality({p \in Pedido : status[p] # "INEXISTENTE"}) <= 1
     /\ iniciados <= 2 /\ gerados <= 1 /\ emitidos <= 2 /\ inteiro
     /\ \A l \in Lote \ {1} : lote[l] = "NENHUM"

TypeOKLoja ==
  /\ TypeOK /\ TypeOKPublicacao /\ TypeOKBackups /\ TypeOKRepasses
  /\ TypeOKCredenciais /\ TypeOKCodigos
-----------------------------------------------------------------------------
(* Packages *)

\* No order has photos to pay: one with extras keeps its included photos while it waits for
\* the payment, and the quota does not hold.
SoGratis == gratis = itens

\* No photo is in two paid orders: nobody spends the package on a photo chosen before.
SemRepetida == \A i, j \in itens : Pago(i[1]) /\ Pago(j[1]) /\ i[2] = j[2] => i = j

\* Selections that do not overlap: the paid ones never repeat a photo, and never take more
\* included photos than the package has when the last of them is released (a later, smaller
\* package does not count): criarPedido counts the items of the paid orders, selections that
\* were returned or that died half way among them.
PacoteRespeitado ==
  [][sozinho' /\ SoGratis' =>
       /\ SemRepetida'
       /\ Cardinality(Usadas') > Cardinality(Usadas) => Cardinality(Usadas') <= incluidas
    ]_<<vars, sozinho>>

-----------------------------------------------------------------------------
(* Publication *)

\* Every photo on show and the cover have their file in the bucket.
SemImagemQuebrada ==
  (\A f \in ativas : <<f, previa[f]>> \in bucket) /\ capa \subseteq bucket

\* When a batch is concluded the gallery shows exactly its photos, at the keys of that batch,
\* and the total it announces is their number.
ConcluidoExato ==
  \A l \in Lote : lote'[l] = "CONCLUIDO" /\ lote[l] # "CONCLUIDO" =>
    /\ ativas' = conjunto[l] /\ totalFotos' = Cardinality(ativas')
    /\ \A f \in ativas' : previa'[f] = l

\* Requests that do not overlap, cut short anywhere and repeated at will: whatever old file was
\* removed the gallery has no broken picture, and a confirmed batch is what the gallery shows.
VitrineCerta == [][sozinho' => SemImagemQuebrada' /\ ConcluidoExato]_varsPublicacao

-----------------------------------------------------------------------------
(* Backups *)

\* What retencao.ts promises: of S, the newest of each of the last days that have one, and the
\* newest of each of the last weeks.
Prometidos(S) ==
  {b \in S : \/ /\ \A c \in S : DiaDe(c) = DiaDe(b) => c = b \/ MaisNovo(b, c)
                /\ Cardinality({DiaDe(c) : c \in {e \in S : DiaDe(e) > DiaDe(b)}}) < DiasGuardados
             \/ /\ \A c \in S : SemanaDe(c) = SemanaDe(b) => c = b \/ MaisNovo(b, c)
                /\ Cardinality({SemanaDe(c) : c \in {e \in S : SemanaDe(e) > SemanaDe(b)}})
                     < SemanasGuardadas}

\* The loop of backupsParaApagar keeps what retencao.ts promises, whatever was concluded.
RetencaoCerta ==
  \A S \in SUBSET ComStatusBak("CONCLUIDO") : Ficam(S) = Prometidos(S)

\* Two confirmations, retentions and sweeps in any order, none cut short: a backup that the
\* desktop may choose to restore has its file, unless it is being removed.
ConcluidoTemArquivo ==
  inteiro => \A b \in ComStatusBak("CONCLUIDO") :
    b \in arquivo \/ \E r \in ReqBak : EmBak(r, "linhas") /\ b \in reqBak[r].sair

\* Requests that do not overlap, cut short anywhere: once a backup was concluded there is one
\* to restore.
RestaUm ==
  sozinho /\ conclusoes > 0 => \E b \in ComStatusBak("CONCLUIDO") : b \in arquivo

\* What is kept is what the policy promises, can be restored, and is not nothing.
BackupRestauravel == RetencaoCerta /\ ConcluidoTemArquivo /\ RestaUm

-----------------------------------------------------------------------------
(* Transfers, and the connection to Mercado Pago *)

\* Requests that do not overlap: a transfer that was paid stays paid, so that its value does
\* not go back to the balance to be sent again; and as long as no order was returned and no
\* failed transfer was marked paid afterwards, the transfers never pass what the paid orders
\* say is the photographer's.
RepasseCoberto ==
  [][sozinho' =>
       /\ \A t \in Repasse : transf[t] = "PAGO" => transf'[t] = "PAGO"
       /\ (\A v \in Venda : venda'[v] # "ESTORNADO") /\ ~revivido' => Repassado' <= Devido'
    ]_<<varsRepasses, sozinho, revivido>>

\* The row's token is one MP issued to the account the row names.
MesmaConta == conexao.acesso # 0 => donoTok[conexao.acesso] = conexao.usuario

\* MP accepts the refresh token that is kept, so that the sales do not stop when the token ends.
RefreshVale ==
  conexao.refresh # 0 =>
    conexao.refresh \in renovaveis \/ \E r \in ReqCred : EmCred(r, "guarda") /\ reqCred[r].rodou

\* However renewals overlap, unless one overlaps a connection: the sales use the account that is
\* connected; unless one is cut short too: they can go on using it.
ConexaoVale == sozinho => MesmaConta /\ (inteiro => RefreshVale)

-----------------------------------------------------------------------------
(* Buyers' codes *)

\* Confirmations that do not overlap, cut short or not: a code opens one session.
CodigoUmaVez == sozinho => \A c \in Codigo : entradas[c] <= 1

\* Orders, photos of a package and slots are told apart by nothing but their name.
Simetria == Permutations(Pedido) \cup Permutations(Foto) \cup Permutations(Req)
=============================================================================
