------------------------------ MODULE Publicacao ------------------------------
(***************************************************************************)
(* SyncService: how the desktop program publishes a gallery.  A batch is   *)
(* started (gallery, batch and photo rows, links to upload with), the      *)
(* files go straight to the bucket under keys that carry the batch, and    *)
(* the confirmation checks the files, moves the photos to the new keys,    *)
(* hides the others, publishes and removes the old files.  The panel may   *)
(* pause the gallery at any time.  Handlers run in slots of ReqPub and are *)
(* cut at each await; a request may be repeated.                           *)
(*                                                                         *)
(* Left out: the rules of the licence and the quota (a refusal is a        *)
(* failure here), prices, the thumbnail (its key lives and dies with the   *)
(* preview's), the original, the access code.                              *)
(***************************************************************************)
EXTENDS Integers, FiniteSets

CONSTANTS
  MaxFotos,  \* bound: photos of the desktop, numbered in the order of the batch
  MaxLotes,  \* bound: batches, by idempotency key
  Escolhas,  \* the sets of photos a batch may have
  ReqPub     \* request slots

FotoDesk == 1 .. MaxFotos
Lote == 1 .. MaxLotes

ASSUME PublicacaoAssumption ==
  MaxFotos \in Nat /\ MaxLotes \in Nat /\ Escolhas \subseteq SUBSET FotoDesk /\ {} \notin Escolhas

VARIABLES
  statusGal,   \* Galeria.status
  totalFotos,  \* Galeria.totalFotos
  capa,        \* Galeria.capaKey: a set of at most one key
  previa,      \* Foto.previewKey: the batch in the key, 0 for no row
  ativas,      \* Foto.status = ATIVA
  lote,        \* SyncLote.status
  conjunto,    \* the photos of each batch
  comLinks,    \* batches whose upload links the desktop holds
  bucket,      \* the previews stored: <<photo, batch>>
  enviados,    \* the previews ever stored
  reqPub       \* the handlers in flight

vitrine == <<statusGal, totalFotos, capa>>
fotosPub == <<previa, ativas>>
lotesPub == <<lote, conjunto, comLinks>>
nuvem == <<bucket, enviados>>
varsPublicacao == <<vitrine, fotosPub, lotesPub, nuvem, reqPub>>

Chave == FotoDesk \X Lote
StatusGaleria == {"NENHUMA", "RASCUNHO", "PUBLICADA", "PAUSADA", "ENCERRADA"}
StatusLote == {"NENHUM", "RECEBIDO", "PROCESSANDO", "CONCLUIDO"}

\* a handler: where it is, its batch, the photos the request names, those still to write, the
\* keys the confirmation found, the status the panel asked for, the photos counted
HandlerPub == [pc : {"livre", "galeria", "lote", "fotos", "links", "confere", "processa",
                     "publica", "oculta", "conta", "divulga", "remove", "conclui", "status"},
               lote : 0 .. MaxLotes, fotos : SUBSET FotoDesk, faltam : SUBSET FotoDesk,
               antigas : SUBSET Chave, alvo : StatusGaleria, total : 0 .. MaxFotos]

LivrePub == [pc |-> "livre", lote |-> 0, fotos |-> {}, faltam |-> {}, antigas |-> {},
             alvo |-> "NENHUMA", total |-> 0]

InitPublicacao ==
  /\ statusGal = "NENHUMA" /\ totalFotos = 0 /\ capa = {}
  /\ previa = [f \in FotoDesk |-> 0] /\ ativas = {}
  /\ lote = [l \in Lote |-> "NENHUM"]
  /\ conjunto = [l \in Lote |-> {}]
  /\ comLinks = {}
  /\ bucket = {} /\ enviados = {}
  /\ reqPub = [r \in ReqPub |-> LivrePub]

-----------------------------------------------------------------------------
EmPub(r, pc) == reqPub[r].pc = pc
SeguePub(r, q) == reqPub' = [reqPub EXCEPT ![r] = q]
VaiPub(r, pc) == SeguePub(r, [reqPub[r] EXCEPT !.pc = pc])

Primeira(S) == CHOOSE f \in S : \A g \in S : f <= g

-----------------------------------------------------------------------------
(* iniciarLote *)

\* the batch found by its key: a concluded one is answered without a change
IniciarLote(r, l, F) ==
  /\ EmPub(r, "livre")
  /\ lote[l] # "CONCLUIDO"
  /\ lote[l] # "NENHUM" => F = conjunto[l]
  /\ SeguePub(r, [LivrePub EXCEPT !.pc = "galeria", !.lote = l, !.fotos = F, !.faltam = F])
  /\ UNCHANGED <<vitrine, fotosPub, lotesPub, nuvem>>

\* the upsert: the status is only of a new gallery
SalvarGaleria(r) ==
  /\ EmPub(r, "galeria")
  /\ statusGal' = IF statusGal = "NENHUMA" THEN "RASCUNHO" ELSE statusGal
  /\ VaiPub(r, "lote")
  /\ UNCHANGED <<totalFotos, capa, fotosPub, lotesPub, nuvem>>

SalvarLote(r) ==
  LET q == reqPub[r]
  IN /\ EmPub(r, "lote")
     /\ lote' = [lote EXCEPT ![q.lote] = "RECEBIDO"]
     /\ conjunto' = [conjunto EXCEPT ![q.lote] = q.fotos]
     /\ VaiPub(r, "fotos")
     /\ UNCHANGED <<vitrine, fotosPub, comLinks, nuvem>>

\* fault: the row takes the new key at once
SalvarFotoComChave(r) ==
  LET q == reqPub[r]
      f == Primeira(q.faltam)
  IN /\ EmPub(r, "fotos")
     /\ previa' = [previa EXCEPT ![f] = q.lote]
     /\ SeguePub(r, [q EXCEPT !.faltam = @ \ {f},
                       !.pc = IF q.faltam = {f} THEN "links" ELSE "fotos"])
     /\ UNCHANGED <<vitrine, ativas, lotesPub, nuvem>>

\* the upsert of a photo: an existing one keeps its key until the confirmation
SalvarFoto(r) ==
  LET q == reqPub[r]
      f == Primeira(q.faltam)
  IN /\ EmPub(r, "fotos")
     /\ previa' = [previa EXCEPT ![f] = IF @ = 0 THEN q.lote ELSE @]
     /\ SeguePub(r, [q EXCEPT !.faltam = @ \ {f},
                       !.pc = IF q.faltam = {f} THEN "links" ELSE "fotos"])
     /\ UNCHANGED <<vitrine, ativas, lotesPub, nuvem>>

EntregarLinks(r) ==
  /\ EmPub(r, "links")
  /\ comLinks' = comLinks \cup {reqPub[r].lote}
  /\ SeguePub(r, LivrePub)
  /\ UNCHANGED <<vitrine, fotosPub, lote, conjunto, nuvem>>

\* the desktop sends a file to the bucket, with a link of a batch it has not concluded
Enviar(f, l) ==
  /\ l \in comLinks /\ lote[l] # "CONCLUIDO"
  /\ f \in conjunto[l] /\ <<f, l>> \notin bucket
  /\ bucket' = bucket \cup {<<f, l>>}
  /\ enviados' = enviados \cup {<<f, l>>}
  /\ UNCHANGED <<vitrine, fotosPub, lotesPub, reqPub>>

-----------------------------------------------------------------------------
(* confirmarLote, of any batch there is: a confirmation may be repeated, concluded or not *)

\* the batch, and the keys its photos have now
ConfirmarLote(r, l) ==
  LET F == conjunto[l]
  IN /\ EmPub(r, "livre")
     /\ lote[l] # "NENHUM"
     /\ \A f \in F : previa[f] # 0
     /\ SeguePub(r, [LivrePub EXCEPT !.pc = "confere", !.lote = l, !.fotos = F, !.faltam = F,
                       !.antigas = {<<f, previa[f]>> : f \in {g \in F : previa[g] # l}}])
     /\ UNCHANGED <<vitrine, fotosPub, lotesPub, nuvem>>

\* fault: one file found is enough
ConferirUma(r) ==
  LET q == reqPub[r]
  IN /\ EmPub(r, "confere")
     /\ \E f \in q.fotos : <<f, q.lote>> \in bucket
     /\ VaiPub(r, "processa")
     /\ UNCHANGED <<vitrine, fotosPub, lotesPub, nuvem>>

\* verificarObjetoExiste of every photo
Conferir(r) ==
  LET q == reqPub[r]
  IN /\ EmPub(r, "confere")
     /\ \A f \in q.fotos : <<f, q.lote>> \in bucket
     /\ VaiPub(r, "processa")
     /\ UNCHANGED <<vitrine, fotosPub, lotesPub, nuvem>>

Processar(r) ==
  /\ EmPub(r, "processa")
  /\ lote' = [lote EXCEPT ![reqPub[r].lote] = "PROCESSANDO"]
  /\ VaiPub(r, "publica")
  /\ UNCHANGED <<vitrine, fotosPub, conjunto, comLinks, nuvem>>

\* one updateMany per photo
PublicarFoto(r) ==
  LET q == reqPub[r]
      f == Primeira(q.faltam)
  IN /\ EmPub(r, "publica")
     /\ previa' = [previa EXCEPT ![f] = q.lote]
     /\ ativas' = ativas \cup {f}
     /\ SeguePub(r, [q EXCEPT !.faltam = @ \ {f},
                       !.pc = IF q.faltam = {f} THEN "oculta" ELSE "publica"])
     /\ UNCHANGED <<vitrine, lotesPub, nuvem>>

Ocultar(r) ==
  /\ EmPub(r, "oculta")
  /\ ativas' = ativas \cap reqPub[r].fotos
  /\ VaiPub(r, "conta")
  /\ UNCHANGED <<vitrine, previa, lotesPub, nuvem>>

ContarFotos(r) ==
  /\ EmPub(r, "conta")
  /\ SeguePub(r, [reqPub[r] EXCEPT !.pc = "divulga", !.total = Cardinality(ativas)])
  /\ UNCHANGED <<vitrine, fotosPub, lotesPub, nuvem>>

\* PUBLICADA whatever the status is by now; the cover is a preview of this batch
Divulgar(r) ==
  LET q == reqPub[r]
  IN /\ EmPub(r, "divulga")
     /\ statusGal' = "PUBLICADA"
     /\ totalFotos' = q.total
     /\ capa' = {<<Primeira(q.fotos), q.lote>>}
     /\ VaiPub(r, "remove")
     /\ UNCHANGED <<fotosPub, lotesPub, nuvem>>

\* the keys found when the confirmation began; the storage may fail without a word
RemoverAntigas(r) ==
  LET q == reqPub[r]
  IN /\ EmPub(r, "remove")
     /\ \E falha \in BOOLEAN : bucket' = IF falha THEN bucket ELSE bucket \ q.antigas
     /\ VaiPub(r, "conclui")
     /\ UNCHANGED <<vitrine, fotosPub, lotesPub, enviados>>

ConcluirLote(r) ==
  /\ EmPub(r, "conclui")
  /\ lote' = [lote EXCEPT ![reqPub[r].lote] = "CONCLUIDO"]
  /\ SeguePub(r, LivrePub)
  /\ UNCHANGED <<vitrine, fotosPub, conjunto, comLinks, nuvem>>

-----------------------------------------------------------------------------
(* GaleriasService.alterarStatus, by the panel *)

AbrirGaleriaStatus(r, s) ==
  /\ EmPub(r, "livre")
  /\ statusGal # "NENHUMA"
  /\ SeguePub(r, [LivrePub EXCEPT !.pc = "status", !.alvo = s])
  /\ UNCHANGED <<vitrine, fotosPub, lotesPub, nuvem>>

GravarGaleriaStatus(r) ==
  /\ EmPub(r, "status")
  /\ statusGal' = reqPub[r].alvo
  /\ SeguePub(r, LivrePub)
  /\ UNCHANGED <<totalFotos, capa, fotosPub, lotesPub, nuvem>>

-----------------------------------------------------------------------------
\* a file missing, the quota, an exception or a restart: what was written stays
FalharPub(r) ==
  /\ ~EmPub(r, "livre")
  /\ SeguePub(r, LivrePub)
  /\ UNCHANGED <<vitrine, fotosPub, lotesPub, nuvem>>

PassoPublicacao(r) ==
  \/ \E l \in Lote : \/ \E F \in Escolhas : IniciarLote(r, l, F)
                     \/ ConfirmarLote(r, l)
  \/ SalvarGaleria(r) \/ SalvarLote(r) \/ SalvarFoto(r) \/ EntregarLinks(r)
  \/ Conferir(r) \/ Processar(r) \/ PublicarFoto(r) \/ Ocultar(r) \/ ContarFotos(r)
  \/ Divulgar(r) \/ RemoverAntigas(r) \/ ConcluirLote(r)
  \/ \E s \in {"PUBLICADA", "PAUSADA", "ENCERRADA"} : AbrirGaleriaStatus(r, s)
  \/ GravarGaleriaStatus(r) \/ FalharPub(r)

NextPublicacao ==
  \/ \E r \in ReqPub : PassoPublicacao(r)
  \/ \E f \in FotoDesk, l \in Lote : Enviar(f, l)

SpecPublicacao == InitPublicacao /\ [][NextPublicacao]_varsPublicacao
-----------------------------------------------------------------------------
(* Properties *)

\* Type invariant.
TypeOKPublicacao ==
  /\ statusGal \in StatusGaleria /\ totalFotos \in 0 .. MaxFotos /\ capa \subseteq Chave
  /\ previa \in [FotoDesk -> 0 .. MaxLotes] /\ ativas \subseteq FotoDesk
  /\ lote \in [Lote -> StatusLote]
  /\ conjunto \in [Lote -> SUBSET FotoDesk]
  /\ comLinks \subseteq Lote
  /\ bucket \subseteq Chave /\ enviados \subseteq Chave
  /\ reqPub \in [ReqPub -> HandlerPub]

\* However batches, confirmations and pauses interleave and are cut short, a photo is on show
\* only under a key whose file has been in the bucket ("so aparece na vitrine quando a
\* confirmacao conferir os arquivos no bucket").
SoConferidas == \A f \in ativas : <<f, previa[f]>> \in enviados
=============================================================================
