-------------------------------- MODULE Backups --------------------------------
(***************************************************************************)
(* BackupsService and its retention: the desktop asks for a link, sends    *)
(* the backup of its database straight to the bucket and confirms; the     *)
(* confirmation applies the retention, and the next start sweeps what was  *)
(* abandoned.  Files go first and rows after; handlers are cut at each     *)
(* await.                                                                  *)
(*                                                                         *)
(* Left out: the size and the hash (an incomplete file is no file), the    *)
(* link to restore, which only reads.                                      *)
(***************************************************************************)
EXTENDS Integers, FiniteSets

CONSTANTS
  MaxBackups,  \* bound: backups, numbered as they are started
  UltimoDiaBak,\* bound: the last day
  DiasGuardados, SemanasGuardadas,  \* DIAS_GUARDADOS, SEMANAS_GUARDADAS
  DiasDaSemana,\* days in a week
  ReqBak       \* request slots

ASSUME BackupsAssumption ==
  /\ MaxBackups \in Nat /\ UltimoDiaBak \in Nat
  /\ DiasGuardados \in Nat \ {0} /\ SemanasGuardadas \in Nat \ {0} /\ DiasDaSemana \in Nat \ {0}

VARIABLES
  iniciados,  \* backups started so far
  linha,      \* BackupDesktop.status
  desde,      \* the day of criadoEm
  feito,      \* concluidoEm: the day and the order of the conclusions in it
  conclusoes, \* conclusions so far
  arquivo,    \* backups whose file is in the bucket
  diaBak,     \* today
  reqBak      \* the handlers in flight

linhasBak == <<iniciados, linha, desde, feito, conclusoes>>
varsBackups == <<linhasBak, arquivo, diaBak, reqBak>>

Backup == 1 .. MaxBackups
DiaBak == 0 .. UltimoDiaBak

\* a handler: where it is, its backup, the ones to remove, whether it starts one afterwards
HandlerBak == [pc : {"livre", "abandonados", "cria", "confere", "conclui", "retem", "arquivos",
                     "linhas"},
               bak : 0 .. MaxBackups, sair : SUBSET Backup, inicia : BOOLEAN]

LivreBak == [pc |-> "livre", bak |-> 0, sair |-> {}, inicia |-> FALSE]

InitBackups ==
  /\ iniciados = 0
  /\ linha = [b \in Backup |-> "NENHUMA"]
  /\ desde = [b \in Backup |-> 0]
  /\ feito = [b \in Backup |-> <<0, 0>>]
  /\ conclusoes = 0
  /\ arquivo = {}
  /\ diaBak = 0
  /\ reqBak = [r \in ReqBak |-> LivreBak]

-----------------------------------------------------------------------------
(* backupsParaApagar *)

MaisNovo(a, b) == feito[a][2] > feito[b][2]
DiaDe(b) == feito[b][1]
SemanaDe(b) == DiaDe(b) \div DiasDaSemana

\* what stays of S: the loop from the newest to the oldest, with the days and the weeks seen
Ficam(S) ==
  LET n == Cardinality(S)
      ordem == CHOOSE o \in [1 .. n -> S] : \A i, j \in 1 .. n : i < j => MaisNovo(o[i], o[j])
      visto[i \in 0 .. n] ==
        IF i = 0 THEN [ficam |-> {}, dias |-> {}, semanas |-> {}]
        ELSE LET b == ordem[i]
                 v == visto[i - 1]
                 novoDia == DiaDe(b) \notin v.dias /\ Cardinality(v.dias) < DiasGuardados
                 novaSemana ==
                   SemanaDe(b) \notin v.semanas /\ Cardinality(v.semanas) < SemanasGuardadas
             IN [ficam |-> IF novoDia \/ novaSemana THEN v.ficam \cup {b} ELSE v.ficam,
                 dias |-> IF novoDia THEN v.dias \cup {DiaDe(b)} ELSE v.dias,
                 semanas |-> IF novaSemana THEN v.semanas \cup {SemanaDe(b)} ELSE v.semanas]
  IN visto[n].ficam

-----------------------------------------------------------------------------
EmBak(r, pc) == reqBak[r].pc = pc
SegueBak(r, q) == reqBak' = [reqBak EXCEPT ![r] = q]

ComStatusBak(s) == {b \in Backup : linha[b] = s}

\* apagar, when there is anything to remove; then the handler ends or starts a backup
Apagando(q, S) == IF S # {} THEN [q EXCEPT !.pc = "arquivos", !.sair = S]
                  ELSE IF q.inicia THEN [q EXCEPT !.pc = "cria"] ELSE LivreBak

-----------------------------------------------------------------------------
(* iniciar *)

IniciarBackup(r) ==
  /\ EmBak(r, "livre")
  /\ SegueBak(r, [LivreBak EXCEPT !.pc = "abandonados", !.inicia = TRUE])
  /\ UNCHANGED <<linhasBak, arquivo, diaBak>>

\* fault: a backup that is still going up is abandoned too
LerAbandonadosDeHoje(r) ==
  /\ EmBak(r, "abandonados")
  /\ SegueBak(r, Apagando(reqBak[r], ComStatusBak("ENVIANDO") \cup ComStatusBak("CONCLUIDO")))
  /\ UNCHANGED <<linhasBak, arquivo, diaBak>>

\* limparAbandonados: not confirmed for a day
LerAbandonados(r) ==
  /\ EmBak(r, "abandonados")
  /\ SegueBak(r, Apagando(reqBak[r], {b \in ComStatusBak("ENVIANDO") : desde[b] < diaBak}))
  /\ UNCHANGED <<linhasBak, arquivo, diaBak>>

CriarBackup(r) ==
  LET b == iniciados + 1
  IN /\ EmBak(r, "cria")
     /\ b \in Backup
     /\ iniciados' = b
     /\ linha' = [linha EXCEPT ![b] = "ENVIANDO"]
     /\ desde' = [desde EXCEPT ![b] = diaBak]
     /\ SegueBak(r, LivreBak)
     /\ UNCHANGED <<feito, conclusoes, arquivo, diaBak>>

\* the desktop's upload, in the two hours of the link
EnviarArquivo(b) ==
  /\ b <= iniciados /\ b \notin arquivo /\ desde[b] = diaBak
  /\ arquivo' = arquivo \cup {b}
  /\ UNCHANGED <<linhasBak, diaBak, reqBak>>

-----------------------------------------------------------------------------
(* confirmar *)

ConfirmarBackup(r, b) ==
  /\ EmBak(r, "livre")
  /\ linha[b] = "ENVIANDO"
  /\ SegueBak(r, [LivreBak EXCEPT !.pc = "confere", !.bak = b])
  /\ UNCHANGED <<linhasBak, arquivo, diaBak>>

\* obterTamanhoObjetoBytes
ConferirArquivo(r) ==
  /\ EmBak(r, "confere")
  /\ reqBak[r].bak \in arquivo
  /\ SegueBak(r, [reqBak[r] EXCEPT !.pc = "conclui"])
  /\ UNCHANGED <<linhasBak, arquivo, diaBak>>

\* update by id, of a row that is still there
ConcluirBackup(r) ==
  LET b == reqBak[r].bak
  IN /\ EmBak(r, "conclui")
     /\ linha[b] # "NENHUMA"
     /\ linha' = [linha EXCEPT ![b] = "CONCLUIDO"]
     /\ conclusoes' = conclusoes + 1
     /\ feito' = [feito EXCEPT ![b] = <<diaBak, conclusoes + 1>>]
     /\ SegueBak(r, [LivreBak EXCEPT !.pc = "retem"])
     /\ UNCHANGED <<iniciados, desde, arquivo, diaBak>>

\* aplicarRetencao
Reter(r) ==
  LET S == ComStatusBak("CONCLUIDO")
  IN /\ EmBak(r, "retem")
     /\ SegueBak(r, Apagando(reqBak[r], S \ Ficam(S)))
     /\ UNCHANGED <<linhasBak, arquivo, diaBak>>

-----------------------------------------------------------------------------
(* apagar: the files, which may fail without a word, then the rows *)

ApagarArquivos(r) ==
  /\ EmBak(r, "arquivos")
  /\ \E falha \in BOOLEAN : arquivo' = IF falha THEN arquivo ELSE arquivo \ reqBak[r].sair
  /\ SegueBak(r, [reqBak[r] EXCEPT !.pc = "linhas"])
  /\ UNCHANGED <<linhasBak, diaBak>>

ApagarLinhas(r) ==
  LET q == reqBak[r]
  IN /\ EmBak(r, "linhas")
     /\ linha' = [b \in Backup |-> IF b \in q.sair THEN "NENHUMA" ELSE linha[b]]
     /\ SegueBak(r, Apagando([q EXCEPT !.sair = {}], {}))
     /\ UNCHANGED <<iniciados, desde, feito, conclusoes, arquivo, diaBak>>

-----------------------------------------------------------------------------
\* a refused confirmation, an exception or a restart
FalharBak(r) ==
  /\ ~EmBak(r, "livre")
  /\ SegueBak(r, LivreBak)
  /\ UNCHANGED <<linhasBak, arquivo, diaBak>>

PassarDiaBak ==
  /\ diaBak < UltimoDiaBak
  /\ diaBak' = diaBak + 1
  /\ UNCHANGED <<linhasBak, arquivo, reqBak>>

PassoBackups(r) ==
  \/ IniciarBackup(r) \/ LerAbandonados(r) \/ CriarBackup(r)
  \/ \E b \in Backup : ConfirmarBackup(r, b)
  \/ ConferirArquivo(r) \/ ConcluirBackup(r) \/ Reter(r)
  \/ ApagarArquivos(r) \/ ApagarLinhas(r)

AmbienteBackups == PassarDiaBak \/ \E b \in Backup : EnviarArquivo(b)

NextBackups == (\E r \in ReqBak : PassoBackups(r) \/ FalharBak(r)) \/ AmbienteBackups

SpecBackups == InitBackups /\ [][NextBackups]_varsBackups
-----------------------------------------------------------------------------
(* Properties *)

\* Type invariant.
TypeOKBackups ==
  /\ iniciados \in 0 .. MaxBackups
  /\ linha \in [Backup -> {"NENHUMA", "ENVIANDO", "CONCLUIDO"}]
  /\ desde \in [Backup -> DiaBak]
  /\ feito \in [Backup -> DiaBak \X Nat]
  /\ conclusoes \in Nat
  /\ arquivo \subseteq Backup
  /\ diaBak \in DiaBak
  /\ reqBak \in [ReqBak -> HandlerBak]
=============================================================================
