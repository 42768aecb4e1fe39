SPECIFICATION SpecLoja
CONSTANTS
  Pedido = {p1, p2}
  Foto = {f1, f2}
  Req = {r1, r2}
  Pacotes = {1, 2}
  Extras = {FALSE, TRUE}
  Limite = 1
  Nenhum = Nenhum
  MaxFotos = 2
  MaxLotes = 2
  Escolhas = {{1, 2}, {2}}
  ReqPub = {r1, r2}
  MaxBackups = 3
  UltimoDiaBak = 2
  DiasGuardados = 1
  SemanasGuardadas = 2
  DiasDaSemana = 2
  ReqBak = {r1, r2}
  v1 = v1
  Venda = {v1}
  ValorVenda <- UmaVenda
  MaxRepasses = 2
  Parciais = {0, 1}
  ReqRep = {r1, r2}
  ContaMp = {c1, c2}
  MaxTokensMp = 3
  ReqCred = {r1, r2}
  SemContaMp = SemContaMp
  ReqCod = {r1, r2}
  MaxCodigos = 3
  PorJanela = 2
  Tentativas = 2
SYMMETRY Simetria
CONSTRAINT LimiteLoja
INVARIANTS
  TypeOKLoja
  LinksContados
  SoConferidas
  BackupRestauravel
  ConexaoVale
  CodigosLimitados
  CodigoUmaVez
PROPERTIES
  PacoteRespeitado
  VitrineCerta
  RepasseCoberto
