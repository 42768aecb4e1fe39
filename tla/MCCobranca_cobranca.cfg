SPECIFICATION SpecCobranca
CONSTANTS
  MaxAssinaturas = 2
  MaxFaturas = 3
  CobrancaMp = {c1, c2}
  Req = {r1, r2}
  Operacoes = {"criar", "assinar", "cobranca", "marcar", "rotina", "cancelar", "painel", "espelho", "mp"}
  Periodo = 1
  UltimoDia = 2
  Falha = TRUE
  Nenhuma = Nenhuma
SYMMETRY Simetria
CONSTRAINT Limite
INVARIANTS
  TypeOK
  CobrancaCerta
  RespondidaPaga
  FaturaAbertaUnica
  ContaCoerente
PROPERTIES
  NadaVolta
