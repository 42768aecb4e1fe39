SPECIFICATION SpecCobranca
CONSTANTS
  MaxAssinaturas = 1
  MaxFaturas = 4
  CobrancaMp = {c1}
  Req = {r1, r2}
  Operacoes = {"assinar", "cobranca", "rotina"}
  Periodo = 1
  UltimoDia = 0
  Falha = FALSE
  Nenhuma = Nenhuma
SYMMETRY Simetria
INVARIANT UmaFaturaAberta
