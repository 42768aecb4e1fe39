SPECIFICATION SpecCobranca
CONSTANTS
  MaxAssinaturas = 1
  MaxFaturas = 3
  CobrancaMp = {c1}
  Req = {r1}
  Operacoes = {"criar", "assinar", "cobranca", "rotina"}
  Periodo = 1
  UltimoDia = 1
  Falha = TRUE
  Nenhuma = Nenhuma
SYMMETRY Simetria
INVARIANT CobrancaLicencia
