SPECIFICATION SpecWebhooks
CONSTANTS
  p1 = p1
  g1 = g1
  u1 = u1
  h1 = h1
  h2 = h2
  Pedido = {p1}
  Pg = {g1}
  Req = {u1, h1, h2}
  Hook = {h1, h2}
  Token = {}
  Subtotal <- SubtotalUm
  Desfechos = {"pending", "approved", "refunded"}
  BancoFalha = FALSE
  Falham = {u1, h1, h2}
  MaxFalhas = 1
  Paralelo = TRUE
  Nenhum = Nenhum
SYMMETRY Simetria
INVARIANT ProcessadoLibera
