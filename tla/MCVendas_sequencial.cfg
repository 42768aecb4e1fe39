SPECIFICATION Spec
CONSTANTS
  p1 = p1
  p2 = p2
  g1 = g1
  g2 = g2
  r1 = r1
  r2 = r2
  Pedido = {p1, p2}
  Pg = {g1, g2}
  Req = {r1}
  Token = {1, 2}
  Subtotal <- SubtotalDois
  Desfechos = {"pending", "approved", "rejected", "cancelled", "refunded", "charged_back"}
  BancoFalha = FALSE
  Nenhum = Nenhum
SYMMETRY Simetria
INVARIANTS
  ExpiradoSemPendente
PROPERTIES
  CumpreLivro
