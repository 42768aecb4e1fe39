SPECIFICATION Spec
CONSTANTS
  p1 = p1
  p2 = p2
  g1 = g1
  g2 = g2
  r1 = r1
  r2 = r2
  Pedido = {p1}
  Pg = {g1, g2}
  Req = {r1, r2}
  Token = {1}
  Subtotal <- SubtotalUm
  Desfechos = {"pending", "approved", "cancelled", "refunded"}
  BancoFalha = FALSE
  Nenhum = Nenhum
INVARIANTS
  ContadoUmaVez
