SPECIFICATION SpecFalhas
CONSTANTS
  p1 = p1
  g1 = g1
  u1 = u1
  h1 = h1
  h2 = h2
  Pedido = {p1}
  Pg = {g1}
  Req = {u1, h1}
  Hook = {h1}
  Token = {1}
  Subtotal <- SubtotalUm
  Desfechos = {"pending", "approved"}
  BancoFalha = FALSE
  Falham = {h1}
  MaxFalhas = 1
  Paralelo = FALSE
  Nenhum = Nenhum
  MaxPedidos = 3
  PorPagina = 1
  MaxHora = 2
INVARIANT
  CursorNaoPula
PROPERTIES
  AprovadoLibera
  AvisoProcessado
  ChegaNoDesktop
