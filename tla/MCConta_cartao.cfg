SPECIFICATION SpecCartao
CONSTANTS
  Licenca = {l1, l2, l3}
  Assinatura = {s1}
  Req = {r1, r2}
  TiposManuais = {"VITALICIA", "TRIAL"}
  TrialDias = 1
  Horizonte = 3
  UltimoDia = 2
  Nenhuma = Nenhuma
  ReqSes = {r1, r2}
  MaxSessoes = 3
  MaxLinks = 2
  MaxSenha = 2
  ContaCad = {k1, k2}
  Endereco = {e1, e2}
  ReqCad = {r1, r2}
  MaxCartas = 3
  Nada = Nada
  Maquina = {m1, m2, m3}
  ReqDisp = {r1, r2}
  LimiteDisp = 1
  MaxTokens = 3
  SemMaquina = SemMaquina
  Admin = {a1, a2}
  ReqAdm = {r1, r2}
  MaxSegredos = 2
  MaxLotes = 1
  PorLote = 2
  Ninguem = Ninguem
  ReqCart = {r1, r2}
  MaxPedidos = 2
  MaxPre = 2
  AssinaturaAv = {s1}
  ReqAv = {r1, r2}
  Ciclo = 4
  UltimoDiaAv = 9
  MaxMortes = 1
  PrimeiroAno = 2023
  Anos = 4
  AnosDeInicio = 2
  MaxPagamentos = 14
  Atrasos = {0, 28, 31}
SYMMETRY Simetria
CONSTRAINT Limite
INVARIANT TrocaMantemPedido
CHECK_DEADLOCK FALSE
