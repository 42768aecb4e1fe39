# Verification of FotoRAW Web

TLA+ specifications of the server of FotoRAW Web (`apps/server`, NestJS + Prisma on
Postgres), which sells photos through Mercado Pago (MP below), charges the photographers'
plans, issues licences to the desktop program and publishes galleries from it. TLC checks
the specifications on small instances; TLAPS proves the main invariants for all sizes.

Paths below are relative to `apps/server/src/modulos/` unless they start with `apps/`.

## 1. Inventory of the system

Every operation is an HTTP handler (or a scheduled routine) of one Node process: a handler
runs until an `await`, other handlers run meanwhile, and a restart drops what a handler had
not written. The shared state is the Postgres database; a Prisma call is atomic, several in a
`$transaction` are atomic together, and nothing else is. `EmailService.enviar`,
`AuditoriaService.registrar` and `NotificacoesService.avisarAdmins` never throw; of what they
write, only the routine's audit rows are read by another handler.

| Component | State | Operations | What is hard | Correct when | Modules |
|---|---|---|---|---|---|
| **Vendas** `pagamentos/vendas` | `pedidos`, `pagamentos`, `downloads`, `galerias.total_vendas_centavos`, MP's payments | criarPedido, pagarPix, pagarCartao, processarAviso, devolver, consultar, baixar | three paths confirm one payment; statuses read before a call to MP and written after it; restarts between MP and the row | PAGO only with money, ESTORNADO only with money back, the total is the paid orders', nothing paid is forgotten | `Vendas`, `LivroDeVendas`, `Pacote` |
| **Webhooks** `pagamentos/webhooks` | `webhooks_recebidos` | receber | repeated, parallel, lost deliveries | every notification is processed | `Webhooks` |
| **Credenciais do vendedor, Financeiro** | `conexoes_pagamento` (OAuth tokens) | obter (refreshes), conectar, desconectar | two refreshes with one refresh token | a connected photographer's token stays usable | `Credenciais` |
| **Assinaturas, Cobrança, Rotina** `pagamentos/*` | `assinaturas`, `faturas`, audit rows | assinarComCartao, processarCobranca, processarAssinatura, registrarPagamento, verificarAvisosVencimento, marcarFaturasVencidas | a charge notified twice, after a cancellation, or half registered; a card replaced; the daily routine races a payment, or itself | one charge pays one invoice and renews the licence once; who has to be warned is, once | `Cobranca`, `Cartoes`, `Avisos`, `Periodo` |
| **Planos** `planos` | `assinaturas` | assinar, cancelar, reativar | two subscriptions of one account | at most one living subscription, one card charged | `Cobranca`, `Cartoes` |
| **Licenças** `licencas` | `licencas` | emitirTrial, emitirManual, renovarPorAssinatura, encerrarDaAssinatura, alterarStatus, atual | expiry racing renewal | at most one active licence; a paid period is licensed | `Licencas` |
| **Sync** `sync` | `galerias`, `fotos`, `sync_lotes`, buckets | iniciarLote, confirmarLote, listarGalerias, puxarPedidos | batches in parallel; the bucket and the rows change apart; the cursor of the pull | what is public exists; no order is missed by the desktop | `Publicacao`, `PuxarPedidos` |
| **Galerias** `galerias` | `galerias` | alterarStatus, alterarPrecos | status changes while a batch is confirmed | | `Publicacao` |
| **Auth, Contas** `auth`, `contas` | `contas`, `sessoes_web`, `dispositivos`, `tokens_api`, `tokens_verificacao` | login, renovar, sair, vincularDispositivo, redefinirSenha, alterarSenha, cadastrar, verificarEmail, pedirTrocaEmail, confirmarTrocaEmail, excluir | rotation of a session, device limit, single use of tokens, a link followed after the row it is about changed | a token is used once, no session survives a reset, a verified address was proved | `Sessoes`, `Dispositivos`, `Cadastro` |
| **Compradores** `compradores` | `codigos_comprador` | pedirCodigo, confirmarCodigo, apagarMeusDados | attempts and use are not conditional | a bounded number of attempts, one use | `Codigos` |
| **Backups** `backups` | `backups_desktop`, bucket | iniciar, confirmar, retenção, remover | bucket and row are changed apart | the kept backups are the ones of the policy and restorable | `Backups` |
| **Admin** `admin` | all of the above, `repasses`, second factor | assinaturas, repasses, admins, segurança, contas, configurações | check, then create | one repasse per balance; no block leaves the platform without an admin | `Repasses`, `Administradores`, `Cobranca`, `Licencas` |
| **Vitrine, Pedidos, Notificações** | reads; push | | none but the disk watch's hysteresis | | |
| **Infra, frontends, packages** | | I/O, pages, types | | | |

Interactions: MP calls *Webhooks*, which calls *Vendas.processarAviso* or *Assinaturas*;
*Vendas* calls MP with the token of *Credenciais* and reads *Licenças* for the commission;
*Assinaturas* calls *Cobrança*, which renews *Licenças*; *Rotina* calls *Cobrança* every
day; *Sync* reads the quota in *Licenças*, publishes *Galerias* and hands the orders of
*Vendas* to the desktop; *Admin* writes the tables of the others directly.

`PROJECT.json` lists every component with its status, and under `hazards` what is hard to
test in each, at its line, with the properties that are about it.

## 2. The modules

A handler is cut where it awaits something another handler can see, and at no other place;
`pc` in each module's `req…` is the await a handler is at, the other fields what it read
before. What an exception or a restart does to a handler is an action of its own (`Falhar…`,
`Morrer`). Reads of columns that never change are merged with the next step. Operators whose
comment begins with *fault* are wrong versions of the code: no action uses them, and the
mutants of `PROJECT.json` put each in the place of the right one to see its property fail.

### `Vendas.tla` — VendasService

| Model | Code |
|---|---|
| `pedido` | `Pedido.status`; `CANCELADO` is written by no code and is left out |
| `vencido` | orders with `expiraEm <= now`; a new Pix moves `expiraEm` on, so `PixGrava` removes the order |
| `pag`, `ordem` | `Pagamento.status` and the order of `criadoEm` of the local row of each MP payment |
| `pixVencido` | payments with `pixExpiraEm <= now` |
| `vendas` | what each order has added to `Galeria.totalVendasCentavos` (the column is their sum) |
| `downloads` | orders whose `Download` rows exist |
| `mp`, `reembolso` | MP: each payment's order (`external_reference`), idempotency key and status; the refund keys it has seen |
| `req` | the handlers in flight: `pc` is the await a handler is at, the other fields what it read before |

A handler is cut where it awaits something another handler can see. `PagarCartao`,
`CartaoCriaNoMp`, `CartaoGrava`, `CartaoAguarda`, `Aplicar`, `Liberar` are the steps of one
`pagarCartao`, and `Continua` says where a handler goes after `aplicar`: the webhook answers,
the card's handler opens `consultar`, and `consultar` loads the order again. `confirmarPago`
and `liberar` are one step because the check of the first is repeated by the conditional
update of the second, and what is read between them (`totalCentavos`, items) never changes.
`Falhar` ends any handler at any await: an exception (MP refuses, times out, the database
fails) or a restart. Inside `consultar`'s `try` an error is swallowed and the handler goes on
with the first read; `ErroNaReconsulta` does this, after a failing call to MP always, after
a database error when `BancoFalha`.

MP is modelled from how the code uses it: one payment per idempotency key, a refund key seen
before is answered as before, a payment goes from pending to approved, rejected (card) or
cancelled (expired Pix), and from approved to refunded or charged back. MP refuses a payment
of zero. A Pix is paid only after its local row exists, because the buyer reads the code from
it. `in_process`, `in_mediation` and `authorized` are mapped like `pending`.

The 10 s pause of the reconsulta is a free choice between `Reconsultar` and `Consultar`.

**`LivroDeVendas.tla`** is what `VendasService` promises about an order without handlers,
payments or notifications: the money comes before the photos (`Vender` needs `recebido`), the
refund before the return (`Desfazer` needs `devolvido`), and the gallery's total moves with
these two steps only. `Vendas` implements it by the mapping `Livro`: `situacao` is
`pedido` (`PAGO` is *paga*, `ESTORNADO` *devolvida*, the rest *nao_paga*), `recebido` and
`devolvido` are the orders one of whose payments was approved or given back at MP, `contado`
is `vendas`, `entregue` is `downloads`. One handler at a time implements `Spec`
(`CumpreLivro`). Interleaved handlers add one step, `Reabrir`: a status read before is written
over a newer one (`SpecConcorrente`, `CumpreLivroConcorrente`). The refund of an order of zero
and the sale of a returned order (a second approved payment) are in the book because they
are in the code.

### `Webhooks.tla` — MercadoPagoWebhookService over Vendas

In `Vendas` a notification may arrive at any moment. `Webhooks` says where it comes from: MP
notifies each creation and change of a payment (`avisos`), and sends a notification again
until it sees a 200. `registro` is the row of `webhooks_recebidos`, `entrega` the delivery
each slot of `Hook` is serving. `Entregar`, `Criar`, `Processar`, `Marcar` are the awaits of
`receber`: find the row, create it (the unique `eventoRef` answers `repetido` to the second),
run `processarAviso` (a step of `Vendas` in the same slot), write `processadoEm` and answer.
`Marcar` may lose its answer, `FalharEntrega` is the `catch` (500) or a restart. A
notification is named by its payment and the status that caused it: a payment never returns
to a status it left, so each notification has one name. The notifications of subscriptions are in `Cobranca`.

Giving up on a 404 after 2 h is left out.

`Next` of `Webhooks` uses the actions of `Vendas` as they are. Nothing reaches `MpAvisa`
except through MP's own changes.

**Fairness.** A handler that started goes on, because the event loop runs it and a call to MP
has a timeout (`AbortSignal.timeout(15_000)`): `WF` on each slot's steps, `MpRecusa` included,
so MP need not ever accept anything. MP repeats a notification until it is answered: `WF` on
`Entregar` for each notification. The order's page asks every 4 s while the order can be paid
(`apps/web/app/pages/pedido/[id].vue`), and asks MP again when its last answer is older than
10 s: `SF` on `AbrirPedido` and `Reconsultar`. The last one assumes the buyer keeps the page
open; without it TLC shows that a notification that arrives before the card's row is written
is only registered and nobody asks again. No fairness is assumed of MP's decisions or of the
buyer's payments.

### `Pacote.tla` — criarPedido and baixar over a package gallery

| Model | Code |
|---|---|
| `incluidas`, `extra` | `Galeria.fotosIncluidas`, and whether `precoFotoCentavos` is above zero |
| `status` | `Pedido.status`; `ABERTO` stands for every status before the payment |
| `itens`, `gratis` | `ItemPedido` rows and those with `incluida` |
| `downloads`, `baixadas` | `Download` rows and their counter |
| `links` | how many signed links the buyer got (not stored) |

`AbrirGaleria`, `Selecionar`, `Criar`, `Liberar` are the awaits of `criarPedido`: the gallery,
the items of the `PAGO` orders, the row, and `liberar` when nothing is to be paid.
`AbrirDownload` and `Contar` are those of `baixar`: the row, then the conditional increment
and the link. How an order with extras comes to be paid or returned is the business of
`Vendas` (`Pagar`, `Devolver`). Left out: the checks of the gallery that only refuse, and the
amounts.

### `Licencas.tla` — LicencasService and its repository

| Model | Code |
|---|---|
| `status`, `tipo`, `assinatura`, `validade` | the columns of `Licenca`, in days; `validade` has no meaning for a `VITALICIA` |
| `anunciado` | until when each subscription was last told to be licensed (the payment's e-mail) |
| `hoje` | the clock |
| `req` | the handlers of one account in flight |

Each operation reads and later writes, most of them by id and without a condition, so each is
cut in two or three: `AbrirStatus`, `ConferirReativacao`, `Alterar` are `alterarStatus`.
`IndiceAceita` is the partial unique index of the migration
(`licencas_uma_ativa_por_conta`), which refuses a second `ATIVA` row; `EmiteSubstituindo` is
the transaction that revokes the active licences and emits one. `atual`, which every request
of the desktop program calls, is `LerAtual` and `MarcarExpirada`; a reading that finds nothing
to expire changes nothing. Left out: the limits of the plan copied to a licence.

### `Cobranca.tla` — subscriptions, charges, and the daily routine

| Model | Code |
|---|---|
| `assin` | `Assinatura`: `status`, `periodoAtualFim`, `cancelaNoFimDoPeriodo`; `mp` is the status of its subscription at MP, `manual` without one |
| `fatura` | `Fatura`: status, subscription, date, `provedorCobrancaId` |
| `licAte` | `validaAte` of the active licence of the subscription, 0 without one |
| `cobr`, `pendente` | MP's charges, and those whose notification MP has no 200 for |
| `req` | the handlers in flight |

| Handler | Steps |
|---|---|
| `criar` of the administrator | `AbrirCriar`, `CriarAssinatura`, then the payment if it is already paid |
| `assinar` of the photographer | `AbrirAssinar`, `Pedir`, `SoltarNoMp`, `CadastrarCartao`, `Desistir` if the card is refused |
| `processarCobranca` | `LerCobranca`, `Conferir`, `CriarFatura`, then the payment |
| `registrarPagamento`, `marcarFaturaPaga` | `AbrirFatura` or `MarcarFaturaPaga`, `Registrar` (the transaction), `Renovar` (the licence and the answer) |
| the routine | `LerVencidas`, `Vencer` |
| `cancelar` of the administrator | `AbrirCancelar`, `MudarNoMp`, `CancelarFaturas`, `Encerrar`, `EncerrarLicenca` |
| `cancelar`, `reativar` of the photographer | `AbrirCancelarPainel`, `AbrirReativar`, `MudarNoMp`, `Agendar`, `Desistir`, `Reativar` |
| `processarAssinatura` | `LerPreapproval`, `LerAssinatura`, then one of `Espelhar…` |

`Falhar` ends a handler at any await, and MP repeats the notification: a charge stays in
`pendente` until it is answered 200, and MP may ask about it at any time, also twice at once.
MP charges a card that is `authorized` once a period, may be refused, and may try a refused
charge again; the photographer may pause, resume or cancel at MP's own site (`MpMuda`).

Abstractions: one account; MP is switched on; a card is registered once per subscription, in
one step (`Cartoes` has the ids and the cards that replace one another); what happens inside the licence is `Licencas`, here
`Renovar` extends it or substitutes the account's in one step; payments are dated on the day
they are registered; a period is `Periodo` days. The statuses `TRIAL` and `EXPIRADA` of a
subscription are written by no code and are left out.

### The smaller modules

Each has its own slots of handlers (`req…`), a fault action, and `pc`s named for the awaits. The
header of a module says what it leaves out; `map` names the lines of each action.

| Module | State | Actions |
|---|---|---|
| `Cartoes` — assinaturas-mercadopago, planos | `plano`, `idMp`, `agendadas`: `Assinatura.status`, `provedorAssinaturaId`, `cancelaNoFimDoPeriodo`; `registrada`: the request a charge paid; `pre`, `cobradas`: MP's preapprovals; `avisosPre`, `avisosCob`: what MP has no 200 for | `AbrirAssinar`, `Pedir`, `Soltar`, `CriarNoMp`, `Gravar`, `DesistirDoPedido`: `assinar`; `CriarSemResposta`: MP creates and its answer is lost; `AbrirDesistencia`, `PararNoMp`, `AgendarFim`: `cancelar`; `…Espelho`, `Espelhar`, `GravarId`: `processarAssinatura`; `…Cobranca`: `processarCobranca` |
| `Avisos` — rotina-assinaturas, cobranca | `sitAv`, `inicioAv`, `fimAv`, `agendadaAv`: the columns of `Assinatura`; `auditAv`: the newest audit row of each kind; `enviadosAv`: e-mails | `Comecar`, `MarcarVencidas`: `marcarFaturasVencidas`; `Listar`, `Conferir`, `Enviar`, `Anotar`, `Terminar`: `verificarAvisosVencimento`; `AnotarEmVao`, `Morrer`: the faults; `PagarPeriodo`, `AgendarCancelamento`, `PassarDiaAv` |
| `Periodo` — periodo.ts | a chain of periods, in days since a first of January; `ancora`: the day it began | `SomarPeriodo`: `setUTCMonth` and `setUTCFullYear`, which carry the days a month does not have; `PagarEm`: `registrarPagamento` on dates; `MesmoDia` is the reference (the same day, or the month's last) |
| `Sessoes` — auth, contas, admin contas | `SessaoWeb` (`familia`, `usadas`, `revogadas`), `senha`, `links` (`TokenVerificacao`), `bloqueada` and `excluida` (`Conta.status`, `excluidoEm`), the browser's `cookie` | `Autenticar`…`Responder`: login; `PedirRenovacao`, `LerSessao`, `Acusar`, `LerContaSes`, `MarcarUsada`, `Girar`, `Negar`: `renovar`; `…Saida`: `sair`; `RecuperarSenha`, `GastarLinks`, `CriarLink`; `SeguirLink`, `MarcarLink`, `GravarSenha`, `DerrubarTudo`, `Reentrar`: `redefinirSenha` and `alterarSenha`; `AlterarConta`, `GravarConta`: the administrator blocks or lets in, by the status decided at the read; `PedirExclusao`, `DespedirSessoes`, `ExcluirLinha`: `excluir`; `PerderSes`: a lost answer |
| `Cadastro` — auth, contas | `contas`, `email`, `verificadas`, `excluidas`: the rows of `Conta`; `cartas`, `gastas`: `TokenVerificacao` and `usadoEm`; `seguidas`: to which address a letter was followed, for which account | `Cadastrar`, `CriarConta`: `cadastrar`; `Reenviar`, `PedirTroca`; `GastarCartas`, `EmitirCarta`: `emitir`; `SeguirCarta`, `MarcarCarta`: `consumirTokenVerificacao`; `VerificarEmail`; `ConferirTroca`, `AtualizarEmail`: `confirmarTrocaEmail`; `Excluir`, `ExcluirConta` |
| `Dispositivos` — auth, dispositivos | `TokenApi` rows: `maquina` and `token` | `Vincular`, `ContarConectados`, `SalvarMaquina`, `TrocarToken`, `GravarToken`: `vincularDispositivo`, whose transaction sees what was committed when each statement began; `AbrirRevogacao`, `RevogarMaquina`, `RevogarTodas`; `UsarToken`, `RegistrarUso`: the guard of the desktop's routes |
| `Codigos` — compradores | `CodigoComprador`: `tentativas`, `gastos` (`usadoEm`), `naJanela` (15 minutes), `apagadosAte` | `PedirCodigo`, `CriarCodigo`: `pedirCodigo`; `ConfirmarCodigo`, `Errar`, `Usar`, `Entrar`: `confirmarCodigo`; `AbrirApagar`, `ApagarCodigos`: `apagarMeusDados` |
| `Administradores` — admin, contas | `bloqueados`, `excluidosAdm`, `segredo`, `ativado`, `recuperacao`: columns of `Conta`; `confirmado`: the secret whose code was typed; `Entram`: whom `JwtGuard` lets through | `AbrirStatusAdmin`, `GravarStatusAdmin`; `AbrirExclusao`, `GravarExclusao`: `excluir` of the own account, which asks for no role; `…Iniciar`, `GravarSegredo`, `…Confirmar`, `…NovosCodigos`, `…Desativar`: the second factor; `AbrirRecuperacao`, `Consumir`, `EntrarAdmin`: login with a recovery code. How administrators are made (`criar`, the script) is left out: those of `Admin` are there from the start |
| `Publicacao` — sync, galerias | `statusGal`, `totalFotos`, `capa`: `Galeria`; `previa`, `ativas`: `Foto`; `lote`, `conjunto`: `SyncLote`; `bucket` | `IniciarLote`, `SalvarGaleria`, `SalvarLote`, `SalvarFoto`, `EntregarLinks`: `iniciarLote`; `Enviar`: the upload; `ConfirmarLote`, `Conferir`, `Processar`, `PublicarFoto`, `Ocultar`, `ContarFotos`, `Divulgar`, `RemoverAntigas`, `ConcluirLote`: `confirmarLote`; `…GaleriaStatus`: the panel |
| `PuxarPedidos` — sync | `situacao`, `atualizado`: `Pedido.status`, `atualizadoEm`; `escrevendo`: transactions not committed; `cursor`, `copia`: the desktop's | `Escrever`, `Comitar`: a writer takes its time when it begins and is seen when it commits; `Puxar`, `PuxarVazio`, `ReceberPagina`, `PerderPagina` |
| `Backups` — backups, retencao.ts | `linha`, `desde`, `feito`: `BackupDesktop.status`, `criadoEm`, `concluidoEm`; `arquivo`: the bucket | `IniciarBackup`, `LerAbandonados`, `CriarBackup`: `iniciar` with its sweep; `EnviarArquivo`; `ConfirmarBackup`, `ConferirArquivo`, `ConcluirBackup`, `Reter`, `ApagarArquivos`, `ApagarLinhas`: `confirmar` with the retention; `Ficam` is the loop of `backupsParaApagar` |
| `Repasses` — financeiro-admin | `venda`: `Pedido.status`; `transf`, `valor`: `Repasse` | `AbrirRepasse`, `LerSaldo`, `CriarRepasse`: `gerarRepasse`; `AbrirPagar`, `AbrirFalha`, `GravarRepasse`: `pagarRepasse`, `falharRepasse`; `VenderOuDevolver` |
| `Credenciais` — credenciais-vendedor, financeiro | `conexao`: the `ConexaoPagamento` row; `emitidos`, `donoTok`, `renovaveis`: MP's tokens | `ObterParaRenovar`, `RenovarNoMp`, `RecusarRenovacao`, `GuardarRenovado`: `obter`; `TrocarCodigo`, `SalvarConexao`: `conectar`; `AbrirDesconectar`, `Revogar`: `desconectar`; `Envelhecer`: time |

### The composites

`MCLoja` (packages, publication, backups, transfers, connection, codes) and `MCConta` (licences,
sessions, sign-up, machines, administrators, cards, warnings, calendar) instantiate several components
at once. These share no row and no step, so `vez` picks one component for each behaviour and
the checks add up instead of multiplying; a property about a component is checked against all
of its behaviours. `MCFalhas` does so with `Webhooks` and `PuxarPedidos`. The history variables
record and restrict nothing: `sozinho` (no handler took a step while another was in flight),
`inteiro` (none failed), `revivido` (a failed transfer was marked paid), `fora` (an order was
committed out of the order of the cursor), `falhou` (a handler of `MCCobranca` failed), `sobrou`
(one of them was paying for a subscription that does not renew). `juntos`, in `MCCobranca`, chooses at the start between handlers one at a time over the whole instance and
two at once over one subscription.

## 3. Runs

| Run | Instance | Properties |
|---|---|---|
| `concorrente` (`MCVendas`) | 1 order, 2 MP payments, 2 handlers, 1 card token, failing database | `TypeOK`; `DinheiroConfere`: `PAGO` only with an approval, `ESTORNADO` only with a refund, a total that covers the paid orders; `UmPixAberto`: on an order on which no card was tried, the idempotency key leaves one Pix that can be paid; `CumpreLivroConcorrente` |
| `sequencial` (`MCVendas`) | 2 orders (one free), 2 payments, 1 handler, all of MP's statuses | `CumpreLivro`; `ExpiradoSemPendente`: an order does not expire while a payment of it is open |
| `falhas` (`MCFalhas`) | 1 order, 1 payment, a browser, and a delivery slot that fails once; 3 orders and pages of 1 for the pull | liveness: `AprovadoLibera`, `AvisoProcessado`, `ChegaNoDesktop`; `CursorNaoPula`: what is before the desktop's cursor is on the desktop, as it is |
| `entregas` (`MCWebhooks`) | one Pix order, a browser and two delivery slots in parallel, any of which fails once | `ProcessadoLibera`: a notification marked processed has had its effect |
| `loja` (`MCLoja`) | 2 orders, 2 photos, a package of 1 or 2 that changes; 2 batches over 2 photos; 3 backups in 3 days; 2 transfers; 2 accounts and 3 tokens at MP; 3 codes, 2 attempts | at all times: `TypeOKLoja`, `LinksContados`, `SoConferidas`, `CodigosLimitados`; alone: `PacoteRespeitado`, `VitrineCerta`, `RepasseCoberto`, `ConexaoVale`, `CodigoUmaVez`; `BackupRestauravel` has parts of both kinds |
| `conta` (`MCConta`) | 3 licences and days, of which an administrator gives `VITALICIA` and `TRIAL` by hand; 3 sessions, 2 links, 2 passwords; 2 accounts, 2 addresses, 3 letters; 3 machines, limit 1; 2 administrators, 2 secrets; 2 requests, 2 preapprovals; periods of 4 days in 10; four years of months | at all times: `TypeOKConta`, `UmaAtiva`, `RaizUsada`, `EmailProvado`, `EstouroLimitado`, `PeriodoJusto`; alone: `LicencaEmOrdem`, `SessaoCerta`, `CredencialUnica` (a link, a letter, a machine's token, a recovery code), `AdminComAcesso` (nothing but the exclusion of the own account leaves no administrator who can enter), `AvisoVerdadeiro`; `CartaoCerto` and `AvisoNaMedida` have parts of both kinds |
| `cobranca` (`MCCobranca`) | 2 subscriptions, 3 invoices, 2 charges, 3 days; either 1 handler that may fail, with the photographer at MP's site, or 2 handlers over one subscription | at all times: `TypeOK`; `CobrancaCerta`: a charge pays one invoice, of its own subscription, once approved; one handler: `RespondidaPaga`: a charge answered 200 is on a paid invoice; `FaturaAbertaUnica`: one open invoice of a subscription; `ContaCoerente`: one living subscription, and until the first failure a paid period is licensed; `NadaVolta`: paid and cancelled are final |
| `total`, `cartao`, `email`, `duas`, `licenca` | | violations, section 4 |

"Alone" means: while the steps of handlers do not overlap (`sozinho`), though each may be cut
short anywhere unless the property also asks for `inteiro`. Much of this code is right only on
that side of the line, and the runs say where the line is: what holds at all times is what
interleavings and failures cannot break, and most of it is proved for every size.

**Bounds.** Two handlers in flight are the least that can race, and every race in the hazards
is between two. Two MP payments make "the newest" mean something and let a Pix and a card both
be approved. One order is enough where orders do not interact: two share only the gallery's
total, and `vendas` keeps each order's part. Three licences let one be substituted while
another is read; two requests and two preapprovals let a card be replaced and the old one's
notice come late; two subscriptions let a request be replaced, two charges let a late one meet
the next, three invoices let a subscription be paid, lose its next invoice and get another.
Three machines over a limit of one let two overlapping links pass it and a third see it passed.
Three sessions let one turn twice, or turn once beside a new login. Two accounts and two
addresses let each want the other's, and three letters let one be replaced and a third be of the
other account. Two batches let a
photo be republished under a new key while the old file is removed. Three backups over days of
which one is kept, and weeks of two days of which two are, let the newest of a day be the newest
of its week or not. Periods of four days are the shortest with a warning three days before, and
ten days let one period be warned about, end, pass its window of four days, and be paid late.
`Periodo` begins on every day of 2023 and 2024, the second a leap year (`PrimeiroAno`), for up
to 14 payments, each on time, 28 or 31 days late, which straddles the length of a month.
Every row is used once, so histories are finite.

`Limite` of `MCConta` and `LimiteLoja` of `MCLoja` bound what is explored once handlers have
overlapped, to one row fewer of each kind, licences that end before the last day, no link that
resets the password (every change of it is the panel's), one session of an account that is
excluded, one account that signs up, and one day after the first period of a subscription (and,
for administrators and cards, to nothing more, because what is said of these is said of handlers
that do not overlap); until then they cut at most a second request, a third letter or a third
session after a failure, a third session of an account that is excluded, and a change of password
after the last session. `Limite` of `MCCobranca` keeps the third invoice and the last day for
handlers one at a time, and the last day, as the third invoice after a failure, for an account
with one subscription: three days let an invoice come due, be charged late, and the subscription
go on. What their parts say after an overlap is what `concorrente`, the smaller instances and the
theorems are about. When the rows of `Cobranca` are used up, `FalharSemLinhas` lets what would
create one throw. `MaxFalhas` and `MaxMortes` bound failures of deliveries and deaths of the
routine, because one that always fails never ends.

Deadlock is checked except where the system really stops: in `conta`, `cartao` and `email`,
which share a module (administrators who block each other, or exclude themselves, lock
everybody out, and a calendar ends). Symmetry is used only in runs without liveness.

**Fairness.** That of `Webhooks` is in section 2. For the pull, the desktop asks for ever (`WF`
on `Puxar`) and some answer arrives (`SF` on `ReceberPagina`, which `PerderPagina` may disable
again and again): the desktop's timer and its retry. Nothing is assumed of writers or of the
clock.

## 4. What the violations show

Each is a disagreement of the code with its own comment; `findings` quotes both.

1. `total` / `ContadoUmaVez`: the card's handler writes `AGUARDANDO_PAGAMENTO` over a `PAGO`
   the webhook wrote while MP was being asked; `liberar` runs again, and the sale is added
   twice and e-mailed twice.
2. `cartao` / `TrocaMantemPedido`: a card registered again on an unpaid request cancels the old
   preapproval; MP's notice of that finds the request by its `external_reference` and cancels
   it, while the new card is authorized and will be charged.
3. `email` / `EmailLiberto`: a change of e-mail asked for before the account was excluded is
   confirmed after it, by id: the excluded row takes the new address, which can then neither
   log in nor sign up.
4. `duas` / `UmaFaturaAberta`: two notifications of one charge pay the same invoice and each
   creates the next one.
5. `licenca` / `CobrancaLicencia`: after an error between the payment's transaction and the
   licence, the repeated notification finds the charge registered and renews nothing.

Two more were met and have no run. "Ninguém mexe na própria conta por aqui — evita se trancar pra
fora" (`admin/admins.admin.service.ts:29-30`) is a rule of the panel of administrators only.
`POST /me/excluir` takes any account that is logged in (`contas/contas.controller.ts:102-112`): an
administrator who is the only one, or blocked the others, excludes itself, and nobody can enter,
let anybody in or make another. `AdminComAcesso` says the rule that holds, and sets the exclusion
aside (`excluidosAdm' = excluidosAdm` in `BloqueioDeixaUm`); without that condition TLC gives this
trace. The other has no run because nothing in the code acts on it: `auth.service.ts:171`
and `docs/fluxos/ambiente-fotografo.md:48` say that an e-mail has to be verified before a gallery
is published, and no handler of `sync` or `galerias` reads `emailVerificadoEm`.

The rules stated for handlers that do not overlap, or do not fail, have a common shape: a row is
read, an `await` follows, and the row is written by id. Taking `sozinho`, `inteiro` or the
single slot away from a property makes TLC give the trace of what follows:

- **Vendas**: an order's `PAGO` is overwritten by `EXPIRADO` after a swallowed error. Of two
  approved payments only the newest is refunded (no interleaving needed). The key of a Pix is
  `pix-<id>-<payments.length>` and the length counts cards too: a card's row stored between two
  clicks on Pix gives each click its own key, and both Pix can be paid (three payments, which no
  run's instance has; `UmPixAberto` says what remains). An order with extras holds included photos while it waits, so a package's quota holds only without extras.
- **Cobrança**, one handler at a time: a subscription whose cancellation is scheduled is charged
  once more, the handler dies with the invoice created and the charge not yet on it, and the
  invoice becomes `VENCIDA`. `reativarAssinatura` (`planos.repositorio.ts:154-180`), which creates
  the next invoice again "se não houver", looks only for a `PENDENTE` one: the subscription has
  two open invoices. `FaturaAbertaUnica` leaves this one case out (`sobrou`).
- **Cobrança, Licenças**: a paid invoice is overwritten by the routine's `VENCIDA`; a cancelled
  subscription is made `ATIVA` by a payment in flight; a revoked licence is suspended, a renewed
  one marked `EXPIRADA`.
- **Cartões**: a charge is answered "não é nosso" when its notice comes before the id is
  saved and the handler died in between, or when the card was changed while it was pending; a
  lost answer of MP leaves an authorized preapproval of a request that is cancelled.
- **Avisos**: overlapping executions, or a death between the e-mail and its row, repeat a
  warning; a refused e-mail still writes its row and is not sent again; who pays late, with
  less than three days of the new period left, gets no early warning. In `Periodo` the drift is three days at
  most, once, in the customer's favour.
- **Sessões**: two tabs that refresh together, or an answer that is lost, look like a theft; so
  does one tab of the panel, whose page makes five calls at once (`pages/index.vue:19-26`), each
  of which renews by itself at a 401 (`useApi.ts:26-38`);
  a refresh racing a change of password opens a session after all were revoked.
- **Dispositivos, Códigos**: limits are passed by the requests in flight, and by no more; a
  code is used twice by two confirmations at once.
- **Administradores**: two block each other; a secret replaced while it is confirmed is turned
  on unconfirmed; a recovery code opens two sessions.
- **Publicação**: overlapping confirmations leave the gallery with a removed file; a paused
  gallery is published again; a confirmation cut short leaves old files in the bucket.
- **PuxarPedidos**: an order committed after one with a later (`atualizadoEm`, id) is never
  seen by the desktop.
- **Backups**: a repeated confirmation that overlaps another can remove every backup; when the
  bucket refuses, files without rows remain.
- **Repasses**: two `gerarRepasse` at once send one balance twice; `pagarRepasse` refuses only
  what is `PAGO`, so that a transfer that failed can be paid after its balance was sent again.
- **Credenciais**: a renewal that overlaps a new connection writes the old account's token; a
  lost answer of MP loses the refresh token.

## 5. Proofs

For every size of the constants, from the assumptions named in each module (naturals where
the code has numbers, values that stand for nothing are no values, photos, payments, slots and
machines finite where they are counted). Each has an inductive invariant `IInv`, a lemma per
action, and the three facts `Init => IInv`, `IInv /\ [Next]_vars => IInv'`, `IInv =>` the
property. Theorems of the parts are of `Spec` of the component; the runs check the same
definitions in the composites, whose steps for a component are that component's.

- **`Vendas_proofs`**: `TiposCorretos`, `PagoSoComAprovacao`, `EstornadoSoComDevolucao`,
  `TotalNuncaMenor`, together `DinheiroSempreConfere`. `PagoTemAprovacao` is not inductive: a
  handler that has read `approved` runs `liberar` steps later. `IInv` adds `HandlersCoerentes`
  (a handler holds a payment of its own order, and a status MP has reached) and
  `RegistrosTemPagamento` (each row and each refund key has its payment at MP). What a handler
  carries stays true while others run because MP takes nothing back (`MpCresce`): a payment
  keeps its order, and an approval or a refund stays in its history. Actions that only move a
  handler share the lemma `SoLe`, those that write the database `EscreveNoBanco`, those of MP
  `MexeNoMp`. `TotalCobrePagos` needs the conditional updates of `liberar` and
  `marcarEstornado`: only PAGO takes from the total and becoming PAGO always adds.
  `ImplementaLivro` is the refinement: the initial state maps to the book's, and under `IInv`
  each action maps to `Receber`, `Devolver`, `Vender`, `Desfazer`, `Reabrir` or a stutter
  (`LivroVende`, `LivroDesfaz`, `LivroReabre`, `LivroParado`). `Vender` needs
  `HandlersCoerentes`: what the handler read is money that MP has.
  `PixSempreUm` is the idempotency key. `PixInv` says that the rows of an order on which no card
  was tried are numbered by their keys, 0, 1, 2 and on; that only the last of them can still be
  paid, and not even it once MP made, or a handler is about to ask for, the Pix of the next
  number. A handler's key is a number it counted earlier, so that MP answers it with the payment
  it has, or makes the one of the next number.
  `ProcessadoSempreLibera` is about `SpecWebhooks`. Each step of it seen from `Vendas` is a step
  of `Vendas` (`WebPasso`), which brings `IInv` and `PixInv` along. `WebInv` adds that a
  notification which says `approved` is true (`Verdadeiro`), that the handler of its delivery
  carries that payment from `aviso_mp` to `libera`, or has nothing left to do (`Atende`), and
  that a Pix is approved only after its row exists, so `processar` never skips one.
  `ExpiradoNuncaPende` and `ImplementaLivroUm` are of one handler at a time whose database
  answers (`UmDeCadaVez`), the setting of `sequencial`. Neither property is inductive: `UmInv`
  says what the handler at work knows and nobody else changes (`Sabe`): an order it is paying can
  be paid, one it is about to expire has only Pix that are over, also when the decision was made
  before MP was asked, and a status it read as pending was never a decided row's. Then no sold or
  returned order is reopened (`NadaReabre`), so the steps of the concurrent book that reopen one
  do not happen.
  `CursorNuncaPula` is about the pull, in `MCFalhas`. `EmOrdem` says that a cursor, the desktop's
  or that of the page on its way, is a mark some order has reached, so that what commits in order
  comes after it; and that a page holds every order up to its last one, since fewer come before
  each of them than before the last (`PaginaCheia`). `TiposFalhas` adds the types and the count of
  failures (`TypeOKFalhas`, which no run checks: it is proved).
- **`Pacote_proofs`**: `TiposPacote`, `LimiteDeLinks`. The limit follows from the conditional
  increment alone; that what is counted was released needs that a handler of `baixar` holds
  an existing row (`Coerente`) and that rows are never deleted.
- **`Licencas_proofs`**: `TiposLicencas`, `UmaLicencaAtiva`. The checks of the handlers are
  not used: what leaves one active licence is the index, for the writes that make a licence
  `ATIVA`, and the substitution, which revokes the others in its transaction. `Segura` says
  that a handler about to write by id holds a licence.
- **`Cobranca_proofs`**: `TiposCobranca`, `CobrancaEmUmaFatura`, `SoCobrancaAprovada`, together
  `CobrancaSempreCerta`. The index alone makes a charge unique. That it was approved and is of
  the invoice's subscription rests on what a handler carries through its awaits
  (`HandlersCoerentes`), which others cannot spoil because an invoice never changes its
  subscription nor a charge its approval (`DonosFicam`), and on every row having a subscription
  (`Linhas`). `Registrar`, the only action that writes a charge, is proved by itself.
  What holds of handlers one at a time is one invariant, `SInv` (`InvarianteSequencial`), from
  which `RespondidaSemprePaga`, `SempreUmaFaturaAberta`, `ContaSempreCoerente` and the action
  property `NadaSempreVolta` follow. None of them is inductive, and they rest on one another: a
  charge finds its invoice because only one is open, and the licence agrees because the handler
  that registers it is the one that renews. `Sequencial` says that at most one handler is in
  flight and that what it knows of the rows (`Bom` of its record) is still so when it writes;
  `Bom` of an idle handler is the coherence of the rows at rest. Each action shows a record to
  which its handler goes on and of which `Bom` holds (`Pousa`).
- **`Loja_proofs`**: `TentativasNuncaPassam`, `JanelaNuncaPassa`, together
  `CodigosSempreLimitados`. The invariants count what is written and the handlers about to
  write it: a handler passes the check only while the count is below the limit, and the others
  then about to write are fewer than the slots.
  The rest is of `SpecLoja`, for requests that do not overlap, one invariant for each component:
  `CodigoSempreUmaVez`, `ConexaoSempreVale`, `BackupSempreRestauravel`, `RepasseSempreCoberto`,
  `PacoteSempreRespeitado`, `VitrineSempreCerta`, with the types of each component and of
  all (`TiposLoja`). The retention loop and the sum of a balance are recursive functions:
  of them nothing is proved by induction but by the least number that would break it
  (`MenorDeles`), and the retention's policy, the newest of each kept day and week, is shown of
  any set of backups.
- **`Conta_proofs`**, of machines, administrators and `SpecConta`: `EstouroSempreLimitado`. What
  is bounded is the machines connected together with those whose handler has got a place
  (`ComVaga`): connecting moves a machine from the second to the first. Each handler brings one
  machine, so a finite set of slots brings no more machines than slots.
  Of requests that do not overlap: `AdminSempreComAcesso`, `CredencialSempreUnica`,
  `SessaoSempreCerta`, `LicencaSempreEmOrdem`, `AvisoSempreNaMedida`, `AvisoSempreVerdadeiro`. Each
  invariant has the component's types, which hold whatever overlaps, and, while `sozinho`, what
  the rows are at rest and what the one handler at work (`OciosoSes`, `OciosoAv`: the others are
  idle) knows of them. `SozinhoAntes` and `InteiroAntes` say that what overlapped, or failed,
  stays so; `ContaSessoes` and its like, that a step of the account is one of the component or
  leaves it alone.
  `CartaoSempreCerto` has two parts. That the card of a living request is known to it once MP's
  notice is answered holds whatever overlaps: a notice that finds no id falls back to the request
  named in the preapproval and writes it (`Respondida`). That no card outlives its request, and no charge is turned away,
  is of requests alone: whoever replaces or gives up a plan asks MP for each card of the
  requests that it ends before it lets go of them.
  `PeriodoSempreJusto` is arithmetic on dates, from lemmas about the calendar for every year: a
  month begins where the one before ended, is found again from its days, and has 28 of them or
  more. Its invariant (`NoDia`) says that the due day is the first one's, or, of a month that
  did not have it, the one it carried over to: the first, second or third, which every month has.
  `TiposConta` and `ContaSempreSegura` put the invariants together for `SpecConta`, whose steps
  are of one component at a time.
  `AvisoLimitado`, the part of `AvisoNaMedida` that holds whatever overlaps, counts (`LimiteAv`):
  while a warning has no row, each time it went out is an execution about to write it, or a
  loss; and who is about to send it is not among those. `AvisaQuemVenceu` needs that the
  execution at work has told, or has in its list, who was overdue when it began (`Percorre`),
  and that the one before did the same (`Contado`), not more than four days ago.
  Two assumptions are of these proofs: an administrator exists (`AlguemAssumption`; the first is
  made by a script), and the executions that may overlap are finitely many
  (`AvisosFinitosAssumption`). `LicencaSempreEmOrdem` is for any set of kinds given by hand: that
  the trial of the first login goes to an account that never had one needs only what its own
  handler read, and that no other wrote since. `AdminSempreComAcesso` rests on the administrator
  that asks being another than the one it blocks, and still one who enters when the row is written.
- **`Sessoes_proofs`**: `RaizSempreUsada`. A handler that is about to open the next session of a
  family has spent one of it; the invariant follows the handlers through the rotation.
  `EmailSempreProvado` is about `Cadastro`: `VerificarEmail` writes by id, whatever the address is
  by then. An account not yet verified still has the address it was born with, or none, and each
  of its verifying letters, or handlers on the way to write or obey one, is of that address
  (`Original`); the address changes only together with the verification, by a handler whose
  letter was followed (`Tem`).
- **`Publicacao_proofs`**: `SempreConferidas`. Keys on show were checked: the handler carries the
  set it found in the bucket (`enviados` only grows), and photos get only keys of a checked
  batch, however batches and confirmations overlap.

Every invariant and action property of the passing runs is stated by a theorem. Only
model-checked: liveness (`AprovadoLibera`, `AvisoProcessado`, `ChegaNoDesktop`) and `ENABLED`, out
of the prover's reach.

## 6. Not modelled

- **Pages, contracts, DTOs, wiring, schema**: most of the repository's lines are templates of
  three Nuxt applications, types and validation. They keep no state that another actor changes;
  the order page is used for the polling that the fairness of `Webhooks` assumes.
- **Reads**: listings, reports, CSV, the public shop window, the orders of a photographer, the
  system panel. They write nothing.
- **Edits of one row** that no modelled handler reads between its own read and write: profile,
  settings, plans, prices, access codes, notes.
- **Texts, fees and amounts**: e-mails, commission and rounding; the price and gallery checks of
  `criarPedido` read what no modelled handler writes.
- **Rate limits and the age of links**: counters of one request and a clock; a living link need
  not be followed, which is what an old one comes to.
- **Limits of a plan copied to a licence** (`recursos`, `reemitirDoPlano`): columns that only
  the quota reads.
- **`reprocessarWebhook` and the 404 given up after two hours**: `Webhooks` repeats a delivery
  until it is answered.
- **Notifications**: push messages never throw and write nothing that is read; the disk watch
  compares one number with one flag in memory.
- **Infrastructure**: buckets, e-mail and the Prisma client appear as the steps that use them.
