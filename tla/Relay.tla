------------------------------- MODULE Relay -------------------------------
(***************************************************************************)
(* The multiplexer from its configuration to its sequential calls: a file  *)
(* is read over the default configuration, the apps are registered, each   *)
(* with the state in its genesis, and connected to, and then CheckTx and   *)
(* Query are forwarded to the one app a header or a chain id names.        *)
(* CometBFT calls them on two connections with a lock each, so that one    *)
(* CheckTx and one Query can be under way together.                        *)
(*                                                                         *)
(* External: SHA-1, of which only the first bytes matter (IdOf); the file  *)
(* system and the decoder of files; sockets, which connect or do not; the  *)
(* apps, which answer as they like; what lies in memory behind the bytes   *)
(* of a transaction; and CometBFT's mempool, which keeps a transaction     *)
(* whose check returned 0.                                                 *)
(***************************************************************************)
EXTENDS Routing

CONSTANTS
  Chains,          \* chain ids
  IdOf,            \* the identifier of each: the first bytes of its SHA-1
  Homes,           \* home directories
  Addresses,       \* what apps listen at
  Types,           \* connection types, known ones and others
  GenesisAt,       \* what GenesisDocFromFile finds there: a state, or one of the next
  NoGenesis, BrokenGenesis,
  DefaultApps,     \* the list in the code
  ZeroApp,         \* an element that a decoder appends: no field is set
  Files,           \* the lists of apps that may be in the file; <<>>: none, or no file
  Txs,             \* the transactions that may be submitted
  Behind           \* what may follow one in its array: the room up to its capacity

ASSUME IdsAreIdentifiers == IdOf \in [Chains -> ChainAppIdentifier]

\* An element of config.Apps.
MegaBlockApp == [chain : Chains, home : Homes, address : Addresses, type : Types]
Fields == {"chain", "home", "address", "type"}

ASSUME DefaultsAreApps == ZeroApp \in MegaBlockApp /\ DefaultApps \in Seq(MegaBlockApp)
ASSUME FilesAreLists ==
  \A f \in Files :
    /\ Len(f) \in Nat
    /\ \A i \in 1..Len(f) :
         /\ "chain" \in DOMAIN f[i] => f[i].chain \in Chains
         /\ "home" \in DOMAIN f[i] => f[i].home \in Homes
         /\ "address" \in DOMAIN f[i] => f[i].address \in Addresses
         /\ "type" \in DOMAIN f[i] => f[i].type \in Types
ASSUME TxsAreBytes == Txs \subseteq Seq(Byte) /\ Behind \subseteq Seq(Byte)

VARIABLES
  file,            \* the apps in the file: of each, the fields that are set
  config,          \* config.Apps
  stage,           \* "configuring", "registering", "connecting", "serving", "exited"
  registered,      \* how many of the configured apps are registered
  clients,         \* mux.clients: from identifiers to what is known of each app
  connected,       \* identifiers of the clients that are started
  check,           \* CheckTx: "idle", "forwarded" or "panicked"
  sent,            \* the transaction the mempool has sent
  request,         \* the transaction in the request, which CheckTx changes
  target,          \* the app CheckTx forwards to
  pool,            \* accepted: the transaction, who accepted it and which bytes
  query,           \* Query: "idle" or "forwarded"
  chain,           \* the chain id in its request
  asked            \* the app it is forwarded to

startVars == <<file, config, stage, registered, clients, connected>>
checkVars == <<check, sent, request, target, pool>>
queryVars == <<query, chain, asked>>
relayVars == <<startVars, checkVars, queryVars>>

None == <<>>

RelayInit ==
  /\ file \in Files
  /\ config = DefaultApps
  /\ stage = "configuring"
  /\ registered = 0
  /\ clients = [id \in {} |-> None]
  /\ connected = {}
  /\ check = "idle" /\ sent = None /\ request = None /\ target = None
  /\ pool = {}
  /\ query = "idle" /\ chain = None /\ asked = None

-----------------------------------------------------------------------------
(***************************************************************************)
(* Start-up: ConfigureCometMultiplexer, NewMultiplexer, Start and NewNode. *)
(***************************************************************************)

\* Variant: the file only fills the fields that have no default.
DefaultsWin(f) ==
  DefaultApps \o [i \in 1..(Len(f) - Len(DefaultApps)) |-> f[Len(DefaultApps) + i]]

\* An element of the list of defaults, or the one appended to it.
DefaultApp(i) == IF i <= Len(DefaultApps) THEN DefaultApps[i] ELSE ZeroApp

\* The decoder writes the fields the file sets into the i-th element.
Decoded(f, i) ==
  IF i > Len(f) THEN DefaultApp(i)
  ELSE [k \in Fields |-> IF k \in DOMAIN f[i] THEN f[i][k] ELSE DefaultApp(i)[k]]

\* The file's list over the list of defaults: neither shortens the other.
Decode(f) ==
  [i \in 1..(IF Len(f) > Len(DefaultApps) THEN Len(f) ELSE Len(DefaultApps)) |->
     Decoded(f, i)]

ConfigureCometMultiplexer ==
  /\ stage = "configuring"
  /\ stage' = "registering"
  /\ config' = Decode(file)
  /\ UNCHANGED <<file, registered, clients, connected, checkVars, queryVars>>

\* log.Fatal: CometBFT's configuration or the file cannot be read or decoded.
ConfigureFails ==
  /\ stage = "configuring"
  /\ stage' = "exited"
  /\ UNCHANGED <<file, config, registered, clients, connected, checkVars, queryVars>>

NextApp == config[registered + 1]
NextId == IdOf[NextApp.chain]

\* The connection types that CometBFT has a client for.
KnownTypes == {"socket", "grpc"}

\* The state an app is initialised with: none when there is no genesis at its home.
GetInitialAppState(home) ==
  IF GenesisAt[home] = NoGenesis THEN None ELSE GenesisAt[home]

\* What mux.clients holds of an app: its client connects to the address when it starts.
HandlerOf(app) ==
  [chain |-> app.chain, state |-> GetInitialAppState(app.home),
   address |-> app.address, type |-> app.type]

Register(id) ==
  /\ clients' = [i \in DOMAIN clients \cup {id} |->
                   IF i = id THEN HandlerOf(NextApp) ELSE clients[i]]
  /\ registered' = registered + 1
  /\ UNCHANGED <<file, config, stage, connected, checkVars, queryVars>>

\* Variant: a second app with the same identifier takes the place of the first.
RegisterAnyway ==
  /\ stage = "registering"
  /\ registered < Len(config)
  /\ Register(NextId)

AddApplication ==
  /\ stage = "registering"
  /\ registered < Len(config)
  /\ NextId \notin DOMAIN clients
  /\ NextApp.type \in KnownTypes
  /\ GenesisAt[NextApp.home] # BrokenGenesis
  /\ Register(NextId)

\* log.Fatal: the identifier is taken, there is no such connection type, or the app's
\* genesis cannot be read.
AddFails ==
  /\ stage = "registering"
  /\ registered < Len(config)
  /\ stage' = "exited"
  /\ UNCHANGED <<file, config, registered, clients, connected, checkVars, queryVars>>

AllRegistered ==
  /\ stage = "registering"
  /\ registered = Len(config)
  /\ stage' = "connecting"
  /\ UNCHANGED <<file, config, registered, clients, connected, checkVars, queryVars>>

Connect(id) ==
  /\ stage = "connecting"
  /\ id \in DOMAIN clients \ connected
  /\ connected' = connected \cup {id}
  /\ UNCHANGED <<file, config, stage, registered, clients, checkVars, queryVars>>

\* The clients must connect: one that cannot ends the process.
ConnectFails ==
  /\ stage = "connecting"
  /\ connected # DOMAIN clients
  /\ stage' = "exited"
  /\ UNCHANGED <<file, config, registered, clients, connected, checkVars, queryVars>>

Serve ==
  /\ stage = "connecting"
  /\ connected = DOMAIN clients
  /\ stage' = "serving"
  /\ UNCHANGED <<file, config, registered, clients, connected, checkVars, queryVars>>

\* A key is missing, or the node cannot be built: the process ends as well.
NodeFails ==
  /\ stage = "connecting"
  /\ connected = DOMAIN clients
  /\ stage' = "exited"
  /\ UNCHANGED <<file, config, registered, clients, connected, checkVars, queryVars>>

-----------------------------------------------------------------------------
(***************************************************************************)
(* CheckTx.                                                                *)
(***************************************************************************)

\* check.Tx[:MbHeaderLen] of a transaction that rest follows in its array: a slice may
\* reach beyond the length of what it is taken from, but not beyond its array.
HeaderFits(tx, rest) == Len(tx \o rest) >= MbHeaderLen
HeaderSlice(tx, rest) == SubSeq(tx \o rest, 1, MbHeaderLen)

Handled(tx, rest) ==
  HeaderFits(tx, rest) /\ HasHandler(DOMAIN clients, HeaderSlice(tx, rest))

\* Variant: what there is of the header is cut off, as bytes.TrimPrefix would.
NeverPanics(tx) == TRUE

\* check.Tx[MbHeaderLen:], which must not begin beyond the transaction's length.
CanBeStripped(tx) == Len(tx) >= MbHeaderLen

\* The mempool submits a transaction and CheckTx finds a handler: the request is
\* changed and forwarded.
CheckTx(tx, rest) ==
  /\ stage = "serving"
  /\ check = "idle"
  /\ Handled(tx, rest) /\ CanBeStripped(tx)
  /\ check' = "forwarded"
  /\ sent' = tx
  /\ request' = Strip(tx)
  /\ target' = HeaderId(HeaderSlice(tx, rest))
  /\ UNCHANGED <<startVars, pool, queryVars>>

\* No handler: an error, and the mempool forgets the transaction.
CheckRefused(tx, rest) ==
  /\ stage = "serving"
  /\ check = "idle"
  /\ HeaderFits(tx, rest) /\ ~Handled(tx, rest)
  /\ UNCHANGED relayVars

\* One of the two slices is out of bounds.
CheckPanics(tx, rest) ==
  /\ stage = "serving"
  /\ check = "idle"
  /\ HeaderFits(tx, rest) => Handled(tx, rest) /\ ~CanBeStripped(tx)
  /\ check' = "panicked"
  /\ sent' = tx
  /\ UNCHANGED <<startVars, request, target, pool, queryVars>>

\* The caller recovers from the panic and the next call can come.
Recover ==
  /\ check = "panicked"
  /\ check' = "idle"
  /\ sent' = None
  /\ UNCHANGED <<startVars, request, target, pool, queryVars>>

CheckReturns ==
  /\ check = "forwarded"
  /\ check' = "idle"
  /\ sent' = None /\ request' = None /\ target' = None
  /\ UNCHANGED <<startVars, queryVars>>

\* Variant: the mempool keeps the transaction it finds in its request afterwards.
AcceptRequest ==
  /\ CheckReturns
  /\ pool' = pool \cup {[tx |-> request, app |-> target, body |-> request]}

AppAccepts ==
  /\ CheckReturns
  /\ pool' = pool \cup {[tx |-> sent, app |-> target, body |-> request]}

\* The app's code is not 0, or the call fails.
AppRejects ==
  /\ CheckReturns
  /\ UNCHANGED pool

-----------------------------------------------------------------------------
(***************************************************************************)
(* Query, by chain id.                                                     *)
(***************************************************************************)

\* The handlers for a chain id; the loop over the map returns the first it meets.
HandlersFor(c) == {id \in DOMAIN clients : clients[id].chain = c}

Query(c) ==
  /\ stage = "serving"
  /\ query = "idle"
  /\ \E id \in HandlersFor(c) : asked' = id
  /\ query' = "forwarded"
  /\ chain' = c
  /\ UNCHANGED <<startVars, checkVars>>

QueryRefused(c) ==
  /\ stage = "serving"
  /\ query = "idle"
  /\ HandlersFor(c) = {}
  /\ UNCHANGED relayVars

\* The app's answer or its error is passed on.
QueryReturns ==
  /\ query = "forwarded"
  /\ query' = "idle"
  /\ chain' = None /\ asked' = None
  /\ UNCHANGED <<startVars, checkVars>>

\* The process has given up at its start.
Exited == stage = "exited" /\ UNCHANGED relayVars

RelayNext ==
  \/ ConfigureCometMultiplexer
  \/ ConfigureFails
  \/ AddApplication
  \/ AddFails
  \/ AllRegistered
  \/ \E id \in DOMAIN clients : Connect(id)
  \/ ConnectFails
  \/ Serve
  \/ NodeFails
  \/ \E tx \in Txs, rest \in Behind :
       CheckTx(tx, rest) \/ CheckRefused(tx, rest) \/ CheckPanics(tx, rest)
  \/ Recover
  \/ AppAccepts
  \/ AppRejects
  \/ \E c \in Chains : Query(c) \/ QueryRefused(c)
  \/ QueryReturns
  \/ Exited

RelaySpec == RelayInit /\ [][RelayNext]_relayVars

-----------------------------------------------------------------------------
(***************************************************************************)
(* Properties.                                                             *)
(***************************************************************************)

\* The variables have their types.
RelayTypeOK ==
  /\ file \in Files
  /\ config \in Seq(MegaBlockApp)
  /\ stage \in {"configuring", "registering", "connecting", "serving", "exited"}
  /\ registered \in 0..Len(config)
  /\ DOMAIN clients \subseteq ChainAppIdentifier
  /\ \A id \in DOMAIN clients : clients[id].chain \in Chains
  /\ connected \subseteq DOMAIN clients
  /\ check \in {"idle", "forwarded", "panicked"}
  /\ query \in {"idle", "forwarded"}
  /\ pool \subseteq [tx : Txs, app : ChainAppIdentifier, body : Seq(Byte)]

\* No transaction gets into the mempool that would make a block fail, although CheckTx
\* looks for the header in memory that need not belong to the transaction, where
\* FinalizeBlock looks at the transaction itself: FinalizeBlock finds a handler, it is
\* the app that has checked the transaction, and header and checked bytes make it up.
MempoolFitsBlocks ==
  \A p \in pool :
    /\ HasHandler(DOMAIN clients, p.tx)
    /\ CreateMegablocksHeader(p.app) \o p.body = p.tx

\* Two ways to the same app: a query for a chain id reaches the app that executes
\* the transactions with this chain's header, for every chain that is configured,
\* and for those it is never refused.
QueriesMeetTheirChain ==
  /\ query = "forwarded" => asked = IdOf[chain]
  /\ stage = "serving" =>
       \A i \in 1..Len(config) : HandlersFor(config[i].chain) = {IdOf[config[i].chain]}

\* An app that the file describes in full is served, under the identifier of its own
\* chain id and at its own address, and is initialised with the state in its own home,
\* wherever it stands in the file and whatever the defaults are.
ListedAppsGetTheirGenesis ==
  stage = "serving" =>
    \A i \in 1..Len(file) : Fields \subseteq DOMAIN file[i] =>
      LET id == IdOf[file[i].chain] IN
        id \in DOMAIN clients /\ clients[id] = HandlerOf(file[i])

\* No call is forwarded to an app that there is no connection to.
CallsAreConnected ==
  /\ check = "forwarded" => target \in connected
  /\ query = "forwarded" => asked \in connected
=============================================================================
