----------------------------- MODULE RelayProofs -----------------------------
(***************************************************************************)
(* For every file, every list of defaults, every assignment of identifiers *)
(* and every set of transactions, with anything behind them in memory: the *)
(* apps a file describes are registered as it says, no transaction in the  *)
(* mempool makes a block fail, and a query meets the app its chain's       *)
(* transactions go to.                                                     *)
(***************************************************************************)
EXTENDS Relay, RoutingProofs

\* The map holds the apps registered so far, each under its own identifier.
MapIsRight ==
  /\ config \in Seq(MegaBlockApp)
  /\ registered \in 0..Len(config)
  /\ DOMAIN clients = {IdOf[config[i].chain] : i \in 1..registered}
  /\ \A i \in 1..registered : clients[IdOf[config[i].chain]] = HandlerOf(config[i])

\* The stages come one after the other.
StagesInOrder ==
  /\ stage \in {"configuring", "registering", "connecting", "serving", "exited"}
  /\ stage = "configuring" => registered = 0
  /\ stage \in {"registering", "connecting", "serving"} => config = Decode(file)
  /\ stage \in {"connecting", "serving"} => registered = Len(config)
  /\ connected \subseteq DOMAIN clients
  /\ stage = "serving" => connected = DOMAIN clients
  /\ pool # {} \/ check # "idle" \/ query # "idle" => stage = "serving"

\* What a call under way has found.
CallsAreRight ==
  /\ check \in {"idle", "forwarded", "panicked"}
  /\ check = "forwarded" =>
       /\ sent \in Txs
       /\ HasHandler(DOMAIN clients, sent)
       /\ target = HeaderId(sent)
       /\ request = Strip(sent)
  /\ query \in {"idle", "forwarded"}
  /\ query = "forwarded" => asked \in HandlersFor(chain)

RelayInv ==
  /\ file \in Files
  /\ MapIsRight
  /\ StagesInOrder
  /\ CallsAreRight
  /\ pool \subseteq [tx : Txs, app : DOMAIN clients, body : Seq(Byte)]
  /\ MempoolFitsBlocks

-----------------------------------------------------------------------------
\* A file over the defaults is a list of apps, with an element for each of both.
LEMMA DecodedIsAList ==
  ASSUME NEW f \in Files
  PROVE  /\ Decode(f) \in Seq(MegaBlockApp)
         /\ \A i \in 1..Len(f) : i \in 1..Len(Decode(f)) /\ Decode(f)[i] = Decoded(f, i)
<1> DEFINE n == IF Len(f) > Len(DefaultApps) THEN Len(f) ELSE Len(DefaultApps)
<1>1. Len(f) \in Nat /\ Len(DefaultApps) \in Nat
  BY FilesAreLists, DefaultsAreApps, LenProperties
<1>2. n \in Nat /\ Len(f) \in 0..n
  BY <1>1
<1>3. ASSUME NEW i \in 1..n
      PROVE  Decoded(f, i) \in MegaBlockApp
  <2>1. DefaultApp(i) \in MegaBlockApp
    <3>1. ZeroApp \in MegaBlockApp /\ DefaultApps \in Seq(MegaBlockApp)
      BY DefaultsAreApps
    <3>2. CASE i \in 1..Len(DefaultApps)
      BY <3>1, <3>2, <1>1, ElementOfSeq DEF DefaultApp
    <3>3. CASE ~(i <= Len(DefaultApps))
      BY <3>1, <3>3 DEF DefaultApp
    <3> QED
      BY <1>1, <3>2, <3>3
  <2>2. CASE i > Len(f)
    BY <2>1, <2>2 DEF Decoded
  <2>3. CASE i \in 1..Len(f)
    <3>1. /\ "chain" \in DOMAIN f[i] => f[i].chain \in Chains
          /\ "home" \in DOMAIN f[i] => f[i].home \in Homes
          /\ "address" \in DOMAIN f[i] => f[i].address \in Addresses
          /\ "type" \in DOMAIN f[i] => f[i].type \in Types
      BY <2>3, FilesAreLists
    <3>2. /\ DefaultApp(i).chain \in Chains /\ DefaultApp(i).home \in Homes
          /\ DefaultApp(i).address \in Addresses /\ DefaultApp(i).type \in Types
      BY <2>1 DEF MegaBlockApp
    <3>3. ~(i > Len(f))
      BY <1>1, <2>3
    <3> QED
      BY <3>1, <3>2, <3>3 DEF Decoded, Fields, MegaBlockApp
  <2> QED
    BY <1>1, <1>2, <2>2, <2>3
<1>4. Decode(f) = [i \in 1..n |-> Decoded(f, i)]
  BY DEF Decode
<1> HIDE DEF n
<1>5. Decode(f) \in [1..n -> MegaBlockApp]
  BY <1>3, <1>4
<1>6. Decode(f) \in Seq(MegaBlockApp) /\ Len(Decode(f)) = n
  BY <1>2, <1>5, IsASeq, LenProperties
<1> QED
  BY <1>2, <1>4, <1>6

LEMMA RelayInvInit ==
  ASSUME RelayInit
  PROVE  RelayInv
<1>1. MapIsRight
  <2>1. config \in Seq(MegaBlockApp)
    BY DefaultsAreApps DEF RelayInit
  <2>2. Len(config) \in Nat
    BY <2>1, LenProperties
  <2> QED
    BY <2>1, <2>2 DEF RelayInit, MapIsRight
<1> QED
  BY <1>1 DEF RelayInit, RelayInv, StagesInOrder, CallsAreRight, MempoolFitsBlocks

\* Before anything is registered the list is replaced.
LEMMA ConfigureKeepsInv ==
  ASSUME RelayInv, ConfigureCometMultiplexer
  PROVE  RelayInv'
<1> USE DEF ConfigureCometMultiplexer, checkVars, queryVars
<1>1. /\ config' \in Seq(MegaBlockApp) /\ Len(config') \in Nat
      /\ file \in Files /\ file' = file /\ config' = Decode(file')
  BY DecodedIsAList, LenProperties DEF RelayInv
<1>2. /\ pool = {} /\ check = "idle" /\ query = "idle"
      /\ registered = 0 /\ registered' = 0
  BY DEF RelayInv, StagesInOrder
<1>3. MapIsRight'
  BY <1>1, <1>2 DEF RelayInv, MapIsRight
<1>4. StagesInOrder'
  BY <1>1, <1>2 DEF RelayInv, StagesInOrder
<1> QED
  BY <1>1, <1>2, <1>3, <1>4 DEF RelayInv, CallsAreRight, MempoolFitsBlocks

\* A registered app is added to the map under an identifier that was free.
LEMMA AddKeepsMap ==
  ASSUME RelayInv, AddApplication
  PROVE  RelayInv'
<1> USE DEF AddApplication, Register
<1>1. /\ config' = config /\ config \in Seq(MegaBlockApp) /\ Len(config) \in Nat
      /\ registered \in 0..Len(config) /\ registered' = registered + 1
      /\ registered < Len(config)
  BY LenProperties DEF RelayInv, MapIsRight
<1>2. registered' \in 0..Len(config) /\ registered \in Nat
      /\ 1..registered' = 1..registered \cup {registered'}
  BY <1>1
<1>3. DOMAIN clients' = DOMAIN clients \cup {NextId}
  OBVIOUS
<1>4. DOMAIN clients' = {IdOf[config'[i].chain] : i \in 1..registered'}
  BY <1>1, <1>2, <1>3 DEF RelayInv, MapIsRight, NextId, NextApp
<1>5. ASSUME NEW i \in 1..registered'
      PROVE  clients'[IdOf[config'[i].chain]] = HandlerOf(config'[i])
  <2>1. CASE i = registered'
    BY <2>1, <1>1, <1>3 DEF NextId, NextApp
  <2>2. CASE i \in 1..registered
    <3>1. /\ IdOf[config[i].chain] \in DOMAIN clients
          /\ clients[IdOf[config[i].chain]] = HandlerOf(config[i])
      BY <2>2 DEF RelayInv, MapIsRight
    <3> QED
      BY <3>1, <1>1, <1>3
  <2> QED
    BY <1>2, <2>1, <2>2
<1>6. pool = {} /\ check = "idle" /\ query = "idle"
  BY DEF RelayInv, StagesInOrder
<1>7. MapIsRight'
  BY <1>1, <1>2, <1>4, <1>5 DEF MapIsRight
<1>8. StagesInOrder'
  BY <1>3, <1>6 DEF RelayInv, StagesInOrder, checkVars, queryVars
<1> QED
  BY <1>6, <1>7, <1>8
  DEF RelayInv, CallsAreRight, MempoolFitsBlocks, checkVars, queryVars

\* Each entry of the map is there for an app that is registered.
LEMMA EntriesAreApps ==
  ASSUME MapIsRight, NEW id \in DOMAIN clients
  PROVE  \E i \in 1..registered :
           /\ id = IdOf[config[i].chain]
           /\ clients[id] = HandlerOf(config[i])
           /\ clients[id].chain = config[i].chain
<1>1. PICK i \in 1..registered : id = IdOf[config[i].chain]
  BY DEF MapIsRight
<1>2. clients[id] = HandlerOf(config[i])
  BY <1>1 DEF MapIsRight
<1>3. HandlerOf(config[i]).chain = config[i].chain
  BY DEF HandlerOf
<1> QED
  BY <1>1, <1>2, <1>3

\* A step that changes neither the configuration nor the map keeps it right.
LEMMA MapUntouched ==
  ASSUME MapIsRight,
         config' = config, registered' = registered, clients' = clients
  PROVE  MapIsRight'
BY DEF MapIsRight

\* The other steps of the start leave the map alone.
LEMMA StartKeepsInv ==
  ASSUME RelayInv,
         \/ ConfigureFails \/ AddFails \/ AllRegistered \/ ConnectFails
         \/ Serve \/ NodeFails
         \/ \E id \in DOMAIN clients : Connect(id)
  PROVE  RelayInv'
<1> USE DEF ConfigureFails, AddFails, AllRegistered, ConnectFails, Serve, NodeFails,
            Connect, checkVars, queryVars
<1>1. /\ pool = {} /\ check = "idle" /\ query = "idle"
      /\ pool' = {} /\ check' = "idle" /\ query' = "idle"
  BY DEF RelayInv, StagesInOrder
<1>2. MapIsRight'
  BY MapUntouched DEF RelayInv
<1>3. StagesInOrder'
  BY <1>1 DEF RelayInv, StagesInOrder
<1> QED
  BY <1>1, <1>2, <1>3 DEF RelayInv, CallsAreRight, MempoolFitsBlocks

\* A slice that begins with a whole header has nothing of what lies behind it.
LEMMA SliceIsHeader ==
  ASSUME NEW tx \in Seq(Byte), NEW rest \in Seq(Byte), CanBeStripped(tx)
  PROVE  /\ CheckHeader(HeaderSlice(tx, rest)) => CheckHeader(tx)
         /\ HeaderId(HeaderSlice(tx, rest)) = HeaderId(tx)
<1> DEFINE slice == HeaderSlice(tx, rest)
<1>1. Len(MAGIC) = 4 /\ MbHeaderLen = 8
  BY DEF MbHeaderLen, MAGIC, ChainAppIdLen
<1>2. Len(tx) \in Nat /\ Len(tx) >= 8 /\ Len(rest) \in Nat
  BY <1>1, LenProperties DEF CanBeStripped
<1>3. /\ tx \o rest \in Seq(Byte) /\ Len(tx \o rest) = Len(tx) + Len(rest)
      /\ \A i \in 1..8 : (tx \o rest)[i] = tx[i]
  BY <1>2, ConcatProperties
<1>4. /\ slice \in Seq(Byte) /\ Len(slice) = 8
      /\ \A i \in 1..8 : slice[i] = tx[i]
  BY <1>1, <1>2, <1>3, SubSeqProperties DEF HeaderSlice
<1> HIDE DEF slice
<1>5. ASSUME NEW m \in 1..8, NEW n \in m..8
      PROVE  SubSeq(slice, m, n) = SubSeq(tx, m, n)
  <2>1. /\ m \in Int /\ n \in Int /\ m <= n
        /\ \A i \in m..n : slice[i] = tx[i] /\ tx[i] \in Byte
    BY <1>2, <1>4, ElementOfSeq
  <2>2. /\ SubSeq(slice, m, n) \in Seq(Byte)
        /\ Len(SubSeq(slice, m, n)) = n - m + 1
        /\ \A i \in 1..(n - m + 1) : SubSeq(slice, m, n)[i] = slice[m + i - 1]
    BY <2>1, SubSeqProperties
  <2>3. /\ SubSeq(tx, m, n) \in Seq(Byte)
        /\ Len(SubSeq(tx, m, n)) = n - m + 1
        /\ \A i \in 1..(n - m + 1) : SubSeq(tx, m, n)[i] = tx[m + i - 1]
    BY <2>1, SubSeqProperties
  <2>4. ASSUME NEW i \in 1..(n - m + 1)
        PROVE  SubSeq(slice, m, n)[i] = SubSeq(tx, m, n)[i]
    <3>1. m + i - 1 \in m..n
      BY <2>1
    <3> QED
      BY <2>1, <2>2, <2>3, <3>1
  <2> QED
    BY <2>2, <2>3, <2>4, SeqEqual
<1>6. SubSeq(slice, 1, 4) = SubSeq(tx, 1, 4) /\ SubSeq(slice, 5, 8) = SubSeq(tx, 5, 8)
  BY <1>5
<1> QED
  BY <1>1, <1>2, <1>6 DEF slice, CheckHeader, HeaderId

\* CheckTx finds in the map what FinalizeBlock will find there.
LEMMA CheckKeepsInv ==
  ASSUME RelayInv,
         \/ \E tx \in Txs, rest \in Behind : CheckTx(tx, rest) \/ CheckPanics(tx, rest)
         \/ Recover \/ AppAccepts \/ AppRejects
  PROVE  RelayInv'
<1> USE DEF CheckTx, CheckPanics, Recover, AppAccepts, AppRejects, CheckReturns,
            startVars, queryVars
<1>1. MapIsRight'
  BY MapUntouched DEF RelayInv
<1>2. StagesInOrder'
  BY DEF RelayInv, StagesInOrder
<1>3. CallsAreRight'
  <2>1. ASSUME NEW tx \in Txs, NEW rest \in Behind, CheckTx(tx, rest)
        PROVE  HasHandler(DOMAIN clients, tx) /\ target' = HeaderId(tx)
    BY <2>1, SliceIsHeader, TxsAreBytes DEF Handled, HasHandler
  <2> QED
    BY <2>1 DEF RelayInv, CallsAreRight, HandlersFor
<1>4. /\ pool' \subseteq [tx : Txs, app : DOMAIN clients', body : Seq(Byte)]
      /\ MempoolFitsBlocks'
  <2>1. CASE pool' = pool
    BY <2>1 DEF RelayInv, MempoolFitsBlocks
  <2>2. CASE AppAccepts
    <3>1. /\ sent \in Txs /\ HasHandler(DOMAIN clients, sent)
          /\ target = HeaderId(sent) /\ request = Strip(sent)
      BY <2>2 DEF RelayInv, CallsAreRight
    <3>2. Strip(sent) \in Seq(Byte) /\ CreateMegablocksHeader(target) \o request = sent
      BY <3>1, HeaderAndStrip, TxsAreBytes DEF HasHandler
    <3>3. target \in DOMAIN clients
      BY <3>1 DEF HasHandler
    <3>4. pool' = pool \cup {[tx |-> sent, app |-> target, body |-> request]}
      BY <2>2
    <3>5. clients' = clients
      BY <2>2
    <3>6. ASSUME NEW p \in pool'
          PROVE  /\ HasHandler(DOMAIN clients, p.tx)
                 /\ CreateMegablocksHeader(p.app) \o p.body = p.tx
      <4>1. CASE p \in pool
        BY <4>1 DEF RelayInv, MempoolFitsBlocks
      <4>2. CASE p = [tx |-> sent, app |-> target, body |-> request]
        <5>1. p.tx = sent /\ p.app = target /\ p.body = request
          BY <4>2
        <5> QED
          BY <5>1, <3>1, <3>2
      <4> HIDE DEF AppAccepts
      <4> QED
        BY <3>4, <4>1, <4>2
    <3>7. /\ request \in Seq(Byte)
          /\ pool \subseteq [tx : Txs, app : DOMAIN clients, body : Seq(Byte)]
      BY <3>1, <3>2 DEF RelayInv
    <3> HIDE DEF AppAccepts
    <3>8. pool' \subseteq [tx : Txs, app : DOMAIN clients, body : Seq(Byte)]
      BY <3>1, <3>3, <3>4, <3>7
    <3>9. MempoolFitsBlocks'
      BY <3>5, <3>6 DEF MempoolFitsBlocks
    <3> QED
      BY <3>5, <3>8, <3>9
  <2>3. pool' = pool \/ AppAccepts
    OBVIOUS
  <2> QED
    BY <2>1, <2>2, <2>3
<1> QED
  BY <1>1, <1>2, <1>3, <1>4 DEF RelayInv

LEMMA QueryKeepsInv ==
  ASSUME RelayInv, QueryReturns \/ \E c \in Chains : Query(c)
  PROVE  RelayInv'
<1> USE DEF Query, QueryReturns, startVars, checkVars
<1>1. MapIsRight'
  BY MapUntouched DEF RelayInv
<1>2. StagesInOrder'
  BY DEF RelayInv, StagesInOrder
<1>3. CallsAreRight'
  BY DEF RelayInv, CallsAreRight, HandlersFor
<1> QED
  BY <1>1, <1>2, <1>3 DEF RelayInv, MempoolFitsBlocks

LEMMA IdleKeepsInv ==
  ASSUME RelayInv, UNCHANGED relayVars
  PROVE  RelayInv'
BY DEF RelayInv, MapIsRight, StagesInOrder, CallsAreRight, MempoolFitsBlocks,
       HandlersFor, relayVars, startVars, checkVars, queryVars

\* The inductive invariant: the map is what the configuration says, and a call under
\* way and the mempool agree with it.
THEOREM RelayInvariance == RelaySpec => []RelayInv
<1>1. RelayInit => RelayInv
  BY RelayInvInit
<1>2. RelayInv /\ [RelayNext]_relayVars => RelayInv'
  <2> SUFFICES ASSUME RelayInv, [RelayNext]_relayVars
               PROVE  RelayInv'
    OBVIOUS
  <2>0. CASE ConfigureCometMultiplexer
    BY <2>0, ConfigureKeepsInv
  <2>1. CASE AddApplication
    BY <2>1, AddKeepsMap
  <2>2. CASE \/ ConfigureFails \/ AddFails \/ AllRegistered \/ ConnectFails
             \/ Serve \/ NodeFails
             \/ \E id \in DOMAIN clients : Connect(id)
    BY <2>2, StartKeepsInv
  <2>3. CASE \/ \E tx \in Txs, rest \in Behind : CheckTx(tx, rest) \/ CheckPanics(tx, rest)
             \/ Recover \/ AppAccepts \/ AppRejects
    BY <2>3, CheckKeepsInv
  <2>4. CASE QueryReturns \/ \E c \in Chains : Query(c)
    BY <2>4, QueryKeepsInv
  <2>5. CASE UNCHANGED relayVars
    BY <2>5, IdleKeepsInv
  <2> QED
    BY <2>0, <2>1, <2>2, <2>3, <2>4, <2>5 DEF RelayNext, CheckRefused, QueryRefused, Exited
<1> QED
  BY <1>1, <1>2, PTL DEF RelaySpec

\* A transaction that CheckTx lets through is long enough to have a header of its own,
\* because the second slice panics otherwise; the first one is then that header,
\* whatever lies behind the transaction.
THEOREM MempoolFitsBlocksHolds == RelaySpec => []MempoolFitsBlocks
<1>1. RelayInv => MempoolFitsBlocks
  BY DEF RelayInv
<1> QED
  BY <1>1, RelayInvariance, PTL

\* The search by chain id and the look-up by header lead to the same app, because the
\* registration refuses an identifier that is taken.
THEOREM QueriesMeetTheirChainHolds == RelaySpec => []QueriesMeetTheirChain
<1>1. RelayInv => QueriesMeetTheirChain
  <2> SUFFICES ASSUME RelayInv
               PROVE  QueriesMeetTheirChain
    OBVIOUS
  <2>1. \A id \in DOMAIN clients : id = IdOf[clients[id].chain]
    BY EntriesAreApps DEF RelayInv
  <2>2. query = "forwarded" => asked = IdOf[chain]
    BY <2>1 DEF RelayInv, CallsAreRight, HandlersFor
  <2>3. ASSUME stage = "serving", NEW i \in 1..Len(config)
        PROVE  HandlersFor(config[i].chain) = {IdOf[config[i].chain]}
    <3>1. i \in 1..registered
      BY <2>3 DEF RelayInv, StagesInOrder
    <3>2. /\ IdOf[config[i].chain] \in DOMAIN clients
          /\ clients[IdOf[config[i].chain]] = HandlerOf(config[i])
      BY <3>1 DEF RelayInv, MapIsRight
    <3>3. HandlerOf(config[i]).chain = config[i].chain
      BY DEF HandlerOf
    <3> QED
      BY <2>1, <3>2, <3>3 DEF HandlersFor
  <2> QED
    BY <2>2, <2>3 DEF QueriesMeetTheirChain
<1> QED
  BY <1>1, RelayInvariance, PTL

\* Whatever the defaults are and however the file orders its apps, those it describes
\* in full are registered with their own genesis.
THEOREM ListedAppsGetTheirGenesisHolds == RelaySpec => []ListedAppsGetTheirGenesis
<1>1. RelayInv => ListedAppsGetTheirGenesis
  <2> SUFFICES ASSUME RelayInv, stage = "serving",
                      NEW i \in 1..Len(file), Fields \subseteq DOMAIN file[i]
               PROVE  /\ IdOf[file[i].chain] \in DOMAIN clients
                      /\ clients[IdOf[file[i].chain]] = HandlerOf(file[i])
    BY DEF ListedAppsGetTheirGenesis
  <2>1. /\ config = Decode(file) /\ registered = Len(config) /\ file \in Files
    BY DEF RelayInv, StagesInOrder
  <2>2. i \in 1..registered /\ config[i] = Decoded(file, i)
    BY <2>1, DecodedIsAList
  <2>3. ~(i > Len(file))
    BY <2>1, FilesAreLists
  <2>4. \A k \in Fields : config[i][k] = file[i][k]
    BY <2>2, <2>3 DEF Decoded
  <2>5. /\ config[i].chain = file[i].chain /\ config[i].home = file[i].home
        /\ config[i].address = file[i].address /\ config[i].type = file[i].type
    BY <2>4 DEF Fields
  <2>6. HandlerOf(config[i]) = HandlerOf(file[i])
    BY <2>5 DEF HandlerOf
  <2> QED
    BY <2>2, <2>5, <2>6 DEF RelayInv, MapIsRight
<1> QED
  BY <1>1, RelayInvariance, PTL

\* Calls go out over connections that were made: the process serves only after all
\* of them are.
THEOREM CallsAreConnectedHolds == RelaySpec => []CallsAreConnected
<1>1. RelayInv => CallsAreConnected
  BY DEF RelayInv, StagesInOrder, CallsAreRight, CallsAreConnected, HandlersFor, HasHandler
<1> QED
  BY <1>1, RelayInvariance, PTL

\* Type correctness.
THEOREM RelayTypeCorrect == RelaySpec => []RelayTypeOK
<1>1. RelayInv => RelayTypeOK
  <2> SUFFICES ASSUME RelayInv
               PROVE  RelayTypeOK
    OBVIOUS
  <2>1. \A i \in 1..registered : config[i].chain \in Chains
    <3>1. config \in [1..Len(config) -> MegaBlockApp] /\ Len(config) \in Nat
      BY LenProperties DEF RelayInv, MapIsRight
    <3> QED
      BY <3>1 DEF RelayInv, MapIsRight, MegaBlockApp
  <2>2. /\ DOMAIN clients \subseteq ChainAppIdentifier
        /\ \A id \in DOMAIN clients : clients[id].chain \in Chains
    BY <2>1, IdsAreIdentifiers, EntriesAreApps DEF RelayInv
  <2>3. pool \subseteq [tx : Txs, app : ChainAppIdentifier, body : Seq(Byte)]
    BY <2>2 DEF RelayInv
  <2> QED
    BY <2>2, <2>3 DEF RelayInv, MapIsRight, StagesInOrder, CallsAreRight, RelayTypeOK
<1> QED
  BY <1>1, RelayInvariance, PTL
=============================================================================
