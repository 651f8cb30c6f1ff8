----------------------------- MODULE AssetSettings -----------------------------
(***************************************************************************)
(* The settings of a portfolio's assets, scanner/portfolio_asset_tracking  *)
(* .go and the handlers that use them: a row for each asset in             *)
(* portfolio_asset_tracking_settings, one for each contract in             *)
(* portfolio_asset_tracking_networks, and the portfolio's own switch.      *)
(*                                                                         *)
(* An asset is all the contracts of a symbol.  Its key comes from          *)
(* tokens_metadata or from the symbol in token_prices, which the price     *)
(* daemons and the goroutines of new stubs write (PriceRefresh): the key   *)
(* of a holding may change, and every holding whose symbol is not known is *)
(* the asset UNKNOWN.                                                      *)
(*                                                                         *)
(* One portfolio.  Thresholds are those of the profile, which every        *)
(* statement writes together with it.                                      *)
(***************************************************************************)
EXTENDS PriceRefresh, Functions

CONSTANTS
  SymbolOf,     \* the symbol of each contract
  Described,    \* contracts whose symbol tokens_metadata has
  Holdings,     \* the contracts in the portfolio when the process starts
  Changes,      \* what requests may change: partial functions on settings
  Requests,     \* the requests there may be
  AskedKeys, AskedRows,  \* bound: the assets and contracts they are about
  Unknown       \* the symbol of a stub

ASSUME SettingsAssumption ==
  /\ Described \subseteq Rows /\ Holdings \subseteq ToSet(Stored)
  /\ Requests \subseteq Nat /\ AskedRows \subseteq Rows
  /\ AskedKeys \subseteq {SymbolOf[r] : r \in Rows} \union {Unknown}
  /\ Unknown \notin {SymbolOf[r] : r \in Rows}

VARIABLES
  held,      \* contracts of the portfolio (tokens)
  on,        \* portfolios.onchain_alerts_enabled
  settings,  \* asset key -> enabled, daily_report_enabled, profile
  networks,  \* contract -> enabled
  reqs,      \* the requests
  chosen,    \* history: what requests have changed of each asset
  clean      \* history: assets no two requests have changed at a time

tables == <<held, on, settings, networks>>
vars   == <<prices, tables, reqs, chosen, clean>>

(* What is new goes before what is old, field by field or row by row. *)
Over(new, old) ==
  [x \in DOMAIN new \union DOMAIN old |-> IF x \in DOMAIN new THEN new[x] ELSE old[x]]

Put(key, row, rows) == Over([x \in {key} |-> row], rows)

Default == [enabled |-> TRUE, daily |-> FALSE, profile |-> "balanced"]
Keys    == {SymbolOf[r] : r \in Rows} \union {Unknown}

(* portfolioAssetKeyExprSQL. *)
KeyOf(r) == IF r \in Described \union symbols THEN SymbolOf[r] ELSE Unknown
HeldKeys == {KeyOf(r) : r \in held}

(* A request; its key, change and what it has read matter to an upsert.  *)
At(pc) == [pc |-> pc, key |-> Unknown, change |-> <<>>, read |-> Default]

Init ==
  /\ PricesInit
  /\ held = Holdings /\ on = TRUE
  /\ settings = <<>> /\ networks = <<>>
  /\ reqs = [q \in Requests |-> At("none")]
  /\ chosen = [k \in Keys |-> <<>>] /\ clean = Keys

-----------------------------------------------------------------------------
(* Requests come in the order of their numbers. *)
Comes(q) == /\ reqs[q].pc = "none"
            /\ \A p \in Requests : p < q => reqs[p].pc # "none"

Goto(q, pc) == reqs' = [reqs EXCEPT ![q] = At(pc)]

(* Upserts of the asset that are under way. *)
Upserting(k) == {q \in Requests : reqs[q].pc \in {"has", "read", "write"} /\ reqs[q].key = k}

BeginUpsert(q) ==
  /\ Comes(q)
  /\ \E k \in AskedKeys, change \in Changes :
       /\ reqs' = [reqs EXCEPT ![q] = [At("has") EXCEPT !.key = k, !.change = change]]
       /\ clean' = IF Upserting(k) = {} THEN clean ELSE clean \ {k}
  /\ UNCHANGED <<prices, tables, chosen>>

(* HandleUpsertPortfolioAssetTracking: portfolioHasAsset. *)
Has(q) ==
  /\ reqs[q].pc = "has"
  /\ IF reqs[q].key \in HeldKeys
     THEN reqs' = [reqs EXCEPT ![q].pc = "read"]
     ELSE Goto(q, "done")
  /\ UNCHANGED <<prices, tables, chosen, clean>>

ReadSettings(q) ==
  /\ reqs[q].pc = "read"
  /\ LET k == reqs[q].key
         row == IF k \in DOMAIN settings THEN settings[k] ELSE Default
     IN  reqs' = [reqs EXCEPT ![q].pc = "write", ![q].read = row]
  /\ UNCHANGED <<prices, tables, chosen, clean>>

(* Wrong: what the request leaves out is written with its default. *)
CompletedByDefault(q) == Over(reqs[q].change, Default)

(* What is written: the request, completed by what was read. *)
Completed(q) == Over(reqs[q].change, reqs[q].read)

Write(q) ==
  LET k == reqs[q].key
  IN  /\ reqs[q].pc = "write"
      /\ settings' = Put(k, Completed(q), settings)
      /\ chosen' = [chosen EXCEPT ![k] = Over(reqs[q].change, @)]
      /\ UNCHANGED <<held, on, networks>>

WriteSettings(q) ==
  /\ Write(q)
  /\ Goto(q, "ensure")
  /\ UNCHANGED <<prices, clean>>

(* EnsurePortfolioAssetTrackingDefaults: ON DUPLICATE KEY keeps what there *)
(* is, in both statements.                                                 *)
WithDefaults == Over(settings, [k \in HeldKeys |-> Default])

(* Wrong: a contract is followed only when a request says so. *)
NetworksOff == Over(networks, [r \in held |-> FALSE])

NetworksWithDefaults == Over(networks, [r \in held |-> TRUE])

EnsureSettings(q) ==
  /\ reqs[q].pc = "ensure"
  /\ settings' = WithDefaults
  /\ Goto(q, "networks")
  /\ UNCHANGED <<prices, held, on, networks, chosen, clean>>

EnsureNetworks(q) ==
  /\ reqs[q].pc = "networks"
  /\ networks' = NetworksWithDefaults
  /\ Goto(q, "done")
  /\ UNCHANGED <<prices, held, on, settings, chosen, clean>>

(* HandleUpsertPortfolioAssetNetworkTracking asks for no holding. *)
SetNetwork(q) ==
  /\ Comes(q)
  /\ \E r \in AskedRows, enabled \in BOOLEAN : networks' = Put(r, enabled, networks)
  /\ Goto(q, "done")
  /\ UNCHANGED <<prices, held, on, settings, chosen, clean>>

(* HandleTogglePortfolioAnomalyAlerts. *)
Toggle(q) ==
  /\ Comes(q)
  /\ \E enabled \in BOOLEAN : on' = enabled /\ Goto(q, IF enabled THEN "ensure" ELSE "done")
  /\ UNCHANGED <<prices, held, settings, networks, chosen, clean>>

(* A statement fails and ends the request, or its reply is lost. *)
StatementFails(q) ==
  /\ reqs[q].pc \in {"has", "read", "write", "ensure", "networks"}
  /\ Fault
  /\ Goto(q, "done")
  /\ \/ UNCHANGED <<tables, chosen, clean>>
     \/ Write(q) /\ UNCHANGED clean
  /\ UNCHANGED <<table, fresh, symbols, resolving, todo, stubs>>

-----------------------------------------------------------------------------
(* A new contract comes into the portfolio with its stub, and leaves it    *)
(* with it; one that is sold leaves, too.                                  *)
AddHolding(r) ==
  /\ NewStub(r)
  /\ held' = held \union {r}
  /\ UNCHANGED <<on, settings, networks, reqs, chosen, clean>>

RollBackHolding(r) ==
  /\ RolledBack(r)
  /\ held' = held \ {r}
  /\ UNCHANGED <<on, settings, networks, reqs, chosen, clean>>

Sell(q) ==
  /\ Comes(q)
  /\ Goto(q, "done")
  /\ \E r \in held \intersect AskedRows : held' = held \ {r}
  /\ UNCHANGED <<prices, on, settings, networks, chosen, clean>>

(* The process restarts: requests get no answer. *)
Restart ==
  /\ PricesRestart
  /\ reqs' = [q \in Requests |-> At(IF reqs[q].pc = "none" THEN "none" ELSE "done")]
  /\ UNCHANGED <<tables, chosen, clean>>

Request(q) ==
  \/ BeginUpsert(q) \/ Has(q) \/ ReadSettings(q) \/ WriteSettings(q)
  \/ EnsureSettings(q) \/ EnsureNetworks(q)
  \/ SetNetwork(q) \/ Toggle(q) \/ StatementFails(q) \/ Sell(q)

Next ==
  \/ \E q \in Requests : Request(q)
  \/ \E r \in Rows : AddHolding(r) \/ RollBackHolding(r)
  \/ PricesNext /\ UNCHANGED <<tables, reqs, chosen, clean>>
  \/ Restart

Spec == Init /\ [][Next]_vars /\ PricesFairness

-----------------------------------------------------------------------------
(* Who reads the settings. *)

OrDefault(k) == IF k \in DOMAIN settings THEN settings[k] ELSE Default
NetworkOn(r) == r \in DOMAIN networks => networks[r]

(* Wrong: the networks are not joined. *)
SubscribedAnyNetwork(r) == r \in held /\ on /\ OrDefault(KeyOf(r)).enabled

(* DB_LoadPortfolioTokenSubscriptions: the alert loop finds the portfolio, *)
(* with these settings, by a transfer of the token.                        *)
Subscribed(r) == r \in held /\ on /\ OrDefault(KeyOf(r)).enabled /\ NetworkOn(r)

DailyReport(r) ==
  Subscribed(r) /\ KeyOf(r) \in DOMAIN settings /\ settings[KeyOf(r)].daily

(* HandleGetPortfolioAssets: one entry for an asset, its switches those of *)
(* the first of its contracts.                                             *)
Shown(k) ==
  LET rows == {r \in held : KeyOf(r) = k}
      first == CHOOSE r \in rows : TRUE
      tracked == on /\ OrDefault(KeyOf(first)).enabled
  IN  [tracked |-> {r \in rows : tracked /\ NetworkOn(r)},
       daily |-> OrDefault(KeyOf(first)).daily]
-----------------------------------------------------------------------------
SettingsType == [enabled : BOOLEAN, daily : BOOLEAN, profile : {"quiet", "balanced", "aggressive"}]

(* A change of some fields leaves a row a row. *)
ASSUME ChangesAssumption ==
  \A change \in Changes, row \in SettingsType : Over(change, row) \in SettingsType

RequestType ==
  [pc : {"none", "has", "read", "write", "ensure", "networks", "done"},
   key : Keys, change : Changes \union {<<>>}, read : SettingsType]

TypeOK ==
  /\ PricesTypeOK
  /\ held \subseteq ToSet(table) /\ on \in BOOLEAN
  /\ DOMAIN settings \subseteq Keys /\ Range(settings) \subseteq SettingsType
  /\ DOMAIN networks \subseteq Rows /\ Range(networks) \subseteq BOOLEAN
  /\ reqs \in [Requests -> RequestType]
  /\ \A q \in Requests :
       reqs[q].pc \in {"has", "read", "write"} => reqs[q].change \in Changes

(* What users have chosen of an asset holds, whole, whatever else writes   *)
(* the row: as long as no two requests for it run at a time.  Of two that  *)
(* do, the later write takes the other's change back.                      *)
ChoiceHolds == \A k \in clean : OrDefault(k) = Over(chosen[k], Default)

(* Types; and the list of assets shows just the contracts the alert loop   *)
(* follows, and the reports it writes, whichever of the rows of settings,  *)
(* networks and symbols are there.                                         *)
ReadersAgree ==
  /\ TypeOK
  /\ \A r \in held : /\ Subscribed(r) <=> r \in Shown(KeyOf(r)).tracked
                     /\ Subscribed(r) => (DailyReport(r) <=> Shown(KeyOf(r)).daily)

(* Writing the defaults changes nothing for anybody: a missing row counts  *)
(* as what is written for it, also with keys that have changed and         *)
(* contracts that have come meanwhile.                                     *)
View == [r \in held |-> <<Subscribed(r), DailyReport(r), OrDefault(KeyOf(r))>>]
DefaultsAreImplicit ==
  [][(\E q \in Requests : EnsureSettings(q) \/ EnsureNetworks(q)) => View' = View]_vars
=============================================================================
