----------------------------- MODULE MarketData -----------------------------
(***************************************************************************)
(* Stored prices and features and their catalogue: the two governed        *)
(* imports (MarketDataIngestionService, also behind the history import),   *)
(* the option chains of ingest_options, features derived from a chain, and *)
(* the requests that look a dataset up, fetch what is missing, and load it *)
(* for a backtest up to its manifest.  A source is named by a digest: it   *)
(* is modelled by what the digest is taken of.  What the backtest does     *)
(* next is BacktestRuns.  Exchange, interval and asset class travel with   *)
(* the symbol; a bar stands for its time.                                  *)
(***************************************************************************)
EXTENDS Naturals, FiniteSets, FiniteSetsExt

CONSTANTS
    DatasetIds, Tickers,
    Chains,         \* the ids ingest_options makes of a file's name
    Contents,       \* what an import may bring: sets of bars
    Today,          \* the last bar that is not in the future
    DefaultIds,     \* id of a history import of a symbol, when none is given
    Readers,        \* requests that are served at a time
    HasBrokerKey,   \* is OPENALGO_API_KEY set?
    NoData,
    MaxImports,     \* bound: imports that commit
    MaxManifests    \* bound: manifests written

ASSUME MDAssumption ==
    /\ Chains \subseteq DatasetIds /\ NoData \notin DatasetIds \union Tickers
    /\ DefaultIds \in [Tickers -> SUBSET (DatasetIds \ Chains)]
    /\ Contents \subseteq SUBSET Nat /\ {} \notin Contents /\ Today \in Nat
    /\ HasBrokerKey \in BOOLEAN /\ MaxImports \in Nat /\ MaxManifests \in Nat

VARIABLES
    catalog,    \* data_catalog: an entry for each dataset id that has one
    rows,       \* market_ohlcv, market_features and options_ohlcv
    registry,   \* raw_file_registry: the sources that were ever imported
    reports,    \* data_quality_reports: the sources with a report
    reader,     \* where each request stands and what it holds
    manifests   \* experiment_manifests

dataVars == <<catalog, rows, registry, reports, reader, manifests>>
stores == <<catalog, rows, registry, reports>>

Tables == {"market_ohlcv", "market_features", "options_ohlcv"}

\* The digest is of the dataset's id, the symbol and the rows.
Sources == [table : Tables, dataset : DatasetIds, symbol : Tickers, bars : Contents]
Row(src, b) == [source |-> src, bar |-> b]
RowsOf(src) == {r \in rows : r.source = src}
BarsOf(src) == {r.bar : r \in RowsOf(src)}

Catalogued(d) == d \in DOMAIN catalog

\* updated_at, as a count of imports.
Clock == Max({0} \union {catalog[d].updated : d \in DOMAIN catalog})
Entry(src, count, last) ==
    [source |-> src, count |-> count, end |-> last, updated |-> Clock + 1]
Upsert(d, entry) == [e \in DOMAIN catalog \union {d} |-> IF e = d THEN entry ELSE catalog[e]]

NothingAsked == [at |-> "idle", symbol |-> NoData, dataset |-> NoData, feature |-> NoData,
              source |-> NoData, read |-> {}, lineage |-> NoData]

DataInit ==
    /\ catalog = [d \in {} |-> NoData]
    /\ rows = {} /\ registry = {} /\ reports = {} /\ manifests = {}
    /\ reader = [r \in Readers |-> NothingAsked]

-----------------------------------------------------------------------------
(* Imports: each is one transaction *)

\* A dataset id stays with the table it was first imported to.
Importable(table, d) == Catalogued(d) => catalog[d].source.table = table

\* Mutant of Replaced: the rows of the source that is replaced stay.
MutReplaced(d) == {}

\* The rows of the source the catalogue names so far are deleted.
Replaced(d) == IF Catalogued(d) THEN RowsOf(catalog[d].source) ELSE {}

\* Mutant of Registered: the source that is replaced leaves the registry.
MutRegistered(src) ==
    (registry \ {catalog[d].source : d \in {e \in {src.dataset} : Catalogued(e)}}) \union {src}

Registered(src) == registry \union {src}

\* import_ohlcv asks for two candles at least, import_features for one value.
Enough(table, bars) == Cardinality(bars) >= IF table = "market_ohlcv" THEN 2 ELSE 1

Stores(table, d, s, bars) ==
    LET src == [table |-> table, dataset |-> d, symbol |-> s, bars |-> bars]
    IN /\ Importable(table, d) /\ Enough(table, bars)
       /\ rows' = (rows \ Replaced(d)) \union {Row(src, b) : b \in bars}
       /\ registry' = Registered(src)
       /\ reports' = reports \union {src}
       /\ catalog' = Upsert(d, Entry(src, Cardinality(bars), Max(bars)))

ImportCandles(d, s, bars) ==
    Stores("market_ohlcv", d, s, bars) /\ UNCHANGED <<reader, manifests>>

ImportFeatures(d, s, bars) ==
    Stores("market_features", d, s, bars) /\ UNCHANGED <<reader, manifests>>

\* The key of a chain's row does not hold the source: a later file takes over
\* the rows they share, and the catalogue counts those of every file.
IngestOptions(d, s, bars) ==
    LET src == [table |-> "options_ohlcv", dataset |-> d, symbol |-> s, bars |-> bars]
        ofChain == {r \in rows : r.source.table = src.table
                                 /\ r.source.dataset = d /\ r.source.symbol = s}
        kept == {r \in ofChain : r.bar \notin bars}
        chain == kept \union {Row(src, b) : b \in bars}
    IN /\ d \in Chains
       /\ rows' = (rows \ ofChain) \union chain
       /\ registry' = Registered(src)
       /\ reports' = reports \union {src}
       /\ catalog' = Upsert(d, Entry(src, Cardinality(chain), Max({r.bar : r \in chain})))
       /\ UNCHANGED <<reader, manifests>>

-----------------------------------------------------------------------------
(* derive_options_features: the chain is read in one block, stored in the next *)

DeriveRead(r, d, f) ==
    /\ reader[r].at = "idle"
    /\ Catalogued(d) /\ catalog[d].source.table = "options_ohlcv"
    /\ reader' = [reader EXCEPT ![r] = [NothingAsked EXCEPT
           !.at = "derive", !.dataset = f, !.symbol = catalog[d].source.symbol,
           !.read = BarsOf(catalog[d].source)]]
    /\ UNCHANGED <<stores, manifests>>

DeriveStore(r) ==
    /\ reader[r].at = "derive" /\ Clock < MaxImports
    /\ Stores("market_features", reader[r].dataset, reader[r].symbol, reader[r].read)
    /\ reader' = [reader EXCEPT ![r] = NothingAsked]
    /\ UNCHANGED manifests

-----------------------------------------------------------------------------
(* A request for a backtest, from the symbol or dataset asked for to its manifest *)

\* run_backtest_tool: by dataset, or by symbol; the strategy may need a feature.
AskByDataset(r, d, f) ==
    /\ reader[r].at = "idle"
    /\ reader' = [reader EXCEPT ![r] =
           [NothingAsked EXCEPT !.at = "assess", !.dataset = d, !.feature = f]]
    /\ UNCHANGED <<stores, manifests>>

\* _dataset_for_request without asset class: any table's newest entry.
Newest(s) ==
    LET of == {d \in DOMAIN catalog : catalog[d].source.symbol = s}
    IN {d \in of : \A e \in of : catalog[e].updated <= catalog[d].updated}

AskBySymbol(r, s, f) ==
    /\ reader[r].at = "idle"
    /\ \/ \E d \in Newest(s) : reader' = [reader EXCEPT ![r] = [NothingAsked EXCEPT
              !.at = "assess", !.symbol = s, !.dataset = d, !.feature = f]]
       \/ /\ Newest(s) = {} /\ HasBrokerKey
          /\ reader' = [reader EXCEPT ![r] =
                 [NothingAsked EXCEPT !.at = "fetch", !.symbol = s, !.feature = f]]
    /\ UNCHANGED <<stores, manifests>>

\* import_history under the default id, which holds the day's date.
Fetch(r, d, bars) ==
    /\ reader[r].at = "fetch" /\ d \in DefaultIds[reader[r].symbol] /\ Clock < MaxImports
    /\ Stores("market_ohlcv", d, reader[r].symbol, bars)
    /\ reader' = [reader EXCEPT ![r].at = "assess", ![r].dataset = d]
    /\ UNCHANGED manifests

\* FreshnessService.assess for historical research: any age, not the future.
Assess(r) ==
    LET d == reader[r].dataset
    IN /\ reader[r].at = "assess" /\ Catalogued(d)
       /\ catalog[d].end <= Today
       /\ reader' = [reader EXCEPT ![r].at = "load"]
       /\ UNCHANGED <<stores, manifests>>

\* Mutant of PricesRead: the rows are picked by symbol instead of by source.
MutPricesRead(src) ==
    {b \in UNION Contents : \E t \in rows : t.bar = b /\ t.source.table = src.table
                                            /\ t.source.symbol = src.symbol}

PricesRead(src) == BarsOf(src)

\* load_dataset_candles: entry, registry and rows in one block.
LoadPrices(r) ==
    LET d == reader[r].dataset
    IN /\ reader[r].at = "load" /\ Catalogued(d)
       /\ catalog[d].source \in registry
       /\ catalog[d].source.table # "market_features"
       /\ PricesRead(catalog[d].source) # {}
       /\ reader' = [reader EXCEPT
              ![r].at = IF reader[r].feature = NoData THEN "start" ELSE "attach",
              ![r].source = catalog[d].source,
              ![r].read = PricesRead(catalog[d].source)]
       /\ UNCHANGED <<stores, manifests>>

\* Mutant of SameInstrument: compares with the catalogue's entry of the price
\* dataset as it is now, not with what was loaded.
MutSameInstrument(r, src) ==
    catalog[reader[r].dataset].source.symbol = src.symbol

SameInstrument(r, src) == reader[r].source.symbol = src.symbol

\* _load_feature_observations and the alignment: some value must be known, and
\* not too old, at some candle.
AttachFeatures(r) ==
    LET f == reader[r].feature
    IN /\ reader[r].at = "attach" /\ Catalogued(f)
       /\ catalog[f].source \in registry
       /\ catalog[f].source.table = "market_features"
       /\ SameInstrument(r, catalog[f].source)
       /\ \E b \in BarsOf(catalog[f].source), c \in reader[r].read : b <= c
       /\ reader' = [reader EXCEPT ![r].at = "start", ![r].lineage = catalog[f].source]
       /\ UNCHANGED <<stores, manifests>>

\* _start_run, then _store_experiment_manifest of what was loaded.
WriteManifest(r) ==
    /\ reader[r].at = "start" /\ Cardinality(manifests) < MaxManifests
    /\ manifests' = manifests \union {[dataset |-> reader[r].dataset,
           source |-> reader[r].source, read |-> reader[r].read,
           lineage |-> reader[r].lineage]}
    /\ reader' = [reader EXCEPT ![r] = NothingAsked]
    /\ UNCHANGED stores

\* A block or a check raises: the request is refused.
Refuse(r) ==
    /\ reader[r].at # "idle"
    /\ reader' = [reader EXCEPT ![r] = NothingAsked]
    /\ UNCHANGED <<stores, manifests>>

Import ==
    /\ Clock < MaxImports
    /\ \E d \in DatasetIds, s \in Tickers, bars \in Contents :
           ImportCandles(d, s, bars) \/ ImportFeatures(d, s, bars) \/ IngestOptions(d, s, bars)

Derive ==
    \E r \in Readers :
        (\E d, f \in DatasetIds : DeriveRead(r, d, f)) \/ DeriveStore(r)

Request ==
    \E r \in Readers :
        \/ \E d \in DatasetIds, f \in DatasetIds \union {NoData} : AskByDataset(r, d, f)
        \/ \E s \in Tickers, f \in DatasetIds \union {NoData} : AskBySymbol(r, s, f)
        \/ \E d \in DatasetIds, bars \in Contents : Fetch(r, d, bars)
        \/ Assess(r) \/ LoadPrices(r) \/ AttachFeatures(r) \/ WriteManifest(r) \/ Refuse(r)

DataNext == Import \/ Derive \/ Request

DataSpec == DataInit /\ [][DataNext]_dataVars

-----------------------------------------------------------------------------
(* Properties *)

Places == {"idle", "derive", "fetch", "assess", "load", "attach", "start"}
Requests == [at : Places, symbol : Tickers \union {NoData}, dataset : DatasetIds \union {NoData},
             feature : DatasetIds \union {NoData}, source : Sources \union {NoData},
             read : SUBSET Nat, lineage : Sources \union {NoData}]
Manifests == [dataset : DatasetIds, source : Sources, read : Contents, lineage : Sources \union {NoData}]

\* Every variable has the values the code gives it.
DataTypeOK ==
    /\ DOMAIN catalog \subseteq DatasetIds /\ \A d \in DOMAIN catalog : catalog[d].source \in Sources
    /\ rows \subseteq [source : Sources, bar : UNION Contents]
    /\ registry \subseteq Sources /\ reports \subseteq registry
    /\ reader \in [Readers -> Requests] /\ manifests \subseteq Manifests

\* Imports replace a dataset as a whole: the source the catalogue names is
\* stored completely, registered and reported, whatever was imported to the
\* same id, or to the same chain, before or since; of a dataset that is no
\* chain nothing else is stored.
CatalogueHasItsRows ==
    \A d \in DatasetIds :
        /\ Catalogued(d) =>
               /\ BarsOf(catalog[d].source) = catalog[d].source.bars
               /\ catalog[d].source \in registry \intersect reports
               /\ catalog[d].source.dataset = d
        /\ d \notin Chains =>
               \A r \in rows : r.source.dataset = d =>
                   Catalogued(d) /\ r.source = catalog[d].source

\* The catalogue can be trusted, whatever imports came before.
CatalogueIsWhole == DataTypeOK /\ CatalogueHasItsRows

\* A manifest tells the truth whenever it was written, however the datasets
\* changed while the request was served: the candles that were read are those
\* the digest was taken of, it names a dataset that digest covers, both digests
\* are still registered, and the features are of the instrument of the prices.
ManifestsAreTraceable ==
    \A m \in manifests :
        /\ m.source \in registry /\ m.source.dataset = m.dataset
        /\ m.read = m.source.bars
        /\ m.lineage # NoData =>
               m.lineage \in registry /\ m.lineage.symbol = m.source.symbol

\* docs/ATL_TRANSITION.md:17: every number is reproducible, by the stored run
\* and the frozen dataset hash.  It does not hold: the next import to the same
\* id deletes the rows a manifest names.
ManifestIsReplayable ==
    \A m \in manifests : BarsOf(m.source) = m.read
=============================================================================
