-------------------------- MODULE InterestRegistry --------------------------
(***************************************************************************)
(* The relay's record of what its downstream clients want                  *)
(* (tqsdk-relay/src/interest.rs): the quotes and charts of each client and *)
(* the indexes the engine reads them through.  An index is a function from *)
(* the keys it holds to non-empty sets; every operation is an operator     *)
(* from one registry to the next, applied under the engine's lock.         *)
(***************************************************************************)
EXTENDS Naturals, FiniteSets, FiniteSetsExt

CONSTANTS Clients, ChartIds, Symbols,
          Sources        \* records [symbols, kline, width]: what a chart shows

NoIndex == [key \in {} |-> {}]

EmptyRegistry ==
    [quotes       |-> NoIndex,   \* client_quotes: client -> symbols
     charts       |-> NoIndex,   \* chart_mappings: <<client, chart>> -> source
     quoteClients |-> NoIndex,   \* quote_clients_by_symbol
     symbolSources |-> NoIndex,  \* sources_by_symbol
     sourceClients |-> NoIndex,  \* chart_clients_by_source
     clientCharts |-> NoIndex]   \* chart_ids_by_client_source

Drop(f, keys)   == [k \in DOMAIN f \ keys |-> f[k]]
Put(f, key, v)  == [k \in DOMAIN f \cup {key} |-> IF k = key THEN v ELSE f[k]]
At(index, key)  == IF key \in DOMAIN index THEN index[key] ELSE {}

(* The value enters the set of each key.                                   *)
AddToAll(index, keys, value) ==
    [k \in DOMAIN index \cup keys |->
        IF k \in keys THEN At(index, k) \cup {value} ELSE index[k]]
AddTo(index, key, value) == AddToAll(index, {key}, value)

(* remove_from_index_set, for each key: one whose set becomes empty is     *)
(* removed.                                                                *)
RemoveFromAll(index, keys, value) ==
    [k \in {j \in DOMAIN index : j \in keys => index[j] \ {value} # {}} |->
        IF k \in keys THEN index[k] \ {value} ELSE index[k]]
RemoveFrom(index, key, value) == RemoveFromAll(index, {key}, value)

-----------------------------------------------------------------------------
SetQuotes(reg, c, symbols) ==
    [reg EXCEPT
        !.quotes = Put(@, c, symbols),
        !.quoteClients = AddToAll(RemoveFromAll(@, At(reg.quotes, c), c), symbols, c)]

AddChartIndex(reg, c, id, source) ==
    [reg EXCEPT !.sourceClients = AddTo(@, source, c),
                !.clientCharts = AddTo(@, <<c, source>>, id),
                !.symbolSources = AddToAll(@, source.symbols, source)]

(* Mutant: the source leaves its symbols with any of its clients, although *)
(* another one still shows it.                                             *)
RemoveChartIndexEagerly(reg, c, id, source) ==
    LET ids     == RemoveFrom(reg.clientCharts, <<c, source>>, id)
        clients == IF <<c, source>> \in DOMAIN ids THEN reg.sourceClients
                   ELSE RemoveFrom(reg.sourceClients, source, c)
    IN  [reg EXCEPT
            !.clientCharts = ids,
            !.sourceClients = clients,
            !.symbolSources = RemoveFromAll(@, source.symbols, source)]

(* The client leaves the source with its last chart of it, the source      *)
(* leaves its symbols with its last client.                                *)
RemoveChartIndex(reg, c, id, source) ==
    LET ids     == RemoveFrom(reg.clientCharts, <<c, source>>, id)
        clients == IF <<c, source>> \in DOMAIN ids THEN reg.sourceClients
                   ELSE RemoveFrom(reg.sourceClients, source, c)
    IN  [reg EXCEPT
            !.clientCharts = ids,
            !.sourceClients = clients,
            !.symbolSources = IF source \in DOMAIN clients THEN @
                              ELSE RemoveFromAll(@, source.symbols, source)]

RemoveChart(reg, c, id) ==
    IF <<c, id>> \notin DOMAIN reg.charts THEN reg
    ELSE RemoveChartIndex([reg EXCEPT !.charts = Drop(@, {<<c, id>>})],
                          c, id, reg.charts[<<c, id>>])

(* A chart id that is set again moves to its new source.                   *)
SetChart(reg, c, id, source) ==
    LET added == AddChartIndex(RemoveChart(reg, c, id), c, id, source)
    IN  [added EXCEPT !.charts = Put(@, <<c, id>>, source)]

RemoveClient(reg, c) ==
    FoldSet(LAMBDA id, acc : RemoveChart(acc, c, id),
            [reg EXCEPT !.quotes = Drop(@, {c}),
                        !.quoteClients = RemoveFromAll(@, At(reg.quotes, c), c)],
            {id \in ChartIds : <<c, id>> \in DOMAIN reg.charts})

-----------------------------------------------------------------------------
(* chart_symbols and subscribed_symbols read the mappings, sources the     *)
(* index.                                                                  *)
ChartSymbols(reg) == UNION {reg.charts[key].symbols : key \in DOMAIN reg.charts}
QuotedSymbols(reg) == UNION {reg.quotes[c] : c \in DOMAIN reg.quotes}

(* The clients with a tick chart of the symbol (tick_chart_frames).        *)
TickClients(reg, symbol) ==
    UNION {At(reg.sourceClients, source) :
              source \in {s \in At(reg.symbolSources, symbol) : ~ s.kline}}

(* Every index says what the mappings say: no client is left in an index   *)
(* it has left, none is missing from one it needs.                         *)
IndexesAgree(reg) ==
    LET keys(symbol) == {c \in DOMAIN reg.quotes : symbol \in reg.quotes[c]}
        shown        == {reg.charts[key] : key \in DOMAIN reg.charts}
        ids(c, src)  == {id \in ChartIds : <<c, id>> \in DOMAIN reg.charts
                                           /\ reg.charts[<<c, id>>] = src}
    IN  /\ \A s \in Symbols : At(reg.quoteClients, s) = keys(s)
        /\ \A s \in Symbols : At(reg.symbolSources, s) = {src \in shown : s \in src.symbols}
        /\ \A src \in Sources : At(reg.sourceClients, src) = {c \in Clients : ids(c, src) # {}}
        /\ \A c \in Clients, src \in Sources : At(reg.clientCharts, <<c, src>>) = ids(c, src)
        /\ DOMAIN reg.sourceClients = shown
=============================================================================
