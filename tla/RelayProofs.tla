---------------------------- MODULE RelayProofs ----------------------------
(***************************************************************************)
(* Theorems about Relay for any finite number of clients, charts and       *)
(* symbols, any sources, any mailbox capacity and any number of commands,  *)
(* rows and lost connections.                                              *)
(*                                                                         *)
(* The registry keeps four indexes by hand.  Each is determined by what is *)
(* below it: the quoted symbols by the quotes, the charts of a client and  *)
(* source by the charts, the clients of a source by those, the sources of  *)
(* a symbol by the clients of each.  Said layer by layer, every operation  *)
(* repairs what it disturbs; removing a client or expelling several is a   *)
(* fold over a finite set that keeps all layers.                           *)
(*                                                                         *)
(* That the pump charts what is wanted rests on the order of its steps: it *)
(* takes the signal before it looks.  That no row is lost rests on where a *)
(* row is made: in the step that reads who wants it.                       *)
(***************************************************************************)
EXTENDS Relay, FiniteSums, SequenceTheorems

-----------------------------------------------------------------------------
(* The registry: its types, no empty set in an index, and the indexes in   *)
(* layers, each determined by the one below it.                            *)

Index(keys, values) == UNION {[dom -> values] : dom \in SUBSET keys}

Registries ==
    [quotes        : Index(Clients, SUBSET Symbols),
     charts        : Index(Clients \X ChartIds, Sources),
     quoteClients  : Index(Symbols, SUBSET Clients),
     symbolSources : Index(Symbols, SUBSET Sources),
     sourceClients : Index(Sources, SUBSET Clients),
     clientCharts  : Index(Clients \X Sources, SUBSET ChartIds)]

NoEmptySets(index) == \A k \in DOMAIN index : index[k] # {}

ShownBy(r, c, source) ==
    {id \in ChartIds : <<c, id>> \in DOMAIN r.charts /\ r.charts[<<c, id>>] = source}

QuoteLayer(r) ==
    /\ NoEmptySets(r.quoteClients)
    /\ \A s \in Symbols : At(r.quoteClients, s) = {c \in Clients : s \in At(r.quotes, c)}

ChartLayer(r) ==
    /\ NoEmptySets(r.clientCharts)
    /\ \A c \in Clients, source \in Sources :
          At(r.clientCharts, <<c, source>>) = ShownBy(r, c, source)

ClientLayer(r) ==
    /\ NoEmptySets(r.sourceClients)
    /\ \A source \in Sources :
          At(r.sourceClients, source) = {c \in Clients : At(r.clientCharts, <<c, source>>) # {}}

SymbolLayer(r) ==
    /\ NoEmptySets(r.symbolSources)
    /\ \A s \in Symbols :
          At(r.symbolSources, s) =
             {source \in Sources : s \in source.symbols /\ At(r.sourceClients, source) # {}}

RegistryInv(r) ==
    r \in Registries /\ QuoteLayer(r) /\ ChartLayer(r) /\ ClientLayer(r) /\ SymbolLayer(r)

-----------------------------------------------------------------------------
(* Operators on indexes.                                                   *)

LEMMA IndexMember ==
    ASSUME NEW K, NEW V, NEW f
    PROVE  f \in Index(K, V) <=> /\ f = [k \in DOMAIN f |-> f[k]]
                                 /\ DOMAIN f \subseteq K
                                 /\ \A k \in DOMAIN f : f[k] \in V
<1>1. ASSUME f \in Index(K, V)
      PROVE  /\ f = [k \in DOMAIN f |-> f[k]]
             /\ DOMAIN f \subseteq K
             /\ \A k \in DOMAIN f : f[k] \in V
  <2>1. PICK dom \in SUBSET K : f \in [dom -> V]
    BY <1>1 DEF Index
  <2> QED BY <2>1
<1>2. ASSUME f = [k \in DOMAIN f |-> f[k]], DOMAIN f \subseteq K, \A k \in DOMAIN f : f[k] \in V
      PROVE  f \in Index(K, V)
  <2>1. f \in [DOMAIN f -> V]
    BY <1>2
  <2>2. DOMAIN f \in SUBSET K
    BY <1>2
  <2> QED BY <2>1, <2>2 DEF Index
<1> QED BY <1>1, <1>2

(* What the operators hold for a key, whatever the index.                  *)
LEMMA AddToAllAt ==
    ASSUME NEW f, NEW keys, NEW v
    PROVE  /\ NoEmptySets(f) => NoEmptySets(AddToAll(f, keys, v))
           /\ \A k, x : x \in At(AddToAll(f, keys, v), k) <=> x \in At(f, k) \/ (k \in keys /\ x = v)
  BY DEF AddToAll, At, NoEmptySets

LEMMA RemoveFromAllAt ==
    ASSUME NEW f, NEW keys, NEW v
    PROVE  /\ NoEmptySets(f) => NoEmptySets(RemoveFromAll(f, keys, v))
           /\ \A k, x : x \in At(RemoveFromAll(f, keys, v), k)
                          <=> x \in At(f, k) /\ ~ (k \in keys /\ x = v)
  BY DEF RemoveFromAll, At, NoEmptySets

LEMMA PutAt ==
    ASSUME NEW f, NEW key, NEW v
    PROVE  /\ \A k : k \in DOMAIN Put(f, key, v) <=> k \in DOMAIN f \/ k = key
           /\ \A k \in DOMAIN Put(f, key, v) : Put(f, key, v)[k] = IF k = key THEN v ELSE f[k]
           /\ \A k : At(Put(f, key, v), k) = IF k = key THEN v ELSE At(f, k)
  BY DEF Put, At

LEMMA DropAt ==
    ASSUME NEW f, NEW keys
    PROVE  /\ \A k : k \in DOMAIN Drop(f, keys) <=> k \in DOMAIN f /\ k \notin keys
           /\ \A k \in DOMAIN Drop(f, keys) : Drop(f, keys)[k] = f[k]
           /\ \A k, x : x \in At(Drop(f, keys), k) <=> x \in At(f, k) /\ k \notin keys
  BY DEF Drop, At

(* They keep the types.                                                    *)
LEMMA AddToAllType ==
    ASSUME NEW K, NEW V, NEW f \in Index(K, SUBSET V), NEW keys \in SUBSET K, NEW v \in V
    PROVE  AddToAll(f, keys, v) \in Index(K, SUBSET V)
<1> DEFINE g == AddToAll(f, keys, v)
<1>1. DOMAIN f \subseteq K /\ \A k \in DOMAIN f : f[k] \in SUBSET V
  BY IndexMember
<1>2. DOMAIN g = DOMAIN f \cup keys
  BY DEF AddToAll
<1>3. \A k \in DOMAIN g : g[k] = IF k \in keys THEN At(f, k) \cup {v} ELSE f[k]
  BY DEF AddToAll
<1>4. g = [k \in DOMAIN g |-> g[k]]
  BY DEF AddToAll
<1>5. \A k : At(f, k) \in SUBSET V
  BY <1>1 DEF At
<1>6. \A k \in DOMAIN g : g[k] \in SUBSET V
  BY <1>1, <1>2, <1>3, <1>5
<1> HIDE DEF g
<1>7. g \in Index(K, SUBSET V)
  BY <1>1, <1>2, <1>4, <1>6, IndexMember
<1> QED BY <1>7 DEF g

LEMMA RemoveFromAllType ==
    ASSUME NEW K, NEW V, NEW f \in Index(K, SUBSET V), NEW keys, NEW v
    PROVE  RemoveFromAll(f, keys, v) \in Index(K, SUBSET V)
<1> DEFINE g == RemoveFromAll(f, keys, v)
<1>1. DOMAIN f \subseteq K /\ \A k \in DOMAIN f : f[k] \in SUBSET V
  BY IndexMember
<1>2. DOMAIN g = {j \in DOMAIN f : j \in keys => f[j] \ {v} # {}}
  BY DEF RemoveFromAll
<1>3. \A k \in DOMAIN g : g[k] = IF k \in keys THEN f[k] \ {v} ELSE f[k]
  BY DEF RemoveFromAll
<1>4. g = [k \in DOMAIN g |-> g[k]]
  BY DEF RemoveFromAll
<1> HIDE DEF g
<1>5. \A k \in DOMAIN g : g[k] \in SUBSET V
  BY <1>1, <1>2, <1>3
<1>6. DOMAIN g \subseteq K
  BY <1>1, <1>2
<1>7. g \in Index(K, SUBSET V)
  BY <1>4, <1>5, <1>6, IndexMember
<1> QED BY <1>7 DEF g

LEMMA PutType ==
    ASSUME NEW K, NEW V, NEW f \in Index(K, V), NEW key \in K, NEW v \in V
    PROVE  Put(f, key, v) \in Index(K, V)
<1> DEFINE g == Put(f, key, v)
<1>1. DOMAIN f \subseteq K /\ \A k \in DOMAIN f : f[k] \in V
  BY IndexMember
<1>2. g = [k \in DOMAIN g |-> g[k]]
  BY DEF Put
<1>3. DOMAIN g \subseteq K /\ \A k \in DOMAIN g : g[k] \in V
  BY <1>1, PutAt
<1> HIDE DEF g
<1>4. g \in Index(K, V)
  BY <1>2, <1>3, IndexMember
<1> QED BY <1>4 DEF g

LEMMA DropType ==
    ASSUME NEW K, NEW V, NEW f \in Index(K, V), NEW keys
    PROVE  Drop(f, keys) \in Index(K, V)
<1> DEFINE g == Drop(f, keys)
<1>1. DOMAIN f \subseteq K /\ \A k \in DOMAIN f : f[k] \in V
  BY IndexMember
<1>2. g = [k \in DOMAIN g |-> g[k]]
  BY DEF Drop
<1>3. DOMAIN g \subseteq K /\ \A k \in DOMAIN g : g[k] \in V
  BY <1>1, DropAt
<1> HIDE DEF g
<1>4. g \in Index(K, V)
  BY <1>2, <1>3, IndexMember
<1> QED BY <1>4 DEF g

(* A key is in an index without empty sets exactly when its set is not.    *)
LEMMA KeyOfNonEmpty ==
    ASSUME NEW f, NoEmptySets(f), NEW k
    PROVE  k \in DOMAIN f <=> At(f, k) # {}
  BY DEF At, NoEmptySets

-----------------------------------------------------------------------------
(* Operations on the registry (interest.rs) keep the layers.               *)

LEMMA RegistryFields ==
    ASSUME NEW r \in Registries
    PROVE  /\ r.quotes \in Index(Clients, SUBSET Symbols)
           /\ r.charts \in Index(Clients \X ChartIds, Sources)
           /\ r.quoteClients \in Index(Symbols, SUBSET Clients)
           /\ r.symbolSources \in Index(Symbols, SUBSET Sources)
           /\ r.sourceClients \in Index(Sources, SUBSET Clients)
           /\ r.clientCharts \in Index(Clients \X Sources, SUBSET ChartIds)
  BY DEF Registries

LEMMA EmptyRegistryFacts ==
    RegistryInv(EmptyRegistry)
<1>1. \A K, V : NoIndex \in Index(K, V)
  <2> SUFFICES ASSUME NEW K, NEW V PROVE NoIndex \in Index(K, V)
    OBVIOUS
  <2>1. /\ NoIndex = [k \in DOMAIN NoIndex |-> NoIndex[k]]
        /\ DOMAIN NoIndex = {}
    BY DEF NoIndex
  <2> QED BY <2>1, IndexMember
<1>2. DOMAIN NoIndex = {} /\ NoEmptySets(NoIndex) /\ \A k : At(NoIndex, k) = {}
  BY DEF NoIndex, NoEmptySets, At
<1>3. EmptyRegistry \in Registries
  BY <1>1 DEF EmptyRegistry, Registries
<1>4. QuoteLayer(EmptyRegistry) /\ ChartLayer(EmptyRegistry)
  BY <1>2 DEF EmptyRegistry, QuoteLayer, ChartLayer, ShownBy
<1>5. ClientLayer(EmptyRegistry) /\ SymbolLayer(EmptyRegistry)
  BY <1>2 DEF EmptyRegistry, ClientLayer, SymbolLayer
<1> QED BY <1>3, <1>4, <1>5 DEF RegistryInv

(* The quotes of one client change, its charts and the others' do not.     *)
LEMMA SetQuotesFacts ==
    ASSUME NEW r, RegistryInv(r), NEW c \in Clients, NEW symbols \in SUBSET Symbols
    PROVE  /\ RegistryInv(SetQuotes(r, c, symbols))
           /\ SetQuotes(r, c, symbols).charts = r.charts
           /\ SetQuotes(r, c, symbols).quotes = Put(r.quotes, c, symbols)
<1> DEFINE n == SetQuotes(r, c, symbols)
           left == RemoveFromAll(r.quoteClients, At(r.quotes, c), c)
<1>1. r \in Registries
  BY DEF RegistryInv
<1>2. /\ n = [r EXCEPT !.quotes = Put(r.quotes, c, symbols),
                      !.quoteClients = AddToAll(left, symbols, c)]
  BY DEF SetQuotes
<1>3. /\ left \in Index(Symbols, SUBSET Clients)
      /\ NoEmptySets(left)
      /\ \A k, x : x \in At(left, k)
                      <=> x \in At(r.quoteClients, k) /\ ~ (k \in At(r.quotes, c) /\ x = c)
  <2>1. r.quoteClients \in Index(Symbols, SUBSET Clients)
    BY <1>1, RegistryFields
  <2>2. NoEmptySets(r.quoteClients)
    BY DEF RegistryInv, QuoteLayer
  <2>3. left \in Index(Symbols, SUBSET Clients)
    BY <2>1, RemoveFromAllType, Zenon
  <2> QED BY <2>2, <2>3, RemoveFromAllAt
<1> HIDE DEF left, n
<1>4. /\ AddToAll(left, symbols, c) \in Index(Symbols, SUBSET Clients)
      /\ NoEmptySets(AddToAll(left, symbols, c))
      /\ \A k, x : x \in At(AddToAll(left, symbols, c), k)
                      <=> x \in At(left, k) \/ (k \in symbols /\ x = c)
  <2>1. AddToAll(left, symbols, c) \in Index(Symbols, SUBSET Clients)
    BY <1>3, AddToAllType, Zenon
  <2> QED BY <1>3, <2>1, AddToAllAt
<1>5. /\ Put(r.quotes, c, symbols) \in Index(Clients, SUBSET Symbols)
      /\ \A d : At(Put(r.quotes, c, symbols), d) = IF d = c THEN symbols ELSE At(r.quotes, d)
  <2>1. r.quotes \in Index(Clients, SUBSET Symbols)
    BY <1>1, RegistryFields
  <2>2. Put(r.quotes, c, symbols) \in Index(Clients, SUBSET Symbols)
    BY <2>1, PutType, Zenon
  <2> QED BY <2>2, PutAt
<1>6. /\ n \in Registries
      /\ n.quotes = Put(r.quotes, c, symbols)
      /\ n.quoteClients = AddToAll(left, symbols, c)
      /\ n.charts = r.charts /\ n.symbolSources = r.symbolSources
      /\ n.sourceClients = r.sourceClients /\ n.clientCharts = r.clientCharts
  BY <1>1, <1>2, <1>4, <1>5 DEF Registries
<1>7. QuoteLayer(n)
  <2>1. ASSUME NEW s \in Symbols, NEW d
        PROVE  d \in At(n.quoteClients, s) <=> d \in Clients /\ s \in At(n.quotes, d)
    <3>1. d \in At(r.quoteClients, s) <=> d \in Clients /\ s \in At(r.quotes, d)
      BY DEF RegistryInv, QuoteLayer
    <3>2. d \in At(n.quoteClients, s) <=> d \in At(left, s) \/ (s \in symbols /\ d = c)
      BY <1>4, <1>6
    <3>3. d \in At(left, s) <=> d \in At(r.quoteClients, s) /\ ~ (s \in At(r.quotes, c) /\ d = c)
      BY <1>3
    <3>4. At(n.quotes, d) = IF d = c THEN symbols ELSE At(r.quotes, d)
      BY <1>5, <1>6
    <3> QED BY <3>1, <3>2, <3>3, <3>4
  <2> QED BY <1>4, <1>6, <2>1 DEF QuoteLayer
<1>8. ChartLayer(n) /\ ClientLayer(n) /\ SymbolLayer(n)
  BY <1>6 DEF RegistryInv, ChartLayer, ClientLayer, SymbolLayer, ShownBy
<1> QED BY <1>6, <1>7, <1>8 DEF RegistryInv, n

(* A chart leaves the mappings and, with the last chart of its source, the *)
(* client leaves the source and the source its symbols.                    *)
LEMMA RemoveChartFacts ==
    ASSUME NEW r, RegistryInv(r), NEW c \in Clients, NEW id \in ChartIds
    PROVE  /\ RegistryInv(RemoveChart(r, c, id))
           /\ RemoveChart(r, c, id).quotes = r.quotes
           /\ RemoveChart(r, c, id).charts = Drop(r.charts, {<<c, id>>})
<1> DEFINE n == RemoveChart(r, c, id)
<1>1. r \in Registries
  BY DEF RegistryInv
<1>2. r.charts = [k \in DOMAIN r.charts |-> r.charts[k]]
  BY <1>1, RegistryFields, IndexMember
<1>3. CASE <<c, id>> \notin DOMAIN r.charts
  <2>1. n = r
    BY <1>3 DEF RemoveChart
  <2>2. Drop(r.charts, {<<c, id>>}) = r.charts
    <3>1. DOMAIN r.charts \ {<<c, id>>} = DOMAIN r.charts
      BY <1>3
    <3> QED BY <1>2, <3>1 DEF Drop
  <2> QED BY <2>1, <2>2
<1>4. CASE <<c, id>> \in DOMAIN r.charts
  <2> DEFINE source == r.charts[<<c, id>>]
             charts == Drop(r.charts, {<<c, id>>})
             ids == RemoveFrom(r.clientCharts, <<c, source>>, id)
             clients == IF <<c, source>> \in DOMAIN ids THEN r.sourceClients
                        ELSE RemoveFrom(r.sourceClients, source, c)
             symbols == IF source \in DOMAIN clients THEN r.symbolSources
                        ELSE RemoveFromAll(r.symbolSources, source.symbols, source)
  <2>1. source \in Sources
    BY <1>1, <1>4, RegistryFields, IndexMember
  <2>2. n = [r EXCEPT !.charts = charts, !.clientCharts = ids, !.sourceClients = clients,
                      !.symbolSources = symbols]
    BY <1>1, <1>4 DEF RemoveChart, RemoveChartIndex, Registries
  <2>3. /\ charts \in Index(Clients \X ChartIds, Sources)
        /\ \A k : k \in DOMAIN charts <=> k \in DOMAIN r.charts /\ k # <<c, id>>
        /\ \A k \in DOMAIN charts : charts[k] = r.charts[k]
    <3>1. r.charts \in Index(Clients \X ChartIds, Sources)
      BY <1>1, RegistryFields
    <3>2. charts \in Index(Clients \X ChartIds, Sources)
      BY <3>1, DropType, Zenon
    <3> QED BY <3>2, DropAt
  <2> HIDE DEF source, charts, n
  <2>4. /\ ids \in Index(Clients \X Sources, SUBSET ChartIds)
        /\ NoEmptySets(ids)
        /\ \A k, x : x \in At(ids, k)
                        <=> x \in At(r.clientCharts, k) /\ ~ (k = <<c, source>> /\ x = id)
    <3>1. r.clientCharts \in Index(Clients \X Sources, SUBSET ChartIds)
      BY <1>1, RegistryFields
    <3>2. NoEmptySets(r.clientCharts)
      BY DEF RegistryInv, ChartLayer
    <3>3. ids \in Index(Clients \X Sources, SUBSET ChartIds)
      BY <3>1, RemoveFromAllType, Zenon DEF RemoveFrom
    <3> QED BY <3>2, <3>3, RemoveFromAllAt DEF RemoveFrom
  <2> HIDE DEF ids
  <2>5. /\ clients \in Index(Sources, SUBSET Clients)
        /\ NoEmptySets(clients)
        /\ \A k, x : x \in At(clients, k)
                        <=> /\ x \in At(r.sourceClients, k)
                            /\ ~ (k = source /\ x = c /\ At(ids, <<c, source>>) = {})
    <3> DEFINE fewer == RemoveFrom(r.sourceClients, source, c)
    <3>1. /\ fewer \in Index(Sources, SUBSET Clients)
          /\ NoEmptySets(fewer)
          /\ \A k, x : x \in At(fewer, k)
                          <=> x \in At(r.sourceClients, k) /\ ~ (k = source /\ x = c)
      <4>1. r.sourceClients \in Index(Sources, SUBSET Clients)
        BY <1>1, RegistryFields
      <4>2. NoEmptySets(r.sourceClients)
        BY DEF RegistryInv, ClientLayer
      <4>3. fewer \in Index(Sources, SUBSET Clients)
        BY <4>1, RemoveFromAllType, Zenon DEF RemoveFrom
      <4> QED BY <4>2, <4>3, RemoveFromAllAt DEF RemoveFrom
    <3>2. r.sourceClients \in Index(Sources, SUBSET Clients) /\ NoEmptySets(r.sourceClients)
      BY <1>1, RegistryFields DEF RegistryInv, ClientLayer
    <3>3. <<c, source>> \in DOMAIN ids <=> At(ids, <<c, source>>) # {}
      BY <2>4, KeyOfNonEmpty
    <3> HIDE DEF fewer
    <3>4. clients = IF At(ids, <<c, source>>) # {} THEN r.sourceClients ELSE fewer
      BY <3>3 DEF fewer
    <3> HIDE DEF clients
    <3> QED BY <3>1, <3>2, <3>4
  <2> HIDE DEF clients
  <2>6. /\ symbols \in Index(Symbols, SUBSET Sources)
        /\ NoEmptySets(symbols)
        /\ \A k, x : x \in At(symbols, k)
                        <=> /\ x \in At(r.symbolSources, k)
                            /\ ~ (k \in source.symbols /\ x = source /\ At(clients, source) = {})
    <3> DEFINE fewer == RemoveFromAll(r.symbolSources, source.symbols, source)
    <3>1. /\ fewer \in Index(Symbols, SUBSET Sources)
          /\ NoEmptySets(fewer)
          /\ \A k, x : x \in At(fewer, k)
                          <=> x \in At(r.symbolSources, k) /\ ~ (k \in source.symbols /\ x = source)
      <4>1. r.symbolSources \in Index(Symbols, SUBSET Sources)
        BY <1>1, RegistryFields
      <4>2. NoEmptySets(r.symbolSources)
        BY DEF RegistryInv, SymbolLayer
      <4>3. fewer \in Index(Symbols, SUBSET Sources)
        BY <4>1, RemoveFromAllType, Zenon
      <4> QED BY <4>2, <4>3, RemoveFromAllAt
    <3>2. r.symbolSources \in Index(Symbols, SUBSET Sources) /\ NoEmptySets(r.symbolSources)
      BY <1>1, RegistryFields DEF RegistryInv, SymbolLayer
    <3>3. source \in DOMAIN clients <=> At(clients, source) # {}
      BY <2>5, KeyOfNonEmpty
    <3> HIDE DEF fewer
    <3>4. symbols = IF At(clients, source) # {} THEN r.symbolSources ELSE fewer
      BY <3>3 DEF fewer
    <3> HIDE DEF symbols
    <3> QED BY <3>1, <3>2, <3>4
  <2> HIDE DEF symbols
  <2>7. /\ n \in Registries
        /\ n.quotes = r.quotes /\ n.quoteClients = r.quoteClients
        /\ n.charts = charts /\ n.clientCharts = ids
        /\ n.sourceClients = clients /\ n.symbolSources = symbols
    BY <1>1, <2>2, <2>3, <2>4, <2>5, <2>6 DEF Registries
  <2>8. QuoteLayer(n)
    BY <2>7 DEF RegistryInv, QuoteLayer
  <2>9. ChartLayer(n)
    <3>1. ASSUME NEW d \in Clients, NEW src \in Sources, NEW i
          PROVE  i \in At(ids, <<d, src>>) <=> i \in ShownBy(n, d, src)
      <4>1. At(r.clientCharts, <<d, src>>) = ShownBy(r, d, src)
        BY DEF RegistryInv, ChartLayer
      <4>2. \A x : x \in At(ids, <<d, src>>)
                     <=> x \in At(r.clientCharts, <<d, src>>) /\ ~ (d = c /\ src = source /\ x = id)
        BY <2>4
      <4>3. i \in ShownBy(n, d, src) <=> /\ i \in ChartIds /\ <<d, i>> # <<c, id>>
                                         /\ i \in ShownBy(r, d, src)
        BY <2>3, <2>7 DEF ShownBy
      <4>4. <<d, i>> = <<c, id>> /\ i \in ShownBy(r, d, src) => src = source
        BY DEF ShownBy, source
      <4>5. i \in ShownBy(r, d, src) => i \in ChartIds
        BY DEF ShownBy
      <4> QED BY <4>1, <4>2, <4>3, <4>4, <4>5
    <3> QED BY <2>4, <2>7, <3>1 DEF ChartLayer
  <2>10. ClientLayer(n)
    <3>1. ASSUME NEW src \in Sources, NEW d
          PROVE  d \in At(clients, src) <=> d \in Clients /\ At(ids, <<d, src>>) # {}
      <4>1. d \in At(r.sourceClients, src) <=> d \in Clients /\ At(r.clientCharts, <<d, src>>) # {}
        BY DEF RegistryInv, ClientLayer
      <4>2. \A x : x \in At(ids, <<d, src>>)
                     <=> x \in At(r.clientCharts, <<d, src>>) /\ ~ (d = c /\ src = source /\ x = id)
        BY <2>4
      <4>3. d \in At(clients, src)
              <=> /\ d \in At(r.sourceClients, src)
                  /\ ~ (src = source /\ d = c /\ At(ids, <<c, source>>) = {})
        BY <2>5
      <4> QED BY <4>1, <4>2, <4>3
    <3> QED BY <2>5, <2>7, <3>1 DEF ClientLayer
  <2>11. SymbolLayer(n)
    <3>1. ASSUME NEW s \in Symbols, NEW src
          PROVE  src \in At(symbols, s)
                   <=> src \in Sources /\ s \in src.symbols /\ At(clients, src) # {}
      <4>1. src \in At(r.symbolSources, s)
              <=> src \in Sources /\ s \in src.symbols /\ At(r.sourceClients, src) # {}
        BY DEF RegistryInv, SymbolLayer
      <4>2. \A x : x \in At(clients, src)
                     <=> /\ x \in At(r.sourceClients, src)
                         /\ ~ (src = source /\ x = c /\ At(ids, <<c, source>>) = {})
        BY <2>5
      <4>3. src \in At(symbols, s)
              <=> /\ src \in At(r.symbolSources, s)
                  /\ ~ (s \in source.symbols /\ src = source /\ At(clients, source) = {})
        BY <2>6
      <4> QED BY <4>1, <4>2, <4>3
    <3> QED BY <2>6, <2>7, <3>1 DEF SymbolLayer
  <2> QED BY <2>7, <2>8, <2>9, <2>10, <2>11 DEF RegistryInv, n, charts
<1> QED BY <1>3, <1>4

(* A chart is set: it leaves its old source and enters the new one.        *)
LEMMA SetChartFacts ==
    ASSUME NEW r, RegistryInv(r), NEW c \in Clients, NEW id \in ChartIds, NEW source \in Sources
    PROVE  /\ RegistryInv(SetChart(r, c, id, source))
           /\ SetChart(r, c, id, source).quotes = r.quotes
           /\ SetChart(r, c, id, source).charts
                = Put(Drop(r.charts, {<<c, id>>}), <<c, id>>, source)
<1> DEFINE m == RemoveChart(r, c, id)
           n == SetChart(r, c, id, source)
           charts == Put(m.charts, <<c, id>>, source)
           ids == AddTo(m.clientCharts, <<c, source>>, id)
           clients == AddTo(m.sourceClients, source, c)
           symbols == AddToAll(m.symbolSources, source.symbols, source)
<1>1. RegistryInv(m) /\ m.quotes = r.quotes /\ m.charts = Drop(r.charts, {<<c, id>>})
  BY RemoveChartFacts
<1>2. m \in Registries
  BY <1>1 DEF RegistryInv
<1>3. n = [m EXCEPT !.charts = charts, !.clientCharts = ids, !.sourceClients = clients,
                    !.symbolSources = symbols]
  <2> HIDE DEF m
  <2> QED BY <1>2 DEF SetChart, AddChartIndex, Registries, m
<1>4. <<c, id>> \notin DOMAIN m.charts
  BY <1>1, DropAt
<1> HIDE DEF m, n
<1>5. /\ charts \in Index(Clients \X ChartIds, Sources)
      /\ \A k : k \in DOMAIN charts <=> k \in DOMAIN m.charts \/ k = <<c, id>>
      /\ \A k \in DOMAIN charts : charts[k] = IF k = <<c, id>> THEN source ELSE m.charts[k]
  <2>1. m.charts \in Index(Clients \X ChartIds, Sources)
    BY <1>2, RegistryFields
  <2>2. <<c, id>> \in Clients \X ChartIds
    OBVIOUS
  <2>3. charts \in Index(Clients \X ChartIds, Sources)
    BY <2>1, <2>2, PutType, Zenon
  <2> QED BY <2>3, PutAt
<1> HIDE DEF charts
<1>6. /\ ids \in Index(Clients \X Sources, SUBSET ChartIds)
      /\ NoEmptySets(ids)
      /\ \A k, x : x \in At(ids, k) <=> x \in At(m.clientCharts, k) \/ (k = <<c, source>> /\ x = id)
  <2>1. m.clientCharts \in Index(Clients \X Sources, SUBSET ChartIds)
    BY <1>2, RegistryFields
  <2>2. NoEmptySets(m.clientCharts)
    BY <1>1 DEF RegistryInv, ChartLayer
  <2>3. {<<c, source>>} \in SUBSET (Clients \X Sources)
    OBVIOUS
  <2>4. ids \in Index(Clients \X Sources, SUBSET ChartIds)
    BY <2>1, <2>3, AddToAllType, Zenon DEF AddTo
  <2> QED BY <2>2, <2>4, AddToAllAt DEF AddTo
<1> HIDE DEF ids
<1>7. /\ clients \in Index(Sources, SUBSET Clients)
      /\ NoEmptySets(clients)
      /\ \A k, x : x \in At(clients, k) <=> x \in At(m.sourceClients, k) \/ (k = source /\ x = c)
  <2>1. m.sourceClients \in Index(Sources, SUBSET Clients)
    BY <1>2, RegistryFields
  <2>2. NoEmptySets(m.sourceClients)
    BY <1>1 DEF RegistryInv, ClientLayer
  <2>3. {source} \in SUBSET Sources
    OBVIOUS
  <2>4. clients \in Index(Sources, SUBSET Clients)
    BY <2>1, <2>3, AddToAllType, Zenon DEF AddTo
  <2> QED BY <2>2, <2>4, AddToAllAt DEF AddTo
<1> HIDE DEF clients
<1>8. /\ symbols \in Index(Symbols, SUBSET Sources)
      /\ NoEmptySets(symbols)
      /\ \A k, x : x \in At(symbols, k)
                      <=> x \in At(m.symbolSources, k) \/ (k \in source.symbols /\ x = source)
  <2>1. m.symbolSources \in Index(Symbols, SUBSET Sources)
    BY <1>2, RegistryFields
  <2>2. NoEmptySets(m.symbolSources)
    BY <1>1 DEF RegistryInv, SymbolLayer
  <2>3. source.symbols \in SUBSET Symbols
    BY RelayAssumption
  <2>4. symbols \in Index(Symbols, SUBSET Sources)
    BY <2>1, <2>3, AddToAllType, Zenon
  <2> QED BY <2>2, <2>4, AddToAllAt
<1> HIDE DEF symbols
<1>9. /\ n \in Registries
      /\ n.quotes = m.quotes /\ n.quoteClients = m.quoteClients
      /\ n.charts = charts /\ n.clientCharts = ids
      /\ n.sourceClients = clients /\ n.symbolSources = symbols
  BY <1>2, <1>3, <1>5, <1>6, <1>7, <1>8 DEF Registries
<1>10. QuoteLayer(n)
  BY <1>1, <1>9 DEF RegistryInv, QuoteLayer
<1>11. ChartLayer(n)
  <2>1. ASSUME NEW d \in Clients, NEW src \in Sources, NEW i
        PROVE  i \in At(ids, <<d, src>>) <=> i \in ShownBy(n, d, src)
    <3>1. At(m.clientCharts, <<d, src>>) = ShownBy(m, d, src)
      BY <1>1 DEF RegistryInv, ChartLayer
    <3>2. i \in At(ids, <<d, src>>) <=> i \in At(m.clientCharts, <<d, src>>)
                                          \/ (d = c /\ src = source /\ i = id)
      BY <1>6
    <3>3. i \in ShownBy(n, d, src) <=> i \in ShownBy(m, d, src)
                                          \/ (d = c /\ src = source /\ i = id)
      BY <1>4, <1>5, <1>9 DEF ShownBy
    <3> QED BY <3>1, <3>2, <3>3
  <2> QED BY <1>6, <1>9, <2>1 DEF ChartLayer
<1>12. ClientLayer(n)
  <2>1. ASSUME NEW src \in Sources, NEW d
        PROVE  d \in At(clients, src) <=> d \in Clients /\ At(ids, <<d, src>>) # {}
    <3>1. d \in At(m.sourceClients, src) <=> d \in Clients /\ At(m.clientCharts, <<d, src>>) # {}
      BY <1>1 DEF RegistryInv, ClientLayer
    <3>2. \A x : x \in At(ids, <<d, src>>) <=> x \in At(m.clientCharts, <<d, src>>)
                                          \/ (d = c /\ src = source /\ x = id)
      BY <1>6
    <3>3. d \in At(clients, src) <=> d \in At(m.sourceClients, src) \/ (src = source /\ d = c)
      BY <1>7
    <3> QED BY <3>1, <3>2, <3>3
  <2> QED BY <1>7, <1>9, <2>1 DEF ClientLayer
<1>13. SymbolLayer(n)
  <2>1. ASSUME NEW s \in Symbols, NEW src
        PROVE  src \in At(symbols, s)
                 <=> src \in Sources /\ s \in src.symbols /\ At(clients, src) # {}
    <3>1. src \in At(m.symbolSources, s)
            <=> src \in Sources /\ s \in src.symbols /\ At(m.sourceClients, src) # {}
      BY <1>1 DEF RegistryInv, SymbolLayer
    <3>2. \A x : x \in At(clients, src) <=> x \in At(m.sourceClients, src) \/ (src = source /\ x = c)
      BY <1>7
    <3>3. src \in At(symbols, s)
            <=> src \in At(m.symbolSources, s) \/ (s \in source.symbols /\ src = source)
      BY <1>8
    <3> QED BY <3>1, <3>2, <3>3
  <2> QED BY <1>8, <1>9, <2>1 DEF SymbolLayer
<1> QED BY <1>1, <1>9, <1>10, <1>11, <1>12, <1>13 DEF RegistryInv, n, charts

-----------------------------------------------------------------------------
(* Loops over sets: the fold of the registry.                              *)

LEMMA DropTwice ==
    ASSUME NEW f, NEW a, NEW b
    PROVE  Drop(Drop(f, a), b) = Drop(f, a \cup b)
<1>1. DOMAIN f \ (a \cup b) = (DOMAIN f \ a) \ b
  OBVIOUS
<1> QED BY <1>1 DEF Drop

(* remove_client: the client's quotes and, one after the other, its charts *)
(* are removed.                                                            *)
LEMMA RemoveClientFacts ==
    ASSUME NEW r, RegistryInv(r), NEW c \in Clients
    PROVE  /\ RegistryInv(RemoveClient(r, c))
           /\ RemoveClient(r, c).quotes = Drop(r.quotes, {c})
           /\ RemoveClient(r, c).charts = Drop(r.charts, {c} \X ChartIds)
<1> DEFINE base == [r EXCEPT !.quotes = Drop(@, {c}),
                             !.quoteClients = RemoveFromAll(@, At(r.quotes, c), c)]
           S == {id \in ChartIds : <<c, id>> \in DOMAIN r.charts}
           Keys(s) == {c} \X s
           R == [s \in SUBSET S |->
                   {x \in Registries : /\ RegistryInv(x)
                                       /\ x.quotes = Drop(r.quotes, {c})
                                       /\ x.charts = Drop(r.charts, Keys(s))}]
           F == [p \in S \X Registries |-> RemoveChart(p[2], c, p[1])]
           Iter(g) == g = [s \in SUBSET S |-> IF s = {} THEN base
                                             ELSE RemoveChart(g[s \ {Pick(s)}], c, Pick(s))]
<1>1. RemoveClient(r, c) = (CHOOSE g : Iter(g))[S]
  BY Zenon DEF RemoveClient, FoldSet, MapThenFoldSet, Pick
<1>2. IsFiniteSet(S)
  BY RelayAssumption, FS_Subset
<1>3. base \in R[{}]
  <2> DEFINE left == RemoveFromAll(r.quoteClients, At(r.quotes, c), c)
             kept == Drop(r.quotes, {c})
  <2>1. r \in Registries
    BY DEF RegistryInv
  <2>2. left \in Index(Symbols, SUBSET Clients)
    <3>1. r.quoteClients \in Index(Symbols, SUBSET Clients)
      BY <2>1, RegistryFields
    <3> QED BY <3>1, RemoveFromAllType, Zenon
  <2>3. NoEmptySets(left) /\ \A k, x : x \in At(left, k)
           <=> x \in At(r.quoteClients, k) /\ ~ (k \in At(r.quotes, c) /\ x = c)
    BY RemoveFromAllAt DEF RegistryInv, QuoteLayer
  <2>4. kept \in Index(Clients, SUBSET Symbols)
    <3>1. r.quotes \in Index(Clients, SUBSET Symbols)
      BY <2>1, RegistryFields
    <3> QED BY <3>1, DropType, Zenon
  <2>5. \A k, x : x \in At(kept, k) <=> x \in At(r.quotes, k) /\ k # c
    BY DropAt
  <2> HIDE DEF left, kept
  <2>6. base = [r EXCEPT !.quotes = kept, !.quoteClients = left]
    BY DEF left, kept
  <2>7. /\ base \in Registries
        /\ base.quotes = kept /\ base.quoteClients = left /\ base.charts = r.charts
        /\ base.symbolSources = r.symbolSources /\ base.sourceClients = r.sourceClients
        /\ base.clientCharts = r.clientCharts
    BY <2>1, <2>2, <2>4, <2>6 DEF Registries
  <2> HIDE DEF base
  <2>8. QuoteLayer(base)
    <3>1. ASSUME NEW s \in Symbols, NEW d
          PROVE  d \in At(left, s) <=> d \in Clients /\ s \in At(kept, d)
      <4>1. d \in At(r.quoteClients, s) <=> d \in Clients /\ s \in At(r.quotes, d)
        BY DEF RegistryInv, QuoteLayer
      <4> QED BY <2>3, <2>5, <4>1
    <3> QED BY <2>3, <2>7, <3>1 DEF QuoteLayer
  <2>9. ChartLayer(base) /\ ClientLayer(base) /\ SymbolLayer(base)
    BY <2>7 DEF RegistryInv, ChartLayer, ClientLayer, SymbolLayer, ShownBy
  <2>10. base.charts = Drop(r.charts, Keys({}))
    <3>1. r.charts = [k \in DOMAIN r.charts |-> r.charts[k]]
      BY <2>1, RegistryFields, IndexMember
    <3>2. DOMAIN r.charts \ Keys({}) = DOMAIN r.charts
      OBVIOUS
    <3> QED BY <2>7, <3>1, <3>2 DEF Drop
  <2>11. {} \in SUBSET S
    OBVIOUS
  <2> HIDE DEF S, Keys
  <2> QED BY <2>7, <2>8, <2>9, <2>10, <2>11 DEF RegistryInv, kept
<1>4. ASSUME NEW s \in SUBSET S, s # {}, NEW x \in R[s \ {Pick(s)}]
      PROVE  x \in Registries /\ Pick(s) \in S /\ RemoveChart(x, c, Pick(s)) \in R[s]
  <2>1. Pick(s) \in s /\ Pick(s) \in S /\ Pick(s) \in ChartIds
    BY <1>4 DEF Pick
  <2>2. s \ {Pick(s)} \in SUBSET S
    OBVIOUS
  <2> HIDE DEF S
  <2>3. /\ RegistryInv(x) /\ x \in Registries
        /\ x.quotes = Drop(r.quotes, {c})
        /\ x.charts = Drop(r.charts, Keys(s \ {Pick(s)}))
    BY <2>2, <1>4
  <2>4. /\ RegistryInv(RemoveChart(x, c, Pick(s)))
        /\ RemoveChart(x, c, Pick(s)).quotes = Drop(r.quotes, {c})
        /\ RemoveChart(x, c, Pick(s)).charts = Drop(x.charts, {<<c, Pick(s)>>})
    BY <2>1, <2>3, RemoveChartFacts
  <2>5. Keys(s \ {Pick(s)}) \cup {<<c, Pick(s)>>} = Keys(s)
    BY <2>1
  <2>6. RemoveChart(x, c, Pick(s)).charts = Drop(r.charts, Keys(s))
    BY <2>3, <2>4, <2>5, DropTwice
  <2>7. RemoveChart(x, c, Pick(s)) \in Registries
    BY <2>4 DEF RegistryInv
  <2> HIDE DEF Keys
  <2> QED BY <2>1, <2>3, <2>4, <2>6, <2>7
<1> HIDE DEF base, S, R, F
<1>5. \E g : Iter(g)
  <2>1. PICK g : Folds(g, F, base, SUBSET S)
    BY <1>2, FoldExists
  <2>2. \A s \in SUBSET S : g[s] = IF s = {} THEN base ELSE F[<<Pick(s), g[s \ {Pick(s)}]>>]
    BY <2>1, Zenon DEF Folds
  <2>3. ASSUME NEW s \in SUBSET S, s # {}, g[s \ {Pick(s)}] \in R[s \ {Pick(s)}]
        PROVE  g[s] = RemoveChart(g[s \ {Pick(s)}], c, Pick(s)) /\ g[s] \in R[s]
    <3>1. /\ g[s \ {Pick(s)}] \in Registries /\ Pick(s) \in S
          /\ RemoveChart(g[s \ {Pick(s)}], c, Pick(s)) \in R[s]
      BY <2>3, <1>4
    <3>2. g[s] = F[<<Pick(s), g[s \ {Pick(s)}]>>]
      BY <2>2, <2>3
    <3>3. F[<<Pick(s), g[s \ {Pick(s)}]>>] = RemoveChart(g[s \ {Pick(s)}], c, Pick(s))
      BY <3>1 DEF F
    <3> QED BY <3>1, <3>2, <3>3
  <2>4. g[{}] \in R[{}]
    <3>1. {} \in SUBSET S
      OBVIOUS
    <3> QED BY <1>3, <2>2, <3>1
  <2>5. \A s \in SUBSET S : g[s] \in R[s]
    <3> SUFFICES ASSUME NEW t \in SUBSET S PROVE g[t] \in R[t]
      OBVIOUS
    <3>1. IsFiniteSet(t)
      BY <1>2, FS_Subset
    <3>2. \A s \in SUBSET t : s # {} /\ g[s \ {Pick(s)}] \in R[s \ {Pick(s)}] => g[s] \in R[s]
      BY <2>3
    <3> QED BY <2>4, <3>1, <3>2, FoldKeeps
  <2>6. \A s \in SUBSET S : s # {} => g[s] = RemoveChart(g[s \ {Pick(s)}], c, Pick(s))
    <3> SUFFICES ASSUME NEW s \in SUBSET S, s # {}
                 PROVE  g[s] = RemoveChart(g[s \ {Pick(s)}], c, Pick(s))
      OBVIOUS
    <3>1. s \ {Pick(s)} \in SUBSET S
      OBVIOUS
    <3> QED BY <2>3, <2>5, <3>1
  <2>7. \A s \in SUBSET S : g[s] = IF s = {} THEN base
                                   ELSE RemoveChart(g[s \ {Pick(s)}], c, Pick(s))
    BY <2>2, <2>6
  <2>8. g = [s \in SUBSET S |-> g[s]]
    BY <2>1 DEF Folds
  <2>9. g = [s \in SUBSET S |-> IF s = {} THEN base
                                ELSE RemoveChart(g[s \ {Pick(s)}], c, Pick(s))]
    BY <2>7, <2>8
  <2> QED BY <2>9
<1>6. PICK g : Iter(g) /\ RemoveClient(r, c) = g[S]
  <2> HIDE DEF Iter
  <2> QED BY <1>1, <1>5
<1>7. g[S] \in R[S]
  <2>1. \A s \in SUBSET S : g[s] = IF s = {} THEN base
                                   ELSE RemoveChart(g[s \ {Pick(s)}], c, Pick(s))
    BY <1>6, Zenon
  <2>2. g[{}] \in R[{}]
    <3>1. {} \in SUBSET S
      OBVIOUS
    <3> QED BY <1>3, <2>1, <3>1
  <2>3. \A s \in SUBSET S : s # {} /\ g[s \ {Pick(s)}] \in R[s \ {Pick(s)}] => g[s] \in R[s]
    BY <1>4, <2>1
  <2> HIDE DEF Iter
  <2> QED BY <1>2, <2>2, <2>3, FoldKeeps
<1>8. /\ RegistryInv(g[S])
      /\ g[S].quotes = Drop(r.quotes, {c})
      /\ g[S].charts = Drop(r.charts, Keys(S))
  <2>1. S \in SUBSET S
    OBVIOUS
  <2> QED BY <1>7, <2>1 DEF R
<1>9. Drop(r.charts, Keys(S)) = Drop(r.charts, {c} \X ChartIds)
  <2>1. DOMAIN r.charts \ Keys(S) = DOMAIN r.charts \ ({c} \X ChartIds)
    BY DEF S
  <2> QED BY <2>1 DEF Drop
<1> QED BY <1>6, <1>8, <1>9

(* The expulsion of several clients in one lock section (dispatch_frames). *)
Expelled(r, cs) == FoldSet(LAMBDA c, acc : RemoveClient(acc, c), r, cs)

LEMMA ExpelledFacts ==
    ASSUME NEW r, RegistryInv(r), NEW S \in SUBSET Clients
    PROVE  /\ RegistryInv(Expelled(r, S))
           /\ Expelled(r, S).quotes = Drop(r.quotes, S)
           /\ Expelled(r, S).charts = Drop(r.charts, S \X ChartIds)
<1> DEFINE Keys(s) == s \X ChartIds
           R == [s \in SUBSET S |->
                   {x \in Registries : /\ RegistryInv(x)
                                       /\ x.quotes = Drop(r.quotes, s)
                                       /\ x.charts = Drop(r.charts, Keys(s))}]
           F == [p \in S \X Registries |-> RemoveClient(p[2], p[1])]
           Iter(g) == g = [s \in SUBSET S |-> IF s = {} THEN r
                                             ELSE RemoveClient(g[s \ {Pick(s)}], Pick(s))]
<1>1. Expelled(r, S) = (CHOOSE g : Iter(g))[S]
  BY Zenon DEF Expelled, FoldSet, MapThenFoldSet, Pick
<1>2. IsFiniteSet(S)
  BY RelayAssumption, FS_Subset
<1>3. r \in R[{}]
  <2>1. r \in Registries
    BY DEF RegistryInv
  <2>2. r.charts = [k \in DOMAIN r.charts |-> r.charts[k]]
    BY <2>1, RegistryFields, IndexMember
  <2>3. r.quotes = [k \in DOMAIN r.quotes |-> r.quotes[k]]
    <3>1. r.quotes \in Index(Clients, SUBSET Symbols)
      BY <2>1, RegistryFields
    <3> QED BY <3>1, IndexMember
  <2>4. DOMAIN r.charts \ Keys({}) = DOMAIN r.charts /\ DOMAIN r.quotes \ {} = DOMAIN r.quotes
    OBVIOUS
  <2>5. r.charts = Drop(r.charts, Keys({})) /\ r.quotes = Drop(r.quotes, {})
    BY <2>2, <2>3, <2>4 DEF Drop
  <2>6. {} \in SUBSET S
    OBVIOUS
  <2> HIDE DEF Keys
  <2> QED BY <2>1, <2>5, <2>6
<1>4. ASSUME NEW s \in SUBSET S, s # {}, NEW x \in R[s \ {Pick(s)}]
      PROVE  x \in Registries /\ Pick(s) \in S /\ RemoveClient(x, Pick(s)) \in R[s]
  <2>1. Pick(s) \in s /\ Pick(s) \in S /\ Pick(s) \in Clients
    BY <1>4 DEF Pick
  <2>2. s \ {Pick(s)} \in SUBSET S
    OBVIOUS
  <2>3. /\ RegistryInv(x) /\ x \in Registries
        /\ x.quotes = Drop(r.quotes, s \ {Pick(s)})
        /\ x.charts = Drop(r.charts, Keys(s \ {Pick(s)}))
    BY <2>2, <1>4
  <2>4. /\ RegistryInv(RemoveClient(x, Pick(s)))
        /\ RemoveClient(x, Pick(s)).quotes = Drop(x.quotes, {Pick(s)})
        /\ RemoveClient(x, Pick(s)).charts = Drop(x.charts, {Pick(s)} \X ChartIds)
    BY <2>1, <2>3, RemoveClientFacts, Zenon
  <2>5. /\ Keys(s \ {Pick(s)}) \cup ({Pick(s)} \X ChartIds) = Keys(s)
        /\ (s \ {Pick(s)}) \cup {Pick(s)} = s
    BY <2>1
  <2>6. /\ RemoveClient(x, Pick(s)).charts = Drop(r.charts, Keys(s))
        /\ RemoveClient(x, Pick(s)).quotes = Drop(r.quotes, s)
    BY <2>3, <2>4, <2>5, DropTwice
  <2>7. RemoveClient(x, Pick(s)) \in Registries
    BY <2>4 DEF RegistryInv
  <2> HIDE DEF Keys
  <2> QED BY <2>1, <2>3, <2>4, <2>6, <2>7
<1> HIDE DEF R, F
<1>5. \E g : Iter(g)
  <2>1. PICK g : Folds(g, F, r, SUBSET S)
    BY <1>2, FoldExists
  <2>2. \A s \in SUBSET S : g[s] = IF s = {} THEN r ELSE F[<<Pick(s), g[s \ {Pick(s)}]>>]
    BY <2>1, Zenon DEF Folds
  <2>3. ASSUME NEW s \in SUBSET S, s # {}, g[s \ {Pick(s)}] \in R[s \ {Pick(s)}]
        PROVE  g[s] = RemoveClient(g[s \ {Pick(s)}], Pick(s)) /\ g[s] \in R[s]
    <3>1. /\ g[s \ {Pick(s)}] \in Registries /\ Pick(s) \in S
          /\ RemoveClient(g[s \ {Pick(s)}], Pick(s)) \in R[s]
      BY <2>3, <1>4
    <3>2. g[s] = F[<<Pick(s), g[s \ {Pick(s)}]>>]
      BY <2>2, <2>3
    <3>3. F[<<Pick(s), g[s \ {Pick(s)}]>>] = RemoveClient(g[s \ {Pick(s)}], Pick(s))
      BY <3>1 DEF F
    <3> QED BY <3>1, <3>2, <3>3
  <2>4. g[{}] \in R[{}]
    <3>1. {} \in SUBSET S
      OBVIOUS
    <3> QED BY <1>3, <2>2, <3>1
  <2>5. \A s \in SUBSET S : g[s] \in R[s]
    <3> SUFFICES ASSUME NEW t \in SUBSET S PROVE g[t] \in R[t]
      OBVIOUS
    <3>1. IsFiniteSet(t)
      BY <1>2, FS_Subset
    <3>2. \A s \in SUBSET t : s # {} /\ g[s \ {Pick(s)}] \in R[s \ {Pick(s)}] => g[s] \in R[s]
      BY <2>3
    <3> QED BY <2>4, <3>1, <3>2, FoldKeeps
  <2>6. \A s \in SUBSET S : s # {} => g[s] = RemoveClient(g[s \ {Pick(s)}], Pick(s))
    <3> SUFFICES ASSUME NEW s \in SUBSET S, s # {}
                 PROVE  g[s] = RemoveClient(g[s \ {Pick(s)}], Pick(s))
      OBVIOUS
    <3>1. s \ {Pick(s)} \in SUBSET S
      OBVIOUS
    <3> QED BY <2>3, <2>5, <3>1
  <2>7. \A s \in SUBSET S : g[s] = IF s = {} THEN r
                                   ELSE RemoveClient(g[s \ {Pick(s)}], Pick(s))
    BY <2>2, <2>6
  <2>8. g = [s \in SUBSET S |-> g[s]]
    BY <2>1 DEF Folds
  <2>9. g = [s \in SUBSET S |-> IF s = {} THEN r
                                ELSE RemoveClient(g[s \ {Pick(s)}], Pick(s))]
    BY <2>7, <2>8
  <2> QED BY <2>9
<1>6. PICK g : Iter(g) /\ Expelled(r, S) = g[S]
  <2> HIDE DEF Iter
  <2> QED BY <1>1, <1>5
<1>7. g[S] \in R[S]
  <2>1. \A s \in SUBSET S : g[s] = IF s = {} THEN r
                                   ELSE RemoveClient(g[s \ {Pick(s)}], Pick(s))
    BY <1>6, Zenon
  <2>2. g[{}] \in R[{}]
    <3>1. {} \in SUBSET S
      OBVIOUS
    <3> QED BY <1>3, <2>1, <3>1
  <2>3. \A s \in SUBSET S : s # {} /\ g[s \ {Pick(s)}] \in R[s \ {Pick(s)}] => g[s] \in R[s]
    BY <1>4, <2>1
  <2> HIDE DEF Iter
  <2> QED BY <1>2, <2>2, <2>3, FoldKeeps
<1>8. /\ RegistryInv(g[S])
      /\ g[S].quotes = Drop(r.quotes, S)
      /\ g[S].charts = Drop(r.charts, Keys(S))
  <2>1. S \in SUBSET S
    OBVIOUS
  <2> QED BY <1>7, <2>1 DEF R
<1> QED BY <1>6, <1>8

-----------------------------------------------------------------------------
(* What the layers say.                                                    *)

Shown(r) == {r.charts[key] : key \in DOMAIN r.charts}

(* A source has a client exactly when some chart shows it.                 *)
LEMMA SourcesShown ==
    ASSUME NEW r, RegistryInv(r)
    PROVE  /\ DOMAIN r.sourceClients = Shown(r)
           /\ \A source \in Sources :
                 At(r.sourceClients, source) = {c \in Clients : ShownBy(r, c, source) # {}}
           /\ \A s \in Symbols :
                 At(r.symbolSources, s) = {source \in Shown(r) : s \in source.symbols}
<1>1. /\ r \in Registries
      /\ r.charts \in Index(Clients \X ChartIds, Sources)
      /\ r.sourceClients \in Index(Sources, SUBSET Clients)
  BY RegistryFields DEF RegistryInv
<1>2. DOMAIN r.charts \subseteq Clients \X ChartIds /\ \A k \in DOMAIN r.charts : r.charts[k] \in Sources
  BY <1>1, IndexMember
<1>3. DOMAIN r.sourceClients \subseteq Sources
  BY <1>1, IndexMember, Zenon
<1>4. ASSUME NEW source \in Sources
      PROVE  At(r.sourceClients, source) = {c \in Clients : ShownBy(r, c, source) # {}}
  BY DEF RegistryInv, ChartLayer, ClientLayer
<1>5. ASSUME NEW source \in Sources
      PROVE  source \in DOMAIN r.sourceClients <=> source \in Shown(r)
  <2>1. source \in DOMAIN r.sourceClients <=> At(r.sourceClients, source) # {}
    BY KeyOfNonEmpty DEF RegistryInv, ClientLayer
  <2>2. source \in Shown(r) <=> \E c \in Clients : ShownBy(r, c, source) # {}
    <3>1. ASSUME source \in Shown(r) PROVE \E c \in Clients : ShownBy(r, c, source) # {}
      <4>1. PICK key \in DOMAIN r.charts : r.charts[key] = source
        BY <3>1 DEF Shown
      <4>2. PICK c \in Clients, id \in ChartIds : key = <<c, id>>
        BY <1>2
      <4>3. id \in ShownBy(r, c, source)
        BY <4>1, <4>2 DEF ShownBy
      <4> QED BY <4>3
    <3>2. ASSUME NEW c \in Clients, ShownBy(r, c, source) # {} PROVE source \in Shown(r)
      BY <3>2 DEF ShownBy, Shown
    <3> QED BY <3>1, <3>2
  <2> QED BY <1>4, <2>1, <2>2
<1>6. Shown(r) \subseteq Sources
  BY <1>2 DEF Shown
<1>7. DOMAIN r.sourceClients = Shown(r)
  BY <1>3, <1>5, <1>6
<1>8. ASSUME NEW s \in Symbols
      PROVE  At(r.symbolSources, s) = {source \in Shown(r) : s \in source.symbols}
  <2>1. \A source \in Sources : At(r.sourceClients, source) # {} <=> source \in Shown(r)
    BY <1>5, KeyOfNonEmpty DEF RegistryInv, ClientLayer
  <2>2. At(r.symbolSources, s)
          = {source \in Sources : s \in source.symbols /\ At(r.sourceClients, source) # {}}
    BY DEF RegistryInv, SymbolLayer
  <2> QED BY <1>6, <2>1, <2>2
<1> QED BY <1>4, <1>7, <1>8

(* The indexes of the registry agree with its mappings.                    *)
LEMMA LayersAgree ==
    ASSUME NEW r, RegistryInv(r)
    PROVE  IndexesAgree(r)
<1>1. \A s \in Symbols : At(r.quoteClients, s) = {c \in DOMAIN r.quotes : s \in r.quotes[c]}
  <2>1. r.quotes \in Index(Clients, SUBSET Symbols)
    BY RegistryFields DEF RegistryInv
  <2>2. DOMAIN r.quotes \subseteq Clients
    BY <2>1, IndexMember, Zenon
  <2> QED BY <2>2 DEF RegistryInv, QuoteLayer, At
<1>2. \A s \in Symbols : At(r.symbolSources, s) = {source \in Shown(r) : s \in source.symbols}
  BY SourcesShown
<1>3. \A source \in Sources :
         At(r.sourceClients, source) = {c \in Clients : ShownBy(r, c, source) # {}}
  BY SourcesShown
<1>4. \A c \in Clients, source \in Sources :
         At(r.clientCharts, <<c, source>>) = ShownBy(r, c, source)
  BY DEF RegistryInv, ChartLayer
<1>5. DOMAIN r.sourceClients = Shown(r)
  BY SourcesShown
<1> QED BY <1>1, <1>2, <1>3, <1>4, <1>5, Zenon DEF IndexesAgree, Shown, ShownBy

(* The tick charts of a client, as its mappings say.                       *)
Ticks(r, c, s) ==
    \E id \in ChartIds : /\ <<c, id>> \in DOMAIN r.charts
                         /\ ~ r.charts[<<c, id>>].kline
                         /\ s \in r.charts[<<c, id>>].symbols

LEMMA TickClientsFacts ==
    ASSUME NEW r, RegistryInv(r), NEW s \in Symbols, NEW c
    PROVE  c \in TickClients(r, s) <=> c \in Clients /\ Ticks(r, c, s)
<1>1. c \in TickClients(r, s) <=> \E source \in At(r.symbolSources, s) :
                                     ~ source.kline /\ c \in At(r.sourceClients, source)
  BY DEF TickClients
<1>2. At(r.symbolSources, s) = {source \in Shown(r) : s \in source.symbols}
  BY SourcesShown
<1>3. \A source \in Sources :
         At(r.sourceClients, source) = {d \in Clients : ShownBy(r, d, source) # {}}
  BY SourcesShown
<1>4. DOMAIN r.charts \subseteq Clients \X ChartIds /\ \A k \in DOMAIN r.charts : r.charts[k] \in Sources
  BY RegistryFields, IndexMember DEF RegistryInv
<1>5. Shown(r) \subseteq Sources
  BY <1>4 DEF Shown
<1>6. ASSUME c \in TickClients(r, s) PROVE c \in Clients /\ Ticks(r, c, s)
  <2>1. PICK source \in At(r.symbolSources, s) : ~ source.kline /\ c \in At(r.sourceClients, source)
    BY <1>1, <1>6
  <2>2. source \in Sources /\ s \in source.symbols
    BY <1>2, <1>5, <2>1
  <2>3. c \in Clients /\ ShownBy(r, c, source) # {}
    BY <1>3, <2>1, <2>2
  <2>4. PICK id \in ChartIds : <<c, id>> \in DOMAIN r.charts /\ r.charts[<<c, id>>] = source
    BY <2>3 DEF ShownBy
  <2> QED BY <2>1, <2>2, <2>3, <2>4 DEF Ticks
<1>7. ASSUME c \in Clients, Ticks(r, c, s) PROVE c \in TickClients(r, s)
  <2>1. PICK id \in ChartIds : /\ <<c, id>> \in DOMAIN r.charts
                               /\ ~ r.charts[<<c, id>>].kline
                               /\ s \in r.charts[<<c, id>>].symbols
    BY <1>7 DEF Ticks
  <2>2. PICK source : source = r.charts[<<c, id>>]
    OBVIOUS
  <2>3. source \in Sources /\ source \in Shown(r)
    BY <1>4, <2>1, <2>2 DEF Shown
  <2>4. source \in At(r.symbolSources, s)
    BY <1>2, <2>1, <2>2, <2>3
  <2>5. id \in ShownBy(r, c, source)
    BY <2>1, <2>2 DEF ShownBy
  <2>6. c \in At(r.sourceClients, source)
    BY <1>3, <1>7, <2>3, <2>5
  <2> QED BY <1>1, <2>1, <2>2, <2>4, <2>6
<1> QED BY <1>6, <1>7

(* What a registry wants charted; who leaves it adds nothing.              *)
WantedIn(r) == ChartSymbols(r) \cup QuotedSymbols(r) \cup (DOMAIN r.sourceClients \cap KlineItems)

LEMMA FewerWanted ==
    ASSUME NEW r, RegistryInv(r), NEW n, RegistryInv(n), NEW cs, NEW keys,
           n.quotes = Drop(r.quotes, cs), n.charts = Drop(r.charts, keys)
    PROVE  WantedIn(n) \subseteq WantedIn(r)
<1>1. /\ \A k : k \in DOMAIN n.quotes => k \in DOMAIN r.quotes
      /\ \A k \in DOMAIN n.quotes : n.quotes[k] = r.quotes[k]
      /\ \A k : k \in DOMAIN n.charts => k \in DOMAIN r.charts
      /\ \A k \in DOMAIN n.charts : n.charts[k] = r.charts[k]
  BY DropAt
<1>2. ChartSymbols(n) \subseteq ChartSymbols(r)
  BY <1>1 DEF ChartSymbols
<1>3. QuotedSymbols(n) \subseteq QuotedSymbols(r)
  BY <1>1 DEF QuotedSymbols
<1>4. DOMAIN n.sourceClients \subseteq DOMAIN r.sourceClients
  <2>1. DOMAIN n.sourceClients = Shown(n) /\ DOMAIN r.sourceClients = Shown(r)
    BY SourcesShown
  <2> QED BY <1>1, <2>1 DEF Shown
<1> QED BY <1>2, <1>3, <1>4 DEF WantedIn

-----------------------------------------------------------------------------
(* The inductive invariant.                                                *)

ChartFrames == [to : Clients, symbol : Symbols, rows : SUBSET Nat]
QuoteFrames == [to : Clients, symbol : Symbols, quote : Nat]
Frames == ChartFrames \cup QuoteFrames

Mailboxes == [reliable : Seq(ChartFrames), quotes : Seq(QuoteFrames), closed : BOOLEAN]

ClientPcs == {"new", "loop", "signal", "collect", "push", "expel", "kicksignal",
              "end", "unlist", "endsignal", "gone"}
PumpPcs == {"down", "loop", "observe", "send", "collect", "push", "expel", "kicksignal"}

RelayType ==
    /\ row \in [Symbols -> Nat] /\ ring \in [Symbols -> Nat]
    /\ signal \in BOOLEAN
    /\ task \in [Tasks -> [pc : ClientPcs \cup PumpPcs, hand : Seq(Frames), stale : SUBSET Clients]]
    /\ outbox \subseteq Clients
    /\ mailbox \in [Clients -> Mailboxes]
    /\ got \in [Clients -> [Symbols -> SUBSET Nat]]

(* Frames are in hand only between a command or a row and the end of their *)
(* delivery, refusals only until the expulsion.                            *)
TaskInv ==
    /\ task[Pump].pc \in PumpPcs
    /\ \A c \in Clients : task[c].pc \in ClientPcs
    /\ \A t \in Tasks : task[t].pc \notin {"signal", "collect", "push"} => task[t].hand = <<>>
    /\ \A t \in Tasks : task[t].pc \notin {"push", "expel"} => task[t].stale = {}

(* A client the relay does not know yet, or no longer, is in no mapping.   *)
Forgotten(r, c) ==
    c \notin DOMAIN r.quotes /\ \A id \in ChartIds : <<c, id>> \notin DOMAIN r.charts

ForgottenInv ==
    \A c \in Clients :
        /\ task[c].pc \in {"new", "unlist", "endsignal", "gone"} => Forgotten(reg, c)
        /\ task[c].pc \in {"endsignal", "gone"} => c \notin outbox

(* Unless a signal is on its way, what is wanted is tracked as active, and *)
(* charted once the pump has sent what it tracks.                          *)
Pending == signal \/ \E c \in Clients : In(c, "signal")
ChartedInv ==
    ~ In(Pump, "down") /\ ~ In(Pump, "observe") /\ ~ Pending =>
        \A i \in Wanted : /\ i \in DOMAIN tracked /\ tracked[i] = "active"
                          /\ ~ In(Pump, "send") => i \in upstream

(* RowsComplete, said of the mappings and of single rows: a frame for the  *)
(* client carries the row.                                                 *)
Carries(frames, c, s, n) ==
    \E i \in 1..Len(frames) : /\ frames[i].to = c /\ frames[i].symbol = s
                              /\ ~ IsQuote(frames[i]) /\ n \in frames[i].rows
Held(c, s, n) ==
    \/ n \in got[c][s]
    \/ Carries(mailbox[c].reliable, c, s, n)
    \/ \E t \in Tasks : Carries(task[t].hand, c, s, n)

(* The window of one of the client's tick charts holds the row, where last *)
(* is the newest row of the symbol and the cache holds size of them.       *)
Shows(r, last, size, c, s, n) ==
    \E id \in ChartIds : /\ <<c, id>> \in DOMAIN r.charts
                         /\ ~ r.charts[<<c, id>>].kline
                         /\ s \in r.charts[<<c, id>>].symbols
                         /\ last - n < r.charts[<<c, id>>].width /\ last - n < size
Due(c, s, n) ==
    /\ Shows(reg, row[s], ring[s], c, s, n)
    /\ c \in outbox /\ \A t \in Tasks : c \notin task[t].stale

RowsInv ==
    \A c \in Clients, s \in Symbols : \A n \in 1..row[s] : Due(c, s, n) => Held(c, s, n)

CoreInv == RegistryInv(reg) /\ RelayType /\ TaskInv /\ ForgottenInv /\ RowsInv
RelayInv == CoreInv /\ ChartedInv

-----------------------------------------------------------------------------
(* Frames in sequences.                                                    *)

LEMMA ImageFinite ==
    ASSUME NEW S, IsFiniteSet(S), NEW h
    PROVE  IsFiniteSet({h[x] : x \in S})
<1> DEFINE T == {h[x] : x \in S}
           m == [x \in S |-> h[x]]
<1>1. m \in Surjection(S, T)
  BY DEF Surjection
<1> HIDE DEF T, m
<1>2. IsFiniteSet(T)
  BY <1>1, FS_Surjection
<1> QED BY <1>2 DEF T

(* The orders in which a finite set can be listed list all of it.          *)
LEMMA ListingFacts ==
    ASSUME NEW T, NEW S \in SUBSET T, IsFiniteSet(S), NEW q \in SetToSeqs(S)
    PROVE  /\ q \in Seq(T)
           /\ \A i \in 1..Len(q) : q[i] \in S
           /\ \A x \in S : \E i \in 1..Len(q) : q[i] = x
<1>1. Cardinality(S) \in Nat
  BY FS_CardinalityType
<1> DEFINE D == 1..Cardinality(S)
<1>2. q \in [D -> S] /\ \A i, j \in D : i # j => q[i] # q[j]
  BY DEF SetToSeqs
<1>3. q \in Injection(D, S)
  BY <1>2 DEF Injection, IsInjective
<1>4. IsFiniteSet(D) /\ Cardinality(D) = Cardinality(S)
  <2>1. Cardinality(1..Cardinality(S))
           = IF 1 > Cardinality(S) THEN 0 ELSE Cardinality(S) - 1 + 1
    BY <1>1, FS_Interval
  <2> QED BY <1>1, <2>1, FS_Interval
<1>5. q \in Surjection(D, S)
  <2> HIDE DEF D
  <2> QED BY <1>3, <1>4, FS_Injection
<1>6. q \in Seq(T) /\ Len(q) = Cardinality(S)
  <2>1. q \in [1..Cardinality(S) -> T]
    BY <1>2
  <2> QED BY <1>1, <2>1, SeqDef
<1> QED BY <1>2, <1>5, <1>6 DEF Surjection

LEMMA SetToSeqIsListing ==
    ASSUME NEW S, IsFiniteSet(S)
    PROVE  SetToSeq(S) \in SetToSeqs(S)
<1>1. ExistsBijection(1..Cardinality(S), S)
  BY FS_CardinalityType
<1>2. PICK b \in Bijection(1..Cardinality(S), S) : TRUE
  BY <1>1 DEF ExistsBijection
<1>3. b \in [1..Cardinality(S) -> S] /\ IsInjective(b)
  BY <1>2 DEF Bijection, Injection
<1>4. SetToSeq(S) \in [1..Cardinality(S) -> S] /\ IsInjective(SetToSeq(S))
  BY <1>3 DEF SetToSeq
<1> QED BY <1>4 DEF SetToSeqs, IsInjective

(* g solves the recursion of Listed up to m, for the clients of listed.    *)
Keeping(g, frames, listed, m) ==
    g = [i \in 0..m |-> IF i = 0 THEN <<>>
                        ELSE IF frames[i].to \in listed THEN Append(g[i - 1], frames[i])
                        ELSE g[i - 1]]

KeepOne(acc, f, listed) == IF f.to \in listed THEN Append(acc, f) ELSE acc

LEMMA KeepingStep ==
    ASSUME NEW g, NEW frames, NEW listed, NEW m \in Nat
    PROVE  Keeping(g, frames, listed, m)
             <=> g = [i \in 0..m |-> IF i = 0 THEN <<>> ELSE KeepOne(g[i - 1], frames[i], listed)]
  BY Zenon DEF Keeping, KeepOne

LEMMA KeepingExists ==
    ASSUME NEW frames, NEW listed, NEW N \in Nat
    PROVE  \E g : Keeping(g, frames, listed, N)
<1> DEFINE Bad == {m \in Nat : ~ \E g : Keeping(g, frames, listed, m)}
<1>1. SUFFICES ASSUME N \in Bad PROVE FALSE
  OBVIOUS
<1>2. PICK m \in Bad : \A k \in Bad : m <= k
  <2> HIDE DEF Bad
  <2>1. Bad \subseteq Nat
    BY DEF Bad
  <2> QED BY <1>1, <2>1, LeastNat
<1>3. m \in Nat /\ ~ \E g : Keeping(g, frames, listed, m)
  OBVIOUS
<1>4. m # 0
  <2> DEFINE g == [i \in 0..0 |-> <<>>]
  <2>1. g = [i \in 0..0 |-> IF i = 0 THEN <<>> ELSE KeepOne(g[i - 1], frames[i], listed)]
    OBVIOUS
  <2> HIDE DEF g
  <2>2. Keeping(g, frames, listed, 0)
    BY <2>1, KeepingStep
  <2> QED BY <1>3, <2>2
<1>5. m - 1 \in Nat /\ m - 1 \notin Bad
  <2> HIDE DEF Bad
  <2> QED BY <1>2, <1>3, <1>4
<1>6. PICK h : Keeping(h, frames, listed, m - 1)
  BY <1>5
<1> DEFINE last == KeepOne(h[m - 1], frames[m], listed)
           g == [i \in 0..m |-> IF i = m THEN last ELSE h[i]]
           rhs == [i \in 0..m |-> IF i = 0 THEN <<>> ELSE KeepOne(g[i - 1], frames[i], listed)]
<1>7. /\ h[0] = <<>>
      /\ \A i \in 1..m - 1 : h[i] = KeepOne(h[i - 1], frames[i], listed)
  <2>1. h = [i \in 0..m - 1 |-> IF i = 0 THEN <<>> ELSE KeepOne(h[i - 1], frames[i], listed)]
    BY <1>5, <1>6, KeepingStep
  <2>2. \A i \in 0..m - 1 : h[i] = IF i = 0 THEN <<>> ELSE KeepOne(h[i - 1], frames[i], listed)
    BY <2>1, Zenon
  <2>3. 0 \in 0..m - 1 /\ \A i \in 1..m - 1 : i \in 0..m - 1 /\ i # 0
    BY <1>5
  <2> QED BY <2>2, <2>3
<1>8. ASSUME NEW i \in 0..m PROVE g[i] = rhs[i]
  <2> HIDE DEF last
  <2>1. CASE i = 0
    BY <1>3, <1>4, <1>7, <2>1
  <2>2. CASE i = m
    <3>1. g[i - 1] = h[m - 1] /\ g[i] = last /\ i # 0
      BY <1>3, <1>4, <2>2
    <3>2. rhs[i] = KeepOne(g[i - 1], frames[i], listed)
      BY <3>1
    <3> HIDE DEF g, rhs
    <3> QED BY <2>2, <3>1, <3>2 DEF last
  <2>3. CASE i # 0 /\ i # m
    <3>1. i \in 1..m - 1 /\ i - 1 \in 0..m /\ i - 1 # m
      BY <1>3, <2>3
    <3>2. g[i] = h[i] /\ g[i - 1] = h[i - 1]
      BY <2>3, <3>1
    <3>3. rhs[i] = KeepOne(g[i - 1], frames[i], listed)
      BY <2>3
    <3> HIDE DEF g, rhs
    <3> QED BY <1>7, <3>1, <3>2, <3>3
  <2> QED BY <2>1, <2>2, <2>3
<1>9. g = rhs
  <2> HIDE DEF last
  <2>1. g = [i \in 0..m |-> g[i]] /\ rhs = [i \in 0..m |-> rhs[i]]
    OBVIOUS
  <2> HIDE DEF g, rhs
  <2> QED BY <1>8, <2>1
<1> HIDE DEF g
<1>10. Keeping(g, frames, listed, m)
  BY <1>3, <1>9, KeepingStep
<1> QED BY <1>3, <1>10

(* Collecting keeps every frame for a client in the map.                   *)
LEMMA ListedFacts ==
    ASSUME NEW frames \in Seq(Frames)
    PROVE  /\ Listed(frames) \in Seq(Frames)
           /\ \A j \in 1..Len(frames) : frames[j].to \in outbox =>
                 \E k \in 1..Len(Listed(frames)) : Listed(frames)[k] = frames[j]
<1> DEFINE N == Len(frames)
           g == CHOOSE h : Keeping(h, frames, outbox, N)
           Good(i) == /\ g[i] \in Seq(Frames)
                      /\ \A j \in 1..i : frames[j].to \in outbox =>
                            \E k \in 1..Len(g[i]) : g[i][k] = frames[j]
           Bad == {i \in Nat : i <= N /\ ~ Good(i)}
<1>1. N \in Nat
  OBVIOUS
<1>2. Listed(frames) = g[N]
  BY Zenon DEF Listed, Keeping
<1>3. Keeping(g, frames, outbox, N)
  BY <1>1, KeepingExists
<1>4. \A i \in 0..N : g[i] = IF i = 0 THEN <<>> ELSE KeepOne(g[i - 1], frames[i], outbox)
  <2> HIDE DEF N, g
  <2>1. g = [i \in 0..N |-> IF i = 0 THEN <<>> ELSE KeepOne(g[i - 1], frames[i], outbox)]
    BY <1>1, <1>3, KeepingStep
  <2> QED BY <2>1, Zenon
<1> HIDE DEF g
<1>5. SUFFICES Good(N)
  BY <1>2
<1>6. SUFFICES ASSUME N \in Bad PROVE FALSE
  BY <1>1
<1>7. PICK i \in Bad : \A k \in Bad : i <= k
  <2> HIDE DEF Bad
  <2>1. Bad \subseteq Nat
    BY DEF Bad
  <2> QED BY <1>6, <2>1, LeastNat
<1>8. i \in Nat /\ i <= N /\ ~ Good(i)
  BY <1>7
<1>9. i # 0
  <2>1. g[0] = <<>>
    BY <1>1, <1>4
  <2>2. Good(0)
    BY <2>1
  <2> HIDE DEF Good
  <2> QED BY <1>8, <2>2
<1>10. i \in 0..N /\ i - 1 \in Nat /\ i - 1 <= N
  BY <1>1, <1>8, <1>9
<1>11. Good(i - 1)
  <2>1. i - 1 \notin Bad
    <3> HIDE DEF Bad
    <3> QED BY <1>7, <1>8, <1>10
  <2> HIDE DEF Good, N
  <2> QED BY <1>10, <2>1
<1>12. g[i] = KeepOne(g[i - 1], frames[i], outbox)
  BY <1>4, <1>9, <1>10
<1>13. frames[i] \in Frames
  BY <1>8, <1>9
<1>14. CASE frames[i].to \in outbox
  <2>1. g[i] = Append(g[i - 1], frames[i])
    BY <1>12, <1>14 DEF KeepOne
  <2>2. /\ g[i] \in Seq(Frames) /\ Len(g[i]) = Len(g[i - 1]) + 1
        /\ g[i][Len(g[i])] = frames[i]
        /\ \A k \in 1..Len(g[i - 1]) : g[i][k] = g[i - 1][k]
    BY <1>11, <1>13, <2>1
  <2>3. ASSUME NEW j \in 1..i, frames[j].to \in outbox
        PROVE  \E k \in 1..Len(g[i]) : g[i][k] = frames[j]
    <3>1. CASE j = i
      BY <1>11, <2>2, <3>1
    <3>2. CASE j # i
      <4>1. j \in 1..i - 1
        BY <1>8, <3>2
      <4>2. PICK k \in 1..Len(g[i - 1]) : g[i - 1][k] = frames[j]
        BY <1>11, <2>3, <4>1
      <4>3. k \in 1..Len(g[i]) /\ g[i][k] = frames[j]
        BY <1>11, <2>2, <4>2
      <4> QED BY <4>3
    <3> QED BY <3>1, <3>2
  <2> QED BY <1>8, <2>2, <2>3
<1>15. CASE frames[i].to \notin outbox
  <2>1. g[i] = g[i - 1]
    BY <1>12, <1>15 DEF KeepOne
  <2>2. ASSUME NEW j \in 1..i, frames[j].to \in outbox
        PROVE  j \in 1..i - 1
    BY <1>8, <1>15, <2>2
  <2>3. Good(i)
    BY <1>11, <2>1, <2>2
  <2> HIDE DEF Good
  <2> QED BY <1>8, <2>3
<1> QED BY <1>14, <1>15

-----------------------------------------------------------------------------
(* Rows in frames.                                                         *)

LEMMA RowsOfCarries ==
    ASSUME NEW frames \in Seq(Frames), NEW c, NEW s, NEW n
    PROVE  n \in RowsOf(frames, c, s) <=> Carries(frames, c, s, n)
<1>1. DOMAIN frames = 1..Len(frames)
  OBVIOUS
<1> QED BY <1>1 DEF RowsOf, Carries, Range

LEMMA FrameKinds ==
    /\ \A f \in ChartFrames : ~ IsQuote(f) /\ f.to \in Clients /\ f.symbol \in Symbols
                              /\ f.rows \in SUBSET Nat
    /\ \A f \in QuoteFrames : IsQuote(f) /\ f.to \in Clients /\ f.symbol \in Symbols
    /\ \A f \in Frames : f.to \in Clients /\ (IsQuote(f) => f \in QuoteFrames)
                         /\ (~ IsQuote(f) => f \in ChartFrames)
  BY DEF ChartFrames, QuoteFrames, Frames, IsQuote

LEMMA EmptyCarries ==
    ASSUME NEW c, NEW s, NEW n
    PROVE  ~ Carries(<<>>, c, s, n)
  BY DEF Carries

(* A frame leaves the front of a sequence.                                 *)
LEMMA TailCarries ==
    ASSUME NEW T, NEW q \in Seq(T), q # <<>>, NEW c, NEW s, NEW n, Carries(q, c, s, n),
           ~ Carries(Tail(q), c, s, n)
    PROVE  Head(q).to = c /\ Head(q).symbol = s /\ ~ IsQuote(Head(q)) /\ n \in Head(q).rows
<1>1. PICK i \in 1..Len(q) : /\ q[i].to = c /\ q[i].symbol = s
                             /\ ~ IsQuote(q[i]) /\ n \in q[i].rows
  BY DEF Carries
<1>2. i = 1
  <2>1. SUFFICES ASSUME i # 1 PROVE FALSE
    OBVIOUS
  <2>2. i - 1 \in 1..Len(Tail(q)) /\ Tail(q)[i - 1] = q[i]
    BY <2>1
  <2> QED BY <1>1, <2>2 DEF Carries
<1>3. Head(q) = q[i]
  BY <1>2
<1> QED BY <1>1, <1>3

(* A frame is appended.                                                    *)
LEMMA AppendCarries ==
    ASSUME NEW T, NEW q \in Seq(T), NEW f \in T, NEW c, NEW s, NEW n
    PROVE  /\ Carries(q, c, s, n) => Carries(Append(q, f), c, s, n)
           /\ f.to = c /\ f.symbol = s /\ ~ IsQuote(f) /\ n \in f.rows
                => Carries(Append(q, f), c, s, n)
<1>1. /\ Len(Append(q, f)) = Len(q) + 1 /\ Len(q) \in Nat
      /\ Append(q, f)[Len(q) + 1] = f
      /\ \A i \in 1..Len(q) : Append(q, f)[i] = q[i]
  OBVIOUS
<1>2. \A i \in 1..Len(q) : i \in 1..Len(Append(q, f))
  BY <1>1
<1>3. Len(q) + 1 \in 1..Len(Append(q, f))
  BY <1>1
<1>4. Carries(q, c, s, n) => Carries(Append(q, f), c, s, n)
  BY <1>1, <1>2 DEF Carries
<1>5. ASSUME f.to = c, f.symbol = s, ~ IsQuote(f), n \in f.rows
      PROVE  Carries(Append(q, f), c, s, n)
  BY <1>1, <1>3, <1>5 DEF Carries
<1> QED BY <1>4, <1>5

LEMMA RowsInvSuffices ==
    ASSUME RegistryInv(reg), RelayType, RowsInv
    PROVE  RowsComplete
<1> SUFFICES ASSUME NEW key \in DOMAIN reg.charts, NEW c, c = key[1], ~ reg.charts[key].kline,
                    c \in outbox, \A t \in Tasks : c \notin task[t].stale,
                    NEW s \in reg.charts[key].symbols, NEW n \in Visible(s, reg.charts[key].width)
             PROVE  n \in got[c][s] \cup RowsOf(mailbox[c].reliable, c, s)
                             \cup UNION {RowsOf(task[t].hand, c, s) : t \in Tasks}
  BY DEF RowsComplete
<1>1. PICK id \in ChartIds : c \in Clients /\ key = <<c, id>> /\ s \in Symbols
  <2>1. key \in Clients \X ChartIds /\ reg.charts[key] \in Sources
    BY RegistryFields, IndexMember DEF RegistryInv
  <2>2. reg.charts[key].symbols \in SUBSET Symbols
    BY <2>1, RelayAssumption
  <2> QED BY <2>1, <2>2
<1>2. Held(c, s, n)
  <2>1. n \in 1..row[s] /\ row[s] - n < reg.charts[key].width /\ row[s] - n < ring[s]
    BY DEF Visible
  <2>2. Shows(reg, row[s], ring[s], c, s, n)
    BY <1>1, <2>1 DEF Shows
  <2> QED BY <1>1, <2>1, <2>2 DEF RowsInv, Due
<1>3. mailbox[c].reliable \in Seq(Frames)
  <2>1. mailbox[c].reliable \in Seq(ChartFrames)
    BY <1>1 DEF RelayType, Mailboxes
  <2> QED BY <2>1 DEF Frames
<1>4. \A t \in Tasks : task[t].hand \in Seq(Frames)
  BY DEF RelayType
<1>5. CASE Carries(mailbox[c].reliable, c, s, n)
  BY <1>3, <1>5, RowsOfCarries
<1>6. CASE \E t \in Tasks : Carries(task[t].hand, c, s, n)
  <2>1. PICK t \in Tasks : Carries(task[t].hand, c, s, n)
    BY <1>6
  <2>2. n \in RowsOf(task[t].hand, c, s)
    BY <1>4, <2>1, RowsOfCarries
  <2> QED BY <2>2
<1> QED BY <1>2, <1>5, <1>6 DEF Held

-----------------------------------------------------------------------------
(* Steps in general.                                                       *)

TaskRecords == [pc : ClientPcs \cup PumpPcs, hand : Seq(Frames), stale : SUBSET Clients]

LEMMA GotoFacts ==
    ASSUME task \in [Tasks -> TaskRecords], NEW t \in Tasks, NEW b \in ClientPcs \cup PumpPcs, Goto(t, b)
    PROVE  /\ task' \in [Tasks -> TaskRecords]
           /\ task'[t].pc = b
           /\ \A u \in Tasks : u # t => task'[u] = task[u]
           /\ \A u \in Tasks : task'[u].hand = task[u].hand /\ task'[u].stale = task[u].stale
<1>1. task' = [task EXCEPT ![t].pc = b]
  BY DEF Goto
<1>2. task[t] \in TaskRecords
  OBVIOUS
<1>3. [task[t] EXCEPT !.pc = b] \in TaskRecords
  BY <1>2 DEF TaskRecords
<1>4. /\ [task[t] EXCEPT !.pc = b].pc = b
      /\ [task[t] EXCEPT !.pc = b].hand = task[t].hand
      /\ [task[t] EXCEPT !.pc = b].stale = task[t].stale
  BY <1>2 DEF TaskRecords
<1>5. task' = [task EXCEPT ![t] = [task[t] EXCEPT !.pc = b]]
  BY <1>1
<1> QED BY <1>3, <1>4, <1>5

LEMMA TaskSetFacts ==
    ASSUME task \in [Tasks -> TaskRecords], NEW t \in Tasks, NEW new \in TaskRecords,
           task' = [task EXCEPT ![t] = new]
    PROVE  /\ task' \in [Tasks -> TaskRecords]
           /\ task'[t] = new
           /\ \A u \in Tasks : u # t => task'[u] = task[u]
  OBVIOUS

(* Rows that were in place stay in place.                                  *)
LEMMA RowsKept ==
    ASSUME RowsInv, row' = row,
           \A c \in Clients, s \in Symbols : \A n \in 1..row[s] :
              Due(c, s, n)' => Due(c, s, n) /\ (Held(c, s, n) => Held(c, s, n)')
    PROVE  RowsInv'
  BY DEF RowsInv

(* What is wanted stays charted while the pump and the tracked items stay. *)
LEMMA ChartedKept ==
    ASSUME ChartedInv, Wanted' \subseteq Wanted, Pending => Pending',
           In(Pump, "down") => In(Pump, "down")', In(Pump, "observe") => In(Pump, "observe")',
           In(Pump, "send") => In(Pump, "send")', tracked' = tracked, upstream' = upstream
    PROVE  ChartedInv'
  BY DEF ChartedInv

(* A task goes to another place and nothing it shares changes.             *)
LEMMA PcStepKeeps ==
    ASSUME CoreInv, NEW t \in Tasks, NEW b, Goto(t, b),
           UNCHANGED <<reg, row, ring, clientVars>>, signal' \in BOOLEAN,
           t = Pump => b \in PumpPcs,
           t \in Clients => b \in ClientPcs \ {"new", "unlist", "endsignal"},
           b = "gone" => task[t].pc = "endsignal",
           b \notin {"signal", "collect", "push"} => task[t].hand = <<>>,
           b \notin {"push", "expel"} => task[t].stale = {}
    PROVE  CoreInv'
<1>1. task \in [Tasks -> TaskRecords] /\ b \in ClientPcs \cup PumpPcs
  BY DEF CoreInv, RelayType, TaskRecords, Tasks
<1>2. /\ task' \in [Tasks -> TaskRecords]
      /\ task'[t].pc = b
      /\ \A u \in Tasks : u # t => task'[u] = task[u]
      /\ \A u \in Tasks : task'[u].hand = task[u].hand /\ task'[u].stale = task[u].stale
  BY <1>1, GotoFacts
<1>3. RelayType'
  BY <1>2 DEF CoreInv, RelayType, TaskRecords, clientVars
<1>4. TaskInv'
  BY <1>2 DEF CoreInv, TaskInv, Tasks
<1>5. ForgottenInv'
  <2> SUFFICES ASSUME NEW c \in Clients
               PROVE  /\ task'[c].pc \in {"new", "unlist", "endsignal", "gone"} => Forgotten(reg, c)
                      /\ task'[c].pc \in {"endsignal", "gone"} => c \notin outbox
    BY DEF ForgottenInv, clientVars
  <2>1. c \in Tasks
    BY DEF Tasks
  <2> QED BY <1>2, <2>1 DEF CoreInv, ForgottenInv
<1>6. RowsInv'
  <2>1. \A c \in Clients, s \in Symbols : \A n \in 1..row[s] : Due(c, s, n)' => Due(c, s, n)
    BY <1>2 DEF Due, clientVars
  <2>2. \A c \in Clients, s \in Symbols : \A n \in 1..row[s] : Held(c, s, n) => Held(c, s, n)'
    BY <1>2 DEF Held, clientVars
  <2> QED BY <2>1, <2>2, RowsKept DEF CoreInv
<1> QED BY <1>3, <1>4, <1>5, <1>6 DEF CoreInv

-----------------------------------------------------------------------------
(* The initial state and the steps of a client's task.                     *)

LEMMA PumpIsNoClient == Pump \notin Clients /\ Pump \in Tasks /\ Clients \subseteq Tasks
  BY RelayAssumption DEF Tasks

LEMMA RelayInitKeeps == Init => RelayInv
<1> SUFFICES ASSUME Init PROVE RelayInv
  OBVIOUS
<1>1. RegistryInv(reg)
  BY EmptyRegistryFacts DEF Init
<1>2. DOMAIN reg.quotes = {} /\ DOMAIN reg.charts = {}
  BY DEF Init, EmptyRegistry, NoIndex
<1>3. \A t \in Tasks : task[t] = Idle(IF t = Pump THEN "down" ELSE "new")
  BY DEF Init
<1>4. \A t \in Tasks : /\ task[t].pc = IF t = Pump THEN "down" ELSE "new"
                       /\ task[t].hand = <<>> /\ task[t].stale = {}
  <2>1. \A pc : Idle(pc).pc = pc /\ Idle(pc).hand = <<>> /\ Idle(pc).stale = {}
    BY DEF Idle
  <2> QED BY <1>3, <2>1
<1>5. RelayType
  <2>1. EmptyMailbox \in Mailboxes
    BY DEF EmptyMailbox, Mailboxes
  <2>2. \A t \in Tasks : Idle(IF t = Pump THEN "down" ELSE "new")
                           \in [pc : ClientPcs \cup PumpPcs, hand : Seq(Frames), stale : SUBSET Clients]
    BY DEF Idle, ClientPcs, PumpPcs
  <2> QED BY <2>1, <2>2 DEF Init, RelayType
<1>6. TaskInv
  BY <1>4, PumpIsNoClient DEF TaskInv, ClientPcs, PumpPcs
<1>7. ForgottenInv
  BY <1>2, <1>4, PumpIsNoClient DEF ForgottenInv, Forgotten
<1>8. RowsInv
  BY <1>2 DEF RowsInv, Due, Shows
<1>9. ChartedInv
  BY <1>4, PumpIsNoClient DEF ChartedInv, In
<1> QED BY <1>1, <1>5, <1>6, <1>7, <1>8, <1>9 DEF RelayInv, CoreInv

(* A new mailbox belongs to a client without charts.                       *)
LEMMA AcceptKeeps ==
    ASSUME RelayInv, NEW c \in Clients, Accept(c)
    PROVE  RelayInv'
<1> USE PumpIsNoClient
<1>1. task \in [Tasks -> TaskRecords] /\ c \in Tasks /\ c # Pump
  BY DEF RelayInv, CoreInv, RelayType, TaskRecords
<1>2. Goto(c, "loop") /\ task[c].pc = "new" /\ outbox' = outbox \cup {c}
  BY DEF Accept, In
<1>3. reg' = reg /\ row' = row /\ ring' = ring /\ signal' = signal /\ mailbox' = mailbox /\ got' = got
      /\ tracked' = tracked /\ upstream' = upstream
  BY DEF Accept, pumpVars
<1>4. /\ task' \in [Tasks -> TaskRecords]
      /\ task'[c].pc = "loop"
      /\ \A u \in Tasks : u # c => task'[u] = task[u]
      /\ \A u \in Tasks : task'[u].hand = task[u].hand /\ task'[u].stale = task[u].stale
  BY <1>1, <1>2, GotoFacts DEF ClientPcs
<1>5. RelayType'
  BY <1>2, <1>3, <1>4 DEF RelayInv, CoreInv, RelayType, TaskRecords
<1>6. TaskInv'
  BY <1>1, <1>2, <1>4 DEF RelayInv, CoreInv, TaskInv, ClientPcs
<1>7. ForgottenInv'
  <2> SUFFICES ASSUME NEW d \in Clients
               PROVE  /\ task'[d].pc \in {"new", "unlist", "endsignal", "gone"} => Forgotten(reg, d)
                      /\ task'[d].pc \in {"endsignal", "gone"} => d \notin outbox'
    BY <1>3 DEF ForgottenInv
  <2> QED BY <1>2, <1>4 DEF RelayInv, CoreInv, ForgottenInv
<1>8. RowsInv'
  <2>1. Forgotten(reg, c)
    BY <1>2 DEF RelayInv, CoreInv, ForgottenInv
  <2>2. ASSUME NEW d \in Clients, NEW s \in Symbols, NEW n \in 1..row[s], Due(d, s, n)'
        PROVE  Due(d, s, n)
    <3>1. Shows(reg, row[s], ring[s], d, s, n) /\ d \in outbox \cup {c}
      BY <1>2, <1>3, <2>2 DEF Due
    <3>2. d # c
      BY <2>1, <3>1 DEF Forgotten, Shows
    <3> QED BY <1>4, <2>2, <3>1, <3>2 DEF Due
  <2>3. \A d \in Clients, s \in Symbols : \A n \in 1..row[s] : Held(d, s, n) => Held(d, s, n)'
    BY <1>3, <1>4 DEF Held
  <2> QED BY <1>3, <2>2, <2>3, RowsKept DEF RelayInv, CoreInv
<1>9. ChartedInv'
  <2>1. Wanted' = Wanted
    BY <1>3 DEF Wanted, ChartSymbols, QuotedSymbols
  <2>2. Pending => Pending'
    BY <1>2, <1>3, <1>4 DEF Pending, In
  <2> QED BY <1>1, <1>3, <1>4, <2>1, <2>2, ChartedKept DEF RelayInv, In
<1> QED BY <1>3, <1>5, <1>6, <1>7, <1>8, <1>9 DEF RelayInv, CoreInv

(* A command: the pump will hear of it, and the frames of the answer       *)
(* carry the rows of what the command newly shows.                         *)
LEMMA CommandKeeps ==
    ASSUME RelayInv, NEW c \in Clients, NEW next, NEW frames \in Seq(Frames),
           Command(c, next, frames), RegistryInv(next),
           \A d \in Clients : d # c /\ Forgotten(reg, d) => Forgotten(next, d),
           \A d \in Clients, s \in Symbols : \A n \in 1..row[s] :
              Shows(next, row[s], ring[s], d, s, n) =>
                 Shows(reg, row[s], ring[s], d, s, n) \/ (d = c /\ Carries(frames, c, s, n))
    PROVE  RelayInv'
<1> USE PumpIsNoClient
<1> DEFINE new == [pc |-> "signal", hand |-> frames, stale |-> {}]
<1>1. task \in [Tasks -> TaskRecords] /\ c \in Tasks /\ c # Pump
  BY DEF RelayInv, CoreInv, RelayType, TaskRecords
<1>2. task' = [task EXCEPT ![c] = new] /\ task[c].pc = "loop"
  BY DEF Command, In
<1>3. reg' = next /\ row' = row /\ ring' = ring /\ signal' = signal /\ outbox' = outbox /\ mailbox' = mailbox
      /\ got' = got /\ tracked' = tracked /\ upstream' = upstream
  BY DEF Command, clientVars, pumpVars
<1>4. /\ task' \in [Tasks -> TaskRecords]
      /\ task'[c].pc = "signal" /\ task'[c].hand = frames /\ task'[c].stale = {}
      /\ \A u \in Tasks : u # c => task'[u] = task[u]
  <2>1. new \in TaskRecords
    BY DEF TaskRecords, ClientPcs
  <2>2. new.pc = "signal" /\ new.hand = frames /\ new.stale = {}
    OBVIOUS
  <2> HIDE DEF new
  <2> QED BY <1>1, <1>2, <2>1, <2>2, TaskSetFacts
<1>5. task[c].hand = <<>> /\ task[c].stale = {}
  BY <1>1, <1>2 DEF RelayInv, CoreInv, TaskInv
<1>6. RelayType'
  BY <1>3, <1>4 DEF RelayInv, CoreInv, RelayType, TaskRecords
<1>7. TaskInv'
  BY <1>1, <1>4 DEF RelayInv, CoreInv, TaskInv, ClientPcs
<1>8. ForgottenInv'
  <2> SUFFICES ASSUME NEW d \in Clients
               PROVE  /\ task'[d].pc \in {"new", "unlist", "endsignal", "gone"} => Forgotten(next, d)
                      /\ task'[d].pc \in {"endsignal", "gone"} => d \notin outbox
    BY <1>3 DEF ForgottenInv
  <2> QED BY <1>4 DEF RelayInv, CoreInv, ForgottenInv
<1>9. RowsInv'
  <2> SUFFICES ASSUME NEW d \in Clients, NEW s \in Symbols, NEW n \in 1..row[s], Due(d, s, n)'
               PROVE  Held(d, s, n)'
    BY <1>3 DEF RowsInv
  <2>1. Shows(next, row[s], ring[s], d, s, n) /\ d \in outbox
        /\ \A t \in Tasks : d \notin task'[t].stale
    BY <1>3 DEF Due
  <2>2. CASE Shows(reg, row[s], ring[s], d, s, n)
    <3>1. Due(d, s, n)
      BY <1>4, <1>5, <2>1, <2>2 DEF Due
    <3>2. Held(d, s, n)
      BY <3>1 DEF RelayInv, CoreInv, RowsInv
    <3>3. ~ Carries(task[c].hand, d, s, n)
      BY <1>5, EmptyCarries
    <3> QED BY <1>3, <1>4, <3>2, <3>3 DEF Held
  <2>3. CASE d = c /\ Carries(frames, c, s, n)
    BY <1>1, <1>4, <2>3 DEF Held
  <2> QED BY <2>1, <2>2, <2>3
<1>10. ChartedInv'
  <2>1. Pending'
    BY <1>4 DEF Pending, In
  <2> QED BY <2>1 DEF ChartedInv
<1> QED BY <1>3, <1>6, <1>7, <1>8, <1>9, <1>10 DEF RelayInv, CoreInv

LEMMA SubscribeQuoteKeeps ==
    ASSUME RelayInv, NEW c \in Clients, NEW symbols \in SUBSET Symbols, SubscribeQuote(c, symbols)
    PROVE  RelayInv'
<1> DEFINE next == SetQuotes(reg, c, symbols)
           told == {s \in symbols : ring[s] > 0}
           h == [s \in told |-> QuoteOf(c, s, row[s])]
           S == {h[s] : s \in told}
<1>1. RegistryInv(next) /\ next.charts = reg.charts /\ next.quotes = Put(reg.quotes, c, symbols)
  BY SetQuotesFacts DEF RelayInv, CoreInv
<1>2. IsFiniteSet(S)
  <2>1. IsFiniteSet(told)
    BY RelayAssumption, FS_Subset
  <2> HIDE DEF told, h
  <2> QED BY <2>1, ImageFinite
<1>3. S \in SUBSET Frames
  <2>1. ASSUME NEW s \in told PROVE h[s] \in Frames
    <3>1. row[s] \in Nat /\ s \in Symbols
      BY DEF RelayInv, CoreInv, RelayType
    <3>2. QuoteOf(c, s, row[s]) \in QuoteFrames
      BY <3>1 DEF QuoteOf, QuoteFrames
    <3> QED BY <3>2 DEF Frames
  <2> QED BY <2>1
<1>4. {QuoteOf(c, s, row[s]) : s \in told} = S
  OBVIOUS
<1>5. Command(c, next, SetToSeq(S))
  BY <1>4 DEF SubscribeQuote
<1> HIDE DEF S, next
<1>6. SetToSeq(S) \in Seq(Frames)
  BY <1>2, <1>3, SetToSeqIsListing, ListingFacts
<1>7. \A d \in Clients : d # c /\ Forgotten(reg, d) => Forgotten(next, d)
  BY <1>1, PutAt DEF Forgotten
<1>8. \A last, size, d, s, n : Shows(next, last, size, d, s, n) => Shows(reg, last, size, d, s, n)
  BY <1>1 DEF Shows
<1> QED BY <1>1, <1>5, <1>6, <1>7, <1>8, CommandKeeps

(* A chart that is set comes with all rows of its window.                  *)
LEMMA SetChartKeeps ==
    ASSUME RelayInv, NEW c \in Clients, NEW id \in ChartIds, NEW source \in Sources,
           SetChartCommand(c, id, source)
    PROVE  RelayInv'
<1> DEFINE next == SetChart(reg, c, id, source)
           h == [s \in source.symbols |-> Rows(c, s, Visible(s, source.width))]
           S == {h[s] : s \in source.symbols}
           frames == IF source.kline THEN <<>> ELSE SetToSeq(S)
<1>1. RegistryInv(next) /\ next.quotes = reg.quotes
      /\ next.charts = Put(Drop(reg.charts, {<<c, id>>}), <<c, id>>, source)
  BY SetChartFacts DEF RelayInv, CoreInv
<1>2. source.symbols \in SUBSET Symbols
  BY RelayAssumption
<1>3. IsFiniteSet(S)
  <2>1. IsFiniteSet(source.symbols)
    BY <1>2, RelayAssumption, FS_Subset
  <2> HIDE DEF h
  <2> QED BY <2>1, ImageFinite
<1>4. S \in SUBSET Frames
  <2>1. ASSUME NEW s \in source.symbols PROVE h[s] \in Frames
    <3>1. row[s] \in Nat /\ s \in Symbols
      BY <1>2 DEF RelayInv, CoreInv, RelayType
    <3>2. Rows(c, s, Visible(s, source.width)) \in ChartFrames
      BY <3>1 DEF Rows, ChartFrames, Visible
    <3> QED BY <3>2 DEF Frames
  <2> QED BY <2>1
<1>5. {Rows(c, s, Visible(s, source.width)) : s \in source.symbols} = S
  OBVIOUS
<1>6. Command(c, next, frames)
  BY <1>5 DEF SetChartCommand
<1>7. \A s \in source.symbols : Rows(c, s, Visible(s, source.width)) \in S
  OBVIOUS
<1> HIDE DEF S, next
<1>8. /\ SetToSeq(S) \in Seq(Frames)
      /\ \A f \in S : \E i \in 1..Len(SetToSeq(S)) : SetToSeq(S)[i] = f
  BY <1>3, <1>4, SetToSeqIsListing, ListingFacts
<1>9. frames \in Seq(Frames)
  BY <1>8
<1>10. /\ \A k : k \in DOMAIN next.charts <=> k \in DOMAIN reg.charts \/ k = <<c, id>>
       /\ \A k \in DOMAIN next.charts :
             next.charts[k] = IF k = <<c, id>> THEN source ELSE reg.charts[k]
  BY <1>1, PutAt, DropAt
<1>11. \A d \in Clients : d # c /\ Forgotten(reg, d) => Forgotten(next, d)
  BY <1>1, <1>10 DEF Forgotten
<1>12. ASSUME NEW d \in Clients, NEW s \in Symbols, NEW n \in 1..row[s],
              Shows(next, row[s], ring[s], d, s, n)
       PROVE  Shows(reg, row[s], ring[s], d, s, n) \/ (d = c /\ Carries(frames, c, s, n))
  <2>1. PICK i \in ChartIds : /\ <<d, i>> \in DOMAIN next.charts
                              /\ ~ next.charts[<<d, i>>].kline
                              /\ s \in next.charts[<<d, i>>].symbols
                              /\ row[s] - n < next.charts[<<d, i>>].width /\ row[s] - n < ring[s]
    BY <1>12 DEF Shows
  <2>2. CASE <<d, i>> # <<c, id>>
    BY <1>10, <2>1, <2>2 DEF Shows
  <2>3. CASE <<d, i>> = <<c, id>>
    <3>1. d = c /\ ~ source.kline /\ s \in source.symbols
      BY <1>10, <2>1, <2>3
    <3>2. PICK j \in 1..Len(SetToSeq(S)) : SetToSeq(S)[j] = Rows(c, s, Visible(s, source.width))
      BY <1>7, <1>8, <3>1
    <3>3. frames = SetToSeq(S)
      BY <3>1
    <3>4. /\ frames[j].to = c /\ frames[j].symbol = s /\ ~ IsQuote(frames[j])
          /\ frames[j].rows = Visible(s, source.width)
      BY <3>2, <3>3 DEF Rows, IsQuote
    <3> HIDE DEF frames
    <3>5. n \in frames[j].rows
      BY <1>10, <2>1, <2>3, <3>4 DEF Visible
    <3>6. Carries(frames, c, s, n)
      BY <3>2, <3>3, <3>4, <3>5 DEF Carries
    <3> QED BY <3>1, <3>6
  <2> QED BY <2>2, <2>3
<1> HIDE DEF frames
<1> QED BY <1>1, <1>6, <1>9, <1>11, <1>12, CommandKeeps

LEMMA RemoveChartKeeps ==
    ASSUME RelayInv, NEW c \in Clients, NEW id \in ChartIds, RemoveChartCommand(c, id)
    PROVE  RelayInv'
<1> DEFINE next == RemoveChart(reg, c, id)
<1>1. RegistryInv(next) /\ next.quotes = reg.quotes /\ next.charts = Drop(reg.charts, {<<c, id>>})
  BY RemoveChartFacts DEF RelayInv, CoreInv
<1>2. PICK s \in Symbols : Command(c, next, <<Rows(c, s, {})>>)
  BY DEF RemoveChartCommand
<1>3. <<Rows(c, s, {})>> \in Seq(Frames)
  <2>1. Rows(c, s, {}) \in Frames
    BY DEF Rows, Frames, ChartFrames
  <2> QED BY <2>1
<1> HIDE DEF next
<1>4. /\ \A k \in DOMAIN next.charts : k \in DOMAIN reg.charts /\ next.charts[k] = reg.charts[k]
  BY <1>1, DropAt
<1>5. \A d \in Clients : d # c /\ Forgotten(reg, d) => Forgotten(next, d)
  BY <1>1, <1>4 DEF Forgotten
<1>6. \A last, size, d, u, n : Shows(next, last, size, d, u, n) => Shows(reg, last, size, d, u, n)
  BY <1>4 DEF Shows
<1> QED BY <1>1, <1>2, <1>3, <1>5, <1>6, CommandKeeps

(* A frame that is received is no longer in the mailbox.                   *)
LEMMA ReceiveKeeps ==
    ASSUME RelayInv, NEW c \in Clients, Receive(c)
    PROVE  RelayInv'
<1> DEFINE m == mailbox[c]
           f == Head(m.reliable)
<1>1. reg' = reg /\ row' = row /\ ring' = ring /\ signal' = signal /\ task' = task /\ outbox' = outbox
      /\ tracked' = tracked /\ upstream' = upstream
  BY DEF Receive, pumpVars
<1>2. /\ mailbox \in [Clients -> Mailboxes] /\ got \in [Clients -> [Symbols -> SUBSET Nat]]
      /\ m.reliable \in Seq(ChartFrames) /\ m.quotes \in Seq(QuoteFrames)
  BY DEF RelayInv, CoreInv, RelayType, Mailboxes
<1>3. /\ mailbox' \in [Clients -> Mailboxes] /\ got' \in [Clients -> [Symbols -> SUBSET Nat]]
      /\ \A d \in Clients, s \in Symbols : \A n \in 1..row[s] : Held(d, s, n) => Held(d, s, n)'
  <2>1. CASE /\ m.reliable # <<>>
             /\ mailbox' = [mailbox EXCEPT ![c].reliable = Tail(@)]
             /\ got' = [got EXCEPT ![c][f.symbol] = @ \cup f.rows]
    <3>1. f \in ChartFrames /\ Tail(m.reliable) \in Seq(ChartFrames)
      BY <1>2, <2>1
    <3>2. f.symbol \in Symbols /\ f.rows \in SUBSET Nat
      BY <3>1, FrameKinds
    <3>3. /\ mailbox' \in [Clients -> Mailboxes]
          /\ mailbox'[c].reliable = Tail(m.reliable)
          /\ \A d \in Clients : d # c => mailbox'[d] = mailbox[d]
      BY <1>2, <2>1, <3>1 DEF Mailboxes
    <3> HIDE DEF f
    <3>4. /\ got' \in [Clients -> [Symbols -> SUBSET Nat]]
          /\ got'[c][f.symbol] = got[c][f.symbol] \cup f.rows
          /\ \A s \in Symbols : s # f.symbol => got'[c][s] = got[c][s]
          /\ \A d \in Clients : d # c => got'[d] = got[d]
      BY <1>2, <2>1, <3>2
    <3>5. ASSUME NEW d \in Clients, NEW s \in Symbols, NEW n \in 1..row[s], Held(d, s, n)
          PROVE  Held(d, s, n)'
      <4>1. n \in got[d][s] => n \in got'[d][s]
        BY <3>4
      <4>2. CASE Carries(mailbox[d].reliable, d, s, n)
        <5>1. CASE d # c
          BY <3>3, <4>2, <5>1 DEF Held
        <5>2. CASE d = c /\ Carries(Tail(m.reliable), d, s, n)
          BY <3>3, <5>2 DEF Held
        <5>3. CASE d = c /\ ~ Carries(Tail(m.reliable), d, s, n)
          <6>1. f.symbol = s /\ n \in f.rows
            BY <1>2, <2>1, <4>2, <5>3, TailCarries DEF f
          <6>2. n \in got'[d][s]
            BY <3>4, <5>3, <6>1
          <6> QED BY <6>2 DEF Held
        <5> QED BY <5>1, <5>2, <5>3
      <4>3. CASE \E t \in Tasks : Carries(task[t].hand, d, s, n)
        BY <1>1, <4>3 DEF Held
      <4> QED BY <3>5, <4>1, <4>2, <4>3 DEF Held
    <3> QED BY <3>3, <3>4, <3>5
  <2>2. CASE /\ m.quotes # <<>>
             /\ mailbox' = [mailbox EXCEPT ![c].quotes = Tail(@)]
             /\ got' = got
    <3>1. Tail(m.quotes) \in Seq(QuoteFrames)
      BY <1>2, <2>2
    <3>2. /\ mailbox' \in [Clients -> Mailboxes]
          /\ \A d \in Clients : mailbox'[d].reliable = mailbox[d].reliable
      BY <1>2, <2>2, <3>1 DEF Mailboxes
    <3> QED BY <1>1, <1>2, <2>2, <3>2 DEF Held
  <2>3. \/ /\ m.reliable # <<>>
           /\ mailbox' = [mailbox EXCEPT ![c].reliable = Tail(@)]
           /\ got' = [got EXCEPT ![c][f.symbol] = @ \cup f.rows]
        \/ /\ m.quotes # <<>>
           /\ mailbox' = [mailbox EXCEPT ![c].quotes = Tail(@)]
           /\ got' = got
    BY DEF Receive
  <2> QED BY <2>1, <2>2, <2>3
<1>4. RelayType'
  BY <1>1, <1>3 DEF RelayInv, CoreInv, RelayType
<1>5. TaskInv' /\ ForgottenInv'
  BY <1>1 DEF RelayInv, CoreInv, TaskInv, ForgottenInv
<1>6. RowsInv'
  <2>1. \A d \in Clients, s \in Symbols : \A n \in 1..row[s] : Due(d, s, n)' => Due(d, s, n)
    BY <1>1 DEF Due
  <2> QED BY <1>1, <1>3, <2>1, RowsKept DEF RelayInv, CoreInv
<1>7. ChartedInv'
  BY <1>1 DEF RelayInv, ChartedInv, Wanted, Pending, In
<1> QED BY <1>1, <1>4, <1>5, <1>6, <1>7 DEF RelayInv, CoreInv

LEMMA EndServeKeeps ==
    ASSUME RelayInv, NEW c \in Clients, EndServe(c)
    PROVE  RelayInv'
<1> USE PumpIsNoClient
<1>1. /\ Goto(c, "end") /\ task[c].pc = "loop" /\ c \in Tasks /\ c # Pump
      /\ UNCHANGED <<reg, row, ring, clientVars>> /\ signal' = signal
      /\ tracked' = tracked /\ upstream' = upstream
  BY DEF EndServe, In, pumpVars
<1>2. task[c].hand = <<>> /\ task[c].stale = {} /\ signal' \in BOOLEAN
  BY <1>1 DEF RelayInv, CoreInv, TaskInv, RelayType
<1>3. CoreInv'
  BY <1>1, <1>2, PcStepKeeps DEF RelayInv, ClientPcs
<1>4. \A u \in Tasks : u # c => task'[u] = task[u]
  BY <1>1, GotoFacts DEF RelayInv, CoreInv, RelayType, TaskRecords, ClientPcs
<1>5. ChartedInv'
  <2>1. Pending => Pending'
    BY <1>1, <1>4 DEF Pending, In
  <2>2. Wanted' = Wanted
    BY <1>1 DEF Wanted
  <2> QED BY <1>1, <1>4, <2>1, <2>2, ChartedKept DEF RelayInv, In
<1> QED BY <1>3, <1>5 DEF RelayInv

(* Who leaves a registry shows nothing, the others what they showed.       *)
LEMMA DroppedFacts ==
    ASSUME NEW r, NEW n, NEW cs, n.quotes = Drop(r.quotes, cs), n.charts = Drop(r.charts, cs \X ChartIds)
    PROVE  /\ \A c \in cs : Forgotten(n, c)
           /\ \A c : Forgotten(r, c) => Forgotten(n, c)
           /\ \A last, size, c, s, k : Shows(n, last, size, c, s, k) =>
                 Shows(r, last, size, c, s, k) /\ c \notin cs
<1>1. /\ \A k : k \in DOMAIN n.quotes <=> k \in DOMAIN r.quotes /\ k \notin cs
      /\ \A k : k \in DOMAIN n.charts <=> k \in DOMAIN r.charts /\ k \notin cs \X ChartIds
      /\ \A k \in DOMAIN n.charts : n.charts[k] = r.charts[k]
  BY DropAt
<1>2. \A last, size, c, s, k : Shows(n, last, size, c, s, k) =>
         Shows(r, last, size, c, s, k) /\ c \notin cs
  <2> SUFFICES ASSUME NEW last, NEW size, NEW c, NEW s, NEW k, Shows(n, last, size, c, s, k)
               PROVE  Shows(r, last, size, c, s, k) /\ c \notin cs
    OBVIOUS
  <2>1. PICK id \in ChartIds : /\ <<c, id>> \in DOMAIN n.charts
                               /\ ~ n.charts[<<c, id>>].kline
                               /\ s \in n.charts[<<c, id>>].symbols
                               /\ last - k < n.charts[<<c, id>>].width /\ last - k < size
    BY DEF Shows
  <2>2. <<c, id>> \in DOMAIN r.charts /\ n.charts[<<c, id>>] = r.charts[<<c, id>>] /\ c \notin cs
    BY <1>1, <2>1
  <2> QED BY <2>1, <2>2 DEF Shows
<1>3. \A c \in cs : Forgotten(n, c)
  BY <1>1 DEF Forgotten
<1>4. \A c : Forgotten(r, c) => Forgotten(n, c)
  BY <1>1 DEF Forgotten
<1> QED BY <1>2, <1>3, <1>4

LEMMA RemoveServedKeeps ==
    ASSUME RelayInv, NEW c \in Clients, RemoveServed(c)
    PROVE  RelayInv'
<1> USE PumpIsNoClient
<1> DEFINE next == RemoveClient(reg, c)
<1>1. task \in [Tasks -> TaskRecords] /\ c \in Tasks /\ c # Pump
  BY DEF RelayInv, CoreInv, RelayType, TaskRecords
<1>2. Goto(c, "unlist") /\ task[c].pc = "end" /\ reg' = next
  BY DEF RemoveServed, In
<1>3. row' = row /\ ring' = ring /\ signal' = signal /\ outbox' = outbox /\ mailbox' = mailbox /\ got' = got
      /\ tracked' = tracked /\ upstream' = upstream
  BY DEF RemoveServed, clientVars, pumpVars
<1>4. /\ task' \in [Tasks -> TaskRecords]
      /\ task'[c].pc = "unlist"
      /\ \A u \in Tasks : u # c => task'[u] = task[u]
      /\ \A u \in Tasks : task'[u].hand = task[u].hand /\ task'[u].stale = task[u].stale
  BY <1>1, <1>2, GotoFacts DEF ClientPcs
<1>5. /\ RegistryInv(reg) /\ RegistryInv(next) /\ next.quotes = Drop(reg.quotes, {c})
      /\ next.charts = Drop(reg.charts, {c} \X ChartIds)
  BY RemoveClientFacts DEF RelayInv, CoreInv
<1> HIDE DEF next
<1>6. RelayType'
  BY <1>3, <1>4 DEF RelayInv, CoreInv, RelayType, TaskRecords
<1>7. TaskInv'
  BY <1>1, <1>2, <1>4 DEF RelayInv, CoreInv, TaskInv, ClientPcs
<1>8. ForgottenInv'
  <2>1. Forgotten(next, c) /\ \A d \in Clients : Forgotten(reg, d) => Forgotten(next, d)
    BY <1>5, DroppedFacts
  <2> SUFFICES ASSUME NEW d \in Clients
               PROVE  /\ task'[d].pc \in {"new", "unlist", "endsignal", "gone"} => Forgotten(next, d)
                      /\ task'[d].pc \in {"endsignal", "gone"} => d \notin outbox
    BY <1>2, <1>3 DEF ForgottenInv
  <2> QED BY <1>4, <2>1 DEF RelayInv, CoreInv, ForgottenInv
<1>9. RowsInv'
  <2>1. \A last, size, d, s, n : Shows(next, last, size, d, s, n) => Shows(reg, last, size, d, s, n)
    BY <1>5, DroppedFacts
  <2>2. \A d \in Clients, s \in Symbols : \A n \in 1..row[s] : Due(d, s, n)' => Due(d, s, n)
    BY <1>2, <1>3, <1>4, <2>1 DEF Due
  <2>3. \A d \in Clients, s \in Symbols : \A n \in 1..row[s] : Held(d, s, n) => Held(d, s, n)'
    BY <1>3, <1>4 DEF Held
  <2> QED BY <1>3, <2>2, <2>3, RowsKept DEF RelayInv, CoreInv
<1>10. ChartedInv'
  <2>1. Wanted' \subseteq Wanted
    <3>1. WantedIn(next) \subseteq WantedIn(reg)
      BY <1>5, FewerWanted
    <3>2. Wanted = WantedIn(reg) /\ Wanted' = WantedIn(next)
      BY <1>2 DEF Wanted, WantedIn
    <3> QED BY <3>1, <3>2
  <2>2. Pending => Pending'
    BY <1>2, <1>3, <1>4 DEF Pending, In
  <2> QED BY <1>1, <1>3, <1>4, <2>1, <2>2, ChartedKept DEF RelayInv, In
<1> QED BY <1>2, <1>5, <1>6, <1>7, <1>8, <1>9, <1>10 DEF RelayInv, CoreInv

LEMMA UnlistKeeps ==
    ASSUME RelayInv, NEW c \in Clients, Unlist(c)
    PROVE  RelayInv'
<1> USE PumpIsNoClient
<1>1. task \in [Tasks -> TaskRecords] /\ c \in Tasks /\ c # Pump
      /\ mailbox \in [Clients -> Mailboxes]
  BY DEF RelayInv, CoreInv, RelayType, TaskRecords
<1>2. /\ Goto(c, "endsignal") /\ task[c].pc = "unlist" /\ outbox' = outbox \ {c}
      /\ mailbox' = [mailbox EXCEPT ![c].closed = TRUE]
  BY DEF Unlist, In
<1>3. reg' = reg /\ row' = row /\ ring' = ring /\ signal' = signal /\ got' = got
      /\ tracked' = tracked /\ upstream' = upstream
  BY DEF Unlist, pumpVars
<1>4. /\ task' \in [Tasks -> TaskRecords]
      /\ task'[c].pc = "endsignal"
      /\ \A u \in Tasks : u # c => task'[u] = task[u]
      /\ \A u \in Tasks : task'[u].hand = task[u].hand /\ task'[u].stale = task[u].stale
  BY <1>1, <1>2, GotoFacts DEF ClientPcs
<1>5. /\ mailbox' \in [Clients -> Mailboxes]
      /\ \A d \in Clients : mailbox'[d].reliable = mailbox[d].reliable
  BY <1>1, <1>2 DEF Mailboxes
<1>6. RelayType'
  BY <1>2, <1>3, <1>4, <1>5 DEF RelayInv, CoreInv, RelayType, TaskRecords
<1>7. TaskInv'
  BY <1>1, <1>2, <1>4 DEF RelayInv, CoreInv, TaskInv, ClientPcs
<1>8. ForgottenInv'
  <2> SUFFICES ASSUME NEW d \in Clients
               PROVE  /\ task'[d].pc \in {"new", "unlist", "endsignal", "gone"} => Forgotten(reg, d)
                      /\ task'[d].pc \in {"endsignal", "gone"} => d \notin outbox'
    BY <1>3 DEF ForgottenInv
  <2> QED BY <1>2, <1>4 DEF RelayInv, CoreInv, ForgottenInv
<1>9. RowsInv'
  <2>1. \A d \in Clients, s \in Symbols : \A n \in 1..row[s] : Due(d, s, n)' => Due(d, s, n)
    BY <1>2, <1>3, <1>4 DEF Due
  <2>2. \A d \in Clients, s \in Symbols : \A n \in 1..row[s] : Held(d, s, n) => Held(d, s, n)'
    BY <1>3, <1>4, <1>5 DEF Held
  <2> QED BY <1>3, <2>1, <2>2, RowsKept DEF RelayInv, CoreInv
<1>10. ChartedInv'
  <2>1. Wanted' = Wanted
    BY <1>3 DEF Wanted
  <2>2. Pending => Pending'
    BY <1>2, <1>3, <1>4 DEF Pending, In
  <2> QED BY <1>1, <1>3, <1>4, <2>1, <2>2, ChartedKept DEF RelayInv, In
<1> QED BY <1>3, <1>6, <1>7, <1>8, <1>9, <1>10 DEF RelayInv, CoreInv

-----------------------------------------------------------------------------
(* The delivery of frames.                                                 *)

LEMMA SignalKeeps ==
    ASSUME RelayInv, NEW t \in Tasks, Signal(t)
    PROVE  RelayInv'
<1> USE PumpIsNoClient
<1> DEFINE b == CASE In(t, "signal") -> "collect"
                  [] In(t, "kicksignal") -> "loop"
                  [] In(t, "endsignal") -> "gone"
<1>1. /\ task[t].pc \in {"signal", "kicksignal", "endsignal"} /\ Goto(t, b)
      /\ UNCHANGED <<reg, row, ring, clientVars>> /\ signal' = TRUE
  BY DEF Signal
<1>2. /\ b \in {"collect", "loop", "gone"}
      /\ b = "collect" <=> task[t].pc = "signal"
      /\ b = "gone" <=> task[t].pc = "endsignal"
  BY <1>1 DEF In
<1>3. t = Pump \/ t \in Clients
  BY DEF Tasks
<1>4. t = Pump => b = "loop"
  BY <1>1, <1>2 DEF RelayInv, CoreInv, TaskInv, PumpPcs
<1> HIDE DEF b
<1>5. /\ b \notin {"signal", "collect", "push"} => task[t].hand = <<>>
      /\ task[t].stale = {}
  BY <1>1, <1>2 DEF RelayInv, CoreInv, TaskInv
<1>6. /\ t = Pump => b \in PumpPcs
      /\ t \in Clients => b \in ClientPcs \ {"new", "unlist", "endsignal"}
      /\ b = "gone" => task[t].pc = "endsignal"
  BY <1>2, <1>4 DEF PumpPcs, ClientPcs
<1>7. CoreInv'
  BY <1>1, <1>5, <1>6, PcStepKeeps DEF RelayInv
<1>8. ChartedInv'
  BY <1>1 DEF ChartedInv, Pending
<1> QED BY <1>7, <1>8 DEF RelayInv

LEMMA DeliveredKeeps ==
    ASSUME RelayInv, NEW t \in Tasks, Delivered(t)
    PROVE  RelayInv'
<1> USE PumpIsNoClient
<1>1. /\ Goto(t, "loop") /\ task[t].pc = "push" /\ task[t].hand = <<>> /\ task[t].stale = {}
      /\ UNCHANGED <<reg, row, ring, clientVars>> /\ signal' = signal
      /\ tracked' = tracked /\ upstream' = upstream
  BY DEF Delivered, In, pumpVars
<1>2. signal' \in BOOLEAN
  BY <1>1 DEF RelayInv, CoreInv, RelayType
<1>3. CoreInv'
  BY <1>1, <1>2, PcStepKeeps DEF RelayInv, ClientPcs, PumpPcs
<1>4. task'[t].pc = "loop" /\ \A u \in Tasks : u # t => task'[u] = task[u]
  BY <1>1, GotoFacts DEF RelayInv, CoreInv, RelayType, TaskRecords, ClientPcs
<1>5. ChartedInv'
  <2>1. Pending => Pending'
    BY <1>1, <1>4 DEF Pending, In
  <2>2. Wanted' = Wanted
    BY <1>1 DEF Wanted
  <2>3. \A pc \in {"down", "observe", "send"} : In(Pump, pc) => In(Pump, pc)'
    BY <1>1, <1>4 DEF In
  <2> QED BY <1>1, <2>1, <2>2, <2>3, ChartedKept DEF RelayInv
<1> QED BY <1>3, <1>5 DEF RelayInv

(* What is dropped belongs to clients without a mailbox.                   *)
LEMMA CollectKeeps ==
    ASSUME RelayInv, NEW t \in Tasks, Collect(t)
    PROVE  RelayInv'
<1> USE PumpIsNoClient
<1> DEFINE new == [task[t] EXCEPT !.pc = "push", !.hand = Listed(task[t].hand)]
<1>1. task \in [Tasks -> TaskRecords] /\ task[t] \in TaskRecords
  BY DEF RelayInv, CoreInv, RelayType, TaskRecords
<1>2. task[t].pc = "collect" /\ task' = [task EXCEPT ![t] = new]
  <2>1. task' = [task EXCEPT ![t].pc = "push", ![t].hand = Listed(task[t].hand)]
    BY <1>1 DEF Collect, TaskRecords
  <2>2. task' = [task EXCEPT ![t] = new]
    BY <1>1, <2>1
  <2> QED BY <2>2 DEF Collect, In
<1>3. reg' = reg /\ row' = row /\ ring' = ring /\ signal' = signal /\ outbox' = outbox /\ mailbox' = mailbox
      /\ got' = got /\ tracked' = tracked /\ upstream' = upstream
  BY DEF Collect, clientVars, pumpVars
<1>4. task[t].hand \in Seq(Frames)
  BY <1>1 DEF TaskRecords
<1>5. /\ Listed(task[t].hand) \in Seq(Frames)
      /\ \A j \in 1..Len(task[t].hand) : task[t].hand[j].to \in outbox =>
            \E k \in 1..Len(Listed(task[t].hand)) : Listed(task[t].hand)[k] = task[t].hand[j]
  BY <1>4, ListedFacts
<1>6. /\ task' \in [Tasks -> TaskRecords]
      /\ task'[t].pc = "push" /\ task'[t].hand = Listed(task[t].hand)
      /\ task'[t].stale = task[t].stale
      /\ \A u \in Tasks : u # t => task'[u] = task[u]
  <2>1. new \in TaskRecords
    BY <1>1, <1>5 DEF TaskRecords, ClientPcs
  <2>2. new.pc = "push" /\ new.hand = Listed(task[t].hand) /\ new.stale = task[t].stale
    BY <1>1 DEF TaskRecords
  <2> HIDE DEF new
  <2> QED BY <1>1, <1>2, <2>1, <2>2, TaskSetFacts
<1>7. RelayType'
  BY <1>3, <1>6 DEF RelayInv, CoreInv, RelayType, TaskRecords
<1>8. TaskInv'
  BY <1>6 DEF RelayInv, CoreInv, TaskInv, ClientPcs, PumpPcs
<1>9. ForgottenInv'
  <2> SUFFICES ASSUME NEW d \in Clients
               PROVE  /\ task'[d].pc \in {"new", "unlist", "endsignal", "gone"} => Forgotten(reg, d)
                      /\ task'[d].pc \in {"endsignal", "gone"} => d \notin outbox
    BY <1>3 DEF ForgottenInv
  <2> QED BY <1>6 DEF RelayInv, CoreInv, ForgottenInv
<1>10. RowsInv'
  <2>1. ASSUME NEW d \in Clients, NEW s \in Symbols, NEW n \in 1..row[s], Due(d, s, n)'
        PROVE  Due(d, s, n) /\ d \in outbox
    BY <1>3, <1>6, <2>1 DEF Due
  <2>2. ASSUME NEW d \in Clients, NEW s \in Symbols, d \in outbox, NEW n \in 1..row[s],
               Held(d, s, n)
        PROVE  Held(d, s, n)'
    <3>1. ASSUME Carries(task[t].hand, d, s, n) PROVE Carries(task'[t].hand, d, s, n)
      <4>1. PICK j \in 1..Len(task[t].hand) :
               /\ task[t].hand[j].to = d /\ task[t].hand[j].symbol = s
               /\ ~ IsQuote(task[t].hand[j]) /\ n \in task[t].hand[j].rows
        BY <3>1 DEF Carries
      <4>2. PICK k \in 1..Len(task'[t].hand) : task'[t].hand[k] = task[t].hand[j]
        BY <1>5, <1>6, <2>2, <4>1
      <4> QED BY <4>1, <4>2 DEF Carries
    <3>2. CASE \E u \in Tasks : Carries(task[u].hand, d, s, n)
      <4>1. PICK u \in Tasks : Carries(task[u].hand, d, s, n)
        BY <3>2
      <4>2. Carries(task'[u].hand, d, s, n)
        BY <1>6, <3>1, <4>1
      <4> QED BY <4>2 DEF Held
    <3> QED BY <1>3, <2>2, <3>2 DEF Held
  <2> QED BY <1>3, <2>1, <2>2, RowsKept DEF RelayInv, CoreInv
<1>11. ChartedInv'
  <2>1. Wanted' = Wanted
    BY <1>3 DEF Wanted
  <2>2. Pending => Pending'
    BY <1>2, <1>3, <1>6 DEF Pending, In
  <2>3. \A pc \in {"down", "observe", "send"} : In(Pump, pc) => In(Pump, pc)'
    BY <1>2, <1>6 DEF In
  <2> QED BY <1>3, <2>1, <2>2, <2>3, ChartedKept DEF RelayInv
<1> QED BY <1>3, <1>7, <1>8, <1>9, <1>10, <1>11 DEF RelayInv, CoreInv

(* Quotes never take the place of a chart frame.                           *)
LEMMA EnqueueQuoteFacts ==
    ASSUME NEW m \in Mailboxes, NEW f \in QuoteFrames
    PROVE  EnqueueQuote(m, f) \in Mailboxes /\ EnqueueQuote(m, f).reliable = m.reliable
<1>1. m.quotes \in Seq(QuoteFrames) /\ m.reliable \in Seq(ChartFrames)
  BY DEF Mailboxes
<1> DEFINE replaced == [i \in DOMAIN m.quotes |-> IF m.quotes[i].symbol = f.symbol THEN f
                                                  ELSE m.quotes[i]]
<1>2. replaced \in Seq(QuoteFrames)
  <2>1. DOMAIN m.quotes = 1..Len(m.quotes) /\ Len(m.quotes) \in Nat
    BY <1>1
  <2>2. replaced \in [1..Len(m.quotes) -> QuoteFrames]
    BY <1>1, <2>1
  <2> QED BY <2>1, <2>2, SeqDef
<1>3. Append(m.quotes, f) \in Seq(QuoteFrames)
  BY <1>1
<1>4. m.quotes # <<>> => Append(Tail(m.quotes), f) \in Seq(QuoteFrames)
  BY <1>1
<1>5. \A q \in Seq(QuoteFrames) : /\ [m EXCEPT !.quotes = q] \in Mailboxes
                                  /\ [m EXCEPT !.quotes = q].reliable = m.reliable
  BY DEF Mailboxes
<1>6. m.quotes # <<>> => [Evict(m) EXCEPT !.quotes = Append(@, f)]
                           = [m EXCEPT !.quotes = Append(Tail(m.quotes), f)]
  BY DEF Evict, Mailboxes
<1>7. CASE \E i \in DOMAIN m.quotes : m.quotes[i].symbol = f.symbol
  <2>1. EnqueueQuote(m, f) = [m EXCEPT !.quotes = replaced]
    BY <1>7 DEF EnqueueQuote
  <2> HIDE DEF replaced
  <2> QED BY <1>2, <1>5, <2>1
<1>8. CASE ~ (\E i \in DOMAIN m.quotes : m.quotes[i].symbol = f.symbol)
  <2>1. CASE Room(m)
    <3>1. EnqueueQuote(m, f) = [m EXCEPT !.quotes = Append(m.quotes, f)]
      BY <1>8, <2>1 DEF EnqueueQuote
    <3>2. /\ [m EXCEPT !.quotes = Append(m.quotes, f)] \in Mailboxes
          /\ [m EXCEPT !.quotes = Append(m.quotes, f)].reliable = m.reliable
      BY <1>3 DEF Mailboxes
    <3> QED BY <3>1, <3>2, Zenon
  <2>2. CASE ~ Room(m) /\ m.quotes # <<>>
    <3>1. EnqueueQuote(m, f) = [m EXCEPT !.quotes = Append(Tail(m.quotes), f)]
      BY <1>6, <1>8, <2>2 DEF EnqueueQuote
    <3> QED BY <1>4, <1>5, <2>2, <3>1, Zenon
  <2>3. CASE ~ Room(m) /\ m.quotes = <<>>
    <3>1. EnqueueQuote(m, f) = m
      BY <1>8, <2>3 DEF EnqueueQuote
    <3> QED BY <3>1
  <2> QED BY <2>1, <2>2, <2>3
<1> QED BY <1>7, <1>8

(* A chart frame that is not refused is queued.                            *)
LEMMA EnqueueReliableFacts ==
    ASSUME NEW m \in Mailboxes, NEW f \in ChartFrames, ~ (Len(m.reliable) >= Capacity)
    PROVE  /\ EnqueueReliable(m, f) \in Mailboxes
           /\ EnqueueReliable(m, f).reliable = Append(m.reliable, f)
<1>1. m.quotes \in Seq(QuoteFrames) /\ m.reliable \in Seq(ChartFrames)
  BY DEF Mailboxes
<1> DEFINE base == IF Room(m) THEN m ELSE Evict(m)
<1>2. base \in Mailboxes /\ base.reliable = m.reliable
  <2>1. CASE Room(m)
    BY <2>1
  <2>2. CASE ~ Room(m)
    <3>1. m.quotes # <<>>
      <4>1. ~ (Len(m.reliable) + Len(m.quotes) < Capacity)
        BY <2>2 DEF Room
      <4>2. Len(m.reliable) \in Nat /\ Len(m.quotes) \in Nat /\ Capacity \in Nat
        BY <1>1, RelayAssumption
      <4>3. Len(m.quotes) # 0
        <5>1. \A a, b, c \in Nat : ~ (a >= c) /\ ~ (a + b < c) => b # 0
          OBVIOUS
        <5> QED BY <4>1, <4>2, <5>1, Zenon
      <4>4. Len(<<>>) = 0
        OBVIOUS
      <4> QED BY <4>3, <4>4, Zenon
    <3>2. Tail(m.quotes) \in Seq(QuoteFrames)
      BY <1>1, <3>1
    <3>3. [m EXCEPT !.quotes = Tail(m.quotes)] \in Mailboxes
          /\ [m EXCEPT !.quotes = Tail(m.quotes)].reliable = m.reliable
      BY <3>2 DEF Mailboxes
    <3> QED BY <2>2, <3>3 DEF Evict
  <2> QED BY <2>1, <2>2
<1>3. EnqueueReliable(m, f) = [base EXCEPT !.reliable = Append(base.reliable, f)]
  <2> HIDE DEF base
  <2> QED BY DEF EnqueueReliable, base
<1>4. Append(m.reliable, f) \in Seq(ChartFrames)
  BY <1>1
<1> HIDE DEF base
<1> QED BY <1>2, <1>3, <1>4 DEF Mailboxes

(* A frame that is delivered goes from the hand to the mailbox; one that   *)
(* is refused makes its client stale.                                      *)
LEMMA PushKeeps ==
    ASSUME RelayInv, NEW t \in Tasks, Push(t)
    PROVE  RelayInv'
<1> USE PumpIsNoClient
<1> DEFINE f == Head(task[t].hand)
           m == mailbox[f.to]
           refused == [task[t] EXCEPT !.hand = Tail(task[t].hand), !.stale = task[t].stale \cup {f.to}]
           queued == [task[t] EXCEPT !.hand = Tail(task[t].hand)]
           fuller == IF IsQuote(f) THEN EnqueueQuote(m, f) ELSE EnqueueReliable(m, f)
<1>1. /\ task \in [Tasks -> TaskRecords] /\ task[t] \in TaskRecords
      /\ mailbox \in [Clients -> Mailboxes] /\ task[t].hand \in Seq(Frames)
  BY DEF RelayInv, CoreInv, RelayType, TaskRecords
<1>2. task[t].pc = "push" /\ task[t].hand # <<>>
  BY DEF Push, In
<1>3. reg' = reg /\ row' = row /\ ring' = ring /\ signal' = signal /\ outbox' = outbox /\ got' = got
      /\ tracked' = tracked /\ upstream' = upstream
  BY DEF Push, pumpVars
<1>4. f \in Frames /\ Tail(task[t].hand) \in Seq(Frames) /\ f.to \in Clients /\ m \in Mailboxes
  BY <1>1, <1>2, FrameKinds
<1>5. \/ task' = [task EXCEPT ![t] = refused] /\ mailbox' = mailbox
      \/ /\ ~ Refuses(m, f) /\ task' = [task EXCEPT ![t] = queued]
         /\ mailbox' = [mailbox EXCEPT ![f.to] = fuller]
  BY <1>1 DEF Push, TaskRecords
<1>6. /\ refused \in TaskRecords /\ queued \in TaskRecords
      /\ refused.pc = "push" /\ queued.pc = "push"
      /\ refused.hand = Tail(task[t].hand) /\ queued.hand = Tail(task[t].hand)
      /\ refused.stale = task[t].stale \cup {f.to} /\ queued.stale = task[t].stale
  BY <1>1, <1>2, <1>4 DEF TaskRecords
<1>7. ~ Refuses(m, f) => /\ fuller \in Mailboxes
                         /\ IsQuote(f) => fuller.reliable = m.reliable
                         /\ ~ IsQuote(f) => fuller.reliable = Append(m.reliable, f)
  <2> SUFFICES ASSUME ~ Refuses(m, f)
               PROVE  /\ fuller \in Mailboxes
                      /\ IsQuote(f) => fuller.reliable = m.reliable
                      /\ ~ IsQuote(f) => fuller.reliable = Append(m.reliable, f)
    OBVIOUS
  <2> HIDE DEF f, m
  <2>1. CASE IsQuote(f)
    BY <1>4, <2>1, FrameKinds, EnqueueQuoteFacts
  <2>2. CASE ~ IsQuote(f)
    <3>1. ~ (Len(m.reliable) >= Capacity)
      BY <2>2 DEF Refuses
    <3> QED BY <1>4, <2>2, <3>1, FrameKinds, EnqueueReliableFacts
  <2> QED BY <2>1, <2>2
<1> HIDE DEF f, m, refused, queued, fuller
<1>8. /\ task' \in [Tasks -> TaskRecords]
      /\ task'[t].pc = "push" /\ task'[t].hand = Tail(task[t].hand)
      /\ task[t].stale \subseteq task'[t].stale
      /\ \A u \in Tasks : u # t => task'[u] = task[u]
  BY <1>1, <1>5, <1>6
<1>9. mailbox' \in [Clients -> Mailboxes] /\ \A d \in Clients : d # f.to => mailbox'[d] = mailbox[d]
  BY <1>1, <1>4, <1>5, <1>7
<1>10. RelayType'
  BY <1>3, <1>8, <1>9 DEF RelayInv, CoreInv, RelayType, TaskRecords
<1>11. TaskInv'
  BY <1>2, <1>8 DEF RelayInv, CoreInv, TaskInv
<1>12. ForgottenInv'
  <2> SUFFICES ASSUME NEW d \in Clients
               PROVE  /\ task'[d].pc \in {"new", "unlist", "endsignal", "gone"} => Forgotten(reg, d)
                      /\ task'[d].pc \in {"endsignal", "gone"} => d \notin outbox
    BY <1>3 DEF ForgottenInv
  <2> QED BY <1>8 DEF RelayInv, CoreInv, ForgottenInv
<1>13. RowsInv'
  <2>1. ASSUME NEW d \in Clients, NEW s \in Symbols, NEW n \in 1..row[s], Due(d, s, n)'
        PROVE  Due(d, s, n)
    BY <1>3, <1>8, <2>1 DEF Due
  <2>2. ASSUME NEW d \in Clients, NEW s \in Symbols, NEW n \in 1..row[s], Due(d, s, n)',
               Held(d, s, n)
        PROVE  Held(d, s, n)'
    <3>1. Carries(mailbox[d].reliable, d, s, n) => Carries(mailbox'[d].reliable, d, s, n)
      <4>1. CASE mailbox'[d].reliable = mailbox[d].reliable
        BY <4>1
      <4>2. CASE d = f.to /\ ~ IsQuote(f) /\ mailbox'[d].reliable = Append(mailbox[d].reliable, f)
        <5>1. mailbox[d].reliable \in Seq(ChartFrames) /\ f \in ChartFrames
          BY <1>1, <1>4, <4>2, FrameKinds DEF Mailboxes
        <5> QED BY <4>2, <5>1, AppendCarries
      <4>3. \/ mailbox'[d].reliable = mailbox[d].reliable
            \/ d = f.to /\ ~ IsQuote(f) /\ mailbox'[d].reliable = Append(mailbox[d].reliable, f)
        BY <1>1, <1>4, <1>5, <1>7, <1>9 DEF m
      <4> QED BY <4>1, <4>2, <4>3
    <3>2. ASSUME Carries(task[t].hand, d, s, n), ~ Carries(Tail(task[t].hand), d, s, n)
          PROVE  Carries(mailbox'[d].reliable, d, s, n)
      <4>1. f.to = d /\ f.symbol = s /\ ~ IsQuote(f) /\ n \in f.rows
        BY <1>1, <1>2, <3>2, TailCarries DEF f
      <4>2. task' # [task EXCEPT ![t] = refused]
        <5>1. d \notin task'[t].stale
          BY <2>2 DEF Due
        <5> QED BY <1>1, <1>6, <4>1, <5>1
      <4>3. mailbox'[d].reliable = Append(mailbox[d].reliable, f)
        BY <1>1, <1>4, <1>5, <1>7, <4>1, <4>2 DEF m
      <4>4. mailbox[d].reliable \in Seq(ChartFrames) /\ f \in ChartFrames
        BY <1>1, <1>4, <4>1, FrameKinds DEF Mailboxes
      <4> QED BY <4>1, <4>3, <4>4, AppendCarries
    <3>3. CASE \E u \in Tasks : Carries(task[u].hand, d, s, n)
      <4>1. PICK u \in Tasks : Carries(task[u].hand, d, s, n)
        BY <3>3
      <4>2. CASE u # t
        BY <1>8, <4>1, <4>2 DEF Held
      <4>3. CASE u = t /\ Carries(Tail(task[t].hand), d, s, n)
        BY <1>8, <4>3 DEF Held
      <4>4. CASE u = t /\ ~ Carries(Tail(task[t].hand), d, s, n)
        BY <3>2, <4>1, <4>4 DEF Held
      <4> QED BY <4>2, <4>3, <4>4
    <3> QED BY <1>3, <2>2, <3>1, <3>3 DEF Held
  <2> QED BY <1>3, <2>1, <2>2, RowsKept DEF RelayInv, CoreInv
<1>14. ChartedInv'
  <2>1. Wanted' = Wanted
    BY <1>3 DEF Wanted
  <2>2. Pending => Pending'
    BY <1>2, <1>3, <1>8 DEF Pending, In
  <2>3. \A pc \in {"down", "observe", "send"} : In(Pump, pc) => In(Pump, pc)'
    BY <1>2, <1>8 DEF In
  <2> QED BY <1>3, <2>1, <2>2, <2>3, ChartedKept DEF RelayInv
<1> QED BY <1>3, <1>10, <1>11, <1>12, <1>13, <1>14 DEF RelayInv, CoreInv

LEMMA KickKeeps ==
    ASSUME RelayInv, NEW t \in Tasks, Kick(t)
    PROVE  RelayInv'
<1> USE PumpIsNoClient
<1>1. task \in [Tasks -> TaskRecords] /\ mailbox \in [Clients -> Mailboxes]
  BY DEF RelayInv, CoreInv, RelayType, TaskRecords
<1>2. /\ Goto(t, "expel") /\ task[t].pc = "push" /\ task[t].hand = <<>>
      /\ outbox' = outbox \ task[t].stale
      /\ mailbox' = [c \in Clients |-> IF c \in outbox \cap task[t].stale
                                       THEN [mailbox[c] EXCEPT !.closed = TRUE] ELSE mailbox[c]]
  BY DEF Kick, In
<1>3. reg' = reg /\ row' = row /\ ring' = ring /\ signal' = signal /\ got' = got
      /\ tracked' = tracked /\ upstream' = upstream
  BY DEF Kick, pumpVars
<1>4. /\ task' \in [Tasks -> TaskRecords]
      /\ task'[t].pc = "expel"
      /\ \A u \in Tasks : u # t => task'[u] = task[u]
      /\ \A u \in Tasks : task'[u].hand = task[u].hand /\ task'[u].stale = task[u].stale
  BY <1>1, <1>2, GotoFacts DEF ClientPcs
<1>5. /\ mailbox' \in [Clients -> Mailboxes]
      /\ \A d \in Clients : mailbox'[d].reliable = mailbox[d].reliable
  <2>1. \A b \in Mailboxes : [b EXCEPT !.closed = TRUE] \in Mailboxes
                             /\ [b EXCEPT !.closed = TRUE].reliable = b.reliable
    BY DEF Mailboxes
  <2> QED BY <1>1, <1>2, <2>1
<1>6. RelayType'
  BY <1>2, <1>3, <1>4, <1>5 DEF RelayInv, CoreInv, RelayType, TaskRecords
<1>7. TaskInv'
  BY <1>2, <1>4 DEF RelayInv, CoreInv, TaskInv, ClientPcs, PumpPcs
<1>8. ForgottenInv'
  <2> SUFFICES ASSUME NEW d \in Clients
               PROVE  /\ task'[d].pc \in {"new", "unlist", "endsignal", "gone"} => Forgotten(reg, d)
                      /\ task'[d].pc \in {"endsignal", "gone"} => d \notin outbox'
    BY <1>3 DEF ForgottenInv
  <2> QED BY <1>2, <1>4 DEF RelayInv, CoreInv, ForgottenInv
<1>9. RowsInv'
  <2>1. \A d \in Clients, s \in Symbols : \A n \in 1..row[s] : Due(d, s, n)' => Due(d, s, n)
    BY <1>2, <1>3, <1>4 DEF Due
  <2>2. \A d \in Clients, s \in Symbols : \A n \in 1..row[s] : Held(d, s, n) => Held(d, s, n)'
    BY <1>3, <1>4, <1>5 DEF Held
  <2> QED BY <1>3, <2>1, <2>2, RowsKept DEF RelayInv, CoreInv
<1>10. ChartedInv'
  <2>1. Wanted' = Wanted
    BY <1>3 DEF Wanted
  <2>2. Pending => Pending'
    BY <1>2, <1>3, <1>4 DEF Pending, In
  <2>3. \A pc \in {"down", "observe", "send"} : In(Pump, pc) => In(Pump, pc)'
    BY <1>2, <1>4 DEF In
  <2> QED BY <1>3, <2>1, <2>2, <2>3, ChartedKept DEF RelayInv
<1> QED BY <1>3, <1>6, <1>7, <1>8, <1>9, <1>10 DEF RelayInv, CoreInv

(* Whoever was stale has no charts left when nobody remembers it was.      *)
LEMMA ExpelKeeps ==
    ASSUME RelayInv, NEW t \in Tasks, Expel(t)
    PROVE  RelayInv'
<1> USE PumpIsNoClient
<1> DEFINE stale == task[t].stale
           next == Expelled(reg, stale)
<1>1. task \in [Tasks -> TaskRecords] /\ stale \in SUBSET Clients
  BY DEF RelayInv, CoreInv, RelayType, TaskRecords
<1>2. task[t].pc = "expel" /\ task' = [task EXCEPT ![t] = Idle("kicksignal")] /\ reg' = next
  BY DEF Expel, In, Expelled
<1>3. row' = row /\ ring' = ring /\ signal' = signal /\ outbox' = outbox /\ mailbox' = mailbox /\ got' = got
      /\ tracked' = tracked /\ upstream' = upstream
  BY DEF Expel, clientVars, pumpVars
<1>4. /\ task' \in [Tasks -> TaskRecords]
      /\ task'[t].pc = "kicksignal" /\ task'[t].hand = <<>> /\ task'[t].stale = {}
      /\ \A u \in Tasks : u # t => task'[u] = task[u]
  <2>1. Idle("kicksignal") \in TaskRecords
    BY DEF Idle, TaskRecords, ClientPcs
  <2>2. /\ Idle("kicksignal").pc = "kicksignal" /\ Idle("kicksignal").hand = <<>>
        /\ Idle("kicksignal").stale = {}
    BY DEF Idle
  <2> QED BY <1>1, <1>2, <2>1, <2>2, TaskSetFacts
<1>5. task[t].hand = <<>>
  BY <1>2 DEF RelayInv, CoreInv, TaskInv
<1>6. /\ RegistryInv(reg) /\ RegistryInv(next) /\ next.quotes = Drop(reg.quotes, stale)
      /\ next.charts = Drop(reg.charts, stale \X ChartIds)
  BY <1>1, ExpelledFacts DEF RelayInv, CoreInv
<1> HIDE DEF next, stale
<1>7. /\ \A d : Forgotten(reg, d) => Forgotten(next, d)
      /\ \A last, size, d, s, n : Shows(next, last, size, d, s, n) =>
            Shows(reg, last, size, d, s, n) /\ d \notin stale
  BY <1>6, DroppedFacts
<1>8. RelayType'
  BY <1>3, <1>4 DEF RelayInv, CoreInv, RelayType, TaskRecords
<1>9. TaskInv'
  BY <1>4 DEF RelayInv, CoreInv, TaskInv, ClientPcs, PumpPcs
<1>10. ForgottenInv'
  <2> SUFFICES ASSUME NEW d \in Clients
               PROVE  /\ task'[d].pc \in {"new", "unlist", "endsignal", "gone"} => Forgotten(next, d)
                      /\ task'[d].pc \in {"endsignal", "gone"} => d \notin outbox
    BY <1>2, <1>3 DEF ForgottenInv
  <2> QED BY <1>4, <1>7 DEF RelayInv, CoreInv, ForgottenInv
<1>11. RowsInv'
  <2>1. ASSUME NEW d \in Clients, NEW s \in Symbols, NEW n \in 1..row[s], Due(d, s, n)'
        PROVE  Due(d, s, n)
    <3>1. Shows(reg, row[s], ring[s], d, s, n) /\ d \notin stale /\ d \in outbox
      BY <1>2, <1>3, <1>7, <2>1 DEF Due
    <3>2. \A u \in Tasks : d \notin task[u].stale
      BY <1>4, <2>1, <3>1 DEF Due, stale
    <3> QED BY <3>1, <3>2 DEF Due
  <2>2. ASSUME NEW d \in Clients, NEW s \in Symbols, NEW n \in 1..row[s], Held(d, s, n)
        PROVE  Held(d, s, n)'
    <3>1. ~ Carries(task[t].hand, d, s, n)
      BY <1>5, EmptyCarries
    <3> QED BY <1>3, <1>4, <2>2, <3>1 DEF Held
  <2> QED BY <1>3, <2>1, <2>2, RowsKept DEF RelayInv, CoreInv
<1>12. ChartedInv'
  <2>1. Wanted' \subseteq Wanted
    <3>1. WantedIn(next) \subseteq WantedIn(reg)
      BY <1>6, FewerWanted
    <3>2. Wanted = WantedIn(reg) /\ Wanted' = WantedIn(next)
      BY <1>2 DEF Wanted, WantedIn
    <3> QED BY <3>1, <3>2
  <2>2. Pending => Pending'
    BY <1>2, <1>3, <1>4 DEF Pending, In
  <2>3. \A pc \in {"down", "observe", "send"} : In(Pump, pc) => In(Pump, pc)'
    BY <1>2, <1>4 DEF In
  <2> QED BY <1>3, <2>1, <2>2, <2>3, ChartedKept DEF RelayInv
<1> QED BY <1>2, <1>6, <1>8, <1>9, <1>10, <1>11, <1>12 DEF RelayInv, CoreInv
-----------------------------------------------------------------------------
(* The steps of the pump.                                                  *)

(* In its loop and while it looks at the interests the pump delivers       *)
(* nothing.                                                                *)
LEMMA PumpHoldsNothing ==
    ASSUME CoreInv, task[Pump].pc \in {"down", "loop", "observe", "send"}
    PROVE  task[Pump].hand = <<>> /\ task[Pump].stale = {}
  BY PumpIsNoClient DEF CoreInv, TaskInv

LEMMA PumpGoes ==
    ASSUME CoreInv, task[Pump].pc \in {"down", "loop", "observe", "send"},
           NEW b \in {"down", "loop", "observe", "send"}, Goto(Pump, b),
           UNCHANGED <<reg, row, ring, clientVars>>, signal' \in BOOLEAN
    PROVE  /\ CoreInv'
           /\ task'[Pump].pc = b
           /\ \A c \in Clients : task'[c] = task[c]
           /\ Wanted' = Wanted
<1> USE PumpIsNoClient
<1>1. b \in PumpPcs /\ b # "gone"
  BY DEF PumpPcs
<1>2. CoreInv'
  BY <1>1, PumpHoldsNothing, PcStepKeeps
<1>3. task \in [Tasks -> TaskRecords]
  BY DEF CoreInv, RelayType, TaskRecords
<1>4. task'[Pump].pc = b /\ \A c \in Clients : task'[c] = task[c]
  BY <1>1, <1>3, GotoFacts
<1>5. Wanted' = Wanted
  BY DEF Wanted
<1> QED BY <1>2, <1>4, <1>5

LEMMA ConnectKeeps ==
    ASSUME RelayInv, Connect
    PROVE  RelayInv'
<1>1. CoreInv'
  BY PumpGoes DEF Connect, In, RelayInv
<1>2. ChartedInv'
  BY DEF Connect, ChartedInv, Pending
<1> QED BY <1>1, <1>2 DEF RelayInv

LEMMA LoseKeeps ==
    ASSUME RelayInv, Lose
    PROVE  RelayInv'
<1>1. signal' \in BOOLEAN
  BY DEF Lose, RelayInv, CoreInv, RelayType
<1>2. CoreInv' /\ task'[Pump].pc = "down"
  BY <1>1, PumpGoes DEF Lose, In, RelayInv
<1>3. ChartedInv'
  BY <1>2 DEF ChartedInv, In
<1> QED BY <1>2, <1>3 DEF RelayInv

LEMMA TakeSignalKeeps ==
    ASSUME RelayInv, TakeSignal
    PROVE  RelayInv'
<1>1. CoreInv' /\ task'[Pump].pc = "observe"
  BY PumpGoes DEF TakeSignal, In, RelayInv
<1>2. ChartedInv'
  BY <1>1 DEF ChartedInv, In
<1> QED BY <1>1, <1>2 DEF RelayInv

(* The pump forgets the signal before it looks: what it finds is all that  *)
(* is wanted then.                                                         *)
LEMMA ObserveKeeps ==
    ASSUME RelayInv, Observe
    PROVE  RelayInv'
<1>1. signal' \in BOOLEAN
  BY DEF Observe, RelayInv, CoreInv, RelayType
<1>2. CoreInv' /\ task'[Pump].pc = "send" /\ Wanted' = Wanted
  BY <1>1, PumpGoes DEF Observe, In, RelayInv
<1>3. \A i \in Wanted : i \in DOMAIN tracked' /\ tracked'[i] = "active"
  BY DEF Observe
<1>4. ChartedInv'
  BY <1>2, <1>3 DEF ChartedInv, In
<1> QED BY <1>2, <1>4 DEF RelayInv

(* Only idle items are given back, and what is wanted is active unless a   *)
(* signal is on its way.                                                   *)
LEMMA SweepKeeps ==
    ASSUME RelayInv, NEW expired \in SUBSET DOMAIN tracked, Sweep(expired)
    PROVE  RelayInv'
<1>1. signal' \in BOOLEAN
  BY DEF Sweep, RelayInv, CoreInv, RelayType
<1>2. /\ CoreInv' /\ task'[Pump].pc = "send" /\ Wanted' = Wanted
      /\ \A c \in Clients : task'[c] = task[c]
  BY <1>1, PumpGoes DEF Sweep, In, RelayInv
<1>3. task[Pump].pc = "loop" /\ signal' = signal /\ \A i \in expired : tracked[i] = "idle"
  BY DEF Sweep, In
<1>4. \A i : i \in DOMAIN tracked /\ tracked[i] = "active"
              => i \in DOMAIN tracked' /\ tracked'[i] = "active"
  BY <1>3 DEF Sweep, Drop
<1>5. Pending => Pending'
  BY <1>2, <1>3 DEF Pending, In
<1>6. ChartedInv'
  BY <1>2, <1>3, <1>4, <1>5 DEF RelayInv, ChartedInv, In
<1> QED BY <1>2, <1>6 DEF RelayInv

LEMMA RefreshKeeps ==
    ASSUME RelayInv, Refresh
    PROVE  RelayInv'
<1>1. signal' \in BOOLEAN
  BY DEF Refresh, RelayInv, CoreInv, RelayType
<1>2. /\ CoreInv' /\ task'[Pump].pc = "send" /\ Wanted' = Wanted
      /\ \A c \in Clients : task'[c] = task[c]
  BY <1>1, PumpGoes DEF Refresh, In, RelayInv
<1>3. task[Pump].pc = "loop" /\ signal' = signal /\ tracked' = tracked
  BY DEF Refresh, In
<1>4. Pending => Pending'
  BY <1>2, <1>3 DEF Pending, In
<1>5. ChartedInv'
  BY <1>2, <1>3, <1>4 DEF RelayInv, ChartedInv, In
<1> QED BY <1>2, <1>5 DEF RelayInv

LEMMA SendChartsKeeps ==
    ASSUME RelayInv, SendCharts
    PROVE  RelayInv'
<1>1. signal' \in BOOLEAN
  BY DEF SendCharts, RelayInv, CoreInv, RelayType
<1>2. /\ CoreInv' /\ task'[Pump].pc = "loop" /\ Wanted' = Wanted
      /\ \A c \in Clients : task'[c] = task[c]
  BY <1>1, PumpGoes DEF SendCharts, In, RelayInv
<1>3. /\ task[Pump].pc = "send" /\ signal' = signal /\ tracked' = tracked
      /\ upstream' = DOMAIN tracked
  BY DEF SendCharts, In
<1>4. Pending => Pending'
  BY <1>2, <1>3 DEF Pending, In
<1>5. ChartedInv'
  BY <1>2, <1>3, <1>4 DEF RelayInv, ChartedInv, In
<1> QED BY <1>2, <1>5 DEF RelayInv

LEMMA SendFailsKeeps ==
    ASSUME RelayInv, SendFails
    PROVE  RelayInv'
<1>1. signal' \in BOOLEAN
  BY DEF SendFails, RelayInv, CoreInv, RelayType
<1>2. CoreInv' /\ task'[Pump].pc = "down"
  BY <1>1, PumpGoes DEF SendFails, In, RelayInv
<1>3. ChartedInv'
  BY <1>2 DEF ChartedInv, In
<1> QED BY <1>2, <1>3 DEF RelayInv

(* A frame of the second of two joined sequences is a frame of both.       *)
LEMMA JoinedCarries ==
    ASSUME NEW T, NEW p \in Seq(T), NEW q \in Seq(T), NEW j \in 1..Len(q),
           NEW c, NEW s, NEW n, q[j].to = c, q[j].symbol = s, ~ IsQuote(q[j]), n \in q[j].rows
    PROVE  Carries(p \o q, c, s, n)
<1>1. Len(p) \in Nat /\ Len(q) \in Nat /\ Len(p \o q) = Len(p) + Len(q)
  OBVIOUS
<1>2. Len(p) + j \in 1..Len(p \o q)
  BY <1>1
<1>3. (p \o q)[Len(p) + j] = q[j]
  BY <1>1, <1>2
<1> QED BY <1>2, <1>3 DEF Carries

(* No older row enters a window with the new row: the ring of the symbol   *)
(* grows by the new row at most, and the others' do not grow.              *)
LEMMA WindowMoves ==
    ASSUME RegistryInv(reg), row \in [Symbols -> Nat], ring \in [Symbols -> Nat],
           NEW s \in Symbols, row' = [row EXCEPT ![s] = row[s] + 1], PushTick(s)
    PROVE  /\ ring' \in [Symbols -> Nat]
           /\ \A d \in Clients, u \in Symbols : \A k \in 1..row[u] :
                 Shows(reg, row'[u], ring'[u], d, u, k) => Shows(reg, row[u], ring[u], d, u, k)
<1>1. PICK kept \in {0, ring[s]}, evicted \in SUBSET (Symbols \ {s}) :
         ring' = [u \in Symbols |->
                     IF u = s THEN IF kept < TickCapacity THEN kept + 1 ELSE TickCapacity
                     ELSE IF u \in evicted THEN 0 ELSE ring[u]]
  BY DEF PushTick
<1>2. kept \in Nat /\ kept <= ring[s] /\ TickCapacity \in Nat
  BY <1>1, RelayAssumption
<1>3. ring'[s] \in Nat /\ ring'[s] <= ring[s] + 1
  BY <1>1, <1>2
<1>4. \A u \in Symbols \ {s} : ring'[u] \in Nat /\ ring'[u] <= ring[u]
  BY <1>1
<1>5. ring' \in [Symbols -> Nat]
  BY <1>1, <1>3, <1>4
<1>6. ASSUME NEW d \in Clients, NEW u \in Symbols, NEW k \in 1..row[u],
             Shows(reg, row'[u], ring'[u], d, u, k)
      PROVE  Shows(reg, row[u], ring[u], d, u, k)
  <2>1. PICK id \in ChartIds : /\ <<d, id>> \in DOMAIN reg.charts
                               /\ ~ reg.charts[<<d, id>>].kline
                               /\ u \in reg.charts[<<d, id>>].symbols
                               /\ row'[u] - k < reg.charts[<<d, id>>].width
                               /\ row'[u] - k < ring'[u]
    BY <1>6 DEF Shows
  <2>2. PICK w \in Nat : w = reg.charts[<<d, id>>].width
    <3>1. reg.charts[<<d, id>>] \in Sources
      BY <2>1, RegistryFields, IndexMember DEF RegistryInv
    <3> QED BY <3>1, RelayAssumption
  <2>3. row[u] \in Nat /\ ring[u] \in Nat /\ ring'[u] \in Nat
    BY <1>5
  <2>4. \/ row'[u] = row[u] + 1 /\ ring'[u] <= ring[u] + 1
        \/ row'[u] = row[u] /\ ring'[u] <= ring[u]
    BY <1>3, <1>4
  <2>5. row[u] - k < w /\ row[u] - k < ring[u]
    BY <2>1, <2>2, <2>3, <2>4
  <2> QED BY <2>1, <2>2, <2>5 DEF Shows
<1> QED BY <1>5, <1>6

(* A row enters the cache together with a frame for everyone with a tick   *)
(* chart of its symbol.                                                    *)
LEMMA TickKeeps ==
    ASSUME RelayInv, NEW s \in Symbols, Tick(s)
    PROVE  RelayInv'
<1> USE PumpIsNoClient
<1> DEFINE n == row'[s]
           Qs == {QuoteOf(c, s, n) : c \in At(reg.quoteClients, s)}
           Cs == {Rows(c, s, {n}) : c \in TickClients(reg, s)}
<1>1. /\ RegistryInv(reg) /\ row \in [Symbols -> Nat] /\ ring \in [Symbols -> Nat]
      /\ task \in [Tasks -> TaskRecords]
  BY DEF RelayInv, CoreInv, RelayType, TaskRecords
<1>2. task[Pump].pc = "loop" /\ row' = [row EXCEPT ![s] = row[s] + 1]
  BY DEF Tick, In
<1>3. n = row[s] + 1 /\ n \in Nat /\ row' \in [Symbols -> Nat]
      /\ \A u \in Symbols : u # s => row'[u] = row[u]
  BY <1>1, <1>2
<1>4. reg' = reg /\ signal' = signal /\ outbox' = outbox /\ mailbox' = mailbox /\ got' = got
      /\ tracked' = tracked /\ upstream' = upstream
  BY DEF Tick, clientVars, pumpVars
<1>4a. /\ ring' \in [Symbols -> Nat]
      /\ \A d \in Clients, u \in Symbols : \A k \in 1..row[u] :
            Shows(reg, row'[u], ring'[u], d, u, k) => Shows(reg, row[u], ring[u], d, u, k)
  BY <1>1, <1>2, WindowMoves DEF Tick
<1>5. PICK quotes \in SetToSeqs(Qs), charts \in SetToSeqs(Cs) :
         task' = [task EXCEPT ![Pump] = [pc |-> "collect", hand |-> quotes \o charts, stale |-> {}]]
  BY DEF Tick
<1>6. At(reg.quoteClients, s) \subseteq Clients /\ TickClients(reg, s) \subseteq Clients
  <2>1. At(reg.quoteClients, s) \subseteq Clients
    BY <1>1, RegistryFields, IndexMember DEF RegistryInv, At
  <2> QED BY <1>1, <2>1, TickClientsFacts
<1>7. IsFiniteSet(At(reg.quoteClients, s)) /\ IsFiniteSet(TickClients(reg, s))
  BY <1>6, RelayAssumption, FS_Subset
<1>8. IsFiniteSet(Qs) /\ IsFiniteSet(Cs)
  <2> DEFINE qf == [c \in At(reg.quoteClients, s) |-> QuoteOf(c, s, n)]
             cf == [c \in TickClients(reg, s) |-> Rows(c, s, {n})]
  <2>1. Qs = {qf[c] : c \in At(reg.quoteClients, s)} /\ Cs = {cf[c] : c \in TickClients(reg, s)}
    OBVIOUS
  <2> HIDE DEF qf, cf
  <2>2. /\ IsFiniteSet({qf[c] : c \in At(reg.quoteClients, s)})
        /\ IsFiniteSet({cf[c] : c \in TickClients(reg, s)})
    BY <1>7, ImageFinite
  <2> QED BY <2>1, <2>2
<1>9. Qs \in SUBSET Frames /\ Cs \in SUBSET Frames
  <2>1. \A c \in Clients : QuoteOf(c, s, n) \in QuoteFrames /\ Rows(c, s, {n}) \in ChartFrames
    BY <1>3 DEF QuoteOf, Rows, QuoteFrames, ChartFrames
  <2> QED BY <1>6, <2>1 DEF Frames
<1> HIDE DEF n, Qs, Cs
<1>10. quotes \in Seq(Frames)
  BY <1>5, <1>8, <1>9, ListingFacts
<1>11. charts \in Seq(Frames) /\ \A x \in Cs : \E i \in 1..Len(charts) : charts[i] = x
  <2>1. \A q \in SetToSeqs(Cs) : /\ q \in Seq(Frames)
                                 /\ \A x \in Cs : \E i \in 1..Len(q) : q[i] = x
    <3> SUFFICES ASSUME NEW q \in SetToSeqs(Cs)
                 PROVE  q \in Seq(Frames) /\ \A x \in Cs : \E i \in 1..Len(q) : q[i] = x
      OBVIOUS
    <3>1. IsFiniteSet(Cs) /\ Cs \in SUBSET Frames
      BY <1>8, <1>9
    <3> QED BY <3>1, ListingFacts
  <2> QED BY <1>5, <2>1
<1> DEFINE new == [pc |-> "collect", hand |-> quotes \o charts, stale |-> {}]
<1>12. new \in TaskRecords /\ new.pc = "collect" /\ new.hand = quotes \o charts /\ new.stale = {}
  <2>1. quotes \o charts \in Seq(Frames)
    BY <1>10, <1>11
  <2> QED BY <2>1 DEF TaskRecords, ClientPcs
<1>13. task' = [task EXCEPT ![Pump] = new]
  BY <1>5
<1> HIDE DEF new
<1>14. /\ task' \in [Tasks -> TaskRecords] /\ task'[Pump] = new
       /\ \A u \in Tasks : u # Pump => task'[u] = task[u]
  BY <1>1, <1>12, <1>13, TaskSetFacts
<1>15. RelayType'
  BY <1>4a, <1>3, <1>4, <1>14 DEF RelayInv, CoreInv, RelayType, TaskRecords
<1>16. TaskInv'
  BY <1>12, <1>14 DEF RelayInv, CoreInv, TaskInv, PumpPcs, Tasks
<1>17. ForgottenInv'
  BY <1>4, <1>14 DEF RelayInv, CoreInv, ForgottenInv
<1>18. RowsInv'
  <2> SUFFICES ASSUME NEW d \in Clients, NEW u \in Symbols, NEW k \in 1..row'[u], Due(d, u, k)'
               PROVE  Held(d, u, k)'
    BY DEF RowsInv
  <2>1. task[Pump].hand = <<>> /\ task[Pump].stale = {}
    BY <1>2, PumpHoldsNothing DEF RelayInv
  <2>2. Shows(reg, row'[u], ring'[u], d, u, k) /\ d \in outbox /\ \A t \in Tasks : d \notin task'[t].stale
    BY <1>4 DEF Due
  <2>3. CASE k \in 1..row[u]
    <3>1. Shows(reg, row[u], ring[u], d, u, k)
      BY <1>4a, <2>2, <2>3
    <3>2. Held(d, u, k)
      BY <1>14, <2>1, <2>2, <2>3, <3>1 DEF RelayInv, CoreInv, RowsInv, Due
    <3>3. ~ Carries(task[Pump].hand, d, u, k)
      BY <2>1, EmptyCarries
    <3> QED BY <1>4, <1>14, <3>2, <3>3 DEF Held
  <2>4. CASE u = s /\ k = n
    <3>1. d \in TickClients(reg, s)
      BY <1>1, <2>2, <2>4, TickClientsFacts DEF Shows, Ticks
    <3>2. PICK j \in 1..Len(charts) : charts[j] = Rows(d, s, {n})
      BY <1>11, <3>1 DEF Cs
    <3>3. /\ charts[j].to = d /\ charts[j].symbol = s /\ ~ IsQuote(charts[j])
          /\ n \in charts[j].rows
      BY <3>2 DEF Rows, IsQuote
    <3>4. Carries(quotes \o charts, d, s, n)
      BY <1>10, <1>11, <3>3, JoinedCarries
    <3> QED BY <1>12, <1>14, <2>4, <3>4 DEF Held
  <2>5. k \in 1..row[u] \/ (u = s /\ k = n)
    BY <1>1, <1>3 DEF n
  <2> QED BY <2>3, <2>4, <2>5
<1>19. ChartedInv'
  <2>1. Wanted' = Wanted
    BY <1>4 DEF Wanted
  <2>2. Pending => Pending'
    BY <1>4, <1>14 DEF Pending, In
  <2>3. \A pc \in {"down", "observe", "send"} : In(Pump, pc) => In(Pump, pc)'
    BY <1>2 DEF In
  <2> QED BY <1>4, <2>1, <2>2, <2>3, ChartedKept DEF RelayInv
<1> QED BY <1>1, <1>4, <1>15, <1>16, <1>17, <1>18, <1>19 DEF RelayInv, CoreInv

-----------------------------------------------------------------------------
(* Every step keeps the invariant.                                         *)

LEMMA ClientKeeps ==
    ASSUME RelayInv, NEW c \in Clients, Client(c)
    PROVE  RelayInv'
<1>1. CASE Accept(c)
  BY <1>1, AcceptKeeps
<1>2. CASE Receive(c)
  BY <1>2, ReceiveKeeps
<1>3. CASE \E symbols \in SUBSET Symbols : SubscribeQuote(c, symbols)
  BY <1>3, SubscribeQuoteKeeps
<1>4. CASE \E id \in ChartIds, source \in Sources : SetChartCommand(c, id, source)
  BY <1>4, SetChartKeeps
<1>5. CASE \E id \in ChartIds : RemoveChartCommand(c, id)
  BY <1>5, RemoveChartKeeps
<1>6. CASE EndServe(c)
  BY <1>6, EndServeKeeps
<1> QED BY <1>1, <1>2, <1>3, <1>4, <1>5, <1>6 DEF Client

LEMMA ContinueKeeps ==
    ASSUME RelayInv, NEW t \in Tasks, Continue(t)
    PROVE  RelayInv'
<1>1. CASE t \in Clients /\ RemoveServed(t)
  BY <1>1, RemoveServedKeeps
<1>2. CASE t \in Clients /\ Unlist(t)
  BY <1>2, UnlistKeeps
<1>3. CASE Signal(t)
  BY <1>3, SignalKeeps
<1>4. CASE Collect(t)
  BY <1>4, CollectKeeps
<1>5. CASE Push(t)
  BY <1>5, PushKeeps
<1>6. CASE Delivered(t)
  BY <1>6, DeliveredKeeps
<1>7. CASE Kick(t)
  BY <1>7, KickKeeps
<1>8. CASE Expel(t)
  BY <1>8, ExpelKeeps
<1> QED BY <1>1, <1>2, <1>3, <1>4, <1>5, <1>6, <1>7, <1>8 DEF Continue

LEMMA RelayStutterKeeps ==
    ASSUME RelayInv, UNCHANGED vars
    PROVE  RelayInv'
<1>1. UNCHANGED <<reg, row, ring, signal, task, outbox, mailbox, got, tracked, upstream>>
  BY DEF vars
<1>2. RegistryInv(reg') /\ RelayType' /\ TaskInv' /\ ForgottenInv'
  BY <1>1 DEF RelayInv, CoreInv, RelayType, TaskInv, ForgottenInv
<1>3. RowsInv'
  BY <1>1 DEF RelayInv, CoreInv, RowsInv, Due, Held
<1>4. ChartedInv'
  BY <1>1 DEF RelayInv, ChartedInv, Pending, Wanted, In
<1> QED BY <1>1, <1>2, <1>3, <1>4 DEF RelayInv, CoreInv

LEMMA RelayStepKeeps == RelayInv /\ [Next]_vars => RelayInv'
<1> SUFFICES ASSUME RelayInv, [Next]_vars PROVE RelayInv'
  OBVIOUS
<1>1. CASE \E c \in Clients : Client(c)
  BY <1>1, ClientKeeps
<1>2. CASE \E t \in Tasks : Continue(t)
  BY <1>2, ContinueKeeps
<1>3. CASE PumpSteps
  BY <1>3, TakeSignalKeeps, ObserveKeeps, SendChartsKeeps, ConnectKeeps DEF PumpSteps
<1>4. CASE Expire
  BY <1>4, SweepKeeps DEF Expire
<1>5. CASE Lose \/ Refresh \/ SendFails
  BY <1>5, LoseKeeps, RefreshKeeps, SendFailsKeeps
<1>6. CASE \E s \in Symbols : Tick(s)
  BY <1>6, TickKeeps
<1>7. CASE UNCHANGED vars
  BY <1>7, RelayStutterKeeps
<1> QED BY <1>1, <1>2, <1>3, <1>4, <1>5, <1>6, <1>7 DEF Next

(* The invariant of the relay: the layers of the registry, the places of   *)
(* the tasks, who is forgotten, what is charted and where every row is.    *)
THEOREM RelayInvariant == Spec => []RelayInv
  BY RelayInitKeeps, RelayStepKeeps, PTL DEF Spec

(* However commands, removals and expulsions interleave, the four indexes  *)
(* that interest.rs maintains by hand say what the mappings of quotes and  *)
(* charts say (set_quotes, set_chart, remove_chart, remove_client).        *)
THEOREM RegistryStaysConsistent == Spec => []RegistryIsConsistent
<1>1. RelayInv => RegistryIsConsistent
  BY LayersAgree DEF RelayInv, CoreInv, RegistryIsConsistent
<1> QED BY <1>1, RelayInvariant, PTL

(* One coalesced signal is enough: whenever the pump is back in its loop   *)
(* and no signal waits or is about to be sent, everything that clients     *)
(* want is charted upstream, after lost connections, refreshes and swept   *)
(* idle charts too (subscribe_dynamic_upstream_symbols).                   *)
THEOREM InterestStaysCharted == Spec => []InterestIsCharted
<1>1. RelayInv => InterestIsCharted
  BY DEF RelayInv, ChartedInv, InterestIsCharted, Pending, In
<1> QED BY <1>1, RelayInvariant, PTL

(* No chart row is lost without the client being expelled: of the window   *)
(* of each of its tick charts a client with a mailbox has every row, or a  *)
(* frame on its way to it carries the row; whatever the widths, the size   *)
(* of the ring and the evictions (OutboundMailbox, dispatch_frames,        *)
(* replay_cached_tick_frames).                                             *)
THEOREM RowsStayComplete == Spec => []RowsComplete
<1>1. RelayInv => RowsComplete
  BY RowsInvSuffices DEF RelayInv, CoreInv
<1> QED BY <1>1, RelayInvariant, PTL

(* A client that has gone leaves no mailbox and no interest behind, also   *)
(* when it was expelled while its task still took commands                 *)
(* (RelayServer::remove_client).                                           *)
THEOREM NothingStaysBehind == Spec => []NothingLeftBehind
<1>1. RelayInv => NothingLeftBehind
  <2> SUFFICES ASSUME RelayInv, NEW c \in Clients, task[c].pc \in {"endsignal", "gone"}
               PROVE  c \notin outbox /\ WantedBy(c) = {}
    BY DEF NothingLeftBehind
  <2>1. Forgotten(reg, c) /\ c \notin outbox
    BY DEF RelayInv, CoreInv, ForgottenInv
  <2>2. DOMAIN reg.charts \subseteq Clients \X ChartIds
    BY RegistryFields, IndexMember DEF RelayInv, CoreInv, RegistryInv
  <2>3. At(reg.quotes, c) = {}
    BY <2>1 DEF Forgotten, At
  <2>4. {k \in DOMAIN reg.charts : k[1] = c} = {}
    BY <2>1, <2>2 DEF Forgotten
  <2> QED BY <2>1, <2>3, <2>4 DEF WantedBy
<1> QED BY <1>1, RelayInvariant, PTL
=============================================================================
